---------------------------- MODULE AccountsProofs ----------------------------
(***************************************************************************)
(* Proofs about Accounts, for any users, tokens, slots and clients: the    *)
(* values of the state, the renewals of sessions, and what the server      *)
(* keeps: an owner, an administrator and the settings it answered.         *)
(*                                                                         *)
(* The state is seen through its fields first: what a request under way    *)
(* may await, and what a step does to the fields of db, past and req. That *)
(* no renewal is late then follows from what a token that has ended is no  *)
(* longer part of; that renewals are bounded from how they are counted.    *)
(***************************************************************************)
EXTENDS Accounts, TLAPS

(***************************************************************************)
(* The values of the state                                                 *)
(***************************************************************************)
Storing == {"read", "migrate", "write", "answer"}

\* The commands a request may await.
Stages ==
  [create |-> {"insert"}, register |-> {"insert"}, wizard |-> {"insert"} \cup Storing,
   delete |-> {"isRoot", "get", "admins", "erase", "tokens"},
   verify |-> {"isRoot", "get", "verified", "save"},
   roles |-> {"own", "get", "save"},
   root |-> {"isRoot", "get", "roots", "save"},
   login |-> {"sign", "purge", "token"}, logout |-> {"tokens"},
   renew |-> {"tokens", "user", "sign", "dropToken", "again", "check", "count"},
   settings |-> Storing, sentry |-> Storing]

SomeFields == UNION {[S -> BOOLEAN] : S \in SUBSET Switches}

SomePatch == [group : DOMAIN Group, fields : SomeFields]

\* The patches that a request for settings still has to make.
PatchesOK(op, patches) ==
  /\ patches \in Seq(SomePatch) /\ patches # <<>>
  /\ \A i \in 1..Len(patches) :
       LET fields == DOMAIN patches[i].fields
       IN  /\ \A j \in 1..Len(patches) : i # j => fields \cap DOMAIN patches[j].fields = {}
           /\ Len(patches) > 1 => "autoRemoveOldFilesAtBoot" \notin fields
           /\ op = "sentry" => "sentryDiagnosticsEnabled" \in fields
           /\ op # "wizard" => "wizardCompleted" \notin fields

RequestOK(r) ==
  /\ DOMAIN r = DOMAIN Idle
  /\ r.late = FALSE
  /\ r # Idle =>
       /\ r.op \in DOMAIN Stages /\ r.at \in Stages[r.op]
       /\ r.by \in Users \cup {None}
       /\ r.to \in IF r.op \in {"settings", "sentry"} THEN {None} ELSE Users
       /\ r.tok \in IF r.op = "renew" THEN Tokens ELSE {None}
       /\ r.op \in {"create", "register"} => r.val \in User
       /\ r.op \in {"verify", "roles", "root"} => r.val \in BOOLEAN
       /\ r.at \in {"save", "roots", "verified"} => r.seen \in User
       /\ r.at \in {"check", "count"} => r.seen \in Nat
       /\ r.op = "wizard" /\ r.at = "insert" => r.seen = WizardUser
       /\ r.op \in SettingsOps => PatchesOK(r.op, r.val)
       /\ r.at \in Storing \ {"read"} => IsSettings(r.seen)

Shape ==
  /\ TypeOK
  /\ DOMAIN db = {"users", "tokens", "settings"}
  /\ req = [c \in Slots |-> req[c]]
  /\ \A c \in Slots : RequestOK(req[c]) /\ (req[c] # Idle => mode.db = "mongo")

(***************************************************************************)
(* The invariants                                                          *)
(***************************************************************************)
\* A token that ended has no row.
EndedIsGone == ~past.late /\ past.ended \cap DOMAIN db.tokens = {}

---------------------------------------------------------------------------
(* Operators on tables, requests and settings                              *)

LEMMA KeptFacts ==
  ASSUME NEW tokens, NEW T
  PROVE  DOMAIN Kept(tokens, T) = T /\ \A t \in T : Kept(tokens, T)[t] = tokens[t]
  BY DEF Kept

LEMMA PastFacts ==
  ASSUME NEW p, IsPast(p)
  PROVE  /\ DOMAIN p = {"opened", "overlapped", "cut", "granted", "raced", "ended", "late",
                        "asked", "doubt", "aside"}
         /\ p.opened \in BOOLEAN /\ p.overlapped \in BOOLEAN /\ p.cut \in BOOLEAN
         /\ p.granted \in [Tokens -> Nat] /\ p.raced \subseteq Tokens /\ p.ended \subseteq Tokens
         /\ p.late \in BOOLEAN /\ p.doubt \in BOOLEAN /\ p.aside \in BOOLEAN
         /\ DOMAIN p.asked \subseteq Switches /\ \A s \in DOMAIN p.asked : p.asked[s] \in BOOLEAN
  <1> DEFINE q == [p EXCEPT !.asked = None]
  <1>1. q \in [opened : BOOLEAN, overlapped : BOOLEAN, cut : BOOLEAN, granted : [Tokens -> Nat],
               raced : SUBSET Tokens, ended : SUBSET Tokens, late : BOOLEAN,
               asked : {None}, doubt : BOOLEAN, aside : BOOLEAN]
    BY DEF IsPast
  <1>2. /\ DOMAIN p = DOMAIN q
        /\ \A x \in DOMAIN p : x # "asked" => p[x] = q[x]
    OBVIOUS
  <1>3. DOMAIN q = {"opened", "overlapped", "cut", "granted", "raced", "ended", "late",
                        "asked", "doubt", "aside"}
    BY <1>1
  <1> HIDE DEF q
  <1>4. QED BY <1>1, <1>2, <1>3 DEF IsPast

LEMMA IdleFacts ==
  /\ DOMAIN Idle = {"op", "at", "by", "to", "tok", "val", "seen", "late"}
  /\ Idle.op = "idle" /\ Idle.at = "done" /\ Idle.by = None /\ Idle.to = None
  /\ Idle.tok = None /\ Idle.late = FALSE
  BY DEF Idle

\* Only the slot of a request is changed by a step of it.
LEMMA SlotFacts ==
  ASSUME Shape, NEW c \in Slots, NEW r, req' = [req EXCEPT ![c] = r]
  PROVE  /\ req' = [d \in Slots |-> req'[d]]
         /\ req'[c] = r
         /\ \A d \in Slots : d # c => req'[d] = req[d]
  BY DEF Shape

LEMMA StepFacts ==
  ASSUME Shape, NEW c \in Slots, NEW at, NEW seen, Step(c, at, seen)
  PROVE  /\ req' = [d \in Slots |-> req'[d]]
         /\ \A d \in Slots : d # c => req'[d] = req[d]
         /\ DOMAIN req'[c] = DOMAIN Idle
         /\ req'[c].op = req[c].op /\ req'[c].by = req[c].by /\ req'[c].to = req[c].to
         /\ req'[c].tok = req[c].tok /\ req'[c].val = req[c].val /\ req'[c].late = req[c].late
         /\ req'[c].at = at /\ req'[c].seen = seen
  <1> DEFINE r == [req[c] EXCEPT !.at = at, !.seen = seen]
  <1>1. DOMAIN req[c] = {"op", "at", "by", "to", "tok", "val", "seen", "late"}
    BY IdleFacts DEF Shape, RequestOK
  <1>2. req' = [req EXCEPT ![c] = r] BY DEF Step, Shape
  <1>3. QED BY <1>1, <1>2, SlotFacts, IdleFacts

LEMMA PastOK ==
  ASSUME NEW p,
         p = [x \in DOMAIN p |-> p[x]],
         DOMAIN p = {"opened", "overlapped", "cut", "granted", "raced", "ended", "late",
                     "asked", "doubt", "aside"},
         p.opened \in BOOLEAN, p.overlapped \in BOOLEAN, p.cut \in BOOLEAN,
         p.granted \in [Tokens -> Nat], p.raced \subseteq Tokens, p.ended \subseteq Tokens,
         p.late \in BOOLEAN, p.doubt \in BOOLEAN, p.aside \in BOOLEAN,
         DOMAIN p.asked \subseteq Switches, \A s \in DOMAIN p.asked : p.asked[s] \in BOOLEAN
  PROVE  IsPast(p)
  <1> DEFINE q == [p EXCEPT !.asked = None]
             r == [opened |-> p.opened, overlapped |-> p.overlapped, cut |-> p.cut,
                   granted |-> p.granted, raced |-> p.raced, ended |-> p.ended,
                   late |-> p.late, asked |-> None, doubt |-> p.doubt, aside |-> p.aside]
  <1>1. q = r
    <2>1. DOMAIN q = DOMAIN r OBVIOUS
    <2>2. \A x \in DOMAIN r : q[x] = r[x] OBVIOUS
    <2>3. q = [x \in DOMAIN q |-> q[x]] /\ r = [x \in DOMAIN r |-> r[x]] OBVIOUS
    <2> HIDE DEF q, r
    <2>4. QED BY <2>1, <2>2, <2>3
  <1>2. r \in [opened : BOOLEAN, overlapped : BOOLEAN, cut : BOOLEAN, granted : [Tokens -> Nat],
               raced : SUBSET Tokens, ended : SUBSET Tokens, late : BOOLEAN,
               asked : {None}, doubt : BOOLEAN, aside : BOOLEAN]
    OBVIOUS
  <1>3. QED BY <1>1, <1>2 DEF IsPast

\* The users, the tokens and the settings of the database.
UsersOK(users) == DOMAIN users \subseteq Users /\ \A u \in DOMAIN users : users[u] \in User
TokensOK(tokens) == DOMAIN tokens \subseteq Tokens /\ \A t \in DOMAIN tokens : tokens[t] \in Token

LEMMA UsersKept ==
  ASSUME NEW users, UsersOK(users), NEW u \in Users
  PROVE  /\ \A user \in User : UsersOK(Register(users, u, user))
         /\ UsersOK(Erase(users, u))
         /\ \A field \in {"root", "verified", "admin"}, val \in BOOLEAN :
              UsersOK(SetField(users, u, field, val))
  <1>1. ASSUME NEW user \in User PROVE UsersOK(Register(users, u, user))
    BY DEF UsersOK, Register, Put
  <1>2. UsersOK(Erase(users, u)) BY DEF UsersOK, Erase
  <1>3. ASSUME NEW field \in {"root", "verified", "admin"}, NEW val \in BOOLEAN
        PROVE UsersOK(SetField(users, u, field, val))
    BY DEF UsersOK, SetField, Known, User
  <1>4. QED BY <1>1, <1>2, <1>3

LEMMA TokensKept ==
  ASSUME NEW tokens, TokensOK(tokens)
  PROVE  /\ \A T \in SUBSET DOMAIN tokens : TokensOK(Kept(tokens, T))
         /\ \A t \in Tokens, u \in Users : TokensOK(CreateRefreshTokenForUserId(tokens, t, u))
         /\ \A t : \A used \in Nat : TokensOK(UpdateRefreshTokenAttempts(tokens, t, used))
         /\ \A t : TokensOK(DeleteRefreshToken(tokens, t))
         /\ \A u : /\ TokensOK(DeleteRefreshTokenByUserId(tokens, u))
                   /\ TokensOK(PurgeOutdatedRefreshTokensByUserId(tokens, u))
  <1>1. ASSUME NEW T \in SUBSET DOMAIN tokens PROVE TokensOK(Kept(tokens, T))
    BY KeptFacts DEF TokensOK
  <1>2. ASSUME NEW t \in Tokens, NEW u \in Users
        PROVE  TokensOK(CreateRefreshTokenForUserId(tokens, t, u))
    BY DEF TokensOK, CreateRefreshTokenForUserId, Token, Put
  <1>3. ASSUME NEW t, NEW used \in Nat
        PROVE  TokensOK(UpdateRefreshTokenAttempts(tokens, t, used))
    BY DEF TokensOK, UpdateRefreshTokenAttempts, Token
  <1>4. QED
    BY <1>1, <1>2, <1>3 DEF DeleteRefreshToken, DeleteRefreshTokenByUserId,
                            PurgeOutdatedRefreshTokensByUserId

LEMMA GroupFacts ==
  /\ ServerSettings \ KnownServerSettings = {}
  /\ \A g \in DOMAIN Group : Group[g] \subseteq Switches
  /\ Group["frontend"] = FrontendSettings /\ Group["timeout"] = TimeoutSettings
  /\ Switches = UNION {ServerSettings, WizardSettings, FileCleanSettings, CredentialSettings,
                       FrontendSettings, TimeoutSettings}
  /\ FrontendSettings \cap UNION {ServerSettings, WizardSettings, FileCleanSettings,
                                  CredentialSettings, TimeoutSettings} = {}
  <1>1. ServerSettings \ KnownServerSettings = {} BY DEF ServerSettings, KnownServerSettings
  <1>2. /\ DOMAIN Group = {"server", "wizard", "fileClean", "credentials", "frontend", "timeout"}
        /\ Group["server"] = ServerSettings /\ Group["wizard"] = WizardSettings
        /\ Group["fileClean"] = FileCleanSettings /\ Group["credentials"] = CredentialSettings
        /\ Group["frontend"] = FrontendSettings /\ Group["timeout"] = TimeoutSettings
    BY DEF Group
  <1>3. Switches = UNION {ServerSettings, WizardSettings, FileCleanSettings, CredentialSettings,
                          FrontendSettings, TimeoutSettings}
    BY <1>2 DEF Switches
  <1>4. \A g \in DOMAIN Group : Group[g] \subseteq Switches BY DEF Switches
  <1>5. FrontendSettings \cap UNION {ServerSettings, WizardSettings, FileCleanSettings,
                                     CredentialSettings, TimeoutSettings} = {}
    BY DEF ServerSettings, WizardSettings, FileCleanSettings, CredentialSettings,
           FrontendSettings, TimeoutSettings
  <1>6. QED BY <1>1, <1>2, <1>3, <1>4, <1>5

LEMMA SettingFacts ==
  /\ \A s \in {"loginRequired", "registration", "sentryDiagnosticsEnabled", "wizardCompleted",
               "jwtSecret", "jwtExpiresIn",
               "autoRemoveOldFilesBeforeUpload", "autoRemoveOldFilesAtBoot"} :
       s \in Switches /\ s \notin FrontendSettings
  BY GroupFacts DEF ServerSettings, WizardSettings, FileCleanSettings, CredentialSettings,
                    FrontendSettings

LEMMA MigratedFacts ==
  ASSUME NEW settings, IsSettings(settings)
  PROVE  LET migrated == MigrateSettingsRuntime(settings)
         IN  /\ IsSettings(migrated)
             /\ DOMAIN migrated = DOMAIN settings
             /\ \A s \in DOMAIN settings :
                  s # "autoRemoveOldFilesAtBoot" => migrated[s] = settings[s]
  BY SettingFacts, GroupFacts DEF IsSettings, MigrateSettingsRuntime, FilledFrom

LEMMA SomeFieldsFacts ==
  ASSUME NEW f \in SomeFields
  PROVE  DOMAIN f \subseteq Switches /\ \A s \in DOMAIN f : f[s] \in BOOLEAN
  BY DEF SomeFields

LEMMA AssignedFacts ==
  ASSUME NEW settings, IsSettings(settings), NEW p \in SomePatch
  PROVE  LET assigned == Assigned(settings, p)
         IN  /\ IsSettings(assigned)
             /\ DOMAIN settings \subseteq DOMAIN assigned
             /\ \A s \in DOMAIN p.fields : s \in DOMAIN assigned /\ assigned[s] = p.fields[s]
             /\ \A s \in (DOMAIN settings) \ DOMAIN p.fields : assigned[s] = settings[s]
  BY SomeFieldsFacts DEF SomePatch, IsSettings, Assigned, Overlaid

\* The settings that a patch of SQLite may lose.
LEMMA PatchedFacts ==
  ASSUME NEW settings, IsSettings(settings), NEW p \in SomePatch,
         p.group = "timeout" => "apiTimeout" \in DOMAIN p.fields
  PROVE  LET patched == Patched(settings, p)
         IN  /\ IsSettings(patched)
             /\ \A s \in DOMAIN p.fields : s \in DOMAIN patched /\ patched[s] = p.fields[s]
             /\ \A s \in (DOMAIN settings) \ DOMAIN p.fields :
                  s \notin Replaced(p) /\ s # "autoRemoveOldFilesAtBoot" =>
                    s \in DOMAIN patched /\ patched[s] = settings[s]
  <1> DEFINE migrated == MigrateSettingsRuntime(settings)
  <1>1. p.fields \in SomeFields BY DEF SomePatch
  <1>2. /\ IsSettings(migrated)
        /\ DOMAIN migrated = DOMAIN settings
        /\ \A s \in DOMAIN settings :
                  s # "autoRemoveOldFilesAtBoot" => migrated[s] = settings[s]
    BY MigratedFacts
  <1>3. Replaced(p) \subseteq FrontendSettings \cup DOMAIN p.fields
    BY GroupFacts DEF Replaced, TimeoutSettings
  <1> HIDE DEF migrated
  <1>4. Patched(settings, p) = Overlaid(p.fields, [s \in (DOMAIN migrated) \ Replaced(p) |-> migrated[s]])
    BY DEF migrated, Patched
  <1>5. QED BY <1>1, <1>2, <1>3, <1>4, SomeFieldsFacts DEF IsSettings, Overlaid

LEMMA BootedFacts ==
  ASSUME NEW settings, IsSettings(settings), mode \in Clients
  PROVE  LET booted == Booted(settings)
         IN  /\ IsSettings(booted)
             /\ DOMAIN booted = DOMAIN settings
             /\ \A s \in DOMAIN settings : s \notin mode.env => booted[s] = settings[s]
             /\ booted["wizardCompleted"] = settings["wizardCompleted"]
  <1>1. "wizardCompleted" \notin mode.env /\ mode.env \subseteq Switches
    BY ClientsAreValid, SettingFacts
  <1>2. \A s \in Switches : DefaultSettings[s] \in BOOLEAN BY DEF DefaultSettings
  <1>3. "wizardCompleted" \in DOMAIN settings BY SettingFacts DEF IsSettings
  <1>4. QED BY <1>1, <1>2, <1>3 DEF IsSettings, Booted

LEMMA SomeOfFacts ==
  ASSUME NEW S \in SUBSET Switches, NEW f \in SomeOf(S)
  PROVE  f \in SomeFields /\ DOMAIN f \subseteq S /\ DOMAIN f # {}
  BY DEF SomeOf, SomeFields

LEMMA SettingsPatchFacts ==
  ASSUME NEW p \in SettingsPatches
  PROVE  /\ p \in SomePatch
         /\ "wizardCompleted" \notin DOMAIN p.fields
         /\ p.group = "timeout" => "apiTimeout" \in DOMAIN p.fields
  <1> DEFINE c == mode.changed
  <1>1. ASSUME NEW S \in SUBSET Switches, NEW f \in SomeOf(S), NEW g \in DOMAIN Group,
               p = Patch(g, f), "wizardCompleted" \notin S,
               g = "timeout" => S \subseteq {"apiTimeout"}
        PROVE  /\ p \in SomePatch
               /\ "wizardCompleted" \notin DOMAIN p.fields
               /\ p.group = "timeout" => "apiTimeout" \in DOMAIN p.fields
    <2>1. f \in SomeFields /\ DOMAIN f \subseteq S /\ DOMAIN f # {} BY SomeOfFacts
    <2>2. p = [group |-> g, fields |-> f] BY <1>1 DEF Patch
    <2>3. QED BY <1>1, <2>1, <2>2 DEF SomePatch
  <1>2. DOMAIN Group = {"server", "wizard", "fileClean", "credentials", "frontend", "timeout"}
    BY DEF Group
  <1>3. CASE p \in ServerPatches(c)
    <2>1. PICK f \in SomeOf(ServerSettings \cap c) : p = Patch("server", f)
      BY <1>3 DEF ServerPatches
    <2>2. ServerSettings \cap c \in SUBSET Switches BY GroupFacts
    <2>3. QED BY <1>1, <1>2, <2>1, <2>2 DEF ServerSettings
  <1>4. CASE p \in FileCleanPatches(c)
    <2>1. PICK f \in [FileCleanSettings -> BOOLEAN] : p = Patch("fileClean", f)
      BY <1>4 DEF FileCleanPatches
    <2>2. FileCleanSettings \in SUBSET Switches /\ f \in SomeOf(FileCleanSettings)
      BY GroupFacts DEF FileCleanSettings, SomeOf
    <2>3. QED BY <1>1, <1>2, <2>1, <2>2 DEF FileCleanSettings
  <1>5. CASE p \in CredentialPatches(c)
    <2>1. PICK f \in SomeOf(CredentialSettings \cap c) : p = Patch("credentials", f)
      BY <1>5 DEF CredentialPatches
    <2>2. CredentialSettings \cap c \in SUBSET Switches BY GroupFacts
    <2>3. QED BY <1>1, <1>2, <2>1, <2>2 DEF CredentialSettings
  <1>6. CASE p \in FrontendPatches(c)
    <2>1. PICK f \in SomeOf(FrontendSettings \cap c) : p = Patch("frontend", f)
      BY <1>6 DEF FrontendPatches
    <2>2. FrontendSettings \cap c \in SUBSET Switches BY GroupFacts
    <2>3. QED BY <1>1, <1>2, <2>1, <2>2 DEF FrontendSettings
  <1>7. CASE p \in TimeoutPatches(c)
    <2>1. PICK f \in SomeOf(TimeoutSettings \cap c) : p = Patch("timeout", f)
      BY <1>7 DEF TimeoutPatches
    <2>2. TimeoutSettings \cap c \in SUBSET Switches /\ TimeoutSettings = {"apiTimeout"}
      BY GroupFacts DEF TimeoutSettings
    <2>3. QED BY <1>1, <1>2, <2>1, <2>2
  <1>8. QED BY <1>3, <1>4, <1>5, <1>6, <1>7 DEF SettingsPatches

LEMMA SentryPatchFacts ==
  ASSUME NEW p \in SentryPatches(mode.changed)
  PROVE  /\ p \in SomePatch
         /\ p.group = "server"
         /\ DOMAIN p.fields = {"sentryDiagnosticsEnabled"}
  <1> DEFINE S == {"sentryDiagnosticsEnabled"} \cap mode.changed
  <1>1. PICK f \in SomeOf(S) : p = Patch("server", f) BY DEF SentryPatches
  <1>2. S \in SUBSET Switches BY SettingFacts
  <1>3. f \in SomeFields /\ DOMAIN f \subseteq S /\ DOMAIN f # {} BY <1>2, SomeOfFacts
  <1>4. p = [group |-> "server", fields |-> f] /\ "server" \in DOMAIN Group
    BY <1>1 DEF Patch, Group
  <1>5. QED BY <1>3, <1>4 DEF SomePatch

WizardLists == {WizardPatches(loginRequired, registration) : loginRequired, registration \in BOOLEAN}

LEMMA WizardPatchFacts ==
  ASSUME NEW p \in WizardLists
  PROVE  /\ p \in Seq(SomePatch) /\ Len(p) = 3
         /\ p[1] \in SomePatch /\ p[2] \in SomePatch /\ p[3] \in SomePatch
         /\ DOMAIN p[1].fields = {"loginRequired"}
         /\ DOMAIN p[2].fields = {"registration"}
         /\ DOMAIN p[3].fields = {"wizardCompleted"}
         /\ p[3].fields["wizardCompleted"] = TRUE
         /\ p[1].group = "server" /\ p[2].group = "server" /\ p[3].group = "wizard"
  <1> PICK loginRequired, registration \in BOOLEAN : p = WizardPatches(loginRequired, registration)
    BY DEF WizardLists
  <1>1. ASSUME NEW s \in Switches, NEW b \in BOOLEAN, NEW g \in {"server", "wizard"}
        PROVE  Patch(g, [x \in {s} |-> b]) \in SomePatch
    <2>1. {s} \in SUBSET Switches /\ [x \in {s} |-> b] \in [{s} -> BOOLEAN] OBVIOUS
    <2>2. g \in DOMAIN Group BY DEF Group
    <2>3. [x \in {s} |-> b] \in SomeFields BY <2>1 DEF SomeFields
    <2>4. QED BY <2>2, <2>3 DEF Patch, SomePatch
  <1>2. /\ Patch("server", [s \in {"loginRequired"} |-> loginRequired]) \in SomePatch
        /\ Patch("server", [s \in {"registration"} |-> registration]) \in SomePatch
        /\ Patch("wizard", [s \in {"wizardCompleted"} |-> TRUE]) \in SomePatch
    BY <1>1, SettingFacts
  <1>3. QED BY <1>2 DEF WizardPatches, Patch

---------------------------------------------------------------------------
(* What the steps do to the fields of the state                            *)

LEMMA ShapeFacts ==
  ASSUME Shape
  PROVE  /\ mode \in Clients /\ mode.db \in {"sqlite", "mongo"}
         /\ mode.users \subseteq Users /\ mode.tokens \subseteq Tokens /\ mode.slots \subseteq Slots
         /\ mode.attempts \in Nat \cup {-1}
         /\ UsersOK(db.users) /\ TokensOK(db.tokens) /\ IsSettings(db.settings)
         /\ IsSettings(store) /\ sentry \in BOOLEAN /\ IsPast(past)
         /\ None \notin Users \cup Tokens
  BY ClientsAreValid, NoneIsNobody DEF Shape, TypeOK, UsersOK, TokensOK

LEMMA ShapeMade ==
  ASSUME Shape, mode' = mode, DOMAIN db' = {"users", "tokens", "settings"},
         UsersOK(db'.users), TokensOK(db'.tokens), IsSettings(db'.settings),
         IsSettings(store'), sentry' \in BOOLEAN, IsPast(past'),
         req' = [c \in Slots |-> req'[c]],
         \A c \in Slots : RequestOK(req'[c]) /\ (req'[c] # Idle => mode.db = "mongo")
  PROVE  Shape'
  BY ShapeFacts DEF TypeOK, UsersOK, TokensOK, Shape

\* What has happened is the same but for some of its fields.
SamePast(fields) == \A x \in (DOMAIN past) \ fields : past'[x] = past[x]

LEMMA EndedFacts ==
  ASSUME Shape
  PROVE  Ended \subseteq Tokens
  BY ShapeFacts, PastFacts DEF Ended, TokensOK

LEMMA AnswerFacts ==
  ASSUME Shape, NEW op, NEW by, Answer(op, by)
  PROVE  /\ mode' = mode /\ sentry' = sentry /\ req' = req /\ mode.db = "sqlite"
         /\ IsPast(past') /\ SamePast({"opened", "ended"})
         /\ past'.opened = (past.opened \/ by = None)
         /\ past'.ended = Ended
  <1>1. /\ mode' = mode /\ sentry' = sentry /\ req' = req /\ mode.db = "sqlite"
        /\ past' = [past EXCEPT !.opened = @ \/ by = None, !.ended = Ended]
    BY DEF Answer
  <1>2. IsPast(past) /\ Ended \subseteq Tokens BY ShapeFacts, EndedFacts
  <1>3. /\ past' = [x \in DOMAIN past' |-> past'[x]]
        /\ DOMAIN past' = DOMAIN past
        /\ past'.opened = (past.opened \/ by = None)
        /\ past'.ended = Ended
        /\ SamePast({"opened", "ended"})
    BY <1>1, <1>2, PastFacts DEF SamePast
  <1>4. IsPast(past') BY <1>2, <1>3, PastFacts, PastOK, ZenonT(60) DEF SamePast
  <1>5. QED BY <1>1, <1>3, <1>4

LEMMA AnswerUsersFacts ==
  ASSUME Shape, NEW op, NEW by, NEW users, UsersOK(users), AnswerUsers(op, by, users)
  PROVE  /\ Shape' /\ Answer(op, by)
         /\ store' = store /\ db'.users = users /\ db'.settings = db.settings
         /\ DOMAIN db'.tokens = {t \in DOMAIN db.tokens : Known(users, db.tokens[t].user)}
         /\ \A t \in DOMAIN db'.tokens : db'.tokens[t] = db.tokens[t]
  <1> DEFINE T == {t \in DOMAIN db.tokens : db.tokens[t].user \in DOMAIN users}
  <1>1. /\ db' = [db EXCEPT !.users = users, !.tokens = Kept(@, T)]
        /\ store' = store /\ Answer(op, by)
    BY DEF AnswerUsers
  <1>2. /\ DOMAIN db' = {"users", "tokens", "settings"} /\ db'.users = users
        /\ db'.tokens = Kept(db.tokens, T) /\ db'.settings = db.settings
    BY <1>1 DEF Shape
  <1>3. TokensOK(db'.tokens) BY <1>2, ShapeFacts, TokensKept
  <1>4. Shape' BY <1>1, <1>2, <1>3, ShapeFacts, AnswerFacts, ShapeMade DEF Shape
  <1>5. QED BY <1>1, <1>2, <1>4, KeptFacts DEF Known

LEMMA AnswerTokensFacts ==
  ASSUME Shape, NEW op, NEW by, NEW tokens, TokensOK(tokens), AnswerTokens(op, by, tokens)
  PROVE  /\ Shape' /\ Answer(op, by)
         /\ store' = store /\ db'.tokens = tokens
         /\ db'.users = db.users /\ db'.settings = db.settings
  <1>1. db' = [db EXCEPT !.tokens = tokens] /\ store' = store /\ Answer(op, by)
    BY DEF AnswerTokens
  <1>2. /\ DOMAIN db' = {"users", "tokens", "settings"} /\ db'.tokens = tokens
        /\ db'.users = db.users /\ db'.settings = db.settings
    BY <1>1 DEF Shape
  <1>3. QED BY <1>1, <1>2, ShapeFacts, AnswerFacts, ShapeMade DEF Shape

LEMMA SqlRefreshFacts ==
  ASSUME Shape, NEW t \in DOMAIN db.tokens, SqlRefresh(t)
  PROVE  /\ Shape' /\ mode' = mode /\ mode.db = "sqlite"
         /\ store' = store /\ sentry' = sentry /\ req' = req
         /\ db'.users = db.users /\ db'.settings = db.settings
         /\ db'.tokens = UpdateRefreshTokenAttempts(db.tokens, t, db.tokens[t].used + 1)
         /\ SamePast({"granted", "late"}) /\ past'.granted = Granted(t)
         /\ past'.late = (past.late \/ t \in past.ended)
         /\ ~Exceeded(db.tokens[t].used)
  <1>1. /\ mode' = mode /\ mode.db = "sqlite"
        /\ store' = store /\ sentry' = sentry /\ req' = req
        /\ db' = [db EXCEPT !.tokens =
                    UpdateRefreshTokenAttempts(@, t, db.tokens[t].used + 1)]
        /\ past' = [past EXCEPT !.granted = Granted(t), !.late = @ \/ t \in past.ended]
        /\ ~Exceeded(db.tokens[t].used)
    BY DEF SqlRefresh
  <1>2. /\ DOMAIN db' = {"users", "tokens", "settings"}
        /\ db'.users = db.users /\ db'.settings = db.settings
        /\ db'.tokens = UpdateRefreshTokenAttempts(db.tokens, t, db.tokens[t].used + 1)
    BY <1>1 DEF Shape
  <1>3. db.tokens[t].used + 1 \in Nat /\ t \in Tokens BY ShapeFacts DEF TokensOK, Token
  <1>4. Granted(t) \in [Tokens -> Nat] BY <1>3, ShapeFacts, PastFacts DEF Granted
  <1>5. /\ past' = [x \in DOMAIN past' |-> past'[x]]
        /\ DOMAIN past' = DOMAIN past
        /\ SamePast({"granted", "late"}) /\ past'.granted = Granted(t)
        /\ past'.late = (past.late \/ t \in past.ended)
    BY <1>1, ShapeFacts, PastFacts, ZenonT(60) DEF SamePast
  <1>6. IsPast(past') BY <1>4, <1>5, ShapeFacts, PastFacts, PastOK, ZenonT(60) DEF SamePast
  <1>7. TokensOK(db'.tokens) BY <1>2, <1>3, ShapeFacts, TokensKept
  <1>8. Shape' BY <1>1, <1>2, <1>6, <1>7, ShapeFacts, ShapeMade DEF Shape
  <1>9. QED BY <1>1, <1>2, <1>5, <1>8

\* The settings that are lost when a patch is answered.
Lost(p) == {"autoRemoveOldFilesAtBoot"} \cup IF mode.db = "sqlite" THEN Replaced(p) ELSE {}

IsAsked(asked) == DOMAIN asked \subseteq Switches /\ \A s \in DOMAIN asked : asked[s] \in BOOLEAN

LEMMA AcknowledgedFacts ==
  ASSUME NEW asked, IsAsked(asked), NEW p \in SomePatch
  PROVE  /\ IsAsked(Acknowledged(asked, p))
         /\ DOMAIN Acknowledged(asked, p) = DOMAIN p.fields \cup ((DOMAIN asked) \ Lost(p))
         /\ \A s \in DOMAIN p.fields : Acknowledged(asked, p)[s] = p.fields[s]
         /\ \A s \in ((DOMAIN asked) \ Lost(p)) \ DOMAIN p.fields :
              Acknowledged(asked, p)[s] = asked[s]
  <1> DEFINE next == Acknowledged(asked, p)
  <1>1. p.fields \in SomeFields BY DEF SomePatch
  <1>2. next = Overlaid(p.fields, Without(asked, Lost(p))) BY DEF Acknowledged, Lost
  <1> HIDE DEF next
  <1>3. /\ DOMAIN next = DOMAIN p.fields \cup ((DOMAIN asked) \ Lost(p))
        /\ \A s \in DOMAIN p.fields : next[s] = p.fields[s]
        /\ \A s \in ((DOMAIN asked) \ Lost(p)) \ DOMAIN p.fields : next[s] = asked[s]
    BY <1>2 DEF Without, Overlaid
  <1>4. IsAsked(next) BY <1>1, <1>3, SomeFieldsFacts DEF IsAsked
  <1>5. QED BY <1>3, <1>4 DEF next

LEMMA AnswerSettingsFacts ==
  ASSUME Shape, NEW op, NEW by, NEW p \in SomePatch,
         p.group = "timeout" => "apiTimeout" \in DOMAIN p.fields,
         AnswerSettings(op, by, p), sentry' \in BOOLEAN
  PROVE  /\ Shape' /\ mode' = mode /\ mode.db = "sqlite" /\ req' = req
         /\ db'.users = db.users /\ db'.tokens = db.tokens
         /\ db'.settings = Patched(db.settings, p) /\ store' = db'.settings
         /\ SamePast({"opened", "asked", "aside"}) /\ past'.opened = (past.opened \/ by = None)
         /\ past'.asked = Acknowledged(past.asked, p) /\ past'.aside = Aside(op, p)
  <1>1. /\ mode' = mode /\ mode.db = "sqlite" /\ req' = req
        /\ db' = [db EXCEPT !.settings = Patched(@, p)] /\ store' = db'.settings
        /\ past' = [past EXCEPT !.opened = @ \/ by = None, !.asked = Acknowledged(@, p),
                                !.aside = Aside(op, p)]
    BY DEF AnswerSettings
  <1>2. /\ DOMAIN db' = {"users", "tokens", "settings"}
        /\ db'.users = db.users /\ db'.tokens = db.tokens
        /\ db'.settings = Patched(db.settings, p)
    BY <1>1 DEF Shape
  <1>3. IsSettings(db'.settings) BY <1>2, ShapeFacts, PatchedFacts
  <1>4. /\ past' = [x \in DOMAIN past' |-> past'[x]]
        /\ DOMAIN past' = DOMAIN past
        /\ SamePast({"opened", "asked", "aside"}) /\ past'.opened = (past.opened \/ by = None)
        /\ past'.asked = Acknowledged(past.asked, p) /\ past'.aside = Aside(op, p)
    <2> DEFINE a == Acknowledged(past.asked, p)
               b == Aside(op, p)
    <2>1. past' = [past EXCEPT !.opened = @ \/ by = None, !.asked = a, !.aside = b] BY <1>1
    <2> HIDE DEF a, b
    <2>2. past' = [x \in DOMAIN past' |-> past'[x]] /\ DOMAIN past' = DOMAIN past BY <2>1
    <2>3. past'.opened = (past.opened \/ by = None) /\ past'.asked = a /\ past'.aside = b
      BY <2>1, ShapeFacts, PastFacts
    <2>4. SamePast({"opened", "asked", "aside"}) BY <2>1 DEF SamePast
    <2>5. QED BY <2>2, <2>3, <2>4 DEF a, b
  <1>5. IsAsked(past'.asked)
    <2>1. IsAsked(past.asked) BY ShapeFacts, PastFacts DEF IsAsked
    <2>2. IsAsked(Acknowledged(past.asked, p)) BY <2>1, AcknowledgedFacts
    <2>3. QED BY <1>4, <2>2
  <1>6. Aside(op, p) \in BOOLEAN BY ShapeFacts, PastFacts DEF Aside
  <1>7. IsPast(past')
    BY <1>4, <1>5, <1>6, ShapeFacts, PastFacts, PastOK, ZenonT(60) DEF SamePast, IsAsked
  <1>8. Shape' BY <1>1, <1>2, <1>3, <1>7, ShapeFacts, ShapeMade DEF Shape
  <1>9. QED BY <1>1, <1>2, <1>4, <1>8

\* g has what f has, but for the keys in S.
SameBut(g, f, S) == \A s \in (DOMAIN f) \ S : s \in DOMAIN g /\ g[s] = f[s]

\* A patch of the server or of the wizard, with SQLite: it changes what is known of the
\* settings as it changes the settings.
LEMMA OnePatchFacts ==
  ASSUME mode.db = "sqlite", NEW settings, IsSettings(settings), NEW asked, IsAsked(asked),
         NEW p \in SomePatch, p.group \in {"server", "wizard"}
  PROVE  /\ IsSettings(Patched(settings, p)) /\ IsAsked(Acknowledged(asked, p))
         /\ SameBut(Patched(settings, p), p.fields, {})
         /\ SameBut(Acknowledged(asked, p), p.fields, {})
         /\ DOMAIN Acknowledged(asked, p) =
              (DOMAIN p.fields) \cup ((DOMAIN asked) \ {"autoRemoveOldFilesAtBoot"})
         /\ SameBut(Patched(settings, p), settings,
                    (DOMAIN p.fields) \cup {"autoRemoveOldFilesAtBoot"})
         /\ SameBut(Acknowledged(asked, p), asked,
                    (DOMAIN p.fields) \cup {"autoRemoveOldFilesAtBoot"})
  <1>1. Replaced(p) = {} BY DEF Replaced
  <1>2. Lost(p) = {"autoRemoveOldFilesAtBoot"} BY <1>1 DEF Lost
  <1>3. /\ IsSettings(Patched(settings, p))
        /\ \A s \in DOMAIN p.fields :
             s \in DOMAIN Patched(settings, p) /\ Patched(settings, p)[s] = p.fields[s]
        /\ \A s \in (DOMAIN settings) \ DOMAIN p.fields :
             s \notin Replaced(p) /\ s # "autoRemoveOldFilesAtBoot" =>
               s \in DOMAIN Patched(settings, p) /\ Patched(settings, p)[s] = settings[s]
    BY PatchedFacts
  <1>4. /\ IsAsked(Acknowledged(asked, p))
        /\ DOMAIN Acknowledged(asked, p) = DOMAIN p.fields \cup ((DOMAIN asked) \ Lost(p))
        /\ \A s \in DOMAIN p.fields : Acknowledged(asked, p)[s] = p.fields[s]
        /\ \A s \in ((DOMAIN asked) \ Lost(p)) \ DOMAIN p.fields :
              Acknowledged(asked, p)[s] = asked[s]
    BY AcknowledgedFacts
  <1>5. /\ SameBut(Patched(settings, p), p.fields, {})
        /\ SameBut(Patched(settings, p), settings,
                   (DOMAIN p.fields) \cup {"autoRemoveOldFilesAtBoot"})
    BY <1>1, <1>3 DEF SameBut
  <1>6. /\ SameBut(Acknowledged(asked, p), p.fields, {})
        /\ SameBut(Acknowledged(asked, p), asked,
                   (DOMAIN p.fields) \cup {"autoRemoveOldFilesAtBoot"})
    BY <1>2, <1>4 DEF SameBut
  <1>7. QED BY <1>2, <1>3, <1>4, <1>5, <1>6

\* What the wizard sets.
WizardFields == {"loginRequired", "registration", "wizardCompleted"}

\* The settings and what is known of them, before and after the wizard.
Wizarded(settings, asked, s3, a3) ==
  /\ IsSettings(s3) /\ IsAsked(a3)
  /\ DOMAIN a3 = WizardFields \cup ((DOMAIN asked) \ {"autoRemoveOldFilesAtBoot"})
  /\ \A s \in WizardFields : s \in DOMAIN s3 /\ s3[s] = a3[s]
  /\ SameBut(a3, asked, WizardFields \cup {"autoRemoveOldFilesAtBoot"})
  /\ SameBut(s3, settings, WizardFields \cup {"autoRemoveOldFilesAtBoot"})

LEMMA WizardFacts ==
  ASSUME mode.db = "sqlite", NEW settings, IsSettings(settings), NEW asked, IsAsked(asked),
         NEW p \in WizardLists
  PROVE  Wizarded(settings, asked, Patched(Patched(Patched(settings, p[1]), p[2]), p[3]),
                  Acknowledged(Acknowledged(Acknowledged(asked, p[1]), p[2]), p[3]))
  <1> DEFINE s1 == Patched(settings, p[1])
             s2 == Patched(s1, p[2])
             s3 == Patched(s2, p[3])
             a1 == Acknowledged(asked, p[1])
             a2 == Acknowledged(a1, p[2])
             a3 == Acknowledged(a2, p[3])
             boot == "autoRemoveOldFilesAtBoot"
  <1>1. /\ p[1] \in SomePatch /\ p[2] \in SomePatch /\ p[3] \in SomePatch
        /\ p[1].group \in {"server", "wizard"} /\ p[2].group \in {"server", "wizard"}
        /\ p[3].group \in {"server", "wizard"}
        /\ DOMAIN p[1].fields = {"loginRequired"} /\ DOMAIN p[2].fields = {"registration"}
        /\ DOMAIN p[3].fields = {"wizardCompleted"}
        /\ p[3].fields["wizardCompleted"] = TRUE
    BY WizardPatchFacts
  <1>3. /\ IsSettings(s1) /\ IsAsked(a1)
        /\ SameBut(s1, p[1].fields, {}) /\ SameBut(a1, p[1].fields, {})
        /\ DOMAIN a1 = (DOMAIN p[1].fields) \cup ((DOMAIN asked) \ {boot})
        /\ SameBut(s1, settings, (DOMAIN p[1].fields) \cup {boot})
        /\ SameBut(a1, asked, (DOMAIN p[1].fields) \cup {boot})
    BY <1>1, OnePatchFacts
  <1> HIDE DEF s1, a1
  <1>4. /\ IsSettings(s2) /\ IsAsked(a2)
        /\ SameBut(s2, p[2].fields, {}) /\ SameBut(a2, p[2].fields, {})
        /\ DOMAIN a2 = (DOMAIN p[2].fields) \cup ((DOMAIN a1) \ {boot})
        /\ SameBut(s2, s1, (DOMAIN p[2].fields) \cup {boot})
        /\ SameBut(a2, a1, (DOMAIN p[2].fields) \cup {boot})
    BY <1>1, <1>3, OnePatchFacts
  <1> HIDE DEF s2, a2
  <1>5. /\ IsSettings(s3) /\ IsAsked(a3)
        /\ SameBut(s3, p[3].fields, {}) /\ SameBut(a3, p[3].fields, {})
        /\ DOMAIN a3 = (DOMAIN p[3].fields) \cup ((DOMAIN a2) \ {boot})
        /\ SameBut(s3, s2, (DOMAIN p[3].fields) \cup {boot})
        /\ SameBut(a3, a2, (DOMAIN p[3].fields) \cup {boot})
    BY <1>1, <1>4, OnePatchFacts
  <1> HIDE DEF s3, a3
  <1>6. DOMAIN a3 = WizardFields \cup ((DOMAIN asked) \ {boot})
    BY <1>1, <1>3, <1>4, <1>5 DEF WizardFields, SameBut
  <1>7. \A s \in WizardFields : s \in DOMAIN s3 /\ s3[s] = a3[s]
    BY <1>1, <1>3, <1>4, <1>5 DEF WizardFields, SameBut
  <1>8. SameBut(a3, asked, WizardFields \cup {boot})
    BY <1>1, <1>3, <1>4, <1>5 DEF WizardFields, SameBut
  <1>9. SameBut(s3, settings, WizardFields \cup {boot})
    BY <1>1, <1>3, <1>4, <1>5 DEF WizardFields, SameBut
  <1>10. QED BY <1>5, <1>6, <1>7, <1>8, <1>9 DEF Wizarded, s1, s2, s3, a1, a2, a3

---------------------------------------------------------------------------
(* The steps with MongoDB                                                  *)

\* Which requests await a command.
LEMMA StageFacts ==
  ASSUME NEW r, RequestOK(r)
  PROVE  /\ r # Idle => r.at # "done" /\ r.op \in DOMAIN Stages
         /\ r.at # "done" => r # Idle
         /\ r.op # "idle" => r # Idle
         /\ r.at = "isRoot" => r.op \in {"delete", "verify", "root"}
         /\ r.at = "own" => r.op = "roles"
         /\ r.at = "get" => r.op \in {"delete", "verify", "root", "roles"}
         /\ r.at = "save" => r.op \in {"verify", "root", "roles"}
         /\ r.at = "roots" => r.op = "root"
         /\ r.at = "verified" => r.op = "verify"
         /\ r.at \in {"admins", "erase"} => r.op = "delete"
         /\ r.at = "tokens" => r.op \in {"delete", "logout", "renew"}
         /\ r.at = "insert" => r.op \in {"create", "register", "wizard"}
         /\ r.at = "sign" => r.op \in {"login", "renew"}
         /\ r.at \in {"purge", "token"} => r.op = "login"
         /\ r.at \in {"user", "dropToken", "again", "check", "count"} => r.op = "renew"
         /\ r.at \in Storing => r.op \in SettingsOps
  <1>1. r = Idle => r.at = "done" /\ r.op = "idle" BY IdleFacts
  <1>2. CASE r # Idle BY <1>2 DEF RequestOK, Stages, Storing, SettingsOps
  <1>3. QED BY <1>1, <1>2 DEF Storing

\* A request goes on to another command.
LEMMA StepOK ==
  ASSUME Shape, NEW c \in Slots, req[c] # Idle, NEW at, NEW seen, Step(c, at, seen),
         at \in Stages[req[c].op],
         at # "insert", at \in {"save", "roots", "verified"} => seen \in User,
         at \in {"check", "count"} => seen \in Nat,
         at \in Storing \ {"read"} => IsSettings(seen)
  PROVE  RequestOK(req'[c])
  <1>1. RequestOK(req[c]) BY DEF Shape
  <1>2. req'[c] # Idle BY <1>1, StepFacts, IdleFacts DEF Stages, Storing, RequestOK
  <1>3. QED BY <1>1, <1>2, StepFacts DEF RequestOK

\* The slot of a request, after it went on or was done.
Follows(c) ==
  /\ req' = [d \in Slots |-> req'[d]]
  /\ \A d \in Slots : d # c => req'[d] = req[d]
  /\ RequestOK(req'[c])
  /\ req'[c] # Idle =>
       /\ req'[c].op = req[c].op /\ req'[c].by = req[c].by /\ req'[c].to = req[c].to
       /\ req'[c].tok = req[c].tok /\ (req[c].at # "answer" => req'[c].val = req[c].val)

LEMMA StepFollows ==
  ASSUME Shape, NEW c \in Slots, req[c] # Idle, NEW at, NEW seen, Step(c, at, seen),
         at \in Stages[req[c].op],
         at # "insert", at \in {"save", "roots", "verified"} => seen \in User,
         at \in {"check", "count"} => seen \in Nat,
         at \in Storing \ {"read"} => IsSettings(seen)
  PROVE  Follows(c) /\ req'[c].at = at /\ req'[c].seen = seen
  BY StepOK, StepFacts DEF Follows

LEMMA DoneFollows ==
  ASSUME Shape, NEW c \in Slots, Done(c)
  PROVE  Follows(c) /\ req'[c] = Idle
  <1>1. req' = [req EXCEPT ![c] = Idle] BY DEF Done
  <1>2. RequestOK(Idle) BY IdleFacts DEF RequestOK
  <1>3. QED BY <1>1, <1>2, SlotFacts DEF Follows

LEMMA ReadsShape ==
  ASSUME Shape, NEW c \in Slots, Reads, Follows(c), mode.db = "mongo"
  PROVE  Shape'
  <1>1. mode' = mode /\ db' = db /\ store' = store /\ sentry' = sentry /\ past' = past
    BY DEF Reads
  <1>2. \A d \in Slots : RequestOK(req'[d]) /\ (req'[d] # Idle => mode.db = "mongo")
    BY DEF Follows, Shape
  <1>3. QED BY <1>1, <1>2, ShapeMade, ShapeFacts DEF Shape, Follows

\* A command has written these users, tokens and settings.
Written(users, tokens, settings) ==
  /\ mode' = mode /\ store' = store /\ sentry' = sentry
  /\ DOMAIN db' = {"users", "tokens", "settings"}
  /\ db'.users = users /\ db'.tokens = tokens /\ db'.settings = settings
  /\ IsPast(past') /\ SamePast({"ended"}) /\ past'.ended = Ended

LEMMA WritesFacts ==
  ASSUME Shape
  PROVE  /\ \A users : Writes([db EXCEPT !.users = users]) =>
              Written(users, db.tokens, db.settings)
         /\ \A tokens : Writes([db EXCEPT !.tokens = tokens]) =>
              Written(db.users, tokens, db.settings)
         /\ \A settings : Writes([db EXCEPT !.settings = settings]) =>
              Written(db.users, db.tokens, settings)
         /\ Writes(db) => Written(db.users, db.tokens, db.settings)
  <1>1. ASSUME NEW next, Writes(next)
        PROVE  /\ mode' = mode /\ store' = store /\ sentry' = sentry /\ db' = next
               /\ IsPast(past') /\ SamePast({"ended"}) /\ past'.ended = Ended
    <2>1. /\ mode' = mode /\ store' = store /\ sentry' = sentry /\ db' = next
          /\ past' = [past EXCEPT !.ended = Ended]
      BY <1>1 DEF Writes
    <2>2. /\ past' = [x \in DOMAIN past' |-> past'[x]] /\ DOMAIN past' = DOMAIN past
          /\ SamePast({"ended"}) /\ past'.ended = Ended
      BY <2>1, ShapeFacts, PastFacts DEF SamePast
    <2>3. IsPast(past') BY <2>2, EndedFacts, ShapeFacts, PastFacts, PastOK DEF SamePast
    <2>4. QED BY <2>1, <2>2, <2>3
  <1>2. ASSUME NEW users, Writes([db EXCEPT !.users = users])
        PROVE  Written(users, db.tokens, db.settings)
    BY <1>1, <1>2 DEF Written, Shape
  <1>3. ASSUME NEW tokens, Writes([db EXCEPT !.tokens = tokens])
        PROVE  Written(db.users, tokens, db.settings)
    BY <1>1, <1>3 DEF Written, Shape
  <1>4. ASSUME NEW settings, Writes([db EXCEPT !.settings = settings])
        PROVE  Written(db.users, db.tokens, settings)
    BY <1>1, <1>4 DEF Written, Shape
  <1>5. Writes(db) => Written(db.users, db.tokens, db.settings) BY <1>1 DEF Written, Shape
  <1>6. QED BY <1>2, <1>3, <1>4, <1>5

LEMMA WrittenShape ==
  ASSUME Shape, NEW c \in Slots, Follows(c), mode.db = "mongo",
         NEW users, UsersOK(users), NEW tokens, TokensOK(tokens),
         NEW settings, IsSettings(settings), Written(users, tokens, settings)
  PROVE  Shape'
  BY ShapeMade, ShapeFacts DEF Follows, Shape, Written

LEMMA IsUserRootUserFacts ==
  ASSUME Shape, NEW c \in Slots, IsUserRootUser(c)
  PROVE  /\ Reads /\ Follows(c) /\ mode.db = "mongo" /\ req[c].at = "isRoot" /\ req[c] # Idle
         /\ req'[c] # Idle => req'[c].at = "get"
  <1>1. /\ Reads /\ mode.db = "mongo" /\ req[c].at = "isRoot" /\ RequestOK(req[c])
    BY DEF IsUserRootUser, At, Shape
  <1>2. req[c] # Idle BY <1>1, StageFacts
  <1>3. Done(c) \/ Step(c, "get", None) BY DEF IsUserRootUser
  <1>4. "get" \in Stages[req[c].op] BY <1>1, StageFacts DEF Stages
  <1>5. QED BY <1>1, <1>2, <1>3, <1>4, StepFollows, DoneFollows DEF Storing

LEMMA OwnUserFacts ==
  ASSUME Shape, NEW c \in Slots, OwnUser(c)
  PROVE  /\ Reads /\ Follows(c) /\ mode.db = "mongo" /\ req[c].at = "own" /\ req[c] # Idle
         /\ req'[c] # Idle =>
              /\ req'[c].at = "get"
              /\ req[c].by = req[c].to => req[c].val
  <1>1. /\ Reads /\ mode.db = "mongo" /\ req[c].at = "own" /\ RequestOK(req[c])
    BY DEF OwnUser, At, Shape
  <1>2. req[c] # Idle BY <1>1, StageFacts
  <1>3. Done(c) \/ (Step(c, "get", None) /\ (req[c].by = req[c].to => req[c].val))
    BY DEF OwnUser
  <1>4. "get" \in Stages[req[c].op] BY <1>1, StageFacts DEF Stages
  <1>5. QED BY <1>1, <1>2, <1>3, <1>4, StepFollows, DoneFollows DEF Storing

LEMMA GetUserFacts ==
  ASSUME Shape, NEW c \in Slots, GetUser(c)
  PROVE  /\ Reads /\ Follows(c) /\ mode.db = "mongo" /\ req[c].at = "get" /\ req[c] # Idle
         /\ req'[c] # Idle =>
              LET user == db.users[req[c].to]
              IN  /\ Known(db.users, req[c].to)
                  /\ req'[c].at = AfterGet(req[c], user) /\ req'[c].seen = user
  <1>1. /\ Reads /\ mode.db = "mongo" /\ req[c].at = "get" /\ RequestOK(req[c])
    BY DEF GetUser, At, Shape
  <1>2. req[c] # Idle BY <1>1, StageFacts
  <1> DEFINE user == db.users[req[c].to]
  <1>3. \/ Done(c)
        \/ /\ Known(db.users, req[c].to) /\ AfterGet(req[c], user) # "done"
           /\ Step(c, AfterGet(req[c], user), user)
    BY DEF GetUser
  <1>4. CASE Done(c) BY <1>1, <1>2, <1>4, DoneFollows
  <1>5. ASSUME Known(db.users, req[c].to), AfterGet(req[c], user) # "done",
               Step(c, AfterGet(req[c], user), user)
        PROVE  /\ Follows(c) /\ req'[c].at = AfterGet(req[c], user) /\ req'[c].seen = user
    <2>1. user \in User BY <1>5, ShapeFacts DEF UsersOK, Known
    <2>2. req[c].op \in {"delete", "verify", "root", "roles"} BY <1>1, StageFacts
    <2>3. AfterGet(req[c], user) \in Stages[req[c].op] \ ({"insert", "check", "count"} \cup Storing)
      <3> DEFINE next == AfterGet(req[c], user)
      <3>1. /\ req[c].op = "roles" => next = "save"
            /\ req[c].op = "root" => next \in {"save", "roots"}
            /\ req[c].op = "verify" => next \in {"save", "verified", "done"}
            /\ req[c].op = "delete" => next \in {"admins", "erase", "done"}
        BY DEF AfterGet
      <3>2. /\ Stages["roles"] = {"own", "get", "save"}
            /\ Stages["root"] = {"isRoot", "get", "roots", "save"}
            /\ Stages["verify"] = {"isRoot", "get", "verified", "save"}
            /\ Stages["delete"] = {"isRoot", "get", "admins", "erase", "tokens"}
        BY DEF Stages
      <3>3. next # "done" BY <1>5
      <3> HIDE DEF next
      <3>4. next \in {"save", "roots", "verified", "admins", "erase"} BY <2>2, <3>1, <3>3
      <3>5. next \in Stages[req[c].op] BY <2>2, <3>1, <3>2, <3>3
      <3>6. QED BY <3>4, <3>5 DEF Storing, next
    <2> DEFINE at == AfterGet(req[c], user)
    <2>4. Step(c, at, user) /\ at \in Stages[req[c].op] /\ at \notin {"insert", "check", "count"} \cup Storing
      BY <1>5, <2>3
    <2> HIDE DEF at, user
    <2>5. Follows(c) /\ req'[c].at = at /\ req'[c].seen = user
      BY <1>2, <2>1, <2>4, StepFollows
    <2>6. QED BY <2>5 DEF at, user
  <1>6. QED BY <1>1, <1>2, <1>3, <1>4, <1>5

LEMMA FindRootUsersFacts ==
  ASSUME Shape, NEW c \in Slots, FindRootUsers(c)
  PROVE  /\ Reads /\ Follows(c) /\ mode.db = "mongo" /\ req[c].at = "roots" /\ req[c] # Idle
         /\ req'[c] # Idle => req'[c].at = "save" /\ ~LastRoot(db.users, req[c].to)
  <1>1. /\ Reads /\ mode.db = "mongo" /\ req[c].at = "roots" /\ RequestOK(req[c])
    BY DEF FindRootUsers, At, Shape
  <1>2. req[c] # Idle BY <1>1, StageFacts
  <1>3. Done(c) \/ (Step(c, "save", req[c].seen) /\ ~LastRoot(db.users, req[c].to))
    BY DEF FindRootUsers
  <1>4. "save" \in Stages[req[c].op] /\ req[c].seen \in User
    <2>1. "save" \in Stages[req[c].op] BY <1>1, StageFacts DEF Stages
    <2>2. req[c].seen \in User BY <1>1, <1>2 DEF RequestOK
    <2>3. QED BY <2>1, <2>2
  <1>5. QED BY <1>1, <1>2, <1>3, <1>4, StepFollows, DoneFollows DEF Storing

LEMMA FindVerifiedUsersFacts ==
  ASSUME Shape, NEW c \in Slots, FindVerifiedUsers(c)
  PROVE  /\ Reads /\ Follows(c) /\ mode.db = "mongo" /\ req[c].at = "verified" /\ req[c] # Idle
         /\ req'[c] # Idle => req'[c].at = "save"
  <1>1. /\ Reads /\ mode.db = "mongo" /\ req[c].at = "verified" /\ RequestOK(req[c])
    BY DEF FindVerifiedUsers, At, Shape
  <1>2. req[c] # Idle BY <1>1, StageFacts
  <1>3. Done(c) \/ Step(c, "save", req[c].seen) BY DEF FindVerifiedUsers
  <1>4. "save" \in Stages[req[c].op] /\ req[c].seen \in User
    <2>1. "save" \in Stages[req[c].op] BY <1>1, StageFacts DEF Stages
    <2>2. req[c].seen \in User BY <1>1, <1>2 DEF RequestOK
    <2>3. QED BY <2>1, <2>2
  <1>5. QED BY <1>1, <1>2, <1>3, <1>4, StepFollows, DoneFollows DEF Storing

LEMMA FindUsersByRoleIdFacts ==
  ASSUME Shape, NEW c \in Slots, FindUsersByRoleId(c)
  PROVE  /\ Reads /\ Follows(c) /\ mode.db = "mongo" /\ req[c].at = "admins" /\ req[c] # Idle
         /\ req'[c] # Idle => req'[c].at = "erase"
  <1>1. /\ Reads /\ mode.db = "mongo" /\ req[c].at = "admins" /\ RequestOK(req[c])
    BY DEF FindUsersByRoleId, At, Shape
  <1>2. req[c] # Idle BY <1>1, StageFacts
  <1>3. Done(c) \/ Step(c, "erase", None) BY DEF FindUsersByRoleId
  <1>4. "erase" \in Stages[req[c].op] BY <1>1, <1>2, StageFacts DEF Stages
  <1>5. QED BY <1>1, <1>2, <1>3, <1>4, StepFollows, DoneFollows DEF Storing

LEMMA SignJwtTokenFacts ==
  ASSUME Shape, NEW c \in Slots, SignJwtToken(c)
  PROVE  /\ Reads /\ Follows(c) /\ mode.db = "mongo" /\ req[c].at = "sign" /\ req[c] # Idle
         /\ req'[c] # Idle =>
              /\ Known(db.users, req[c].to)
              /\ req'[c].at = IF req[c].op = "login" THEN "purge" ELSE "again"
  <1>1. /\ Reads /\ mode.db = "mongo" /\ req[c].at = "sign" /\ RequestOK(req[c])
    BY DEF SignJwtToken, At, Shape
  <1>2. req[c] # Idle BY <1>1, StageFacts
  <1>3. \/ Done(c)
        \/ /\ Known(db.users, req[c].to)
           /\ Step(c, IF req[c].op = "login" THEN "purge" ELSE "again", None)
    BY DEF SignJwtToken
  <1>4. CASE req[c].op = "login"
    BY <1>4, <1>1, <1>2, <1>3, StepFollows, DoneFollows DEF Stages, Storing
  <1>5. CASE req[c].op = "renew"
    BY <1>5, <1>1, <1>2, <1>3, StepFollows, DoneFollows DEF Stages, Storing
  <1>6. QED BY <1>1, <1>4, <1>5, StageFacts

LEMMA RenewGetUserFacts ==
  ASSUME Shape, NEW c \in Slots, RenewGetUser(c)
  PROVE  /\ Reads /\ Follows(c) /\ mode.db = "mongo" /\ req[c].at = "user" /\ req[c] # Idle
         /\ req'[c] # Idle => req'[c].at \in {"sign", "dropToken"}
  <1>1. /\ Reads /\ mode.db = "mongo" /\ req[c].at = "user" /\ RequestOK(req[c])
    BY DEF RenewGetUser, At, Shape
  <1>2. req[c] # Idle BY <1>1, StageFacts
  <1>3. Step(c, "sign", None) \/ Step(c, "dropToken", None) BY DEF RenewGetUser
  <1>4. {"sign", "dropToken"} \subseteq Stages[req[c].op]
    BY <1>1, <1>2, StageFacts DEF Stages
  <1>5. QED BY <1>1, <1>2, <1>3, <1>4, StepFollows DEF Storing

LEMMA AttemptsUsedFacts ==
  ASSUME Shape, NEW c \in Slots, AttemptsUsed(c)
  PROVE  /\ Reads /\ Follows(c) /\ mode.db = "mongo" /\ req[c].at = "again" /\ req[c] # Idle
         /\ req'[c] # Idle =>
              \/ req'[c].at = "tokens"
              \/ LET t == req[c].tok
                 IN  /\ req'[c].at = "check" /\ t \in DOMAIN db.tokens
                     /\ req'[c].seen = db.tokens[t].used /\ ~Exceeded(db.tokens[t].used)
  <1>1. /\ Reads /\ mode.db = "mongo" /\ req[c].at = "again" /\ RequestOK(req[c])
    BY DEF AttemptsUsed, At, Shape
  <1>2. req[c] # Idle BY <1>1, StageFacts
  <1> DEFINE t == req[c].tok
  <1>3. \/ Done(c)
        \/ Step(c, "tokens", None)
        \/ /\ t \in DOMAIN db.tokens /\ ~Exceeded(db.tokens[t].used)
           /\ Step(c, "check", db.tokens[t].used)
    BY DEF AttemptsUsed
  <1>4. {"tokens", "check"} \subseteq Stages[req[c].op] BY <1>1, <1>2, StageFacts DEF Stages
  <1>5. t \in DOMAIN db.tokens => db.tokens[t].used \in Nat
    BY ShapeFacts DEF TokensOK, Token
  <1>6. QED BY <1>1, <1>2, <1>3, <1>4, <1>5, StepFollows, DoneFollows DEF Storing

LEMMA CheckTokenFacts ==
  ASSUME Shape, NEW c \in Slots, CheckToken(c)
  PROVE  /\ Reads /\ Follows(c) /\ mode.db = "mongo" /\ req[c].at = "check" /\ req[c] # Idle
         /\ req'[c] # Idle =>
              /\ req[c].tok \in DOMAIN db.tokens
              /\ req'[c].at = "count" /\ req'[c].seen = req[c].seen
  <1>1. /\ Reads /\ mode.db = "mongo" /\ req[c].at = "check" /\ RequestOK(req[c])
    BY DEF CheckToken, At, Shape
  <1>2. req[c] # Idle BY <1>1, StageFacts
  <1>3. Done(c) \/ (Step(c, "count", req[c].seen) /\ req[c].tok \in DOMAIN db.tokens)
    BY DEF CheckToken
  <1>4. "count" \in Stages[req[c].op] /\ req[c].seen \in Nat
    <2>1. "count" \in Stages[req[c].op] BY <1>1, StageFacts DEF Stages
    <2>2. req[c].seen \in Nat BY <1>1, <1>2 DEF RequestOK
    <2>3. QED BY <2>1, <2>2
  <1>5. QED BY <1>1, <1>2, <1>3, <1>4, StepFollows, DoneFollows DEF Storing

LEMMA FindSettingsFacts ==
  ASSUME Shape, NEW c \in Slots, FindSettings(c)
  PROVE  /\ Reads /\ Follows(c) /\ mode.db = "mongo" /\ req[c].at = "read" /\ req[c] # Idle
         /\ req'[c].op = req[c].op /\ req'[c].at = "migrate"
         /\ req'[c].seen = MigrateSettingsRuntime(db.settings)
  <1>1. /\ Reads /\ mode.db = "mongo" /\ req[c].at = "read" /\ RequestOK(req[c])
    BY DEF FindSettings, At, Shape
  <1>2. req[c] # Idle BY <1>1, StageFacts
  <1>3. Step(c, "migrate", MigrateSettingsRuntime(db.settings)) BY DEF FindSettings
  <1>4. "migrate" \in Stages[req[c].op]
    BY <1>1, <1>2, StageFacts DEF Stages, Storing, SettingsOps
  <1>5. IsSettings(MigrateSettingsRuntime(db.settings)) BY ShapeFacts, MigratedFacts
  <1>6. Follows(c) /\ req'[c].at = "migrate" /\ req'[c].seen = MigrateSettingsRuntime(db.settings)
    BY <1>2, <1>3, <1>4, <1>5, StepFollows
  <1>7. req'[c].op = req[c].op BY <1>3, StepFacts
  <1>8. QED BY <1>1, <1>2, <1>6, <1>7

\* The users after a save.
Saved(r) ==
  IF r.seen[Field[r.op]] = r.val THEN db.users ELSE SetField(db.users, r.to, Field[r.op], r.val)

LEMMA SaveFacts ==
  ASSUME Shape, NEW c \in Slots, Save(c)
  PROVE  /\ Shape' /\ Follows(c) /\ req'[c] = Idle /\ mode.db = "mongo"
         /\ req[c].at = "save" /\ req[c] # Idle
         /\ Written(Saved(req[c]), db.tokens, db.settings)
  <1> DEFINE r == req[c]
             field == Field[r.op]
  <1>1. /\ mode.db = "mongo" /\ r.at = "save" /\ Done(c) /\ RequestOK(r)
        /\ Writes(IF r.seen[field] = r.val THEN db
                  ELSE [db EXCEPT !.users = SetField(@, r.to, field, r.val)])
    BY DEF Save, At, Shape
  <1>2. r # Idle /\ r.op \in {"verify", "root", "roles"} BY <1>1, StageFacts
  <1>3. r.to \in Users /\ r.val \in BOOLEAN /\ field \in {"root", "verified", "admin"}
    <2>1. r.to \in Users /\ r.val \in BOOLEAN BY <1>1, <1>2 DEF RequestOK
    <2>2. field \in {"root", "verified", "admin"} BY <1>2 DEF Field
    <2>3. QED BY <2>1, <2>2
  <1>4. UsersOK(db.users) /\ UsersOK(SetField(db.users, r.to, field, r.val))
    BY <1>3, ShapeFacts, UsersKept
  <1>5. CASE r.seen[field] = r.val
    <2>1. Saved(r) = db.users /\ Writes(db) BY <1>1, <1>5 DEF Saved
    <2>2. Written(Saved(r), db.tokens, db.settings) BY <2>1, WritesFacts
    <2>3. QED BY <1>1, <1>2, <1>4, <2>1, <2>2, DoneFollows, WrittenShape, ShapeFacts
  <1>6. CASE r.seen[field] # r.val
    <2>1. /\ Saved(r) = SetField(db.users, r.to, field, r.val)
          /\ Writes([db EXCEPT !.users = SetField(@, r.to, field, r.val)])
      BY <1>1, <1>6 DEF Saved
    <2> HIDE DEF field
    <2>2. Written(Saved(r), db.tokens, db.settings) BY <2>1, WritesFacts
    <2>3. QED BY <1>1, <1>2, <1>4, <2>1, <2>2, DoneFollows, WrittenShape, ShapeFacts
  <1>7. QED BY <1>5, <1>6

LEMMA EraseUserFacts ==
  ASSUME Shape, NEW c \in Slots, EraseUser(c)
  PROVE  /\ Shape' /\ Follows(c) /\ mode.db = "mongo" /\ req[c].at = "erase" /\ req[c] # Idle
         /\ req'[c].at = "tokens" /\ req'[c].op = req[c].op
         /\ Written(Erase(db.users, req[c].to), db.tokens, db.settings)
  <1>1. /\ mode.db = "mongo" /\ req[c].at = "erase" /\ RequestOK(req[c]) /\ Step(c, "tokens", None)
        /\ Writes([db EXCEPT !.users = Erase(@, req[c].to)])
    BY DEF EraseUser, At, Shape
  <1>2. req[c] # Idle /\ req[c].op = "delete" BY <1>1, StageFacts
  <1>3. UsersOK(Erase(db.users, req[c].to))
    BY <1>1, <1>2, ShapeFacts, UsersKept DEF RequestOK
  <1>4. Written(Erase(db.users, req[c].to), db.tokens, db.settings) BY <1>1, WritesFacts
  <1>5. Follows(c) /\ req'[c].at = "tokens" /\ req'[c].op = req[c].op
    BY <1>2, <1>1, StepFollows, StepFacts DEF Stages, Storing
  <1>6. QED BY <1>1, <1>2, <1>3, <1>4, <1>5, WrittenShape, ShapeFacts

LEMMA DeleteTokensFacts ==
  ASSUME Shape, NEW c \in Slots, DeleteTokens(c)
  PROVE  /\ Shape' /\ Follows(c) /\ mode.db = "mongo" /\ req[c].at = "tokens" /\ req[c] # Idle
         /\ req'[c] = Idle
         /\ Written(db.users, DeleteRefreshTokenByUserId(db.tokens, req[c].to), db.settings)
  <1>1. /\ mode.db = "mongo" /\ req[c].at = "tokens" /\ RequestOK(req[c]) /\ Done(c)
        /\ Writes([db EXCEPT !.tokens = DeleteRefreshTokenByUserId(@, req[c].to)])
    BY DEF DeleteTokens, At, Shape
  <1>2. req[c] # Idle /\ req[c].op \in {"delete", "logout", "renew"} BY <1>1, StageFacts
  <1>3. TokensOK(DeleteRefreshTokenByUserId(db.tokens, req[c].to)) BY ShapeFacts, TokensKept
  <1>4. Written(db.users, DeleteRefreshTokenByUserId(db.tokens, req[c].to), db.settings)
    BY <1>1, WritesFacts
  <1>5. Follows(c) /\ req'[c] = Idle BY <1>1, DoneFollows
  <1>6. QED BY <1>1, <1>2, <1>3, <1>4, <1>5, WrittenShape, ShapeFacts

LEMMA PurgeOutdatedFacts ==
  ASSUME Shape, NEW c \in Slots, PurgeOutdated(c)
  PROVE  /\ Shape' /\ Follows(c) /\ mode.db = "mongo" /\ req[c].at = "purge" /\ req[c] # Idle
         /\ req'[c].at = "token" /\ req'[c].op = req[c].op
         /\ Written(db.users, PurgeOutdatedRefreshTokensByUserId(db.tokens, req[c].to), db.settings)
  <1>1. /\ mode.db = "mongo" /\ req[c].at = "purge" /\ RequestOK(req[c]) /\ Step(c, "token", None)
        /\ Writes([db EXCEPT !.tokens = PurgeOutdatedRefreshTokensByUserId(@, req[c].to)])
    BY DEF PurgeOutdated, At, Shape
  <1>2. req[c] # Idle /\ req[c].op = "login" BY <1>1, StageFacts
  <1>3. TokensOK(PurgeOutdatedRefreshTokensByUserId(db.tokens, req[c].to))
    BY ShapeFacts, TokensKept
  <1>4. Written(db.users, PurgeOutdatedRefreshTokensByUserId(db.tokens, req[c].to), db.settings)
    BY <1>1, WritesFacts
  <1>5. Follows(c) /\ req'[c].at = "token" /\ req'[c].op = req[c].op
    BY <1>2, <1>1, StepFollows, StepFacts DEF Stages, Storing
  <1>6. QED BY <1>1, <1>2, <1>3, <1>4, <1>5, WrittenShape, ShapeFacts

LEMMA DropTokenFacts ==
  ASSUME Shape, NEW c \in Slots, DropToken(c)
  PROVE  /\ Shape' /\ Follows(c) /\ mode.db = "mongo" /\ req[c].at = "dropToken" /\ req[c] # Idle
         /\ req'[c] = Idle
         /\ Written(db.users, DeleteRefreshToken(db.tokens, req[c].tok), db.settings)
  <1>1. /\ mode.db = "mongo" /\ req[c].at = "dropToken" /\ RequestOK(req[c]) /\ Done(c)
        /\ Writes([db EXCEPT !.tokens = DeleteRefreshToken(@, req[c].tok)])
    BY DEF DropToken, At, Shape
  <1>2. req[c] # Idle /\ req[c].op = "renew" BY <1>1, StageFacts
  <1>3. TokensOK(DeleteRefreshToken(db.tokens, req[c].tok)) BY ShapeFacts, TokensKept
  <1>4. Written(db.users, DeleteRefreshToken(db.tokens, req[c].tok), db.settings)
    BY <1>1, WritesFacts
  <1>5. Follows(c) /\ req'[c] = Idle BY <1>1, DoneFollows
  <1>6. QED BY <1>1, <1>2, <1>3, <1>4, <1>5, WrittenShape, ShapeFacts

LEMMA InsertTokenFacts ==
  ASSUME Shape, NEW c \in Slots, InsertToken(c)
  PROVE  /\ Shape' /\ Follows(c) /\ mode.db = "mongo" /\ req[c].at = "token" /\ req[c] # Idle
         /\ req'[c] = Idle /\ req[c].op = "login" /\ req[c].to \in Users
         /\ \E t \in Tokens :
              /\ FreshToken(t)
              /\ Written(db.users, CreateRefreshTokenForUserId(db.tokens, t, req[c].to), db.settings)
  <1>1. PICK t \in mode.tokens :
          /\ mode.db = "mongo" /\ req[c].at = "token" /\ FreshToken(t) /\ Done(c)
          /\ Writes([db EXCEPT !.tokens = CreateRefreshTokenForUserId(@, t, req[c].to)])
    BY DEF InsertToken, At
  <1>2. req[c] # Idle /\ req[c].op = "login" /\ RequestOK(req[c])
    BY <1>1, StageFacts DEF Shape
  <1>3. req[c].to \in Users /\ t \in Tokens BY <1>2, ShapeFacts DEF RequestOK
  <1>4. TokensOK(CreateRefreshTokenForUserId(db.tokens, t, req[c].to))
    BY <1>3, ShapeFacts, TokensKept
  <1>5. Written(db.users, CreateRefreshTokenForUserId(db.tokens, t, req[c].to), db.settings)
    BY <1>1, WritesFacts
  <1>6. Follows(c) /\ req'[c] = Idle BY <1>1, DoneFollows
  <1>7. Shape' BY <1>1, <1>4, <1>5, <1>6, WrittenShape, ShapeFacts
  <1>8. QED BY <1>1, <1>2, <1>3, <1>5, <1>6, <1>7

\* The user that a request inserts.
Inserted(r) == IF r.op = "wizard" THEN r.seen ELSE r.val

LEMMA InsertUserFacts ==
  ASSUME Shape, NEW c \in Slots, InsertUser(c)
  PROVE  /\ Shape' /\ Follows(c) /\ mode.db = "mongo" /\ req[c].at = "insert" /\ req[c] # Idle
         /\ req[c].to \in Users /\ Inserted(req[c]) \in User
         /\ Written(Register(db.users, req[c].to, Inserted(req[c])), db.tokens, db.settings)
         /\ IF req[c].op = "wizard"
            THEN req'[c].at = "read" /\ req'[c].op = "wizard" /\ req[c].seen = WizardUser
            ELSE req'[c] = Idle
  <1> DEFINE r == req[c]
  <1>1. /\ mode.db = "mongo" /\ r.at = "insert" /\ RequestOK(r)
        /\ IF r.op = "wizard" THEN Step(c, "read", None) ELSE Done(c)
        /\ Writes([db EXCEPT !.users = Register(@, r.to, Inserted(r))])
    BY DEF InsertUser, At, Shape, Inserted
  <1>2. r # Idle /\ r.op \in {"create", "register", "wizard"} BY <1>1, StageFacts
  <1>3. r.to \in Users /\ Inserted(r) \in User /\ (r.op = "wizard" => r.seen = WizardUser)
    <2>1. WizardUser \in User BY DEF WizardUser, User
    <2>2. QED BY <1>1, <1>2, <2>1 DEF RequestOK, Inserted
  <1>4. UsersOK(Register(db.users, r.to, Inserted(r))) BY <1>3, ShapeFacts, UsersKept
  <1>5. Written(Register(db.users, r.to, Inserted(r)), db.tokens, db.settings)
    BY <1>1, WritesFacts
  <1>6. CASE r.op = "wizard"
    <2>1. "read" \in Stages[r.op] BY <1>6 DEF Stages, Storing
    <2>2. Follows(c) /\ req'[c].at = "read" /\ req'[c].op = r.op
      BY <1>1, <1>2, <1>6, <2>1, StepFollows, StepFacts DEF Storing
    <2>3. QED BY <1>1, <1>2, <1>3, <1>4, <1>5, <1>6, <2>2, WrittenShape, ShapeFacts
  <1>7. CASE r.op # "wizard"
    BY <1>1, <1>7, DoneFollows, <1>2, <1>3, <1>4, <1>5, WrittenShape, ShapeFacts
  <1>8. QED BY <1>6, <1>7

LEMMA CountAttemptFacts ==
  ASSUME Shape, NEW c \in Slots, CountAttempt(c)
  PROVE  /\ Shape' /\ Follows(c) /\ mode.db = "mongo" /\ req[c].at = "count" /\ req[c] # Idle
         /\ req'[c] = Idle /\ req[c].op = "renew" /\ req[c].tok \in Tokens /\ req[c].seen \in Nat
         /\ mode' = mode /\ store' = store /\ sentry' = sentry
         /\ db'.users = db.users /\ db'.settings = db.settings
         /\ db'.tokens = UpdateRefreshTokenAttempts(db.tokens, req[c].tok, req[c].seen + 1)
         /\ SamePast({"granted", "late", "ended"}) /\ past'.granted = Granted(req[c].tok)
         /\ past'.late = past.late /\ past'.ended = Ended
  <1> DEFINE r == req[c]
  <1>1. /\ mode.db = "mongo" /\ r.at = "count" /\ RequestOK(r) /\ Done(c)
        /\ db' = [db EXCEPT !.tokens = UpdateRefreshTokenAttempts(@, r.tok, r.seen + 1)]
        /\ past' = [past EXCEPT !.granted = Granted(r.tok), !.late = @ \/ r.late, !.ended = Ended]
        /\ mode' = mode /\ store' = store /\ sentry' = sentry
    BY DEF CountAttempt, At, Shape
  <1>2. r # Idle /\ r.op = "renew" BY <1>1, StageFacts
  <1>3. r.tok \in Tokens /\ r.seen \in Nat /\ r.late = FALSE BY <1>1, <1>2 DEF RequestOK
  <1>4. /\ DOMAIN db' = {"users", "tokens", "settings"}
        /\ db'.users = db.users /\ db'.settings = db.settings
        /\ db'.tokens = UpdateRefreshTokenAttempts(db.tokens, r.tok, r.seen + 1)
    BY <1>1 DEF Shape
  <1>5. TokensOK(db'.tokens) BY <1>3, <1>4, ShapeFacts, TokensKept
  <1>6. Granted(r.tok) \in [Tokens -> Nat] BY <1>3, ShapeFacts, PastFacts DEF Granted
  <1>7. /\ past' = [x \in DOMAIN past' |-> past'[x]]
        /\ DOMAIN past' = DOMAIN past
        /\ SamePast({"granted", "late", "ended"}) /\ past'.granted = Granted(r.tok)
        /\ past'.late = past.late /\ past'.ended = Ended
    <2> DEFINE granted == Granted(r.tok)
               ended == Ended
    <2>1. past' = [past EXCEPT !.granted = granted, !.late = @ \/ r.late, !.ended = ended]
      BY <1>1
    <2> HIDE DEF granted, ended
    <2>2. past' = [x \in DOMAIN past' |-> past'[x]] /\ DOMAIN past' = DOMAIN past BY <2>1
    <2>3. SamePast({"granted", "late", "ended"}) BY <2>1 DEF SamePast
    <2>4. past'.granted = granted /\ past'.ended = ended BY <2>1, ShapeFacts, PastFacts
    <2>5. past'.late = past.late BY <2>1, ShapeFacts, PastFacts, <1>3
    <2>6. QED BY <2>2, <2>3, <2>4, <2>5 DEF granted, ended
  <1>8. IsPast(past') BY <1>6, <1>7, EndedFacts, ShapeFacts, PastFacts, PastOK DEF SamePast
  <1>9. Follows(c) /\ req'[c] = Idle BY <1>1, DoneFollows
  <1>10. Shape' BY <1>1, <1>9, <1>4, <1>5, <1>8, ShapeMade, ShapeFacts DEF Follows, Shape
  <1>11. QED BY <1>1, <1>2, <1>3, <1>4, <1>7, <1>9, <1>10

LEMMA SaveMigratedFacts ==
  ASSUME Shape, NEW c \in Slots, SaveMigrated(c)
  PROVE  /\ Shape' /\ Follows(c) /\ mode.db = "mongo" /\ req[c].at = "migrate" /\ req[c] # Idle
         /\ req[c].op \in SettingsOps /\ IsSettings(req[c].seen)
         /\ req'[c].at = "write" /\ req'[c].op = req[c].op /\ req'[c].seen = req[c].seen
         /\ req'[c].val = req[c].val
         /\ Written(db.users, db.tokens, req[c].seen)
  <1>1. /\ mode.db = "mongo" /\ req[c].at = "migrate" /\ RequestOK(req[c])
        /\ Step(c, "write", req[c].seen)
        /\ Writes([db EXCEPT !.settings = req[c].seen])
    BY DEF SaveMigrated, At, Shape
  <1>2. req[c] # Idle /\ req[c].op \in SettingsOps BY <1>1, StageFacts DEF Storing
  <1>3. IsSettings(req[c].seen) BY <1>1, <1>2 DEF RequestOK, Storing
  <1>4. Written(db.users, db.tokens, req[c].seen) BY <1>1, WritesFacts
  <1>5. "write" \in Stages[req[c].op] BY <1>2 DEF Stages, Storing, SettingsOps
  <1>6. Follows(c) /\ req'[c].at = "write" /\ req'[c].seen = req[c].seen
    BY <1>1, <1>2, <1>3, <1>5, StepFollows
  <1>7. req'[c].op = req[c].op /\ req'[c].val = req[c].val BY <1>1, StepFacts
  <1>8. QED BY <1>1, <1>2, <1>3, <1>4, <1>6, <1>7, WrittenShape, ShapeFacts

\* The first patch of a request is one.
LEMMA FirstPatch ==
  ASSUME NEW r, r.op \in SettingsOps, RequestOK(r)
  PROVE  /\ r.val \in Seq(SomePatch) /\ Len(r.val) \in Nat /\ Len(r.val) >= 1
         /\ Head(r.val) = r.val[1] /\ r.val[1] \in SomePatch
  <1>1. PatchesOK(r.op, r.val) BY StageFacts, IdleFacts DEF RequestOK, SettingsOps
  <1>2. r.val \in Seq(SomePatch) /\ r.val # <<>> BY <1>1 DEF PatchesOK
  <1>3. QED BY <1>2

LEMMA SavePatchedFacts ==
  ASSUME Shape, NEW c \in Slots, SavePatched(c)
  PROVE  /\ Shape' /\ Follows(c) /\ mode.db = "mongo" /\ req[c].at = "write" /\ req[c] # Idle
         /\ req[c].op \in SettingsOps /\ IsSettings(req[c].seen)
         /\ req[c].val[1] \in SomePatch
         /\ req'[c].at = "answer" /\ req'[c].op = req[c].op
         /\ req'[c].seen = Assigned(req[c].seen, req[c].val[1]) /\ req'[c].val = req[c].val
         /\ Written(db.users, db.tokens, Assigned(req[c].seen, req[c].val[1]))
  <1> DEFINE settings == Assigned(req[c].seen, req[c].val[1])
  <1>1. mode.db = "mongo" /\ req[c].at = "write" /\ RequestOK(req[c])
    BY DEF SavePatched, At, Shape
  <1>2. req[c] # Idle /\ req[c].op \in SettingsOps BY <1>1, StageFacts DEF Storing
  <1>3. IsSettings(req[c].seen) BY <1>1, <1>2 DEF RequestOK, Storing
  <1>4. Head(req[c].val) = req[c].val[1] /\ req[c].val[1] \in SomePatch
    BY <1>1, <1>2, FirstPatch
  <1>5. Step(c, "answer", settings) /\ Writes([db EXCEPT !.settings = settings])
    BY <1>4 DEF SavePatched
  <1>6. IsSettings(settings) BY <1>3, <1>4, AssignedFacts
  <1> HIDE DEF settings
  <1>7. Written(db.users, db.tokens, settings) BY <1>5, WritesFacts
  <1>8. "answer" \in Stages[req[c].op] BY <1>2 DEF Stages, Storing, SettingsOps
  <1>9. Follows(c) /\ req'[c].at = "answer" /\ req'[c].seen = settings
    BY <1>2, <1>5, <1>6, <1>8, StepFollows
  <1>10. req'[c].op = req[c].op /\ req'[c].val = req[c].val BY <1>5, StepFacts
  <1>11. Shape' BY <1>1, <1>6, <1>7, <1>9, WrittenShape, ShapeFacts
  <1>12. QED BY <1>1, <1>2, <1>3, <1>4, <1>7, <1>9, <1>10, <1>11 DEF settings

\* The patches after the first.
LEMMA TailOK ==
  ASSUME NEW op, NEW p, PatchesOK(op, p), Len(p) # 1
  PROVE  /\ PatchesOK(op, Tail(p))
         /\ Len(Tail(p)) = Len(p) - 1
         /\ \A i \in 1..Len(Tail(p)) : i + 1 \in 1..Len(p) /\ Tail(p)[i] = p[i + 1]
  <1>1. p \in Seq(SomePatch) /\ p # <<>> /\ Len(p) \in Nat BY DEF PatchesOK
  <1>2. Len(p) > 1
    <2>1. Len(p) >= 1 BY <1>1
    <2>2. \A n \in Nat : n >= 1 /\ n # 1 => n > 1 OBVIOUS
    <2>3. QED BY <1>1, <2>1, <2>2
  <1>3. /\ Tail(p) \in Seq(SomePatch) /\ Len(Tail(p)) = Len(p) - 1
        /\ \A i \in 1..Len(Tail(p)) : i + 1 \in 1..Len(p) /\ Tail(p)[i] = p[i + 1]
    BY <1>1, <1>2
  <1>4. Tail(p) # <<>>
    <2>1. Len(Tail(p)) # 0 BY <1>1, <1>2, <1>3
    <2>2. Len(<<>>) = 0 OBVIOUS
    <2>3. QED BY <2>1, <2>2
  <1> DEFINE q == Tail(p)
  <1> HIDE DEF q
  <1>5. ASSUME NEW i \in 1..Len(q)
        PROVE LET fields == DOMAIN q[i].fields
              IN  /\ \A j \in 1..Len(q) : i # j => fields \cap DOMAIN q[j].fields = {}
                  /\ Len(q) > 1 => "autoRemoveOldFilesAtBoot" \notin fields
                  /\ op = "sentry" => "sentryDiagnosticsEnabled" \in fields
                  /\ op # "wizard" => "wizardCompleted" \notin fields
    <2>1. /\ i + 1 \in 1..Len(p) /\ q[i] = p[i + 1]
          /\ \A j \in 1..Len(q) : j + 1 \in 1..Len(p) /\ q[j] = p[j + 1]
      BY <1>3 DEF q
    <2>2. \A j \in 1..Len(q) : i # j => DOMAIN q[i].fields \cap DOMAIN q[j].fields = {}
      <3>1. SUFFICES ASSUME NEW j \in 1..Len(q), i # j
                     PROVE DOMAIN q[i].fields \cap DOMAIN q[j].fields = {}
        OBVIOUS
      <3>2. i + 1 # j + 1 BY <1>3, <3>1 DEF q
      <3>3. DOMAIN p[i + 1].fields \cap DOMAIN p[j + 1].fields = {}
        BY <2>1, <3>2 DEF PatchesOK
      <3>4. QED BY <2>1, <3>3
    <2>3. QED BY <1>2, <2>1, <2>2 DEF PatchesOK
  <1>6. PatchesOK(op, q) BY <1>3, <1>4, <1>5 DEF PatchesOK, q
  <1>7. QED BY <1>3, <1>6 DEF q

LEMMA StoreSettingsFacts ==
  ASSUME Shape, NEW c \in Slots, StoreSettings(c)
  PROVE  /\ Shape' /\ Follows(c) /\ mode.db = "mongo" /\ req[c].at = "answer" /\ req[c] # Idle
         /\ req[c].op \in SettingsOps /\ IsSettings(req[c].seen)
         /\ req[c].val[1] \in SomePatch /\ PatchesOK(req[c].op, req[c].val)
         /\ mode' = mode /\ db' = db /\ store' = req[c].seen
         /\ sentry' = IF req[c].op = "sentry" THEN store'["sentryDiagnosticsEnabled"] ELSE sentry
         /\ SamePast({"asked", "doubt", "aside"})
         /\ past'.asked = IF past.doubt THEN past.asked
                          ELSE Acknowledged(past.asked, req[c].val[1])
         /\ past'.doubt = (past.doubt /\ (OthersChange(c) \/ Len(req[c].val) # 1))
         /\ past'.aside = Aside(req[c].op, req[c].val[1])
         /\ IF Len(req[c].val) = 1 THEN req'[c] = Idle
            ELSE /\ req'[c] # Idle /\ req'[c].at = "read" /\ req'[c].op = req[c].op
                 /\ req'[c].val = Tail(req[c].val)
  <1> DEFINE r == req[c]
             next == IF Len(r.val) = 1 THEN Idle
                     ELSE [r EXCEPT !.at = "read", !.seen = None, !.val = Tail(@)]
             asked == IF past.doubt THEN past.asked ELSE Acknowledged(past.asked, r.val[1])
             doubt == past.doubt /\ (OthersChange(c) \/ Len(r.val) # 1)
             aside == Aside(r.op, r.val[1])
  <1>1. mode.db = "mongo" /\ r.at = "answer" /\ RequestOK(r) BY DEF StoreSettings, At, Shape
  <1>2. r # Idle /\ r.op \in SettingsOps BY <1>1, StageFacts DEF Storing
  <1>3. IsSettings(r.seen) /\ PatchesOK(r.op, r.val) BY <1>1, <1>2 DEF RequestOK, Storing
  <1>4. Head(r.val) = r.val[1] /\ r.val[1] \in SomePatch BY <1>1, <1>2, FirstPatch
  <1>5. /\ mode' = mode /\ db' = db /\ store' = r.seen
        /\ sentry' = IF r.op = "sentry" THEN store'["sentryDiagnosticsEnabled"] ELSE sentry
        /\ req' = [req EXCEPT ![c] = next]
        /\ past' = [past EXCEPT !.asked = asked, !.doubt = doubt, !.aside = aside]
    BY <1>4 DEF StoreSettings
  <1>6. sentry' \in BOOLEAN
    <2>1. "sentryDiagnosticsEnabled" \in DOMAIN r.seen BY <1>3, SettingFacts DEF IsSettings
    <2>2. r.seen["sentryDiagnosticsEnabled"] \in BOOLEAN BY <1>3, <2>1 DEF IsSettings
    <2>3. QED BY <1>5, <2>2, ShapeFacts
  <1>7. /\ RequestOK(next)
        /\ Len(r.val) # 1 =>
             /\ next # Idle /\ next.at = "read" /\ next.op = r.op /\ next.val = Tail(r.val)
             /\ next.by = r.by /\ next.to = r.to /\ next.tok = r.tok
    <2>1. CASE Len(r.val) = 1 BY IdleFacts, <2>1 DEF RequestOK
    <2>2. CASE Len(r.val) # 1
      <3>1. next = [r EXCEPT !.at = "read", !.seen = None, !.val = Tail(@)] BY <2>2
      <3>2. DOMAIN r = {"op", "at", "by", "to", "tok", "val", "seen", "late"}
        BY <1>1, IdleFacts DEF RequestOK
      <3> HIDE DEF next
      <3>3. /\ DOMAIN next = DOMAIN Idle /\ next.at = "read" /\ next.seen = None
            /\ next.val = Tail(r.val) /\ next.op = r.op /\ next.by = r.by /\ next.to = r.to
            /\ next.tok = r.tok /\ next.late = r.late
        BY <3>1, <3>2, IdleFacts
      <3>4. PatchesOK(next.op, next.val) BY <1>3, <2>2, <3>3, TailOK
      <3>5. next.at \in Stages[next.op] /\ next # Idle
        BY <1>2, <3>3, IdleFacts DEF Stages, Storing, SettingsOps
      <3>6. RequestOK(next)
        BY <1>1, <1>2, <3>3, <3>4, <3>5 DEF RequestOK, Storing, SettingsOps
      <3>7. QED BY <3>3, <3>5, <3>6
    <2>3. QED BY <2>1, <2>2
  <1> HIDE DEF asked, doubt, aside
  <1>8. /\ past' = [x \in DOMAIN past' |-> past'[x]] /\ DOMAIN past' = DOMAIN past
        /\ SamePast({"asked", "doubt", "aside"})
        /\ past'.asked = asked /\ past'.doubt = doubt /\ past'.aside = aside
    BY <1>5, ShapeFacts, PastFacts DEF SamePast
  <1>9. IsAsked(asked) /\ doubt \in BOOLEAN /\ aside \in BOOLEAN
    <2>1. IsAsked(past.asked) /\ past.doubt \in BOOLEAN BY ShapeFacts, PastFacts DEF IsAsked
    <2>2. IsAsked(Acknowledged(past.asked, r.val[1])) BY <1>4, <2>1, AcknowledgedFacts
    <2>3. aside \in BOOLEAN BY ShapeFacts, PastFacts DEF aside, Aside
    <2>4. QED BY <2>1, <2>2, <2>3 DEF asked, doubt
  <1>10. IsPast(past') BY <1>8, <1>9, ShapeFacts, PastFacts, PastOK DEF SamePast, IsAsked
  <1>11. /\ req' = [d \in Slots |-> req'[d]] /\ req'[c] = next
         /\ \A d \in Slots : d # c => req'[d] = req[d]
    <2> HIDE DEF next
    <2>1. QED BY <1>5, SlotFacts
  <1>12. Follows(c)
    <2>1. Len(r.val) = 1 => next = Idle OBVIOUS
    <2> HIDE DEF next
    <2>2. QED BY <1>1, <1>7, <1>11, <2>1 DEF Follows
  <1>13. Shape'
    <2>1. \A d \in Slots : RequestOK(req'[d]) /\ (req'[d] # Idle => mode.db = "mongo")
      BY <1>1, <1>12 DEF Follows, Shape
    <2>2. /\ DOMAIN db' = {"users", "tokens", "settings"} /\ UsersOK(db'.users)
          /\ TokensOK(db'.tokens) /\ IsSettings(db'.settings)
      BY <1>5, ShapeFacts DEF Shape
    <2>3. QED BY <1>3, <1>5, <1>6, <1>10, <1>11, <2>1, <2>2, ShapeMade
  <1>14. Len(r.val) = 1 => next = Idle OBVIOUS
  <1> HIDE DEF next
  <1>15. QED
    BY <1>1, <1>2, <1>3, <1>4, <1>5, <1>7, <1>8, <1>11, <1>12, <1>13, <1>14 DEF asked, doubt, aside

\* What the guards of a request make sure of when it comes.
ComesAs(r) ==
  /\ r.at \in {"insert", "isRoot", "own", "get", "sign", "tokens", "user", "read"}
  /\ r.at = "insert" => FreshUser(r.to)
  /\ r.op \in {"delete", "verify"} => IsAdmin(r.by) /\ r.by # r.to /\ r.at = "isRoot"
  /\ r.op = "roles" => IsAdmin(r.by) /\ r.by # None /\ r.at = "own"
  /\ r.at = "get" => r.op = "root"
  /\ r.op = "root" => store["wizardCompleted"]
  /\ r.op = "renew" => r.tok \in DOMAIN db.tokens /\ r.at \in {"tokens", "user"}
  /\ r.op = "login" => r.at = "sign"
  /\ r.op = "logout" => r.at = "tokens"
  /\ r.op = "wizard" => r.at = "insert"
  /\ r.op \in {"settings", "sentry"} => r.at = "read"

Changed(r) == UNION {DOMAIN r.val[i].fields : i \in DOMAIN r.val}

\* A request has come into the slot.
Begun(c) ==
  /\ mode.db = "mongo" /\ req[c] = Idle
  /\ req' = [d \in Slots |-> req'[d]] /\ \A d \in Slots : d # c => req'[d] = req[d]
  /\ RequestOK(req'[c]) /\ req'[c] # Idle /\ ComesAs(req'[c])
  /\ mode' = mode /\ db' = db /\ store' = store /\ sentry' = sentry
  /\ IsPast(past') /\ SamePast({"opened", "overlapped", "asked", "doubt", "raced"})
  /\ past'.opened = (past.opened \/ req'[c].by = None)
  /\ past'.overlapped = (past.overlapped \/ ~AllIdle)
  /\ past'.raced = past.raced \cup {t \in {req'[c].tok} \ {None} : Renewing(t)}
  /\ IF req'[c].op \notin SettingsOps THEN past'.asked = past.asked /\ past'.doubt = past.doubt
     ELSE IF OthersChange(c) THEN past'.asked = Without(past.asked, Switches) /\ past'.doubt
     ELSE /\ past'.asked =
               Without(past.asked, Changed(req'[c]) \cup {"autoRemoveOldFilesAtBoot"})
          /\ past'.doubt = past.doubt

LEMMA WithoutFacts ==
  ASSUME NEW asked, IsAsked(asked), NEW S
  PROVE  /\ IsAsked(Without(asked, S)) /\ DOMAIN Without(asked, S) = (DOMAIN asked) \ S
         /\ \A s \in (DOMAIN asked) \ S : Without(asked, S)[s] = asked[s]
  BY DEF IsAsked, Without

\* doubt is taken from a set so that it is no formula.
LEMMA BeginsFacts ==
  ASSUME Shape, NEW c \in Slots, NEW r, RequestOK(r), r # Idle, ComesAs(r),
         NEW asked, IsAsked(asked), NEW doubt, doubt \in BOOLEAN, Begins(c, r, asked, doubt)
  PROVE  /\ mode.db = "mongo" /\ req[c] = Idle /\ r.op \in mode.ops
         /\ req' = [d \in Slots |-> req'[d]] /\ \A d \in Slots : d # c => req'[d] = req[d]
         /\ req'[c] = r
         /\ mode' = mode /\ db' = db /\ store' = store /\ sentry' = sentry
         /\ IsPast(past') /\ SamePast({"opened", "overlapped", "asked", "doubt", "raced"})
         /\ past'.opened = (past.opened \/ r.by = None)
         /\ past'.overlapped = (past.overlapped \/ ~AllIdle)
         /\ past'.raced = past.raced \cup {t \in {r.tok} \ {None} : Renewing(t)}
         /\ past'.asked = asked /\ past'.doubt = doubt
  <1> DEFINE raced == past.raced \cup {t \in {r.tok} \ {None} : Renewing(t)}
  <1>1. /\ mode.db = "mongo" /\ req[c] = Idle /\ r.op \in mode.ops
        /\ mode' = mode /\ db' = db /\ store' = store /\ sentry' = sentry
        /\ req' = [req EXCEPT ![c] = r]
        /\ past' = [past EXCEPT !.opened = @ \/ r.by = None, !.overlapped = @ \/ ~AllIdle,
                                !.asked = asked, !.doubt = doubt, !.raced = raced]
    BY DEF Begins
  <1>2. req' = [d \in Slots |-> req'[d]] /\ req'[c] = r /\ \A d \in Slots : d # c => req'[d] = req[d]
    BY <1>1, SlotFacts
  <1>3. r.tok \in Tokens \cup {None} /\ raced \subseteq Tokens
    <2>1. r.tok \in Tokens \cup {None} BY DEF RequestOK
    <2>2. past.raced \subseteq Tokens BY ShapeFacts, PastFacts
    <2>3. QED BY <2>1, <2>2
  <1> HIDE DEF raced
  <1>4. past' = [x \in DOMAIN past' |-> past'[x]] /\ DOMAIN past' = DOMAIN past BY <1>1
  <1>5. SamePast({"opened", "overlapped", "asked", "doubt", "raced"}) BY <1>1 DEF SamePast
  <1>6. past'.asked = asked /\ past'.doubt = doubt /\ past'.raced = raced
    BY <1>1, ShapeFacts, PastFacts
  <1>7. /\ past'.opened = (past.opened \/ r.by = None)
        /\ past'.overlapped = (past.overlapped \/ ~AllIdle)
    BY <1>1, ShapeFacts, PastFacts
  <1>8. IsPast(past')
    <2>1. /\ past'.cut \in BOOLEAN /\ past'.granted \in [Tokens -> Nat]
          /\ past'.ended \subseteq Tokens /\ past'.late \in BOOLEAN /\ past'.aside \in BOOLEAN
      BY <1>5, ShapeFacts, PastFacts DEF SamePast
    <2>2. past'.opened \in BOOLEAN /\ past'.overlapped \in BOOLEAN BY <1>7
    <2>3. /\ past'.raced \subseteq Tokens /\ past'.doubt \in BOOLEAN
          /\ DOMAIN past'.asked \subseteq Switches
          /\ \A s \in DOMAIN past'.asked : past'.asked[s] \in BOOLEAN
      BY <1>3, <1>6 DEF IsAsked
    <2>4. DOMAIN past' = {"opened", "overlapped", "cut", "granted", "raced", "ended", "late",
                          "asked", "doubt", "aside"}
      BY <1>4, ShapeFacts, PastFacts
    <2>5. QED BY <1>4, <2>1, <2>2, <2>3, <2>4, PastOK
  <1>9. QED BY <1>1, <1>2, <1>5, <1>6, <1>7, <1>8 DEF raced

LEMMA BegunMade ==
  ASSUME Shape, NEW c \in Slots, NEW r, RequestOK(r), r # Idle, ComesAs(r),
         r.op \notin SettingsOps, Begin(c, r)
  PROVE  Begun(c)
  <1>1. Begins(c, r, past.asked, past.doubt) BY DEF Begin
  <1>2. IsAsked(past.asked) /\ past.doubt \in BOOLEAN BY ShapeFacts, PastFacts DEF IsAsked
  <1>3. QED BY <1>1, <1>2, BeginsFacts DEF Begun

LEMMA BegunPatches ==
  ASSUME Shape, NEW c \in Slots, NEW r, RequestOK(r), r # Idle, ComesAs(r),
         r.op \in SettingsOps, BeginPatches(c, r, r.val)
  PROVE  Begun(c)
  <1>1. IsAsked(past.asked) /\ past.doubt \in BOOLEAN BY ShapeFacts, PastFacts DEF IsAsked
  <1>2. CASE OthersChange(c)
    <2>1. Begins(c, r, Without(past.asked, Switches), TRUE) BY <1>2 DEF BeginPatches
    <2>2. IsAsked(Without(past.asked, Switches)) /\ TRUE \in BOOLEAN BY <1>1, WithoutFacts
    <2> DEFINE asked == Without(past.asked, Switches)
               doubt == TRUE
    <2> HIDE DEF asked, doubt
    <2>3. IsAsked(asked) /\ doubt \in BOOLEAN /\ Begins(c, r, asked, doubt)
      BY <2>1, <2>2 DEF asked, doubt
    <2>4. /\ mode.db = "mongo" /\ req[c] = Idle
          /\ req' = [d \in Slots |-> req'[d]] /\ \A d \in Slots : d # c => req'[d] = req[d]
          /\ req'[c] = r
          /\ mode' = mode /\ db' = db /\ store' = store /\ sentry' = sentry
          /\ IsPast(past') /\ SamePast({"opened", "overlapped", "asked", "doubt", "raced"})
          /\ past'.opened = (past.opened \/ r.by = None)
          /\ past'.overlapped = (past.overlapped \/ ~AllIdle)
          /\ past'.raced = past.raced \cup {t \in {r.tok} \ {None} : Renewing(t)}
          /\ past'.asked = asked /\ past'.doubt = doubt
      BY <2>3, BeginsFacts
    <2>5. QED BY <1>2, <2>4 DEF Begun, asked, doubt
  <1>3. CASE ~OthersChange(c)
    <2> DEFINE asked == Without(past.asked, Changed(r) \cup {"autoRemoveOldFilesAtBoot"})
    <2>1. Begins(c, r, asked, past.doubt) BY <1>3 DEF BeginPatches, Changed
    <2>2. IsAsked(asked) BY <1>1, WithoutFacts
    <2> HIDE DEF asked
    <2>3. /\ mode.db = "mongo" /\ req[c] = Idle
          /\ req' = [d \in Slots |-> req'[d]] /\ \A d \in Slots : d # c => req'[d] = req[d]
          /\ req'[c] = r
          /\ mode' = mode /\ db' = db /\ store' = store /\ sentry' = sentry
          /\ IsPast(past') /\ SamePast({"opened", "overlapped", "asked", "doubt", "raced"})
          /\ past'.opened = (past.opened \/ r.by = None)
          /\ past'.overlapped = (past.overlapped \/ ~AllIdle)
          /\ past'.raced = past.raced \cup {t \in {r.tok} \ {None} : Renewing(t)}
          /\ past'.asked = asked /\ past'.doubt = past.doubt
      BY <1>1, <2>1, <2>2, BeginsFacts
    <2>4. QED BY <1>3, <2>3 DEF Begun, asked
  <1>4. QED BY <1>2, <1>3

LEMMA BegunShape ==
  ASSUME Shape, NEW c \in Slots, Begun(c)
  PROVE  Shape'
  <1>1. \A d \in Slots : RequestOK(req'[d]) /\ (req'[d] # Idle => mode.db = "mongo")
    BY DEF Begun, Shape
  <1>2. /\ DOMAIN db' = {"users", "tokens", "settings"} /\ UsersOK(db'.users)
        /\ TokensOK(db'.tokens) /\ IsSettings(db'.settings) /\ IsSettings(store')
        /\ sentry' \in BOOLEAN
    BY ShapeFacts DEF Begun, Shape
  <1>3. QED BY <1>1, <1>2, ShapeMade DEF Begun

\* A request that is not one for settings or a renewal.
LEMMA PlainRequest ==
  ASSUME NEW op \in (DOMAIN Stages) \ (SettingsOps \cup {"renew"}), NEW at \in Stages[op],
         at \notin {"save", "roots", "verified"},
         NEW by \in Users \cup {None}, NEW to \in Users, NEW val,
         op \in {"create", "register"} => val \in User,
         op \in {"verify", "roles", "root"} => val \in BOOLEAN
  PROVE  /\ RequestOK(Request(op, at, by, to, val)) /\ Request(op, at, by, to, val) # Idle
         /\ Request(op, at, by, to, val).op \notin SettingsOps
  <1> DEFINE r == Request(op, at, by, to, val)
  <1>1. /\ DOMAIN r = DOMAIN Idle
        /\ r.op = op /\ r.at = at /\ r.by = by /\ r.to = to /\ r.val = val
        /\ r.tok = None /\ r.seen = None /\ r.late = FALSE
    BY IdleFacts DEF Request, Idle
  <1> HIDE DEF r
  <1>2. /\ op # "idle" /\ op # "wizard" /\ op \notin {"settings", "sentry", "renew"}
        /\ at \notin {"check", "count"} \cup Storing
    BY DEF Stages, SettingsOps, Storing
  <1>3. r # Idle BY <1>1, <1>2, IdleFacts
  <1>4. RequestOK(r) BY <1>1, <1>2 DEF RequestOK
  <1>5. QED BY <1>1, <1>2, <1>3, <1>4 DEF r, SettingsOps

LEMMA BeginStepFacts ==
  ASSUME Shape, EndedIsGone, NEW c \in Slots, BeginStep(c)
  PROVE  Begun(c)
  <1> USE DEF Stages
  <1>1. mode.users \subseteq Users /\ None \notin Users BY ShapeFacts
  <1>2. ASSUME NEW op \in (DOMAIN Stages) \ (SettingsOps \cup {"renew"}), NEW at \in Stages[op],
               at \notin {"save", "roots", "verified"},
               NEW by \in Users \cup {None}, NEW to \in Users, NEW val,
               op \in {"create", "register"} => val \in User,
               op \in {"verify", "roles", "root"} => val \in BOOLEAN,
               ComesAs(Request(op, at, by, to, val)), Begin(c, Request(op, at, by, to, val))
        PROVE  Begun(c)
    <2> DEFINE r == Request(op, at, by, to, val)
    <2>1. RequestOK(r) /\ r # Idle /\ r.op \notin SettingsOps BY <1>2, PlainRequest
    <2>2. QED BY <1>2, <2>1, BegunMade
  <1>3. ASSUME NEW op, NEW at, NEW by, NEW to, NEW val
        PROVE  LET r == Request(op, at, by, to, val)
               IN  r.op = op /\ r.at = at /\ r.by = by /\ r.to = to /\ r.val = val
    BY DEF Request, Idle
  <1>4. ASSUME NEW by \in mode.users \cup {None}, BeginCreate(c, by)
        PROVE  Begun(c)
    <2>1. PICK u \in mode.users, isAdmin \in BOOLEAN :
            FreshUser(u) /\ Begin(c, Request("create", "insert", by, u, CreatedUser(isAdmin)))
      BY <1>4 DEF BeginCreate
    <2>2. CreatedUser(isAdmin) \in User BY DEF CreatedUser, User
    <2> DEFINE val == CreatedUser(isAdmin)
    <2> HIDE DEF val
    <2>3. val \in User /\ Begin(c, Request("create", "insert", by, u, val))
      BY <2>1, <2>2 DEF val
    <2>4. ComesAs(Request("create", "insert", by, u, val)) BY <1>3, <2>1 DEF ComesAs
    <2>5. QED BY <1>1, <1>2, <2>3, <2>4 DEF SettingsOps
  <1>5. ASSUME BeginRegister(c) PROVE Begun(c)
    <2>1. PICK u \in mode.users :
            FreshUser(u) /\ Begin(c, Request("register", "insert", u, u, RegisteredUser))
      BY <1>5 DEF BeginRegister
    <2>2. RegisteredUser \in User BY DEF RegisteredUser, User
    <2>3. ComesAs(Request("register", "insert", u, u, RegisteredUser))
      BY <1>3, <2>1 DEF ComesAs
    <2>4. QED BY <1>1, <1>2, <2>1, <2>2, <2>3 DEF SettingsOps
  <1>6. ASSUME NEW by \in mode.users \cup {None}, BeginDelete(c, by)
        PROVE  Begun(c)
    <2>1. PICK u \in (DOMAIN db.users) \ {by} :
            IsAdmin(by) /\ Begin(c, Request("delete", "isRoot", by, u, None))
      BY <1>6 DEF BeginDelete
    <2>2. u \in Users BY ShapeFacts DEF UsersOK
    <2>3. ComesAs(Request("delete", "isRoot", by, u, None)) BY <1>3, <2>1 DEF ComesAs
    <2>4. QED BY <1>1, <1>2, <2>1, <2>2, <2>3 DEF SettingsOps
  <1>7. ASSUME NEW by \in mode.users \cup {None}, BeginSetVerified(c, by)
        PROVE  Begun(c)
    <2>1. PICK u \in (DOMAIN db.users) \ {by}, isVerified \in BOOLEAN :
            IsAdmin(by) /\ Begin(c, Request("verify", "isRoot", by, u, isVerified))
      BY <1>7 DEF BeginSetVerified
    <2>2. u \in Users BY ShapeFacts DEF UsersOK
    <2> DEFINE val == isVerified
    <2> HIDE DEF val
    <2>3. val \in BOOLEAN /\ Begin(c, Request("verify", "isRoot", by, u, val))
      BY <2>1 DEF val
    <2>4. ComesAs(Request("verify", "isRoot", by, u, val)) BY <1>3, <2>1 DEF ComesAs
    <2>5. QED BY <1>1, <1>2, <2>2, <2>3, <2>4 DEF SettingsOps
  <1>8. ASSUME NEW by \in mode.users \cup {None}, BeginSetUserRoles(c, by)
        PROVE  Begun(c)
    <2>1. PICK u \in DOMAIN db.users, isAdmin \in BOOLEAN :
            /\ IsAdmin(by) /\ by # None
            /\ Begin(c, Request("roles", "own", by, u, isAdmin))
      BY <1>8 DEF BeginSetUserRoles
    <2> DEFINE val == isAdmin
    <2> HIDE DEF val
    <2>2. val \in BOOLEAN /\ Begin(c, Request("roles", "own", by, u, val)) BY <2>1 DEF val
    <2>3. ComesAs(Request("roles", "own", by, u, val)) BY <1>3, <2>1 DEF ComesAs
    <2>4. QED BY <1>1, <1>2, <2>2, <2>3, ShapeFacts DEF SettingsOps, UsersOK
  <1>9. ASSUME NEW by \in mode.users \cup {None}, BeginSetRootUser(c, by)
        PROVE  Begun(c)
    <2>1. PICK u \in DOMAIN db.users, isRoot \in BOOLEAN :
            /\ store["wizardCompleted"]
            /\ Begin(c, Request("root", IF by = None THEN "get" ELSE "isRoot", by, u, isRoot))
      BY <1>9 DEF BeginSetRootUser, Caller, VerifyUserCallback
    <2> DEFINE val == isRoot
               at == IF by = None THEN "get" ELSE "isRoot"
    <2>2. at \in {"get", "isRoot"} OBVIOUS
    <2> HIDE DEF val, at
    <2>3. val \in BOOLEAN /\ Begin(c, Request("root", at, by, u, val)) BY <2>1 DEF val, at
    <2>4. ComesAs(Request("root", at, by, u, val)) BY <1>3, <2>1, <2>2 DEF ComesAs
    <2>5. QED BY <1>1, <1>2, <2>2, <2>3, <2>4, ShapeFacts DEF SettingsOps, UsersOK
  <1>10. ASSUME NEW u \in mode.users, BeginLogin(c, u)
         PROVE  Begun(c)
    <2>1. Begin(c, Request("login", "sign", u, u, None)) BY <1>10 DEF BeginLogin
    <2>2. ComesAs(Request("login", "sign", u, u, None)) BY <1>3 DEF ComesAs
    <2>3. QED BY <1>1, <1>2, <2>1, <2>2 DEF SettingsOps
  <1>11. ASSUME NEW by \in mode.users \cup {None}, BeginLogout(c, by)
         PROVE  Begun(c)
    <2>1. by # None /\ Begin(c, Request("logout", "tokens", by, by, None))
      BY <1>11 DEF BeginLogout
    <2>2. ComesAs(Request("logout", "tokens", by, by, None)) BY <1>3 DEF ComesAs
    <2>3. QED BY <1>1, <1>2, <2>1, <2>2 DEF SettingsOps
  <1>12. ASSUME NEW t \in DOMAIN db.tokens, BeginRefresh(c, t)
         PROVE  Begun(c)
    <2> DEFINE u == db.tokens[t].user
               at == IF db.tokens[t].expired THEN "tokens" ELSE "user"
               late == t \in past.ended
               r == [Request("renew", at, u, u, None) EXCEPT !.tok = t, !.late = late]
    <2>1. Begin(c, r) BY <1>12 DEF BeginRefresh
    <2>2. u \in Users /\ t \in Tokens /\ late = FALSE /\ at \in {"tokens", "user"}
      BY ShapeFacts DEF TokensOK, Token, EndedIsGone
    <2> HIDE DEF u, at, late
    <2>3. /\ DOMAIN r = DOMAIN Idle
          /\ r.op = "renew" /\ r.at = at /\ r.by = u /\ r.to = u /\ r.val = None
          /\ r.tok = t /\ r.seen = None /\ r.late = late
      BY IdleFacts DEF Request, Idle
    <2> HIDE DEF r
    <2>4. r # Idle BY <2>3, IdleFacts
    <2>5. RequestOK(r) BY <2>2, <2>3 DEF RequestOK, SettingsOps, Storing
    <2>6. ComesAs(r) BY <2>2, <2>3 DEF ComesAs
    <2>7. QED BY <2>1, <2>3, <2>4, <2>5, <2>6, BegunMade DEF SettingsOps
  <1>13. ASSUME NEW op \in {"settings", "sentry"}, NEW by \in Users \cup {None},
                NEW p \in SomePatch, "wizardCompleted" \notin DOMAIN p.fields,
                op = "sentry" => "sentryDiagnosticsEnabled" \in DOMAIN p.fields,
                BeginPatches(c, Request(op, "read", by, None, <<p>>), <<p>>)
         PROVE  Begun(c)
    <2> DEFINE val == <<p>>
               r == Request(op, "read", by, None, val)
    <2>1. PatchesOK(op, val) BY <1>13 DEF PatchesOK
    <2> HIDE DEF val
    <2>2. /\ DOMAIN r = DOMAIN Idle
          /\ r.op = op /\ r.at = "read" /\ r.by = by /\ r.to = None /\ r.val = val
          /\ r.tok = None /\ r.seen = None /\ r.late = FALSE
      BY IdleFacts DEF Request, Idle
    <2>3. BeginPatches(c, r, val) BY <1>13 DEF val
    <2> HIDE DEF r
    <2>4. r # Idle BY <2>2, IdleFacts
    <2>5. RequestOK(r) BY <2>1, <2>2 DEF RequestOK, SettingsOps, Storing
    <2>6. ComesAs(r) BY <2>2 DEF ComesAs
    <2>7. QED BY <2>2, <2>3, <2>4, <2>5, <2>6, BegunPatches DEF SettingsOps
  <1>14. ASSUME NEW by \in mode.users \cup {None}, BeginSettings(c, by)
         PROVE  Begun(c)
    <2>1. PICK p \in SettingsPatches :
            BeginPatches(c, Request("settings", "read", by, None, <<p>>), <<p>>)
      BY <1>14 DEF BeginSettings
    <2>2. p \in SomePatch /\ "wizardCompleted" \notin DOMAIN p.fields BY SettingsPatchFacts
    <2>3. QED BY <1>1, <1>13, <2>1, <2>2
  <1>15. ASSUME NEW by \in mode.users \cup {None}, BeginSentry(c, by)
         PROVE  Begun(c)
    <2>1. PICK p \in SentryPatches(mode.changed) :
            BeginPatches(c, Request("sentry", "read", by, None, <<p>>), <<p>>)
      BY <1>15 DEF BeginSentry
    <2>2. /\ p \in SomePatch /\ "wizardCompleted" \notin DOMAIN p.fields
          /\ "sentryDiagnosticsEnabled" \in DOMAIN p.fields
      BY SentryPatchFacts
    <2>3. QED BY <1>1, <1>13, <2>1, <2>2
  <1>16. ASSUME BeginWizard(c) PROVE Begun(c)
    <2>1. PICK u \in mode.users, loginRequired, registration \in BOOLEAN :
            LET patches == WizardPatches(loginRequired, registration)
            IN  /\ FreshUser(u)
                /\ BeginPatches(c, [Request("wizard", "insert", u, u, patches)
                                      EXCEPT !.seen = WizardUser], patches)
      BY <1>16 DEF BeginWizard
    <2> DEFINE p == WizardPatches(loginRequired, registration)
               r == [Request("wizard", "insert", u, u, p) EXCEPT !.seen = WizardUser]
    <2>2. p \in WizardLists BY DEF WizardLists
    <2>3. FreshUser(u) /\ BeginPatches(c, r, p) BY <2>1
    <2> HIDE DEF p
    <2>4. /\ p \in Seq(SomePatch) /\ Len(p) = 3
          /\ DOMAIN p[1].fields = {"loginRequired"}
          /\ DOMAIN p[2].fields = {"registration"}
          /\ DOMAIN p[3].fields = {"wizardCompleted"}
      BY <2>2, WizardPatchFacts
    <2>5. PatchesOK("wizard", p)
      <3>1. Len(p) # 0 /\ 1..Len(p) = {1, 2, 3}
        <4>1. Len(p) = 3 BY <2>4
        <4> HIDE DEF r
        <4>2. QED BY ONLY <4>1
      <3>2. p # <<>> BY <2>4, <3>1
      <3>3. QED BY <2>4, <3>1, <3>2 DEF PatchesOK
    <2>6. /\ DOMAIN r = DOMAIN Idle
          /\ r.op = "wizard" /\ r.at = "insert" /\ r.by = u /\ r.to = u /\ r.val = p
          /\ r.tok = None /\ r.seen = WizardUser /\ r.late = FALSE
      BY IdleFacts DEF Request, Idle
    <2> HIDE DEF r
    <2>7. r # Idle BY <2>6, IdleFacts
    <2>8. RequestOK(r) BY <1>1, <2>5, <2>6 DEF RequestOK, SettingsOps, Storing
    <2>9. ComesAs(r) BY <2>3, <2>6 DEF ComesAs
    <2>10. QED BY <2>3, <2>6, <2>7, <2>8, <2>9, BegunPatches DEF SettingsOps
  <1>17. QED
    BY <1>4, <1>5, <1>6, <1>7, <1>8, <1>9, <1>10, <1>11, <1>12, <1>14, <1>15, <1>16
       DEF BeginStep

---------------------------------------------------------------------------
(* The other steps                                                         *)

SqlUsers(by) ==
  \/ SqlCreate(by) \/ SqlDelete(by) \/ SqlSetVerified(by) \/ SqlSetUserRoles(by)
  \/ SqlSetRootUser(by) \/ SqlRegister

LEMMA SqlUsersFacts ==
  ASSUME Shape, NEW by, SqlUsers(by)
  PROVE  \E op, b, users : UsersOK(users) /\ AnswerUsers(op, b, users)
  <1>1. ASSUME NEW u \in Users
        PROVE  /\ UsersOK(db.users)
               /\ \A user \in User : UsersOK(Register(db.users, u, user))
               /\ UsersOK(Erase(db.users, u))
               /\ \A field \in {"root", "verified", "admin"}, val \in BOOLEAN :
                    UsersOK(SetField(db.users, u, field, val))
    BY ShapeFacts, UsersKept
  <1>2. mode.users \subseteq Users /\ DOMAIN db.users \subseteq Users
    BY ShapeFacts DEF UsersOK
  <1>3. CASE SqlCreate(by)
    <2>1. PICK u \in mode.users, isAdmin \in BOOLEAN :
            AnswerUsers("create", by, Register(db.users, u, CreatedUser(isAdmin)))
      BY <1>3 DEF SqlCreate
    <2>2. CreatedUser(isAdmin) \in User BY DEF CreatedUser, User
    <2>3. UsersOK(Register(db.users, u, CreatedUser(isAdmin))) BY <1>1, <1>2, <2>2
    <2>4. QED BY <2>1, <2>3
  <1>4. CASE SqlRegister
    <2>1. PICK u \in mode.users : AnswerUsers("register", u, Register(db.users, u, RegisteredUser))
      BY <1>4 DEF SqlRegister
    <2>2. RegisteredUser \in User BY DEF RegisteredUser, User
    <2>3. UsersOK(Register(db.users, u, RegisteredUser)) BY <1>1, <1>2, <2>2
    <2>4. QED BY <2>1, <2>3
  <1>5. CASE SqlDelete(by)
    <2>1. PICK u \in DOMAIN db.users : AnswerUsers("delete", by, OrmDeleteUser(db.users, u))
      BY <1>5 DEF SqlDelete
    <2>2. UsersOK(OrmDeleteUser(db.users, u)) BY <1>1, <1>2 DEF OrmDeleteUser
    <2>3. QED BY <2>1, <2>2
  <1>6. CASE SqlSetVerified(by)
    <2>1. PICK u \in DOMAIN db.users, isVerified \in BOOLEAN :
            AnswerUsers("verify", by, OrmSetVerifiedById(db.users, u, isVerified))
      BY <1>6 DEF SqlSetVerified
    <2>2. UsersOK(OrmSetVerifiedById(db.users, u, isVerified))
      BY <1>1, <1>2 DEF OrmSetVerifiedById
    <2>3. QED BY <2>1, <2>2
  <1>7. CASE SqlSetUserRoles(by)
    <2>1. PICK u \in DOMAIN db.users, isAdmin \in BOOLEAN :
            AnswerUsers("roles", by, OrmSetUserRoleIds(db.users, u, isAdmin))
      BY <1>7 DEF SqlSetUserRoles
    <2>2. UsersOK(OrmSetUserRoleIds(db.users, u, isAdmin))
      BY <1>1, <1>2 DEF OrmSetUserRoleIds
    <2>3. QED BY <2>1, <2>2
  <1>8. CASE SqlSetRootUser(by)
    <2>1. PICK u \in DOMAIN db.users, isRoot \in BOOLEAN :
            AnswerUsers("root", by, OrmSetIsRootUserById(db.users, u, isRoot))
      BY <1>8 DEF SqlSetRootUser
    <2>2. UsersOK(OrmSetIsRootUserById(db.users, u, isRoot))
      BY <1>1, <1>2 DEF OrmSetIsRootUserById
    <2>3. QED BY <2>1, <2>2
  <1>9. QED BY <1>3, <1>4, <1>5, <1>6, <1>7, <1>8 DEF SqlUsers

SqlTokens ==
  \/ \E by \in mode.users \cup {None} : SqlLogout(by)
  \/ \E u \in mode.users : SqlLogin(u)
  \/ \E t \in DOMAIN db.tokens : SqlRefreshRefused(t)

\* Rows stay as they are, or belong to a user that just logged in.
RowsFollow(tokens) ==
  \A t \in DOMAIN tokens :
    \/ t \in DOMAIN db.tokens /\ tokens[t] = db.tokens[t]
    \/ FreshToken(t) /\ tokens[t].used = 0 /\ Known(db.users, tokens[t].user)

LEMMA SqlTokensFacts ==
  ASSUME Shape, SqlTokens
  PROVE  \E op, by, tokens :
           TokensOK(tokens) /\ RowsFollow(tokens) /\ AnswerTokens(op, by, tokens)
  <1>1. \A u : /\ TokensOK(DeleteRefreshTokenByUserId(db.tokens, u))
               /\ RowsFollow(DeleteRefreshTokenByUserId(db.tokens, u))
    BY ShapeFacts, TokensKept DEF DeleteRefreshTokenByUserId, RowsFollow, Kept
  <1>2. ASSUME NEW by, SqlLogout(by)
        PROVE  \E op, b, tokens :
                 TokensOK(tokens) /\ RowsFollow(tokens) /\ AnswerTokens(op, b, tokens)
    BY <1>1, <1>2 DEF SqlLogout
  <1>3. ASSUME NEW t \in DOMAIN db.tokens, SqlRefreshRefused(t)
        PROVE  \E op, b, tokens :
                 TokensOK(tokens) /\ RowsFollow(tokens) /\ AnswerTokens(op, b, tokens)
    BY <1>1, <1>3 DEF SqlRefreshRefused
  <1>4. ASSUME NEW u \in mode.users, SqlLogin(u)
        PROVE  \E op, b, tokens :
                 TokensOK(tokens) /\ RowsFollow(tokens) /\ AnswerTokens(op, b, tokens)
    <2> DEFINE purged == PurgeOutdatedRefreshTokensByUserId(db.tokens, u)
    <2>1. PICK t \in mode.tokens :
            /\ Known(db.users, u) /\ FreshToken(t)
            /\ AnswerTokens("login", u, CreateRefreshTokenForUserId(purged, t, u))
      BY <1>4 DEF SqlLogin
    <2>2. TokensOK(purged) BY ShapeFacts, TokensKept
    <2>3. DOMAIN purged \subseteq DOMAIN db.tokens /\ \A x \in DOMAIN purged : purged[x] = db.tokens[x]
      BY DEF PurgeOutdatedRefreshTokensByUserId, Kept
    <2> HIDE DEF purged
    <2>4. TokensOK(CreateRefreshTokenForUserId(purged, t, u))
      BY <2>2, ShapeFacts, TokensKept
    <2>5. RowsFollow(CreateRefreshTokenForUserId(purged, t, u))
      BY <2>1, <2>3 DEF RowsFollow, CreateRefreshTokenForUserId, Put
    <2>6. QED BY <2>1, <2>4, <2>5
  <1>5. QED BY <1>2, <1>3, <1>4 DEF SqlTokens

SqlChanges(by) == SqlSettings(by) \/ SqlSentry(by)

\* What a patch makes of the Sentry client.
Told(p) ==
  IF "sentryDiagnosticsEnabled" \in DOMAIN p.fields
  THEN past'.aside \/ sentry' = store'["sentryDiagnosticsEnabled"]
  ELSE sentry' = sentry /\ past'.aside = past.aside

\* Its own request sets it, another leaves it.
Tells(op, p) ==
  IF op = "sentry"
  THEN "sentryDiagnosticsEnabled" \in DOMAIN p.fields /\ sentry' = store'["sentryDiagnosticsEnabled"]
  ELSE sentry' = sentry

LEMMA SqlChangesFacts ==
  ASSUME Shape, NEW by, SqlChanges(by)
  PROVE  \E op, p :
           /\ p \in SomePatch /\ "wizardCompleted" \notin DOMAIN p.fields
           /\ p.group = "timeout" => "apiTimeout" \in DOMAIN p.fields
           /\ AnswerSettings(op, by, p) /\ sentry' \in BOOLEAN /\ Tells(op, p)
  <1>1. CASE SqlSettings(by)
    <2>1. PICK p \in SettingsPatches : AnswerSettings("settings", by, p) /\ sentry' = sentry
      BY <1>1 DEF SqlSettings
    <2>2. /\ p \in SomePatch
          /\ "wizardCompleted" \notin DOMAIN p.fields
          /\ p.group = "timeout" => "apiTimeout" \in DOMAIN p.fields
      BY SettingsPatchFacts
    <2>3. sentry' \in BOOLEAN /\ Tells("settings", p) BY <2>1, ShapeFacts DEF Tells
    <2>4. QED BY <2>1, <2>2, <2>3
  <1>2. CASE SqlSentry(by)
    <2>1. PICK p \in SentryPatches(mode.changed) :
            AnswerSettings("sentry", by, p) /\ sentry' = store'["sentryDiagnosticsEnabled"]
      BY <1>2 DEF SqlSentry
    <2>2. p \in SomePatch /\ p.group = "server" /\ DOMAIN p.fields = {"sentryDiagnosticsEnabled"}
      BY SentryPatchFacts
    <2>3. store' = Patched(db.settings, p) BY <2>1 DEF AnswerSettings, Shape
    <2>4. IsSettings(Patched(db.settings, p)) BY <2>2, ShapeFacts, PatchedFacts
    <2>5. sentry' \in BOOLEAN /\ Tells("sentry", p)
      BY <2>1, <2>2, <2>3, <2>4, SettingFacts DEF IsSettings, Tells
    <2>6. QED BY <2>1, <2>2, <2>5
  <1>3. QED BY <1>1, <1>2 DEF SqlChanges

LEMMA SqlWizardFacts ==
  ASSUME Shape, SqlWizard
  PROVE  /\ Shape' /\ mode' = mode /\ mode.db = "sqlite" /\ sentry' = sentry /\ req' = req
         /\ db'.tokens = db.tokens /\ store' = db'.settings
         /\ \E u \in Users : FreshUser(u) /\ db'.users = Register(db.users, u, WizardUser)
         /\ SamePast({"asked"})
         /\ DOMAIN past'.asked =
              WizardFields \cup ((DOMAIN past.asked) \ {"autoRemoveOldFilesAtBoot"})
         /\ \A s \in WizardFields : s \in DOMAIN store' /\ store'[s] = past'.asked[s]
         /\ SameBut(past'.asked, past.asked, WizardFields \cup {"autoRemoveOldFilesAtBoot"})
         /\ SameBut(store', db.settings, WizardFields \cup {"autoRemoveOldFilesAtBoot"})
  <1>1. PICK u \in mode.users, loginRequired, registration \in BOOLEAN :
          LET p == WizardPatches(loginRequired, registration)
          IN  /\ FreshUser(u)
              /\ db' = [db EXCEPT !.users = Register(@, u, WizardUser),
                             !.settings = Patched(Patched(Patched(@, p[1]), p[2]), p[3])]
              /\ past' = [past EXCEPT !.asked =
                       Acknowledged(Acknowledged(Acknowledged(@, p[1]), p[2]), p[3])]
    BY ZenonT(60) DEF SqlWizard
  <1>2. /\ mode' = mode /\ mode.db = "sqlite" /\ sentry' = sentry /\ req' = req
        /\ store' = db'.settings
    BY DEF SqlWizard
  <1> DEFINE p == WizardPatches(loginRequired, registration)
             users == Register(db.users, u, WizardUser)
             s3 == Patched(Patched(Patched(db.settings, p[1]), p[2]), p[3])
             a3 == Acknowledged(Acknowledged(Acknowledged(past.asked, p[1]), p[2]), p[3])
  <1>3. p \in WizardLists BY DEF WizardLists
  <1>4. /\ db' = [db EXCEPT !.users = users, !.settings = s3]
        /\ past' = [past EXCEPT !.asked = a3]
    BY <1>1
  <1> HIDE DEF p
  <1>5. Wizarded(db.settings, past.asked, s3, a3)
    BY ShapeFacts, PastFacts, <1>2, <1>3, WizardFacts DEF IsAsked
  <1>6. UsersOK(users) /\ u \in Users BY ShapeFacts, UsersKept DEF WizardUser, User
  <1> HIDE DEF s3, a3, users
  <1>7. /\ DOMAIN db' = {"users", "tokens", "settings"} /\ db'.users = users
        /\ db'.tokens = db.tokens /\ db'.settings = s3
    BY <1>4 DEF Shape
  <1>8. /\ past' = [x \in DOMAIN past' |-> past'[x]] /\ DOMAIN past' = DOMAIN past
        /\ SamePast({"asked"}) /\ past'.asked = a3
    BY <1>4, ShapeFacts, PastFacts DEF SamePast
  <1>9. IsPast(past')
    BY <1>5, <1>8, ShapeFacts, PastFacts, PastOK DEF SamePast, IsAsked, Wizarded
  <1>10. Shape' BY <1>2, <1>5, <1>6, <1>7, <1>9, ShapeFacts, ShapeMade DEF Shape, Wizarded
  <1>11. FreshUser(u) /\ db'.users = Register(db.users, u, WizardUser)
    BY <1>1, <1>7 DEF users
  <1>12. QED BY <1>2, <1>5, <1>6, <1>7, <1>8, <1>10, <1>11 DEF Wizarded

LEMMA ExpireFacts ==
  ASSUME Shape, Expire
  PROVE  /\ Shape' /\ mode' = mode /\ store' = store /\ sentry' = sentry
         /\ req' = req /\ past' = past
         /\ db'.users = db.users /\ db'.settings = db.settings
         /\ DOMAIN db'.tokens = DOMAIN db.tokens
         /\ \A t \in DOMAIN db.tokens :
              db'.tokens[t].used = db.tokens[t].used /\ db'.tokens[t].user = db.tokens[t].user
  <1>1. PICK t \in DOMAIN db.tokens : db' = [db EXCEPT !.tokens[t].expired = TRUE]
    BY DEF Expire
  <1>2. mode' = mode /\ store' = store /\ sentry' = sentry /\ req' = req /\ past' = past
    BY DEF Expire
  <1> DEFINE tokens == [db.tokens EXCEPT ![t].expired = TRUE]
  <1>3. /\ DOMAIN db' = {"users", "tokens", "settings"} /\ db'.users = db.users
        /\ db'.tokens = tokens /\ db'.settings = db.settings
    BY <1>1 DEF Shape
  <1>4. /\ DOMAIN tokens = DOMAIN db.tokens
        /\ \A x \in DOMAIN db.tokens :
             /\ tokens[x] \in Token
             /\ tokens[x].used = db.tokens[x].used /\ tokens[x].user = db.tokens[x].user
    BY ShapeFacts DEF TokensOK, Token
  <1> HIDE DEF tokens
  <1>5. TokensOK(db'.tokens) BY <1>3, <1>4, ShapeFacts DEF TokensOK
  <1>6. Shape' BY <1>2, <1>3, <1>5, ShapeFacts, ShapeMade DEF Shape
  <1>7. QED BY <1>2, <1>3, <1>4, <1>6

LEMMA RestartFacts ==
  ASSUME Shape, Restart
  PROVE  /\ Shape' /\ mode' = mode /\ store' = Booted(MigrateSettingsRuntime(db.settings))
         /\ sentry' = store'["sentryDiagnosticsEnabled"]
         /\ db'.users = db.users /\ db'.tokens = db.tokens
         /\ db'.settings = IF mode.db = "mongo" \/ mode.env # {} THEN store' ELSE db.settings
         /\ \A c \in Slots : req'[c] = Idle
         /\ SamePast({"cut", "doubt", "asked", "aside"}) /\ ~past'.doubt
         /\ past'.cut = (past.cut \/ ~AllIdle)
         /\ past'.asked = Without(past.asked, mode.env \cup {"autoRemoveOldFilesAtBoot"})
  <1> DEFINE asked == Without(past.asked, mode.env \cup {"autoRemoveOldFilesAtBoot"})
             booted == Booted(MigrateSettingsRuntime(db.settings))
  <1>1. /\ mode' = mode /\ store' = booted
        /\ sentry' = store'["sentryDiagnosticsEnabled"]
        /\ db' = IF mode.db = "mongo" \/ mode.env # {} THEN [db EXCEPT !.settings = store'] ELSE db
        /\ req' = [c \in Slots |-> Idle]
        /\ past' = [past EXCEPT !.cut = @ \/ ~AllIdle, !.doubt = FALSE, !.aside = FALSE,
                                !.asked = asked]
    BY DEF Restart
  <1>2. IsSettings(booted) BY ShapeFacts, MigratedFacts, BootedFacts
  <1>3. IsAsked(asked)
    <2>1. IsAsked(past.asked) BY ShapeFacts, PastFacts DEF IsAsked
    <2>2. QED BY <2>1, WithoutFacts
  <1> HIDE DEF asked, booted
  <1>4. /\ DOMAIN db' = {"users", "tokens", "settings"} /\ db'.users = db.users
        /\ db'.tokens = db.tokens
        /\ db'.settings = IF mode.db = "mongo" \/ mode.env # {} THEN store' ELSE db.settings
    BY <1>1 DEF Shape
  <1>5. sentry' \in BOOLEAN BY <1>1, <1>2, SettingFacts DEF IsSettings
  <1>6. /\ past' = [x \in DOMAIN past' |-> past'[x]] /\ DOMAIN past' = DOMAIN past
        /\ SamePast({"cut", "doubt", "asked", "aside"})
    BY <1>1 DEF SamePast
  <1>7. /\ past'.doubt = FALSE /\ past'.aside = FALSE /\ past'.asked = asked
        /\ past'.cut = (past.cut \/ ~AllIdle)
    BY <1>1, ShapeFacts, PastFacts
  <1>8. IsPast(past')
    BY <1>3, <1>6, <1>7, ShapeFacts, PastFacts, PastOK, ZenonT(60) DEF SamePast, IsAsked
  <1>9. req' = [c \in Slots |-> req'[c]] /\ \A c \in Slots : req'[c] = Idle /\ RequestOK(req'[c])
    BY <1>1, IdleFacts DEF RequestOK
  <1>10. Shape' BY <1>1, <1>2, <1>4, <1>5, <1>8, <1>9, ShapeFacts, ShapeMade
  <1>11. QED BY <1>1, <1>4, <1>6, <1>7, <1>9, <1>10 DEF asked, booted

LEMMA StutterFacts ==
  ASSUME Shape, UNCHANGED vars
  PROVE  /\ Shape' /\ mode' = mode /\ db' = db /\ store' = store /\ sentry' = sentry
         /\ req' = req /\ past' = past
  <1>1. mode' = mode /\ db' = db /\ store' = store /\ sentry' = sentry /\ req' = req /\ past' = past
    BY DEF vars
  <1>2. Shape'
    <2>1. IsPast(past') /\ IsSettings(store') /\ IsSettings(db'.settings)
      BY <1>1, ShapeFacts
    <2>2. UsersOK(db'.users) /\ TokensOK(db'.tokens) /\ DOMAIN db' = {"users", "tokens", "settings"}
      BY <1>1, ShapeFacts DEF Shape
    <2>3. QED BY <1>1, <2>1, <2>2, ShapeFacts, ShapeMade DEF Shape
  <1>3. QED BY <1>1, <1>2

---------------------------------------------------------------------------
(* The values of the state are kept                                        *)

ReadStep(c) ==
  \/ IsUserRootUser(c) \/ OwnUser(c) \/ GetUser(c) \/ FindRootUsers(c) \/ FindVerifiedUsers(c)
  \/ FindUsersByRoleId(c) \/ SignJwtToken(c) \/ RenewGetUser(c) \/ AttemptsUsed(c)
  \/ CheckToken(c) \/ FindSettings(c)

LEMMA ReadStepFacts ==
  ASSUME Shape, NEW c \in Slots, ReadStep(c)
  PROVE  /\ Shape' /\ Follows(c) /\ mode.db = "mongo" /\ req[c] # Idle
         /\ mode' = mode /\ db' = db /\ store' = store /\ sentry' = sentry /\ past' = past
  <1>1. Reads /\ Follows(c) /\ mode.db = "mongo" /\ req[c] # Idle
    BY IsUserRootUserFacts, OwnUserFacts, GetUserFacts, FindRootUsersFacts,
       FindVerifiedUsersFacts, FindUsersByRoleIdFacts, SignJwtTokenFacts, RenewGetUserFacts,
       AttemptsUsedFacts, CheckTokenFacts, FindSettingsFacts DEF ReadStep
  <1>2. Shape' BY <1>1, ReadsShape
  <1>3. QED BY <1>1, <1>2 DEF Reads

TokenStep(c) == DeleteTokens(c) \/ PurgeOutdated(c) \/ InsertToken(c) \/ DropToken(c)

LEMMA TokenStepFacts ==
  ASSUME Shape, NEW c \in Slots, TokenStep(c)
  PROVE  /\ Shape' /\ Follows(c) /\ mode.db = "mongo" /\ req[c] # Idle
         /\ req'[c] # Idle => req'[c].at = "token"
         /\ \E tokens : Written(db.users, tokens, db.settings)
         /\ \A t \in DOMAIN db'.tokens :
              \/ t \in DOMAIN db.tokens /\ db'.tokens[t] = db.tokens[t]
              \/ FreshToken(t) /\ db'.tokens[t].used = 0 /\ db'.tokens[t].user = req[c].to
  <1>1. CASE DeleteTokens(c)
    <2>1. /\ Shape' /\ Follows(c) /\ mode.db = "mongo" /\ req[c] # Idle /\ req'[c] = Idle
          /\ Written(db.users, DeleteRefreshTokenByUserId(db.tokens, req[c].to), db.settings)
      BY <1>1, DeleteTokensFacts
    <2>2. db'.tokens = DeleteRefreshTokenByUserId(db.tokens, req[c].to) BY <2>1 DEF Written
    <2>3. QED BY <2>1, <2>2 DEF DeleteRefreshTokenByUserId, Kept
  <1>2. CASE PurgeOutdated(c)
    <2>1. /\ Shape' /\ Follows(c) /\ mode.db = "mongo" /\ req[c] # Idle /\ req'[c].at = "token"
          /\ Written(db.users, PurgeOutdatedRefreshTokensByUserId(db.tokens, req[c].to), db.settings)
      BY <1>2, PurgeOutdatedFacts
    <2>2. db'.tokens = PurgeOutdatedRefreshTokensByUserId(db.tokens, req[c].to)
      BY <2>1 DEF Written
    <2>3. QED BY <2>1, <2>2 DEF PurgeOutdatedRefreshTokensByUserId, Kept
  <1>3. CASE DropToken(c)
    <2>1. /\ Shape' /\ Follows(c) /\ mode.db = "mongo" /\ req[c] # Idle /\ req'[c] = Idle
          /\ Written(db.users, DeleteRefreshToken(db.tokens, req[c].tok), db.settings)
      BY <1>3, DropTokenFacts
    <2>2. db'.tokens = DeleteRefreshToken(db.tokens, req[c].tok) BY <2>1 DEF Written
    <2>3. QED BY <2>1, <2>2 DEF DeleteRefreshToken, Kept
  <1>4. CASE InsertToken(c)
    <2>1. /\ Shape' /\ Follows(c) /\ mode.db = "mongo" /\ req[c] # Idle /\ req'[c] = Idle
          /\ \E t \in Tokens :
               /\ FreshToken(t)
               /\ Written(db.users, CreateRefreshTokenForUserId(db.tokens, t, req[c].to), db.settings)
      BY <1>4, InsertTokenFacts
    <2>2. PICK t \in Tokens :
            /\ FreshToken(t)
            /\ Written(db.users, CreateRefreshTokenForUserId(db.tokens, t, req[c].to), db.settings)
      BY <2>1
    <2>3. db'.tokens = CreateRefreshTokenForUserId(db.tokens, t, req[c].to)
      BY <2>2 DEF Written
    <2>4. QED BY <2>1, <2>2, <2>3 DEF CreateRefreshTokenForUserId, Put
  <1>5. QED BY <1>1, <1>2, <1>3, <1>4 DEF TokenStep

UserStep(c) == Save(c) \/ EraseUser(c) \/ InsertUser(c)

DocStep(c) == SaveMigrated(c) \/ SavePatched(c)

LEMMA CommandCases ==
  ASSUME NEW c \in Slots, CommandStep(c)
  PROVE  \/ ReadStep(c) \/ TokenStep(c) \/ UserStep(c) \/ DocStep(c)
         \/ CountAttempt(c) \/ StoreSettings(c)
  BY DEF CommandStep, ReadStep, TokenStep, UserStep, DocStep

LEMMA CommandFacts ==
  ASSUME Shape, NEW c \in Slots, CommandStep(c)
  PROVE  /\ Shape' /\ Follows(c) /\ mode.db = "mongo" /\ req[c] # Idle /\ mode' = mode
         /\ SamePast({"granted", "late", "ended", "asked", "doubt", "aside"})
  <1>1. CASE ReadStep(c) BY <1>1, ReadStepFacts DEF SamePast
  <1>2. CASE TokenStep(c) BY <1>2, TokenStepFacts DEF SamePast, Written
  <1>3. CASE UserStep(c)
    BY <1>3, SaveFacts, EraseUserFacts, InsertUserFacts DEF SamePast, Written, UserStep
  <1>4. CASE DocStep(c)
    BY <1>4, SaveMigratedFacts, SavePatchedFacts DEF SamePast, Written, DocStep
  <1>5. CASE CountAttempt(c) BY <1>5, CountAttemptFacts DEF SamePast
  <1>6. CASE StoreSettings(c) BY <1>6, StoreSettingsFacts DEF SamePast
  <1>7. QED BY <1>1, <1>2, <1>3, <1>4, <1>5, <1>6, CommandCases

LEMMA NextCases ==
  ASSUME Shape, EndedIsGone, [Next]_vars
  PROVE  \/ UNCHANGED vars
         \/ \E by : SqlUsers(by)
         \/ SqlTokens
         \/ \E by : SqlChanges(by)
         \/ SqlWizard
         \/ \E t \in DOMAIN db.tokens : SqlRefresh(t)
         \/ \E c \in Slots : Begun(c)
         \/ \E c \in Slots : CommandStep(c)
         \/ Expire \/ Restart
  <1>1. ASSUME NEW c \in Slots, BeginStep(c) PROVE Begun(c) BY <1>1, BeginStepFacts
  <1>2. ASSUME SqlStep
        PROVE  \/ \E by : SqlUsers(by)
               \/ SqlTokens
               \/ \E by : SqlChanges(by)
               \/ SqlWizard
               \/ \E t \in DOMAIN db.tokens : SqlRefresh(t)
    BY <1>2 DEF SqlStep, SqlUsers, SqlTokens, SqlChanges
  <1>3. QED BY <1>1, <1>2 DEF Next

LEMMA SqlUsersShape ==
  ASSUME Shape, NEW by, SqlUsers(by)
  PROVE  /\ Shape' /\ mode' = mode /\ mode.db = "sqlite" /\ req' = req /\ sentry' = sentry
         /\ store' = store /\ db'.settings = db.settings
         /\ SamePast({"opened", "ended"}) /\ past'.ended = Ended
         /\ DOMAIN db'.tokens = {t \in DOMAIN db.tokens : Known(db'.users, db.tokens[t].user)}
         /\ \A t \in DOMAIN db'.tokens : db'.tokens[t] = db.tokens[t]
  <1>1. PICK op, b, users : UsersOK(users) /\ AnswerUsers(op, b, users) BY SqlUsersFacts
  <1>2. /\ Shape' /\ Answer(op, b)
        /\ store' = store /\ db'.users = users /\ db'.settings = db.settings
        /\ DOMAIN db'.tokens = {t \in DOMAIN db.tokens : Known(users, db.tokens[t].user)}
        /\ \A t \in DOMAIN db'.tokens : db'.tokens[t] = db.tokens[t]
    BY <1>1, AnswerUsersFacts
  <1>3. /\ mode' = mode /\ sentry' = sentry /\ req' = req /\ mode.db = "sqlite"
        /\ SamePast({"opened", "ended"}) /\ past'.ended = Ended
    BY <1>2, AnswerFacts
  <1>4. QED BY <1>2, <1>3

LEMMA SqlTokensShape ==
  ASSUME Shape, SqlTokens
  PROVE  /\ Shape' /\ mode' = mode /\ mode.db = "sqlite" /\ req' = req /\ sentry' = sentry
         /\ store' = store /\ db'.users = db.users /\ db'.settings = db.settings
         /\ SamePast({"opened", "ended"}) /\ past'.ended = Ended
         /\ RowsFollow(db'.tokens)
         /\ \E by : past'.opened = (past.opened \/ by = None)
  <1>1. PICK op, by, tokens :
          TokensOK(tokens) /\ RowsFollow(tokens) /\ AnswerTokens(op, by, tokens)
    BY SqlTokensFacts
  <1>2. /\ Shape' /\ Answer(op, by) /\ store' = store /\ db'.tokens = tokens
        /\ db'.users = db.users /\ db'.settings = db.settings
    BY <1>1, AnswerTokensFacts
  <1>3. /\ mode' = mode /\ sentry' = sentry /\ req' = req /\ mode.db = "sqlite"
        /\ SamePast({"opened", "ended"}) /\ past'.ended = Ended
        /\ past'.opened = (past.opened \/ by = None)
    BY <1>2, AnswerFacts
  <1>4. QED BY <1>1, <1>2, <1>3

LEMMA SqlChangesShape ==
  ASSUME Shape, NEW by, SqlChanges(by)
  PROVE  \E p \in SomePatch :
           /\ "wizardCompleted" \notin DOMAIN p.fields
           /\ p.group = "timeout" => "apiTimeout" \in DOMAIN p.fields
           /\ Shape' /\ mode' = mode /\ mode.db = "sqlite" /\ req' = req
           /\ db'.users = db.users /\ db'.tokens = db.tokens
           /\ db'.settings = Patched(db.settings, p) /\ store' = db'.settings
           /\ SamePast({"opened", "asked", "aside"}) /\ past'.opened = (past.opened \/ by = None)
           /\ past'.asked = Acknowledged(past.asked, p) /\ Told(p)
  <1>1. PICK op, p :
           /\ p \in SomePatch /\ "wizardCompleted" \notin DOMAIN p.fields
           /\ p.group = "timeout" => "apiTimeout" \in DOMAIN p.fields
           /\ AnswerSettings(op, by, p) /\ sentry' \in BOOLEAN /\ Tells(op, p)
    BY SqlChangesFacts
  <1>2. /\ Shape' /\ mode' = mode /\ mode.db = "sqlite" /\ req' = req
        /\ db'.users = db.users /\ db'.tokens = db.tokens
        /\ db'.settings = Patched(db.settings, p) /\ store' = db'.settings
        /\ SamePast({"opened", "asked", "aside"}) /\ past'.opened = (past.opened \/ by = None)
        /\ past'.asked = Acknowledged(past.asked, p) /\ past'.aside = Aside(op, p)
    BY <1>1, AnswerSettingsFacts
  <1>3. Told(p) BY <1>1, <1>2 DEF Told, Tells, Aside
  <1>4. QED BY <1>1, <1>2, <1>3

LEMMA ShapeKept ==
  ASSUME Shape, EndedIsGone, [Next]_vars
  PROVE  Shape' /\ mode' = mode
  <1>1. CASE UNCHANGED vars BY <1>1, StutterFacts
  <1>2. ASSUME NEW by, SqlUsers(by) PROVE Shape' /\ mode' = mode BY <1>2, SqlUsersShape
  <1>3. CASE SqlTokens BY <1>3, SqlTokensShape
  <1>4. ASSUME NEW by, SqlChanges(by) PROVE Shape' /\ mode' = mode BY <1>4, SqlChangesShape
  <1>5. CASE SqlWizard BY <1>5, SqlWizardFacts
  <1>6. ASSUME NEW t \in DOMAIN db.tokens, SqlRefresh(t) PROVE Shape' /\ mode' = mode
    BY <1>6, SqlRefreshFacts
  <1>7. ASSUME NEW c \in Slots, Begun(c) PROVE Shape' /\ mode' = mode
    BY <1>7, BegunShape DEF Begun
  <1>8. ASSUME NEW c \in Slots, CommandStep(c) PROVE Shape' /\ mode' = mode
    BY <1>8, CommandFacts
  <1>9. CASE Expire BY <1>9, ExpireFacts
  <1>10. CASE Restart BY <1>10, RestartFacts
  <1>11. QED BY <1>1, <1>2, <1>3, <1>4, <1>5, <1>6, <1>7, <1>8, <1>9, <1>10, NextCases

---------------------------------------------------------------------------
(* Tokens end once, and their renewals are counted                         *)

\* A token that has no row any more has ended, and no row is made for one that has.
Fates ==
  /\ past'.late = past.late
  /\ \/ past'.ended = past.ended /\ DOMAIN db'.tokens = DOMAIN db.tokens
     \/ past'.ended = past.ended \cup ((DOMAIN db.tokens) \ DOMAIN db'.tokens)
  /\ \A t \in DOMAIN db'.tokens : t \in DOMAIN db.tokens \/ FreshToken(t)

LEMMA CommandFates ==
  ASSUME Shape, NEW c \in Slots, CommandStep(c)
  PROVE  Fates
  <1>1. CASE ReadStep(c) BY <1>1, ReadStepFacts DEF Fates
  <1>2. CASE TokenStep(c)
    <2>1. PICK tokens : Written(db.users, tokens, db.settings) BY <1>2, TokenStepFacts
    <2>2. \A t \in DOMAIN db'.tokens : t \in DOMAIN db.tokens \/ FreshToken(t)
      BY <1>2, TokenStepFacts
    <2>3. past'.ended = Ended /\ past'.late = past.late
      BY <2>1, ShapeFacts, PastFacts DEF Written, SamePast
    <2>4. QED BY <2>2, <2>3 DEF Fates, Ended
  <1>3. CASE UserStep(c)
    <2>1. PICK users : Written(users, db.tokens, db.settings)
      BY <1>3, SaveFacts, EraseUserFacts, InsertUserFacts DEF UserStep
    <2>2. past'.ended = Ended /\ past'.late = past.late /\ db'.tokens = db.tokens
      BY <2>1, ShapeFacts, PastFacts DEF Written, SamePast
    <2>3. QED BY <2>2 DEF Fates, Ended
  <1>4. CASE DocStep(c)
    <2>1. PICK settings : Written(db.users, db.tokens, settings)
      BY <1>4, SaveMigratedFacts, SavePatchedFacts DEF DocStep
    <2>2. past'.ended = Ended /\ past'.late = past.late /\ db'.tokens = db.tokens
      BY <2>1, ShapeFacts, PastFacts DEF Written, SamePast
    <2>3. QED BY <2>2 DEF Fates, Ended
  <1>5. CASE CountAttempt(c)
    <2>1. /\ past'.late = past.late /\ past'.ended = Ended
          /\ db'.tokens = UpdateRefreshTokenAttempts(db.tokens, req[c].tok, req[c].seen + 1)
      BY <1>5, CountAttemptFacts
    <2>2. DOMAIN db'.tokens = DOMAIN db.tokens BY <2>1 DEF UpdateRefreshTokenAttempts
    <2>3. QED BY <2>1, <2>2 DEF Fates, Ended
  <1>6. CASE StoreSettings(c)
    BY <1>6, StoreSettingsFacts, ShapeFacts, PastFacts DEF Fates, SamePast
  <1>7. QED BY <1>1, <1>2, <1>3, <1>4, <1>5, <1>6, CommandCases

LEMMA FatesFacts ==
  ASSUME Shape, EndedIsGone, [Next]_vars
  PROVE  Fates
  <1>0. {"late", "ended"} \subseteq DOMAIN past BY ShapeFacts, PastFacts
  <1>1. CASE UNCHANGED vars BY <1>1, StutterFacts DEF Fates
  <1>2. ASSUME NEW by, SqlUsers(by) PROVE Fates
    BY <1>0, <1>2, SqlUsersShape DEF Fates, SamePast, Ended
  <1>3. CASE SqlTokens BY <1>0, <1>3, SqlTokensShape DEF Fates, SamePast, Ended, RowsFollow
  <1>4. ASSUME NEW by, SqlChanges(by) PROVE Fates
    BY <1>0, <1>4, SqlChangesShape DEF Fates, SamePast
  <1>5. CASE SqlWizard BY <1>0, <1>5, SqlWizardFacts DEF Fates, SamePast
  <1>6. ASSUME NEW t \in DOMAIN db.tokens, SqlRefresh(t) PROVE Fates
    <2>1. /\ db'.tokens = UpdateRefreshTokenAttempts(db.tokens, t, db.tokens[t].used + 1)
          /\ SamePast({"granted", "late"}) /\ past'.late = (past.late \/ t \in past.ended)
      BY <1>6, SqlRefreshFacts
    <2>2. DOMAIN db'.tokens = DOMAIN db.tokens BY <2>1 DEF UpdateRefreshTokenAttempts
    <2>3. past'.late = past.late BY <2>1, ShapeFacts, PastFacts DEF EndedIsGone
    <2>4. QED BY <1>0, <2>1, <2>2, <2>3 DEF Fates, SamePast
  <1>7. ASSUME NEW c \in Slots, Begun(c) PROVE Fates
    BY <1>0, <1>7 DEF Begun, Fates, SamePast
  <1>8. ASSUME NEW c \in Slots, CommandStep(c) PROVE Fates BY <1>8, CommandFates
  <1>9. CASE Expire BY <1>9, ExpireFacts DEF Fates
  <1>10. CASE Restart BY <1>0, <1>10, RestartFacts DEF Fates, SamePast
  <1>11. QED BY <1>1, <1>2, <1>3, <1>4, <1>5, <1>6, <1>7, <1>8, <1>9, <1>10, NextCases

LEMMA EndedKept ==
  ASSUME Shape, EndedIsGone, [Next]_vars
  PROVE  EndedIsGone'
  BY FatesFacts DEF Fates, EndedIsGone, FreshToken

LEMMA InitFacts ==
  ASSUME Init
  PROVE  /\ Shape /\ EndedIsGone
         /\ req = [c \in Slots |-> Idle] /\ DOMAIN db.tokens = {} /\ store = db.settings
         /\ sentry = store["sentryDiagnosticsEnabled"]
         /\ past.granted = [t \in Tokens |-> 0] /\ past.asked = [s \in {} |-> TRUE]
         /\ ~past.doubt
         /\ store["wizardCompleted"] => mode.staff # {}
         /\ \E owner \in mode.staff \cup {None} :
              db.users = [u \in mode.staff |->
                            [root |-> u = owner, verified |-> TRUE, admin |-> u = owner]]
              /\ (mode.staff # {} => owner \in mode.staff)
  <1> DEFINE owner == CHOOSE u \in mode.staff : TRUE
             users == [u \in mode.staff |->
                         [root |-> u = owner, verified |-> TRUE, admin |-> u = owner]]
  <1>1. mode \in Clients /\ mode.db \in {"sqlite", "mongo"} /\ mode.staff \subseteq Users
    BY ClientsAreValid DEF Init
  <1>2. PICK loginRequired \in BOOLEAN :
          LET settings == Booted([DefaultSettings EXCEPT !["loginRequired"] = loginRequired,
                                                      !["wizardCompleted"] = mode.staff # {}])
          IN  /\ db = [users |-> users, tokens |-> <<>>, settings |-> settings]
              /\ store = settings /\ sentry = settings["sentryDiagnosticsEnabled"]
    BY DEF Init
  <1> DEFINE first == [DefaultSettings EXCEPT !["loginRequired"] = loginRequired,
                                             !["wizardCompleted"] = mode.staff # {}]
             settings == Booted(first)
  <1>3. IsSettings(first) /\ first["wizardCompleted"] = (mode.staff # {})
    <2>1. DOMAIN DefaultSettings = Switches /\ \A s \in Switches : DefaultSettings[s] \in BOOLEAN
      BY DEF DefaultSettings
    <2>2. DOMAIN first = Switches BY <2>1
    <2>3. \A s \in Switches : first[s] \in BOOLEAN BY <2>1
    <2>4. first["wizardCompleted"] = (mode.staff # {}) BY <2>1, SettingFacts
    <2> HIDE DEF first
    <2>5. QED BY <2>2, <2>3, <2>4 DEF IsSettings
  <1> HIDE DEF first
  <1>4. IsSettings(settings) /\ settings["wizardCompleted"] = first["wizardCompleted"]
    BY <1>1, <1>3, BootedFacts
  <1>5. /\ db = [users |-> users, tokens |-> <<>>, settings |-> settings]
        /\ store = settings /\ sentry = settings["sentryDiagnosticsEnabled"]
    BY <1>2 DEF first
  <1> HIDE DEF settings
  <1>6. UsersOK(users) BY <1>1 DEF UsersOK, User
  <1>7. mode.staff # {} => owner \in mode.staff OBVIOUS
  <1>8. users = [u \in mode.staff |-> [root |-> u = owner, verified |-> TRUE, admin |-> u = owner]]
    OBVIOUS
  <1> HIDE DEF owner, users
  <1>9. /\ DOMAIN db = {"users", "tokens", "settings"} /\ db.users = users
        /\ DOMAIN db.tokens = {} /\ db.settings = settings
    BY <1>5
  <1>10. sentry \in BOOLEAN BY <1>4, <1>5, SettingFacts DEF IsSettings
  <1>11. req = [c \in Slots |-> Idle] BY DEF Init
  <1>12. past = [opened |-> FALSE, overlapped |-> FALSE, cut |-> FALSE,
                 granted |-> [t \in Tokens |-> 0], raced |-> {}, ended |-> {}, late |-> FALSE,
                 asked |-> [s \in {} |-> TRUE], doubt |-> FALSE, aside |-> FALSE]
    BY DEF Init
  <1>13. IsPast(past)
    <2>1. [t \in Tokens |-> 0] \in [Tokens -> Nat] OBVIOUS
    <2>2. past = [x \in DOMAIN past |-> past[x]] BY <1>12
    <2>3. QED BY <1>12, <2>1, <2>2, PastOK
  <1>14. Shape
    <2>1. TypeOK BY <1>1, <1>4, <1>5, <1>6, <1>9, <1>10, <1>13 DEF TypeOK, UsersOK
    <2>2. \A c \in Slots : RequestOK(req[c]) /\ req[c] = Idle
      BY <1>11, IdleFacts DEF RequestOK
    <2>3. req = [c \in Slots |-> req[c]] BY <1>11
    <2>4. QED BY <1>9, <2>1, <2>2, <2>3 DEF Shape
  <1>15. EndedIsGone BY <1>12 DEF EndedIsGone
  <1>16. store = db.settings /\ sentry = store["sentryDiagnosticsEnabled"] BY <1>5, <1>9
  <1>17. /\ past.granted = [t \in Tokens |-> 0] /\ past.asked = [s \in {} |-> TRUE]
         /\ ~past.doubt
    BY <1>12
  <1>18. store["wizardCompleted"] => mode.staff # {} BY <1>3, <1>4, <1>5
  <1>19. \E o \in mode.staff \cup {None} :
           /\ db.users = [u \in mode.staff |->
                            [root |-> u = o, verified |-> TRUE, admin |-> u = o]]
           /\ (mode.staff # {} => o \in mode.staff)
    <2>1. CASE mode.staff = {} BY <1>8, <1>9, <2>1
    <2>2. CASE mode.staff # {} BY <1>7, <1>8, <1>9, <2>2
    <2>3. QED BY <2>1, <2>2
  <1>20. QED BY <1>9, <1>11, <1>14, <1>15, <1>16, <1>17, <1>18, <1>19

\* The state keeps the values its rows, settings and requests may have, and a token that
\* ended has no row: what every other theorem about Accounts builds on.
THEOREM AccountsShaped == Spec => [](Shape /\ EndedIsGone)
  <1>1. Init => Shape /\ EndedIsGone BY InitFacts
  <1>2. Shape /\ EndedIsGone /\ [Next]_vars => (Shape /\ EndedIsGone)'
    BY ShapeKept, EndedKept
  <1>3. QED BY <1>1, <1>2, PTL DEF Spec

\* The users, sessions and settings have the values their rows may have.
THEOREM AccountsTypeCorrect == Spec => []TypeOK
  <1>1. Shape => TypeOK BY DEF Shape
  <1>2. QED BY <1>1, AccountsShaped, PTL

\* A session that has ended stays ended: no renewal that comes later is answered.
THEOREM NoRenewalIsLate == Spec => []NoLateRenewal
  <1>1. EndedIsGone => NoLateRenewal BY DEF EndedIsGone, NoLateRenewal
  <1>2. QED BY <1>1, AccountsShaped, PTL

\* How the slots of requests change in one step.
Slotted == \A c \in Slots :
  \/ req'[c] = Idle \/ req'[c] = req[c]
  \/ CommandStep(c) /\ Follows(c)
  \/ Begun(c)

LEMMA SlottedFacts ==
  ASSUME Shape, EndedIsGone, [Next]_vars
  PROVE  Slotted
  <1>1. CASE UNCHANGED vars BY <1>1, StutterFacts DEF Slotted
  <1>2. ASSUME NEW by, SqlUsers(by) PROVE Slotted BY <1>2, SqlUsersShape DEF Slotted
  <1>3. CASE SqlTokens BY <1>3, SqlTokensShape DEF Slotted
  <1>4. ASSUME NEW by, SqlChanges(by) PROVE Slotted BY <1>4, SqlChangesShape DEF Slotted
  <1>5. CASE SqlWizard BY <1>5, SqlWizardFacts DEF Slotted
  <1>6. ASSUME NEW t \in DOMAIN db.tokens, SqlRefresh(t) PROVE Slotted
    BY <1>6, SqlRefreshFacts DEF Slotted
  <1>7. ASSUME NEW c \in Slots, Begun(c) PROVE Slotted BY <1>7 DEF Begun, Slotted
  <1>8. ASSUME NEW c \in Slots, CommandStep(c) PROVE Slotted
    <2>1. Follows(c) BY <1>8, CommandFacts
    <2>2. \A d \in Slots : d # c => req'[d] = req[d] BY <2>1 DEF Follows
    <2>3. QED BY <1>8, <2>1, <2>2 DEF Slotted
  <1>9. CASE Expire BY <1>9, ExpireFacts DEF Slotted
  <1>10. CASE Restart BY <1>10, RestartFacts DEF Slotted
  <1>11. QED BY <1>1, <1>2, <1>3, <1>4, <1>5, <1>6, <1>7, <1>8, <1>9, <1>10, NextCases

\* A counter is seen only where a request has read it.
LEMMA CommandChecks ==
  ASSUME Shape, NEW c \in Slots, CommandStep(c), req'[c] # Idle, req'[c].at \in {"check", "count"}
  PROVE  \/ /\ req'[c].at = "check" /\ req[c].tok \in DOMAIN db.tokens
            /\ req'[c].seen = db.tokens[req[c].tok].used /\ ~Exceeded(db.tokens[req[c].tok].used)
         \/ req[c].at = "check" /\ req'[c].seen = req[c].seen
  <1>1. CASE ReadStep(c)
    <2>1. CASE AttemptsUsed(c) BY <2>1, AttemptsUsedFacts
    <2>2. CASE CheckToken(c) BY <2>2, CheckTokenFacts
    <2>3. CASE GetUser(c)
      <3>1. /\ req'[c].at = AfterGet(req[c], db.users[req[c].to])
            /\ req[c].op \in {"delete", "verify", "root", "roles"}
        BY <2>3, GetUserFacts, StageFacts DEF Shape
      <3>2. QED BY <3>1 DEF AfterGet
    <2>4. QED
      BY <1>1, <2>1, <2>2, <2>3, IsUserRootUserFacts, OwnUserFacts, FindRootUsersFacts,
         FindVerifiedUsersFacts, FindUsersByRoleIdFacts, SignJwtTokenFacts, RenewGetUserFacts,
         FindSettingsFacts DEF ReadStep
  <1>2. CASE TokenStep(c) BY <1>2, TokenStepFacts
  <1>3. CASE UserStep(c) BY <1>3, SaveFacts, EraseUserFacts, InsertUserFacts DEF UserStep
  <1>4. CASE DocStep(c) BY <1>4, SaveMigratedFacts, SavePatchedFacts DEF DocStep
  <1>5. CASE CountAttempt(c) BY <1>5, CountAttemptFacts
  <1>6. CASE StoreSettings(c) BY <1>6, StoreSettingsFacts
  <1>7. QED BY <1>1, <1>2, <1>3, <1>4, <1>5, <1>6, CommandCases

\* A renewal in a slot is of a token that has ended or has a row.
RenewedAre == \A c \in Slots : req[c].op = "renew" => req[c].tok \in past.ended \cup DOMAIN db.tokens

\* What is counted of a token whose renewals do not overlap.
Counted(t) ==
  /\ past.granted[t] <= mode.attempts
  /\ t \in DOMAIN db.tokens => past.granted[t] <= db.tokens[t].used
  /\ t \notin past.ended \cup DOMAIN db.tokens => past.granted[t] = 0
  /\ \A c \in Slots : req[c].tok = t =>
       /\ req[c].at \in {"check", "count"} =>
            past.granted[t] <= req[c].seen /\ req[c].seen < mode.attempts
       /\ \A d \in Slots : req[d].tok = t => c = d

\* Nothing is granted, and the rows keep their counters.
Spared ==
  /\ past'.granted = past.granted /\ past.raced \subseteq past'.raced
  /\ \A t \in DOMAIN db'.tokens :
       \/ t \in DOMAIN db.tokens /\ db'.tokens[t].used = db.tokens[t].used
       \/ FreshToken(t) /\ db'.tokens[t].used = 0

LEMMA SparedFacts ==
  ASSUME Shape, EndedIsGone, [Next]_vars
  PROVE  \/ Spared
         \/ \E t \in DOMAIN db.tokens : SqlRefresh(t)
         \/ \E c \in Slots : CountAttempt(c)
  <1>0. {"granted", "raced"} \subseteq DOMAIN past BY ShapeFacts, PastFacts
  <1>1. CASE UNCHANGED vars BY <1>1, StutterFacts DEF Spared
  <1>2. ASSUME NEW by, SqlUsers(by) PROVE Spared
    BY <1>0, <1>2, SqlUsersShape DEF Spared, SamePast
  <1>3. CASE SqlTokens BY <1>0, <1>3, SqlTokensShape DEF Spared, SamePast, RowsFollow
  <1>4. ASSUME NEW by, SqlChanges(by) PROVE Spared
    BY <1>0, <1>4, SqlChangesShape DEF Spared, SamePast
  <1>5. CASE SqlWizard BY <1>0, <1>5, SqlWizardFacts DEF Spared, SamePast
  <1>6. ASSUME NEW c \in Slots, Begun(c) PROVE Spared
    BY <1>0, <1>6 DEF Begun, Spared, SamePast
  <1>7. ASSUME NEW c \in Slots, CommandStep(c), ~CountAttempt(c) PROVE Spared
    <2>1. CASE ReadStep(c) BY <2>1, ReadStepFacts DEF Spared
    <2>2. CASE TokenStep(c)
      <3>1. \A t \in DOMAIN db'.tokens :
              \/ t \in DOMAIN db.tokens /\ db'.tokens[t] = db.tokens[t]
              \/ FreshToken(t) /\ db'.tokens[t].used = 0
        BY <2>2, TokenStepFacts
      <3>2. SamePast({"ended"}) BY <2>2, TokenStepFacts DEF Written
      <3>3. QED BY <1>0, <3>1, <3>2 DEF Spared, SamePast
    <2>3. CASE UserStep(c)
      <3>1. PICK users : Written(users, db.tokens, db.settings)
        BY <2>3, SaveFacts, EraseUserFacts, InsertUserFacts DEF UserStep
      <3>2. QED BY <1>0, <3>1 DEF Written, Spared, SamePast
    <2>4. CASE DocStep(c)
      <3>1. PICK settings : Written(db.users, db.tokens, settings)
        BY <2>4, SaveMigratedFacts, SavePatchedFacts DEF DocStep
      <3>2. QED BY <1>0, <3>1 DEF Written, Spared, SamePast
    <2>5. CASE StoreSettings(c) BY <1>0, <2>5, StoreSettingsFacts DEF Spared, SamePast
    <2>6. QED BY <1>7, <2>1, <2>2, <2>3, <2>4, <2>5, CommandCases
  <1>8. CASE Expire BY <1>8, ExpireFacts DEF Spared
  <1>9. CASE Restart BY <1>0, <1>9, RestartFacts DEF Spared, SamePast
  <1>10. QED BY <1>1, <1>2, <1>3, <1>4, <1>5, <1>6, <1>7, <1>8, <1>9, NextCases

LEMMA RenewedKept ==
  ASSUME Shape, EndedIsGone, RenewedAre, [Next]_vars
  PROVE  RenewedAre'
  <1>1. past.ended \cup DOMAIN db.tokens \subseteq past'.ended \cup DOMAIN db'.tokens
    BY FatesFacts DEF Fates
  <1>2. SUFFICES ASSUME NEW c \in Slots, req'[c].op = "renew"
                 PROVE  req'[c].tok \in past.ended \cup DOMAIN db.tokens
    BY <1>1 DEF RenewedAre
  <1>3. req'[c] # Idle BY <1>2, IdleFacts
  <1>4. CASE req'[c] = req[c] BY <1>2, <1>4 DEF RenewedAre
  <1>5. CASE Follows(c) BY <1>2, <1>3, <1>5 DEF Follows, RenewedAre
  <1>6. CASE Begun(c) BY <1>2, <1>6 DEF Begun, ComesAs
  <1>7. QED BY <1>3, <1>4, <1>5, <1>6, SlottedFacts DEF Slotted

\* At most one request renews the token, and what it has read is not out of date.
LEMMA RequestsCounted ==
  ASSUME Shape, EndedIsGone, [Next]_vars, NEW t \in Tokens, mode.attempts \in Nat,
         t \notin past'.raced, past'.granted = past.granted, Counted(t),
         NEW c \in Slots, req'[c].tok = t
  PROVE  /\ req'[c].at \in {"check", "count"} =>
              past'.granted[t] <= req'[c].seen /\ req'[c].seen < mode.attempts
         /\ \A d \in Slots : req'[d].tok = t => c = d
  <1>1. \A d \in Slots : req'[d].tok = t => req'[d] # Idle BY IdleFacts, ShapeFacts
  <1>2. \A d \in Slots : req[d].tok = t => req[d].op = "renew"
    <2>1. SUFFICES ASSUME NEW d \in Slots, req[d].tok = t PROVE req[d].op = "renew" OBVIOUS
    <2>2. RequestOK(req[d]) /\ t # None BY ShapeFacts DEF Shape
    <2>3. QED BY <2>1, <2>2, IdleFacts DEF RequestOK
  <1>3. \A d \in Slots : req'[d].tok = t => req[d].tok = t \/ Begun(d)
    BY <1>1, SlottedFacts DEF Slotted, Follows
  <1>4. ASSUME NEW d \in Slots, Begun(d), req'[d].tok = t, NEW e \in Slots, req'[e].tok = t
        PROVE  d = e
    <2>1. SUFFICES ASSUME d # e PROVE FALSE OBVIOUS
    <2>2. req'[e] = req[e] BY <1>4, <2>1 DEF Begun
    <2>3. Renewing(t) BY <1>2, <1>4, <2>2 DEF Renewing
    <2>4. past'.raced = past.raced \cup {x \in {req'[d].tok} \ {None} : Renewing(x)}
      BY <1>4 DEF Begun
    <2>5. t \in past'.raced BY <1>4, <2>3, <2>4, ShapeFacts
    <2>6. QED BY <2>5
  <1>5. \A d \in Slots : req'[d].tok = t => c = d BY <1>3, <1>4 DEF Counted
  <1>6. ASSUME req'[c].at \in {"check", "count"}
        PROVE  past.granted[t] <= req'[c].seen /\ req'[c].seen < mode.attempts
    <2>1. CASE req'[c] = req[c] BY <1>6, <2>1 DEF Counted
    <2>2. CASE CommandStep(c) /\ Follows(c)
      <3>1. req[c].tok = t BY <1>1, <2>2 DEF Follows
      <3>2. CASE req'[c].at = "check" /\ t \in DOMAIN db.tokens
                 /\ req'[c].seen = db.tokens[t].used /\ ~Exceeded(db.tokens[t].used)
        <4>1. past.granted[t] <= db.tokens[t].used BY <3>2 DEF Counted
        <4>2. db.tokens[t].used \in Nat BY <3>2, ShapeFacts DEF TokensOK, Token
        <4>3. db.tokens[t].used < mode.attempts BY <3>2, <4>2 DEF Exceeded
        <4>4. QED BY <3>2, <4>1, <4>3
      <3>3. CASE req[c].at = "check" /\ req'[c].seen = req[c].seen BY <3>1, <3>3 DEF Counted
      <3>4. QED BY <1>1, <1>6, <2>2, <3>1, <3>2, <3>3, CommandChecks
    <2>3. CASE Begun(c) BY <1>6, <2>3 DEF Begun, ComesAs
    <2>4. QED BY <1>1, <2>1, <2>2, <2>3, SlottedFacts DEF Slotted
  <1>7. QED BY <1>5, <1>6

LEMMA CountedBySpared ==
  ASSUME Shape, EndedIsGone, [Next]_vars, NEW t \in Tokens, mode.attempts \in Nat,
         t \notin past'.raced, Counted(t), Spared
  PROVE  Counted(t)'
  <1>1. mode' = mode /\ past'.granted = past.granted BY ShapeKept DEF Spared
  <1>2. past'.granted[t] <= mode'.attempts BY <1>1 DEF Counted
  <1>3. t \in DOMAIN db'.tokens => past'.granted[t] <= db'.tokens[t].used
    BY <1>1 DEF Counted, Spared, FreshToken
  <1>4. t \notin past'.ended \cup DOMAIN db'.tokens => past'.granted[t] = 0
    BY <1>1, FatesFacts DEF Counted, Fates
  <1>5. \A c \in Slots : req'[c].tok = t =>
          /\ req'[c].at \in {"check", "count"} =>
               past'.granted[t] <= req'[c].seen /\ req'[c].seen < mode'.attempts
          /\ \A d \in Slots : req'[d].tok = t => c = d
    BY <1>1, RequestsCounted
  <1>6. QED BY <1>2, <1>3, <1>4, <1>5 DEF Counted

\* A renewal that is granted is counted in the row, unless the row is gone.
LEMMA CountedByGrant ==
  ASSUME Shape, NEW t \in Tokens, mode.attempts \in Nat, t \notin past.raced, Counted(t),
         NEW u \in Tokens, NEW used \in Nat, past'.granted = Granted(u), mode' = mode,
         past.granted[u] <= used \/ u \in past.raced, used < mode.attempts \/ u \in past.raced,
         db'.tokens = UpdateRefreshTokenAttempts(db.tokens, u, used + 1),
         u \in past.ended \cup DOMAIN db.tokens,
         past.ended \subseteq past'.ended
  PROVE  /\ past'.granted[t] <= mode'.attempts
         /\ t \in DOMAIN db'.tokens => past'.granted[t] <= db'.tokens[t].used
         /\ t \notin past'.ended \cup DOMAIN db'.tokens => past'.granted[t] = 0
  <1>1. past.granted \in [Tokens -> Nat] BY ShapeFacts, PastFacts
  <1>2. /\ DOMAIN db'.tokens = DOMAIN db.tokens
        /\ \A x \in DOMAIN db.tokens : x # u => db'.tokens[x] = db.tokens[x]
        /\ u \in DOMAIN db.tokens => db'.tokens[u].used = used + 1
    BY ShapeFacts DEF UpdateRefreshTokenAttempts, TokensOK, Token
  <1>3. CASE t # u BY <1>1, <1>3, <1>2 DEF Granted, Counted
  <1>4. CASE t = u
    <2>1. past.granted[t] <= used /\ used < mode.attempts /\ past.granted[t] \in Nat
      BY <1>1, <1>4
    <2>2. past'.granted[t] \in {past.granted[t], past.granted[t] + 1}
      BY <1>1, <1>4 DEF Granted
    <2>3. past'.granted[t] <= used + 1 /\ past'.granted[t] <= mode.attempts BY <2>1, <2>2
    <2>4. QED BY <1>2, <1>4, <2>3
  <1>5. QED BY <1>3, <1>4

LEMMA CountedKept ==
  ASSUME Shape, EndedIsGone, RenewedAre, [Next]_vars, NEW t \in Tokens, mode.attempts # -1,
         t \notin past.raced => Counted(t), t \notin past'.raced,
         \A u \in Tokens : u \notin past.raced => Counted(u)
  PROVE  Counted(t)'
  <1>1. mode.attempts \in Nat /\ mode' = mode BY ShapeFacts, ShapeKept
  <1>2. CASE Spared BY <1>2, <1>1, CountedBySpared DEF Spared
  <1>3. ASSUME NEW u \in DOMAIN db.tokens, SqlRefresh(u)
        PROVE  Counted(t)'
    <2>1. /\ mode.db = "sqlite" /\ req' = req
          /\ db'.tokens = UpdateRefreshTokenAttempts(db.tokens, u, db.tokens[u].used + 1)
          /\ SamePast({"granted", "late"}) /\ past'.granted = Granted(u)
          /\ ~Exceeded(db.tokens[u].used)
      BY <1>3, SqlRefreshFacts
    <2>2. past'.raced = past.raced /\ past'.ended = past.ended
      BY <2>1, ShapeFacts, PastFacts DEF SamePast
    <2>3. u \in Tokens /\ db.tokens[u].used \in Nat BY ShapeFacts DEF TokensOK, Token
    <2>4. db.tokens[u].used < mode.attempts BY <1>1, <2>1, <2>3 DEF Exceeded
    <2>5. past.granted[u] <= db.tokens[u].used \/ u \in past.raced BY <2>3 DEF Counted
    <2> DEFINE used == db.tokens[u].used
    <2> HIDE DEF used
    <2>6. /\ used \in Nat /\ used < mode.attempts
          /\ past.granted[u] <= used \/ u \in past.raced
          /\ db'.tokens = UpdateRefreshTokenAttempts(db.tokens, u, used + 1)
      BY <2>1, <2>3, <2>4, <2>5 DEF used
    <2>7. /\ past'.granted[t] <= mode'.attempts
          /\ t \in DOMAIN db'.tokens => past'.granted[t] <= db'.tokens[t].used
          /\ t \notin past'.ended \cup DOMAIN db'.tokens => past'.granted[t] = 0
      BY <1>1, <2>1, <2>2, <2>3, <2>6, CountedByGrant
    <2>8. \A c \in Slots : req'[c].tok # t BY <2>1, ShapeFacts, IdleFacts DEF Shape
    <2>9. QED BY <2>7, <2>8 DEF Counted
  <1>4. ASSUME NEW c \in Slots, CountAttempt(c)
        PROVE  Counted(t)'
    <2> DEFINE u == req[c].tok
               used == req[c].seen
    <2>1. /\ Follows(c) /\ req[c].at = "count" /\ req'[c] = Idle /\ req[c].op = "renew"
          /\ u \in Tokens /\ used \in Nat
          /\ db'.tokens = UpdateRefreshTokenAttempts(db.tokens, u, used + 1)
          /\ SamePast({"granted", "late", "ended"}) /\ past'.granted = Granted(u)
          /\ past'.ended = Ended
      BY <1>4, CountAttemptFacts
    <2>2. past'.raced = past.raced /\ past.ended \subseteq past'.ended
      BY <2>1, ShapeFacts, PastFacts DEF SamePast, Ended
    <2>3. (past.granted[u] <= used /\ used < mode.attempts) \/ u \in past.raced
      BY <2>1 DEF Counted
    <2>4. u \in past.ended \cup DOMAIN db.tokens BY <2>1 DEF RenewedAre
    <2>5. \A d \in Slots : req'[d].tok = t =>
            /\ req[d] = req'[d] /\ req[d].tok = t /\ d # c
      BY <2>1, ShapeFacts, IdleFacts DEF Follows
    <2> HIDE DEF u, used
    <2>6. /\ past'.granted[t] <= mode'.attempts
          /\ t \in DOMAIN db'.tokens => past'.granted[t] <= db'.tokens[t].used
          /\ t \notin past'.ended \cup DOMAIN db'.tokens => past'.granted[t] = 0
      BY <1>1, <2>1, <2>2, <2>3, <2>4, CountedByGrant
    <2>7. \A d \in Slots : req'[d].tok = t => t # u
      <3>1. SUFFICES ASSUME NEW d \in Slots, req'[d].tok = t, t = u PROVE FALSE OBVIOUS
      <3>2. req[d].tok = t /\ d # c /\ req[c].tok = t BY <2>5, <3>1 DEF u
      <3>3. QED BY <2>2, <3>2 DEF Counted
    <2>8. past.granted \in [Tokens -> Nat] BY ShapeFacts, PastFacts
    <2>9. t # u => past'.granted[t] = past.granted[t] BY <2>1, <2>8 DEF Granted
    <2>10. \A d \in Slots : req'[d].tok = t =>
             /\ req'[d].at \in {"check", "count"} =>
                  past'.granted[t] <= req'[d].seen /\ req'[d].seen < mode'.attempts
             /\ \A e \in Slots : req'[e].tok = t => d = e
      BY <1>1, <2>2, <2>5, <2>7, <2>9 DEF Counted
    <2>11. QED BY <2>6, <2>10 DEF Counted
  <1>5. QED BY <1>2, <1>3, <1>4, SparedFacts

AttemptsCounted ==
  RenewedAre /\ \A t \in Tokens : mode.attempts # -1 /\ t \notin past.raced => Counted(t)

\* A refresh token renews a login at most refreshTokenAttempts times, unless renewals of
\* that very token overlap.
THEOREM RenewalsAreBounded == Spec => []AttemptsBound
  <1>1. Init => AttemptsCounted
    <2>1. SUFFICES ASSUME Init PROVE AttemptsCounted OBVIOUS
    <2>2. /\ Shape /\ req = [c \in Slots |-> Idle] /\ DOMAIN db.tokens = {}
          /\ past.granted = [t \in Tokens |-> 0]
      BY <2>1, InitFacts
    <2>3. \A c \in Slots : req[c].tok = None /\ req[c].op = "idle" BY <2>2, IdleFacts
    <2>4. mode.attempts \in Nat \cup {-1} /\ None \notin Tokens BY <2>2, ShapeFacts
    <2>5. ASSUME NEW t \in Tokens, mode.attempts # -1 PROVE Counted(t)
      BY <2>2, <2>3, <2>4, <2>5 DEF Counted
    <2>6. QED BY <2>3, <2>5 DEF AttemptsCounted, RenewedAre
  <1>2. Shape /\ EndedIsGone /\ AttemptsCounted /\ [Next]_vars => AttemptsCounted'
    <2>1. SUFFICES ASSUME Shape, EndedIsGone, AttemptsCounted, [Next]_vars
                   PROVE  AttemptsCounted'
      OBVIOUS
    <2>2. mode' = mode /\ RenewedAre' BY <2>1, ShapeKept, RenewedKept DEF AttemptsCounted
    <2>3. ASSUME NEW t \in Tokens, mode'.attempts # -1, t \notin past'.raced
          PROVE  Counted(t)'
      <3>1. mode.attempts # -1 /\ RenewedAre BY <2>1, <2>2, <2>3 DEF AttemptsCounted
      <3>2. \A u \in Tokens : u \notin past.raced => Counted(u)
        BY <2>1, <3>1 DEF AttemptsCounted
      <3>3. QED BY <2>1, <2>3, <3>1, <3>2, CountedKept
    <2>4. QED BY <2>2, <2>3 DEF AttemptsCounted
  <1>3. AttemptsCounted => AttemptsBound BY DEF AttemptsCounted, AttemptsBound, Counted
  <1>4. QED BY <1>1, <1>2, <1>3, AccountsShaped, PTL DEF Spec

---------------------------------------------------------------------------
(***************************************************************************)
(* The server keeps an owner, an administrator, owners of its sessions and *)
(* the settings it answered. Each invariant has an inductive part of its   *)
(* own, which says what a request under way has already made sure of.      *)
(***************************************************************************)

\* One request at a time.
Lone == ~past.overlapped =>
  \A c, d \in Slots : req[c] # Idle /\ req[d] # Idle => c = d

\* The wizard has been completed, or its user is there and its settings are to follow.
WizardDone ==
  \/ db.settings["wizardCompleted"] \/ store["wizardCompleted"]
  \/ \E c \in Slots : \/ req[c].op = "wizard" /\ req[c].at \in Storing
                      \/ req[c].at \in Storing \ {"read"} /\ req[c].seen["wizardCompleted"]

\* The name of a user to be inserted is still free.
InsertsNew == ~past.overlapped =>
  \A c \in Slots : req[c].at = "insert" => ~Known(db.users, req[c].to)

\* There is an owner, and a request that was found not to take away the last one will not.
RootsHeld == mode.db = "mongo" /\ ~past.overlapped =>
  /\ WizardDone => RootUsers(db.users) # {}
  /\ \A c \in Slots : req[c].op = "root" => RootUsers(db.users) # {}
  /\ \A c \in Slots :
       /\ req[c].op = "root" /\ req[c].at = "save" /\ ~req[c].val =>
            RootUsers(db.users) \ {req[c].to} # {}
       /\ req[c].op = "delete" /\ req[c].at \in {"admins", "erase"} =>
            req[c].to \notin RootUsers(db.users)

AdminIn(users, u) == Known(users, u) /\ users[u].verified /\ users[u].admin

Administers(u) == AdminIn(db.users, u)

\* There is an administrator; who changes others is one, and does not give up being it.
AdminHeld == ~past.opened /\ ~past.overlapped =>
  /\ WizardDone => \E u \in Users : Administers(u)
  /\ \A c \in Slots : req[c].op \in {"delete", "verify", "roles"} =>
       /\ Administers(req[c].by)
       /\ req[c].op # "roles" => req[c].by # req[c].to
       /\ req[c].at \in {"get", "save"} /\ req[c].op = "roles" /\ req[c].by = req[c].to => req[c].val

\* A token belongs to a user, or is of one whose deletion has still to delete it.
SessionsOwned == ~past.overlapped /\ ~past.cut =>
  /\ \A t \in DOMAIN db.tokens :
       \/ Known(db.users, db.tokens[t].user)
       \/ \E c \in Slots : /\ req[c].op = "delete" /\ req[c].at = "tokens"
                           /\ req[c].to = db.tokens[t].user
  /\ \A c \in Slots : req[c].op = "login" /\ req[c].at \in {"purge", "token"} =>
       Known(db.users, req[c].to)

\* Settings that agree with those asked for.
Agree(settings, asked) == \A s \in DOMAIN asked : s \in DOMAIN settings /\ settings[s] = asked[s]

SentryHeld ==
  "sentryDiagnosticsEnabled" \in DOMAIN past.asked /\ ~past.aside =>
    sentry = past.asked["sentryDiagnosticsEnabled"]

\* A request changes no setting of which something is known, and has read those that are.
Apart(r, asked) ==
  /\ "autoRemoveOldFilesAtBoot" \notin DOMAIN asked
  /\ \A i \in 1..Len(r.val) : DOMAIN r.val[i].fields \cap DOMAIN asked = {}
  /\ r.at \in Storing \ {"read"} => Agree(r.seen, asked)

\* Its answer is what the document has, with the first of its patches.
Answers(r, settings) == r.at = "answer" => settings = r.seen /\ Agree(r.seen, r.val[1].fields)

\* What was asked for is stored and cached, and no request under way will write it back.
SettingsHeld ==
  /\ Agree(db.settings, past.asked) /\ Agree(store, past.asked) /\ SentryHeld
  /\ past.doubt => mode.db = "mongo" /\ DOMAIN past.asked = {}
  /\ ~past.doubt => \A c, d \in Slots :
       req[c].op \in SettingsOps /\ req[d].op \in SettingsOps => c = d
  /\ \A c \in Slots : req[c].op \in SettingsOps =>
       Apart(req[c], past.asked) /\ (~past.doubt => Answers(req[c], db.settings))

---------------------------------------------------------------------------
(* Requests that do not overlap                                            *)

\* What has happened is not forgotten, and a request that comes to others overlaps.
Remembered ==
  /\ past.opened => past'.opened
  /\ past.overlapped => past'.overlapped
  /\ past.cut => past'.cut

LEMMA RememberedFacts ==
  ASSUME Shape, EndedIsGone, [Next]_vars
  PROVE  Remembered
  <1>0. {"opened", "overlapped", "cut"} \subseteq DOMAIN past BY ShapeFacts, PastFacts
  <1>1. CASE UNCHANGED vars BY <1>1, StutterFacts DEF Remembered
  <1>2. ASSUME NEW by, SqlUsers(by) PROVE Remembered
    <2>1. PICK op, b, users : UsersOK(users) /\ AnswerUsers(op, b, users)
      BY <1>2, SqlUsersFacts
    <2>2. Answer(op, b) BY <2>1, AnswerUsersFacts
    <2>3. SamePast({"opened", "ended"}) /\ past'.opened = (past.opened \/ b = None)
      BY <2>2, AnswerFacts
    <2>4. QED BY <1>0, <2>3 DEF Remembered, SamePast
  <1>3. CASE SqlTokens BY <1>0, <1>3, SqlTokensShape DEF Remembered, SamePast
  <1>4. ASSUME NEW by, SqlChanges(by) PROVE Remembered
    BY <1>0, <1>4, SqlChangesShape DEF Remembered, SamePast
  <1>5. CASE SqlWizard BY <1>0, <1>5, SqlWizardFacts DEF Remembered, SamePast
  <1>6. ASSUME NEW t \in DOMAIN db.tokens, SqlRefresh(t) PROVE Remembered
    BY <1>0, <1>6, SqlRefreshFacts DEF Remembered, SamePast
  <1>7. ASSUME NEW c \in Slots, Begun(c) PROVE Remembered
    BY <1>0, <1>7 DEF Begun, Remembered, SamePast
  <1>8. ASSUME NEW c \in Slots, CommandStep(c) PROVE Remembered
    BY <1>0, <1>8, CommandFacts DEF Remembered, SamePast
  <1>9. CASE Expire BY <1>9, ExpireFacts DEF Remembered
  <1>10. CASE Restart BY <1>0, <1>10, RestartFacts DEF Remembered, SamePast
  <1>11. QED BY <1>1, <1>2, <1>3, <1>4, <1>5, <1>6, <1>7, <1>8, <1>9, <1>10, NextCases

LEMMA LoneKept ==
  ASSUME Shape, EndedIsGone, Lone, [Next]_vars
  PROVE  Lone'
  <1>1. SUFFICES ASSUME ~past'.overlapped, NEW c \in Slots, NEW d \in Slots,
                        req'[c] # Idle, req'[d] # Idle, c # d
                 PROVE  FALSE
    BY DEF Lone
  <1>2. ~past.overlapped BY <1>1, RememberedFacts DEF Remembered
  <1>3. ASSUME NEW e \in Slots, req'[e] # Idle PROVE req[e] # Idle \/ Begun(e)
    BY <1>3, SlottedFacts, CommandFacts DEF Slotted
  <1>4. ASSUME NEW e \in Slots, Begun(e) PROVE \A f \in Slots : f # e => req'[f] = Idle
    BY <1>1, <1>4 DEF Begun, AllIdle
  <1>5. QED BY <1>1, <1>2, <1>3, <1>4 DEF Lone

\* With one request at a time, a command finds the other slots idle and leaves them so.
LEMMA LoneCommand ==
  ASSUME Shape, EndedIsGone, Lone, [Next]_vars, ~past'.overlapped, NEW c \in Slots, CommandStep(c)
  PROVE  \A d \in Slots : d # c => req[d] = Idle /\ req'[d] = Idle
  <1>1. ~past.overlapped BY RememberedFacts DEF Remembered
  <1>2. Follows(c) /\ req[c] # Idle BY CommandFacts
  <1>3. QED BY <1>1, <1>2 DEF Lone, Follows

LEMMA LoneBegun ==
  ASSUME NEW c \in Slots, Begun(c), ~past'.overlapped
  PROVE  \A d \in Slots : req[d] = Idle /\ (d # c => req'[d] = Idle)
  BY DEF Begun, AllIdle

\* The steps with MongoDB.
LEMMA MongoCases ==
  ASSUME Shape, EndedIsGone, [Next]_vars, mode.db = "mongo"
  PROVE  \/ UNCHANGED vars
         \/ \E c \in Slots : Begun(c)
         \/ \E c \in Slots : CommandStep(c)
         \/ Expire \/ Restart
  <1>1. ASSUME NEW by, SqlUsers(by) PROVE FALSE BY <1>1, SqlUsersShape
  <1>2. ASSUME SqlTokens PROVE FALSE BY <1>2, SqlTokensShape
  <1>3. ASSUME NEW by, SqlChanges(by) PROVE FALSE BY <1>3, SqlChangesShape
  <1>4. ASSUME SqlWizard PROVE FALSE BY <1>4, SqlWizardFacts
  <1>5. ASSUME NEW t \in DOMAIN db.tokens, SqlRefresh(t) PROVE FALSE
    BY <1>5, SqlRefreshFacts
  <1>6. QED BY <1>1, <1>2, <1>3, <1>4, <1>5, NextCases

---------------------------------------------------------------------------
(* The users that are there when the wizard has been completed             *)

\* Where a command has read the settings, it was in a request for settings.
LEMMA StoringCommand ==
  ASSUME Shape, NEW c \in Slots, CommandStep(c), req'[c] # Idle, req'[c].at \in Storing
  PROVE  FindSettings(c) \/ InsertUser(c) \/ DocStep(c) \/ StoreSettings(c)
  <1>1. RequestOK(req[c]) /\ RequestOK(req'[c]) /\ Follows(c) /\ req'[c].op = req[c].op
    BY CommandFacts DEF Shape, Follows
  <1>2. req[c].op \in SettingsOps BY <1>1, StageFacts
  <1>3. req[c].at \in {"insert"} \cup Storing
    BY <1>1, <1>2, StageFacts, IdleFacts DEF RequestOK, Stages, SettingsOps
  <1>4. ~SignJwtToken(c) /\ ~RenewGetUser(c) /\ ~AttemptsUsed(c) /\ ~CheckToken(c)
    BY <1>3, SignJwtTokenFacts, RenewGetUserFacts, AttemptsUsedFacts, CheckTokenFacts DEF Storing
  <1>5. ~IsUserRootUser(c) /\ ~OwnUser(c) /\ ~GetUser(c) /\ ~FindRootUsers(c)
    BY <1>3, IsUserRootUserFacts, OwnUserFacts, GetUserFacts, FindRootUsersFacts DEF Storing
  <1>6. ~FindVerifiedUsers(c) /\ ~FindUsersByRoleId(c) /\ ~Save(c) /\ ~EraseUser(c)
    BY <1>3, FindVerifiedUsersFacts, FindUsersByRoleIdFacts, SaveFacts, EraseUserFacts DEF Storing
  <1>7. ~TokenStep(c) /\ ~CountAttempt(c)
    BY <1>3, DeleteTokensFacts, PurgeOutdatedFacts, InsertTokenFacts, DropTokenFacts,
       CountAttemptFacts DEF Storing, TokenStep
  <1>8. QED BY <1>4, <1>5, <1>6, <1>7, CommandCases DEF ReadStep, UserStep

\* The wizard is done only by a wizard that inserts its user.
WizardInserts ==
  SqlWizard \/ \E c \in Slots : InsertUser(c) /\ req[c].op = "wizard"

LEMMA WizardDoneFacts ==
  ASSUME Shape, EndedIsGone, [Next]_vars, WizardDone'
  PROVE  WizardDone \/ WizardInserts
  <1>0. \A settings : IsSettings(settings) =>
          /\ "wizardCompleted" \in DOMAIN settings
          /\ MigrateSettingsRuntime(settings)["wizardCompleted"] = settings["wizardCompleted"]
    BY SettingFacts, MigratedFacts DEF IsSettings
  <1>1. CASE UNCHANGED vars BY <1>1, StutterFacts DEF WizardDone
  <1>2. ASSUME NEW by, SqlUsers(by) PROVE WizardDone BY <1>2, SqlUsersShape DEF WizardDone
  <1>3. CASE SqlTokens BY <1>3, SqlTokensShape DEF WizardDone
  <1>4. ASSUME NEW by, SqlChanges(by) PROVE WizardDone
    <2>1. PICK p \in SomePatch :
            /\ "wizardCompleted" \notin DOMAIN p.fields
            /\ p.group = "timeout" => "apiTimeout" \in DOMAIN p.fields
            /\ req' = req /\ db'.settings = Patched(db.settings, p) /\ store' = db'.settings
      BY <1>4, SqlChangesShape
    <2>2. "wizardCompleted" \notin Replaced(p)
      BY GroupFacts, SettingFacts DEF Replaced, TimeoutSettings
    <2>3. "wizardCompleted" \in DOMAIN db.settings BY <1>0, ShapeFacts
    <2>4. \A s \in (DOMAIN db.settings) \ DOMAIN p.fields :
                  s \notin Replaced(p) /\ s # "autoRemoveOldFilesAtBoot" =>
                    Patched(db.settings, p)[s] = db.settings[s]
      BY <2>1, ShapeFacts, PatchedFacts
    <2>5. Patched(db.settings, p)["wizardCompleted"] = db.settings["wizardCompleted"]
      BY <2>1, <2>2, <2>3, <2>4
    <2>6. QED BY <2>1, <2>5 DEF WizardDone
  <1>5. ASSUME NEW t \in DOMAIN db.tokens, SqlRefresh(t) PROVE WizardDone
    BY <1>5, SqlRefreshFacts DEF WizardDone
  <1>6. ASSUME NEW c \in Slots, Begun(c) PROVE WizardDone
    <2>1. /\ db' = db /\ store' = store /\ \A d \in Slots : d # c => req'[d] = req[d]
          /\ ComesAs(req'[c])
      BY <1>6 DEF Begun
    <2>2. ~(req'[c].op = "wizard" /\ req'[c].at \in Storing) BY <2>1 DEF ComesAs, Storing
    <2>3. req'[c].at \notin Storing \ {"read"} BY <2>1 DEF ComesAs, Storing
    <2>4. QED BY <2>1, <2>2, <2>3 DEF WizardDone
  <1>7. ASSUME NEW c \in Slots, CommandStep(c) PROVE WizardDone \/ WizardInserts
    <2>1. /\ Follows(c) /\ RequestOK(req[c]) /\ RequestOK(req'[c])
          /\ \A d \in Slots : d # c => req'[d] = req[d]
      BY <1>7, CommandFacts DEF Shape, Follows
    <2>2. CASE req'[c] = Idle \/ req'[c].at \notin Storing
      <3>1. ASSUME db'.settings = db.settings, store' = store PROVE WizardDone
        BY <2>2, IdleFacts, <2>1, <3>1 DEF Storing, WizardDone
      <3>2. CASE ReadStep(c) BY <3>1, <3>2, ReadStepFacts
      <3>3. CASE TokenStep(c) BY <3>1, <3>3, TokenStepFacts DEF Written
      <3>4. CASE UserStep(c)
        BY <3>1, <3>4, SaveFacts, EraseUserFacts, InsertUserFacts DEF UserStep, Written
      <3>5. CASE DocStep(c)
        BY <2>2, <3>5, SaveMigratedFacts, SavePatchedFacts, StageFacts, IdleFacts, <2>1
           DEF DocStep, Storing
      <3>6. CASE CountAttempt(c) BY <3>1, <3>6, CountAttemptFacts
      <3>7. CASE StoreSettings(c)
        <4>1. /\ req[c].at = "answer" /\ db' = db /\ store' = req[c].seen
          BY <3>7, StoreSettingsFacts
        <4>2. ~(req'[c].at \in Storing) BY <2>2, IdleFacts DEF Storing
        <4>3. QED BY <2>1, <4>1, <4>2 DEF WizardDone, Storing
      <3>8. QED BY <1>7, <3>2, <3>3, <3>4, <3>5, <3>6, <3>7, CommandCases
    <2>3. CASE req'[c] # Idle /\ req'[c].at \in Storing
      <3>1. req'[c].op = req[c].op BY <2>1, <2>3 DEF Follows
      <3>2. CASE FindSettings(c)
        <4>1. /\ req[c].at = "read" /\ req'[c].at = "migrate" /\ db' = db /\ store' = store
              /\ req'[c].seen = MigrateSettingsRuntime(db.settings)
          BY <3>2, FindSettingsFacts DEF Reads
        <4>2. req'[c].seen["wizardCompleted"] = db.settings["wizardCompleted"]
          BY <1>0, <4>1, ShapeFacts
        <4>3. QED BY <2>1, <3>1, <4>1, <4>2 DEF WizardDone, Storing
      <3>3. CASE InsertUser(c) BY <2>3, <3>3, InsertUserFacts DEF WizardInserts
      <3>4. CASE SaveMigrated(c)
        BY <3>4, SaveMigratedFacts, <2>1, <3>1 DEF Written, WizardDone, Storing
      <3>5. CASE SavePatched(c)
        <4> DEFINE p == req[c].val[1]
        <4>1. /\ req[c].at = "write" /\ req[c] # Idle /\ req[c].op \in SettingsOps
              /\ IsSettings(req[c].seen) /\ p \in SomePatch
              /\ req'[c].seen = Assigned(req[c].seen, p)
              /\ db'.settings = Assigned(req[c].seen, p) /\ store' = store
          BY <3>5, SavePatchedFacts DEF Written
        <4>2. PatchesOK(req[c].op, req[c].val) /\ 1 \in 1..Len(req[c].val)
          <5>1. PatchesOK(req[c].op, req[c].val) BY <2>1, <4>1 DEF RequestOK
          <5>2. Len(req[c].val) \in Nat /\ Len(req[c].val) >= 1 BY <2>1, <4>1, FirstPatch
          <5>3. QED BY <5>1, <5>2
        <4>3. req[c].op # "wizard" => "wizardCompleted" \notin DOMAIN p.fields
          BY <4>2 DEF PatchesOK
        <4> HIDE DEF p
        <4>4. \A s \in (DOMAIN req[c].seen) \ DOMAIN p.fields :
                Assigned(req[c].seen, p)[s] = req[c].seen[s]
          BY <4>1, AssignedFacts
        <4>5. req[c].op # "wizard" =>
                Assigned(req[c].seen, p)["wizardCompleted"] = req[c].seen["wizardCompleted"]
          BY <1>0, <4>1, <4>3, <4>4
        <4>6. QED BY <2>1, <3>1, <4>1, <4>5 DEF WizardDone, Storing
      <3>6. CASE StoreSettings(c)
        BY <2>3, <3>6, StoreSettingsFacts, <2>1, <3>1 DEF WizardDone, Storing
      <3>7. QED BY <1>7, <2>3, <3>2, <3>3, <3>4, <3>5, <3>6, StoringCommand DEF DocStep
    <2>4. QED BY <2>2, <2>3
  <1>8. CASE Expire BY <1>8, ExpireFacts DEF WizardDone
  <1>9. CASE Restart
    <2>1. /\ store' = Booted(MigrateSettingsRuntime(db.settings))
          /\ db'.settings \in {store', db.settings} /\ \A c \in Slots : req'[c] = Idle
      BY <1>9, RestartFacts
    <2>2. IsSettings(MigrateSettingsRuntime(db.settings)) /\ mode \in Clients
      BY ShapeFacts, MigratedFacts
    <2>3. store'["wizardCompleted"] = MigrateSettingsRuntime(db.settings)["wizardCompleted"]
      BY <2>1, <2>2, BootedFacts
    <2>4. store'["wizardCompleted"] = db.settings["wizardCompleted"]
      BY <1>0, <2>3, ShapeFacts
    <2>5. \A c \in Slots : req'[c].at \notin Storing BY <2>1, IdleFacts DEF Storing
    <2>6. QED BY <2>1, <2>4, <2>5 DEF WizardDone
  <1>10. QED
    BY <1>1, <1>2, <1>3, <1>4, <1>5, <1>6, <1>7, <1>8, <1>9, NextCases DEF WizardInserts

---------------------------------------------------------------------------
(* Where a command leads, and what it leaves alone                         *)

\* The commands that a request may await after this one.
Leads(c) ==
  \/ req'[c] = Idle
  \/ (IsUserRootUser(c) \/ OwnUser(c)) /\ req'[c].at = "get"
  \/ GetUser(c) /\ req'[c].at \in {"save", "roots", "verified", "admins", "erase"}
  \/ (FindRootUsers(c) \/ FindVerifiedUsers(c)) /\ req'[c].at = "save"
  \/ FindUsersByRoleId(c) /\ req'[c].at = "erase"
  \/ EraseUser(c) /\ req'[c].at = "tokens"
  \/ SignJwtToken(c) /\ req'[c].at \in {"purge", "again"}
  \/ PurgeOutdated(c) /\ req'[c].at = "token"
  \/ req[c].op = "renew" /\ req'[c].at \in {"tokens", "sign", "dropToken", "check", "count"}
  \/ req[c].op \in SettingsOps /\ req'[c].at \in Storing

LEMMA CommandLeads ==
  ASSUME Shape, NEW c \in Slots, CommandStep(c)
  PROVE  Leads(c)
  <1>0. RequestOK(req[c]) BY DEF Shape
  <1>1. CASE ReadStep(c)
    <2>1. CASE GetUser(c)
      <3> DEFINE user == db.users[req[c].to]
      <3>1. /\ req[c].at = "get"
            /\ req'[c] # Idle => req'[c] # Idle /\ req'[c].at = AfterGet(req[c], user)
        BY <2>1, GetUserFacts
      <3>2. RequestOK(req'[c]) /\ (req'[c] # Idle => req'[c].at # "done")
        BY <2>1, GetUserFacts, StageFacts DEF Follows
      <3>3. req[c].op \in {"delete", "verify", "root", "roles"} BY <1>0, <3>1, StageFacts
      <3> HIDE DEF user
      <3>4. AfterGet(req[c], user) \in {"save", "roots", "verified", "admins", "erase", "done"}
        BY <3>3 DEF AfterGet
      <3>5. QED BY <2>1, <3>1, <3>2, <3>4 DEF Leads
    <2>2. CASE IsUserRootUser(c) \/ OwnUser(c)
      BY <2>2, IsUserRootUserFacts, OwnUserFacts DEF Leads
    <2>3. CASE FindRootUsers(c) \/ FindVerifiedUsers(c) \/ FindUsersByRoleId(c)
      BY <2>3, FindRootUsersFacts, FindVerifiedUsersFacts, FindUsersByRoleIdFacts DEF Leads
    <2>4. CASE SignJwtToken(c) BY <2>4, SignJwtTokenFacts DEF Leads
    <2>5. CASE RenewGetUser(c) \/ AttemptsUsed(c) \/ CheckToken(c)
      BY <1>0, <2>5, RenewGetUserFacts, AttemptsUsedFacts, CheckTokenFacts, StageFacts DEF Leads
    <2>6. CASE FindSettings(c)
      BY <1>0, <2>6, FindSettingsFacts, StageFacts DEF Leads, Storing
    <2>7. QED BY <1>1, <2>1, <2>2, <2>3, <2>4, <2>5, <2>6 DEF ReadStep
  <1>2. CASE TokenStep(c)
    BY <1>2, DeleteTokensFacts, PurgeOutdatedFacts, InsertTokenFacts, DropTokenFacts
       DEF Leads, TokenStep
  <1>3. CASE UserStep(c)
    BY <1>3, SaveFacts, EraseUserFacts, InsertUserFacts DEF UserStep, Leads, SettingsOps, Storing
  <1>4. CASE DocStep(c)
    BY <1>4, SaveMigratedFacts, SavePatchedFacts DEF DocStep, Leads, Storing
  <1>5. CASE CountAttempt(c) BY <1>5, CountAttemptFacts DEF Leads
  <1>6. CASE StoreSettings(c) BY <1>6, StoreSettingsFacts DEF Leads, Storing
  <1>7. QED BY <1>1, <1>2, <1>3, <1>4, <1>5, <1>6, CommandCases

LEMMA UsersSame ==
  ASSUME Shape, NEW c \in Slots, CommandStep(c), ~UserStep(c)
  PROVE  db'.users = db.users
  BY CommandCases, ReadStepFacts, TokenStepFacts, SaveMigratedFacts, SavePatchedFacts,
     CountAttemptFacts, StoreSettingsFacts DEF DocStep, Written

---------------------------------------------------------------------------
(* Users are inserted once                                                 *)

LEMMA CommandInserts ==
  ASSUME Shape, NEW c \in Slots, CommandStep(c)
  PROVE  req'[c].at # "insert"
  BY CommandLeads, IdleFacts DEF Leads, Storing

LEMMA InsertsNewKept ==
  ASSUME Shape, EndedIsGone, Lone, InsertsNew, [Next]_vars
  PROVE  InsertsNew'
  <1>0. Idle.at # "insert" BY IdleFacts
  <1>1. CASE mode.db = "sqlite"
    <2>1. Shape' /\ mode' = mode BY ShapeKept
    <2>2. \A c \in Slots : req'[c] = Idle BY <1>1, <2>1 DEF Shape
    <2>3. QED BY <1>0, <2>2 DEF InsertsNew
  <1>2. CASE mode.db = "mongo" /\ ~past'.overlapped
    <2>0. ~past.overlapped BY <1>2, RememberedFacts DEF Remembered
    <2>1. CASE UNCHANGED vars BY <2>0, <2>1, StutterFacts DEF InsertsNew
    <2>2. ASSUME NEW c \in Slots, Begun(c) PROVE InsertsNew'
      <3>1. db' = db /\ (req'[c].at = "insert" => FreshUser(req'[c].to))
        BY <2>2 DEF Begun, ComesAs
      <3>2. \A d \in Slots : d # c => req'[d] = Idle BY <1>2, <2>2, LoneBegun
      <3>3. QED BY <1>0, <3>1, <3>2 DEF InsertsNew, FreshUser, Known
    <2>3. ASSUME NEW c \in Slots, CommandStep(c) PROVE InsertsNew'
      BY <1>0, <1>2, <2>3, LoneCommand, CommandInserts DEF InsertsNew
    <2>4. CASE Expire BY <2>0, <2>4, ExpireFacts DEF InsertsNew
    <2>5. CASE Restart BY <1>0, <2>5, RestartFacts DEF InsertsNew
    <2>6. QED BY <1>2, <2>1, <2>2, <2>3, <2>4, <2>5, MongoCases
  <1>3. QED BY <1>1, <1>2, ShapeFacts DEF InsertsNew

---------------------------------------------------------------------------
(* An owner, with MongoDB                                                  *)

\* The wizard leaves a verified owner who administers.
LEMMA WizardStaff ==
  ASSUME Shape, EndedIsGone, Lone, InsertsNew, [Next]_vars, WizardInserts
  PROVE  \E u \in Users : Known(db'.users, u) /\ db'.users[u] = WizardUser
  <1>1. CASE SqlWizard
    <2>1. PICK u \in Users : db'.users = Register(db.users, u, WizardUser)
      BY <1>1, SqlWizardFacts
    <2>2. QED BY <2>1 DEF Register, Put, Known
  <1>2. ASSUME NEW c \in Slots, InsertUser(c), req[c].op = "wizard"
        PROVE  \E u \in Users : Known(db'.users, u) /\ db'.users[u] = WizardUser
    <2>1. /\ req[c].to \in Users
          /\ db'.users = Register(db.users, req[c].to, WizardUser)
      BY <1>2, InsertUserFacts DEF Inserted, Written
    <2>2. QED BY <2>1 DEF Register, Put, Known
  <1>3. QED BY <1>1, <1>2 DEF WizardInserts

\* Who is an owner after a user was saved, erased or inserted.
LEMMA SavedRoots ==
  ASSUME NEW users, UsersOK(users), NEW u \in Users
  PROVE  /\ RootUsers(Erase(users, u)) = RootUsers(users) \ {u}
         /\ RootUsers(SetField(users, u, "root", FALSE)) = RootUsers(users) \ {u}
         /\ RootUsers(users) \subseteq RootUsers(SetField(users, u, "root", TRUE))
         /\ \A val : /\ RootUsers(SetField(users, u, "verified", val)) = RootUsers(users)
                     /\ RootUsers(SetField(users, u, "admin", val)) = RootUsers(users)
         /\ \A user : u \notin DOMAIN users => RootUsers(users) \subseteq RootUsers(Register(users, u, user))
  <1>1. RootUsers(Erase(users, u)) = RootUsers(users) \ {u} BY DEF RootUsers, Erase
  <1>2. RootUsers(SetField(users, u, "root", FALSE)) = RootUsers(users) \ {u}
    BY DEF RootUsers, SetField, UsersOK, User, Known
  <1>3. RootUsers(users) \subseteq RootUsers(SetField(users, u, "root", TRUE))
    BY DEF RootUsers, SetField, UsersOK, User, Known
  <1>4. ASSUME NEW val
        PROVE  /\ RootUsers(SetField(users, u, "verified", val)) = RootUsers(users)
               /\ RootUsers(SetField(users, u, "admin", val)) = RootUsers(users)
    BY DEF RootUsers, SetField, UsersOK, User, Known
  <1>5. ASSUME NEW user, u \notin DOMAIN users
        PROVE  RootUsers(users) \subseteq RootUsers(Register(users, u, user))
    BY <1>5 DEF RootUsers, Register, Put
  <1>6. QED BY <1>1, <1>2, <1>3, <1>4, <1>5

\* A command leaves an owner.
LEMMA RootsCommand ==
  ASSUME Shape, EndedIsGone, Lone, InsertsNew, RootsHeld, [Next]_vars,
         ~past'.overlapped, NEW c \in Slots, CommandStep(c), RootUsers(db.users) # {}
  PROVE  RootUsers(db'.users) # {}
  <1>0. /\ UsersOK(db.users) /\ RequestOK(req[c]) /\ mode.db = "mongo" /\ ~past.overlapped
    BY ShapeFacts, CommandFacts, RememberedFacts DEF Shape, Remembered
  <1>1. CASE Save(c)
    <2>1. /\ db'.users = Saved(req[c]) /\ req[c].at = "save" /\ req[c] # Idle
      BY <1>1, SaveFacts DEF Written
    <2>2. /\ req[c].op \in {"verify", "root", "roles"} /\ req[c].val \in BOOLEAN
          /\ req[c].to \in Users
      BY <1>0, <2>1, StageFacts DEF RequestOK
    <2>3. CASE req[c].op = "root"
      <3>1. db'.users = db.users \/ db'.users = SetField(db.users, req[c].to, "root", req[c].val)
        BY <2>1, <2>3 DEF Saved, Field
      <3>2. ~req[c].val => RootUsers(db.users) \ {req[c].to} # {}
        BY <1>0, <2>1, <2>3 DEF RootsHeld
      <3>3. CASE req[c].val = TRUE BY <1>0, <2>2, <3>1, <3>3, SavedRoots, ZenonT(60)
      <3>4. CASE req[c].val = FALSE
        <4>1. RootUsers(SetField(db.users, req[c].to, "root", FALSE)) =
                RootUsers(db.users) \ {req[c].to}
          BY <1>0, <2>2, SavedRoots
        <4>2. QED BY <3>1, <3>2, <3>4, <4>1
      <3>5. QED BY <2>2, <3>3, <3>4
    <2>4. CASE req[c].op \in {"verify", "roles"}
      <3>1. \E field \in {"verified", "admin"} :
              db'.users \in {db.users, SetField(db.users, req[c].to, field, req[c].val)}
        BY <2>1, <2>4 DEF Saved, Field
      <3>2. \A val :
              /\ RootUsers(SetField(db.users, req[c].to, "verified", val)) = RootUsers(db.users)
              /\ RootUsers(SetField(db.users, req[c].to, "admin", val)) = RootUsers(db.users)
        BY <1>0, <2>2, SavedRoots
      <3>3. QED BY <3>1, <3>2
    <2>5. QED BY <2>2, <2>3, <2>4
  <1>2. CASE EraseUser(c)
    <2>1. /\ db'.users = Erase(db.users, req[c].to) /\ req[c].at = "erase" /\ req[c] # Idle
      BY <1>2, EraseUserFacts DEF Written
    <2>2. req[c].op = "delete" /\ req[c].to \in Users
      BY <1>0, <2>1, StageFacts DEF RequestOK
    <2>3. req[c].to \notin RootUsers(db.users) BY <1>0, <2>1, <2>2 DEF RootsHeld
    <2>4. RootUsers(Erase(db.users, req[c].to)) = RootUsers(db.users) \ {req[c].to}
      BY <1>0, <2>2, SavedRoots
    <2>5. QED BY <2>1, <2>3, <2>4
  <1>3. CASE InsertUser(c)
    <2>1. /\ db'.users = Register(db.users, req[c].to, Inserted(req[c])) /\ req[c].at = "insert"
          /\ req[c].to \in Users
      BY <1>3, InsertUserFacts DEF Written
    <2>2. req[c].to \notin DOMAIN db.users BY <1>0, <2>1 DEF InsertsNew, Known
    <2>3. \A user : RootUsers(db.users) \subseteq RootUsers(Register(db.users, req[c].to, user))
      BY <1>0, <2>1, <2>2, SavedRoots
    <2>4. QED BY <2>1, <2>3
  <1>4. QED BY <1>1, <1>2, <1>3, UsersSame DEF UserStep

\* What a command makes sure of before it saves or deletes.
LEMMA RootsChecked ==
  ASSUME Shape, EndedIsGone, Lone, RootsHeld, [Next]_vars, ~past'.overlapped,
         NEW c \in Slots, CommandStep(c)
  PROVE  /\ req'[c].op = "root" /\ req'[c].at = "save" /\ ~req'[c].val =>
              RootUsers(db'.users) \ {req'[c].to} # {}
         /\ req'[c].op = "delete" /\ req'[c].at \in {"admins", "erase"} =>
              req'[c].to \notin RootUsers(db'.users)
         /\ req'[c].op = "root" => req[c].op = "root"
  <1>0. /\ RequestOK(req[c]) /\ RequestOK(req'[c]) /\ Follows(c) /\ mode.db = "mongo"
        /\ ~past.overlapped
    BY CommandFacts, RememberedFacts DEF Shape, Follows, Remembered
  <1>1. CASE req'[c] = Idle BY <1>1, IdleFacts
  <1>2. CASE req'[c] # Idle
    <2>1. /\ req'[c].op = req[c].op /\ req'[c].to = req[c].to
          /\ req[c].op \in {"root", "delete"} => req'[c].val = req[c].val
      BY <1>0, StageFacts, <1>2 DEF Storing, Follows, SettingsOps
    <2>2. CASE req[c].op = "root" /\ req'[c].at = "save" /\ ~req'[c].val
      <3>1. req[c].at # "verified" BY <1>0, <2>2, StageFacts
      <3>2. GetUser(c) \/ FindRootUsers(c)
        BY <1>2, <2>2, <3>1, CommandLeads, FindVerifiedUsersFacts DEF Leads, SettingsOps, Storing
      <3>3. ~GetUser(c)
        <4>1. ASSUME GetUser(c) PROVE FALSE
          <5>1. req'[c].at = AfterGet(req[c], db.users[req[c].to])
            BY <1>2, <4>1, GetUserFacts
          <5>2. req[c].val \in BOOLEAN BY <1>0, <2>2, StageFacts, IdleFacts DEF RequestOK
          <5>3. QED BY <2>1, <2>2, <5>1, <5>2 DEF AfterGet
        <4>2. QED BY <4>1
      <3>4. ~LastRoot(db.users, req[c].to) /\ db' = db
        BY <1>2, <3>2, <3>3, FindRootUsersFacts DEF Reads
      <3>5. RootUsers(db.users) # {} BY <1>0, <2>2 DEF RootsHeld
      <3>6. QED BY <2>1, <3>4, <3>5, <2>2 DEF LastRoot
    <2>3. CASE req[c].op = "delete" /\ req'[c].at \in {"admins", "erase"}
      <3>1. GetUser(c) \/ FindUsersByRoleId(c)
        BY <1>2, <2>3, CommandLeads DEF Leads, SettingsOps, Storing
      <3>2. CASE GetUser(c)
        <4>1. /\ Known(db.users, req[c].to) /\ db' = db
              /\ req'[c].at = AfterGet(req[c], db.users[req[c].to])
          BY <1>2, <3>2, GetUserFacts DEF Reads
        <4>2. ~db.users[req[c].to].root BY <2>3, <4>1 DEF AfterGet
        <4>3. QED BY <2>1, <2>3, <4>1, <4>2 DEF RootUsers
      <3>3. CASE FindUsersByRoleId(c)
        BY <3>3, FindUsersByRoleIdFacts, <1>0, <2>1, <2>3 DEF Reads, RootsHeld
      <3>4. QED BY <3>1, <3>2, <3>3
    <2>4. QED BY <2>1, <2>2, <2>3
  <1>3. QED BY <1>1, <1>2

LEMMA RootsKept ==
  ASSUME Shape, EndedIsGone, Lone, InsertsNew, RootsHeld, [Next]_vars
  PROVE  RootsHeld'
  <1>1. SUFFICES ASSUME mode.db = "mongo", ~past'.overlapped PROVE RootsHeld'
    BY ShapeKept DEF RootsHeld
  <1>2. ~past.overlapped BY <1>1, RememberedFacts DEF Remembered
  <1>3. WizardDone' => WizardDone \/ RootUsers(db'.users) # {}
    BY WizardStaff, WizardDoneFacts DEF RootUsers, Known, WizardUser
  <1>4. ASSUME db'.users = db.users, \A c \in Slots : req'[c] = req[c] \/ req'[c] = Idle
        PROVE  RootsHeld'
    BY <1>1, <1>2, <1>3, <1>4, IdleFacts DEF RootsHeld
  <1>5. CASE UNCHANGED vars BY <1>4, <1>5, StutterFacts
  <1>6. ASSUME NEW c \in Slots, Begun(c) PROVE RootsHeld'
    <2>1. /\ db' = db /\ ComesAs(req'[c]) /\ store["wizardCompleted"] => WizardDone
      BY <1>6 DEF Begun, WizardDone
    <2>2. \A d \in Slots : d # c => req'[d] = Idle BY <1>1, <1>6, LoneBegun
    <2>3. req'[c].at \notin {"save", "admins", "erase"} BY <1>6 DEF Begun, ComesAs
    <2>4. req'[c].op = "root" => store["wizardCompleted"] BY <1>6 DEF Begun, ComesAs
    <2>5. store["wizardCompleted"] => RootUsers(db.users) # {}
      BY <1>1, <1>2 DEF RootsHeld, WizardDone
    <2>6. db' = db BY <1>6 DEF Begun
    <2>7. QED BY <1>1, <1>2, <1>3, <2>2, <2>3, <2>4, <2>5, <2>6, IdleFacts DEF RootsHeld
  <1>7. ASSUME NEW c \in Slots, CommandStep(c) PROVE RootsHeld'
    <2>1. \A d \in Slots : d # c => req'[d] = Idle BY <1>1, <1>7, LoneCommand
    <2>2. RootUsers(db.users) # {} => RootUsers(db'.users) # {} BY <1>1, <1>7, RootsCommand
    <2>3. /\ req'[c].op = "root" /\ req'[c].at = "save" /\ ~req'[c].val =>
               RootUsers(db'.users) \ {req'[c].to} # {}
          /\ req'[c].op = "delete" /\ req'[c].at \in {"admins", "erase"} =>
               req'[c].to \notin RootUsers(db'.users)
          /\ req'[c].op = "root" => req[c].op = "root"
      BY <1>1, <1>7, RootsChecked
    <2>4. QED BY <1>1, <1>2, <1>3, <2>1, <2>2, <2>3, IdleFacts DEF RootsHeld
  <1>8. CASE Expire BY <1>4, <1>8, ExpireFacts
  <1>9. CASE Restart BY <1>4, <1>9, RestartFacts
  <1>10. QED BY <1>1, <1>5, <1>6, <1>7, <1>8, <1>9, MongoCases

\* Requests that do not overlap leave an owner, from the wizard on: "Ensure at least one user
\* is root user" (user.service.ts).
THEOREM OwnersStay == Spec => []SomeRoot
  <1> DEFINE Inv == Lone /\ InsertsNew /\ RootsHeld
  <1>1. Init => Inv
    <2>1. SUFFICES ASSUME Init PROVE Inv OBVIOUS
    <2>2. \A c \in Slots : req[c] = Idle BY <2>1, InitFacts
    <2>3. WizardDone => RootUsers(db.users) # {}
      <3>1. WizardDone => store["wizardCompleted"]
        BY <2>1, <2>2, InitFacts, IdleFacts DEF WizardDone, Storing
      <3>2. PICK owner \in mode.staff \cup {None} :
              /\ db.users = [u \in mode.staff |->
                              [root |-> u = owner, verified |-> TRUE, admin |-> u = owner]]
              /\ mode.staff # {} => owner \in mode.staff
        BY <2>1, InitFacts
      <3>3. mode.staff # {} => owner \in RootUsers(db.users)
        <4>1. ASSUME owner \in mode.staff PROVE db.users[owner].root
          <5>1. (owner = owner) = TRUE OBVIOUS
          <5>2. db.users[owner] = [root |-> owner = owner, verified |-> TRUE, admin |-> owner = owner]
            BY <3>2, <4>1
          <5>3. db.users[owner].root = (owner = owner) BY <5>2
          <5>4. QED BY <5>3
        <4>2. DOMAIN db.users = mode.staff BY <3>2
        <4>3. QED BY <3>2, <4>1, <4>2 DEF RootUsers
      <3>4. QED BY <2>1, <3>1, <3>3, InitFacts
    <2>4. QED BY <2>2, <2>3, IdleFacts DEF Lone, InsertsNew, RootsHeld
  <1>2. Inv /\ Shape /\ EndedIsGone /\ [Next]_vars => Inv'
    BY LoneKept, InsertsNewKept, RootsKept
  <1>3. Inv => SomeRoot BY DEF RootsHeld, SomeRoot, WizardDone
  <1>4. QED BY <1>1, <1>2, <1>3, AccountsShaped, PTL DEF Spec

---------------------------------------------------------------------------
(* A verified administrator                                                *)

\* Who administers after a user was saved, erased or inserted.
LEMMA SavedAdmins ==
  ASSUME NEW users, UsersOK(users), NEW u \in Users, NEW x, AdminIn(users, x)
  PROVE  /\ x # u => AdminIn(Erase(users, u), x)
         /\ x # u => \A field, val : AdminIn(SetField(users, u, field, val), x)
         /\ \A val : AdminIn(SetField(users, u, "root", val), x)
         /\ AdminIn(SetField(users, u, "admin", TRUE), x)
         /\ u \notin DOMAIN users => \A user : AdminIn(Register(users, u, user), x)
  <1>1. x # u => AdminIn(Erase(users, u), x) BY DEF AdminIn, Erase, Known
  <1>2. ASSUME x # u, NEW field, NEW val PROVE AdminIn(SetField(users, u, field, val), x)
    BY <1>2 DEF AdminIn, SetField, Known
  <1>3. ASSUME NEW val PROVE AdminIn(SetField(users, u, "root", val), x)
    BY DEF AdminIn, SetField, Known, UsersOK, User
  <1>4. AdminIn(SetField(users, u, "admin", TRUE), x)
    BY DEF AdminIn, SetField, Known, UsersOK, User
  <1>5. ASSUME u \notin DOMAIN users, NEW user PROVE AdminIn(Register(users, u, user), x)
    BY <1>5 DEF AdminIn, Register, Put, Known
  <1>6. QED BY <1>1, <1>2, <1>3, <1>4, <1>5

\* With SQLite an answer takes the users and remembers whether nobody asked.
LEMMA AnsweredUsers ==
  ASSUME Shape, NEW op, NEW by, NEW users, AnswerUsers(op, by, users)
  PROVE  db'.users = users /\ past'.opened = (past.opened \/ by = None)
  BY AnswerFacts DEF AnswerUsers, Shape

\* Whoever is logged in and changes users still administers when they are changed.
LEMMA SqlStaff ==
  ASSUME Shape, NEW by, SqlUsers(by), ~past'.opened, NEW x, Administers(x)
  PROVE  \E y \in Users : Administers(y)'
  <1>0. /\ UsersOK(db.users) /\ mode.users \subseteq Users /\ DOMAIN db.users \subseteq Users
        /\ x \in Users
    BY ShapeFacts DEF UsersOK, Administers, AdminIn, Known
  <1>1. ASSUME IsAdmin(by), by # None PROVE by \in Users /\ AdminIn(db.users, by)
    BY <1>0, <1>1 DEF IsAdmin, Caller, VerifyUserCallback, AdminIn, Known
  <1>2. CASE SqlCreate(by)
    <2>1. PICK u \in mode.users, isAdmin \in BOOLEAN :
            /\ FreshUser(u)
            /\ AnswerUsers("create", by, Register(db.users, u, CreatedUser(isAdmin)))
      BY <1>2 DEF SqlCreate
    <2>2. db'.users = Register(db.users, u, CreatedUser(isAdmin)) BY <2>1, AnsweredUsers
    <2>3. \A user : AdminIn(Register(db.users, u, user), x)
      BY <1>0, <2>1, SavedAdmins DEF Administers, FreshUser
    <2>4. QED BY <1>0, <2>2, <2>3 DEF Administers
  <1>3. CASE SqlRegister
    <2>1. PICK u \in mode.users :
            FreshUser(u) /\ AnswerUsers("register", u, Register(db.users, u, RegisteredUser))
      BY <1>3 DEF SqlRegister
    <2>2. db'.users = Register(db.users, u, RegisteredUser) BY <2>1, AnsweredUsers
    <2>3. \A user : AdminIn(Register(db.users, u, user), x)
      BY <1>0, <2>1, SavedAdmins DEF Administers, FreshUser
    <2>4. QED BY <1>0, <2>2, <2>3 DEF Administers
  <1>4. CASE SqlDelete(by)
    <2>1. PICK u \in (DOMAIN db.users) \ {by} :
            IsAdmin(by) /\ AnswerUsers("delete", by, OrmDeleteUser(db.users, u))
      BY <1>4 DEF SqlDelete
    <2>2. db'.users = OrmDeleteUser(db.users, u) /\ by # None BY <2>1, AnsweredUsers
    <2>3. by \in Users /\ AdminIn(db.users, by) /\ AdminIn(Erase(db.users, u), by)
      BY <1>0, <1>1, <2>1, <2>2, SavedAdmins
    <2>4. QED BY <2>2, <2>3 DEF Administers, OrmDeleteUser
  <1>5. CASE SqlSetVerified(by)
    <2>1. PICK u \in (DOMAIN db.users) \ {by}, isVerified \in BOOLEAN :
            /\ IsAdmin(by)
            /\ AnswerUsers("verify", by, OrmSetVerifiedById(db.users, u, isVerified))
      BY <1>5 DEF SqlSetVerified
    <2>2. db'.users = OrmSetVerifiedById(db.users, u, isVerified) /\ by # None
      BY <2>1, AnsweredUsers
    <2>3. /\ by \in Users /\ AdminIn(db.users, by)
          /\ \A field, val : AdminIn(SetField(db.users, u, field, val), by)
      BY <1>0, <1>1, <2>1, <2>2, SavedAdmins
    <2>4. QED BY <2>2, <2>3 DEF Administers, OrmSetVerifiedById
  <1>6. CASE SqlSetUserRoles(by)
    <2>1. PICK u \in DOMAIN db.users, isAdmin \in BOOLEAN :
            /\ IsAdmin(by) /\ by # None /\ (by = u => isAdmin)
            /\ AnswerUsers("roles", by, OrmSetUserRoleIds(db.users, u, isAdmin))
      BY <1>6 DEF SqlSetUserRoles
    <2>2. db'.users = SetField(db.users, u, "admin", isAdmin)
      BY <2>1, AnsweredUsers DEF OrmSetUserRoleIds
    <2>3. /\ by \in Users /\ AdminIn(db.users, by)
          /\ by # u => \A field, val : AdminIn(SetField(db.users, u, field, val), by)
          /\ AdminIn(SetField(db.users, u, "admin", TRUE), by)
      BY <1>0, <1>1, <2>1, SavedAdmins
    <2>4. CASE isAdmin = TRUE BY <2>2, <2>3, <2>4 DEF Administers
    <2>5. CASE isAdmin = FALSE BY <2>1, <2>2, <2>3, <2>5 DEF Administers
    <2>6. QED BY <2>4, <2>5
  <1>7. CASE SqlSetRootUser(by)
    <2>1. PICK u \in DOMAIN db.users, isRoot \in BOOLEAN :
            AnswerUsers("root", by, OrmSetIsRootUserById(db.users, u, isRoot))
      BY <1>7 DEF SqlSetRootUser
    <2>2. db'.users = SetField(db.users, u, "root", isRoot)
      BY <2>1, AnsweredUsers DEF OrmSetIsRootUserById
    <2>3. \A val : AdminIn(SetField(db.users, u, "root", val), x)
      BY <1>0, SavedAdmins DEF Administers
    <2>4. QED BY <1>0, <2>2, <2>3 DEF Administers
  <1>8. QED BY <1>2, <1>3, <1>4, <1>5, <1>6, <1>7 DEF SqlUsers

\* With MongoDB the caller of a command still administers after it.
LEMMA AdminCommand ==
  ASSUME Shape, EndedIsGone, Lone, InsertsNew, AdminHeld, [Next]_vars,
         ~past'.opened, ~past'.overlapped, NEW c \in Slots, CommandStep(c)
  PROVE  /\ \A x : Administers(x) => \E y \in Users : Administers(y)'
         /\ req'[c].op \in {"delete", "verify", "roles"} =>
              /\ Administers(req[c].by)'
              /\ req'[c].op # "roles" => req'[c].by # req'[c].to
              /\ req'[c].at \in {"get", "save"} /\ req'[c].op = "roles" /\ req'[c].by = req'[c].to
                   => req'[c].val
  <1>0. /\ UsersOK(db.users) /\ RequestOK(req[c]) /\ RequestOK(req'[c]) /\ Follows(c)
        /\ ~past.opened /\ ~past.overlapped /\ req[c] # Idle /\ DOMAIN db.users \subseteq Users
    BY ShapeFacts, CommandFacts, RememberedFacts DEF Shape, Remembered, Follows, UsersOK
  <1>1. \A x : Administers(x) => x \in Users BY <1>0 DEF Administers, AdminIn, Known
  <1>2. req[c].op \in {"delete", "verify", "roles"} =>
          /\ Administers(req[c].by) /\ req[c].by \in Users /\ req[c].to \in Users
          /\ req[c].op # "roles" => req[c].by # req[c].to
          /\ req[c].op # "delete" => req[c].val \in BOOLEAN
          /\ req[c].at = "save" /\ req[c].op = "roles" /\ req[c].by = req[c].to => req[c].val
    BY <1>0, <1>1 DEF AdminHeld, RequestOK
  <1>3. CASE Save(c)
    <2>1. db'.users = Saved(req[c]) /\ req[c].at = "save" /\ req'[c] = Idle
      BY <1>3, SaveFacts DEF Written
    <2>2. req[c].op \in {"verify", "root", "roles"} /\ req[c].to \in Users
      BY <1>0, <2>1, StageFacts DEF RequestOK
    <2>3. ASSUME NEW x, Administers(x) PROVE \E y \in Users : Administers(y)'
      <3>1. CASE req[c].op = "root"
        <4>1. \A val : AdminIn(SetField(db.users, req[c].to, "root", val), x)
          BY <1>0, <2>2, <2>3, SavedAdmins, ZenonT(60) DEF Administers
        <4>2. db'.users \in {db.users, SetField(db.users, req[c].to, "root", req[c].val)}
          BY <2>1, <3>1 DEF Saved, Field
        <4>3. QED BY <1>1, <2>3, <4>1, <4>2 DEF Administers
      <3>2. CASE req[c].op \in {"verify", "roles"}
        <4>1. /\ req[c].by # req[c].to =>
                   \A field, val : AdminIn(SetField(db.users, req[c].to, field, val), req[c].by)
              /\ AdminIn(SetField(db.users, req[c].to, "admin", TRUE), req[c].by)
          <5>1. AdminIn(db.users, req[c].by) /\ req[c].to \in Users
            BY <1>2, <3>2 DEF Administers
          <5>2. req[c].by # req[c].to =>
                  \A field, val : AdminIn(SetField(db.users, req[c].to, field, val), req[c].by)
            BY <1>0, <5>1, SavedAdmins
          <5>3. AdminIn(SetField(db.users, req[c].to, "admin", TRUE), req[c].by)
            BY <1>0, <5>1, SavedAdmins
          <5>4. QED BY <5>2, <5>3
        <4>2. CASE req[c].by # req[c].to
          BY <2>1, <1>2, <3>2, <4>1, <4>2 DEF Saved, Administers
        <4>3. CASE req[c].by = req[c].to
          <5>1. req[c].op = "roles" /\ req[c].val = TRUE BY <1>2, <2>1, <3>2, <4>3
          <5>2. db'.users \in {db.users, SetField(db.users, req[c].to, "admin", TRUE)}
            <6>1. db'.users \in {db.users, SetField(db.users, req[c].to, "admin", req[c].val)}
              BY <2>1, <5>1 DEF Saved, Field
            <6>2. QED BY <5>1, <6>1
          <5>3. QED BY <1>2, <4>1, <5>1, <5>2 DEF Administers
        <4>4. QED BY <4>2, <4>3
      <3>3. QED BY <2>2, <3>1, <3>2
    <2>4. QED BY <2>1, <2>3, IdleFacts
  <1>4. CASE EraseUser(c)
    <2>1. /\ db'.users = Erase(db.users, req[c].to) /\ req[c].op = "delete"
          /\ req'[c] # Idle /\ req'[c].at = "tokens"
      BY <1>0, <1>4, EraseUserFacts, StageFacts, IdleFacts DEF Written
    <2>2. req'[c].op = "delete" /\ req'[c].by = req[c].by /\ req'[c].to = req[c].to
      BY <2>1, <1>0 DEF Follows
    <2>3. AdminIn(Erase(db.users, req[c].to), req[c].by)
      <3>1. AdminIn(db.users, req[c].by) /\ req[c].to \in Users /\ req[c].by # req[c].to
        BY <1>2, <2>1 DEF Administers
      <3>2. QED BY <1>0, <3>1, SavedAdmins
    <2>4. Administers(req[c].by)' BY <2>1, <2>2, <2>3 DEF Administers
    <2>5. QED BY <1>2, <2>1, <2>2, <2>4
  <1>5. CASE InsertUser(c)
    <2>1. /\ db'.users = Register(db.users, req[c].to, Inserted(req[c])) /\ req[c].at = "insert"
          /\ req[c].to \in Users /\ req'[c].op \notin {"delete", "verify", "roles"}
      BY <1>5, InsertUserFacts, IdleFacts DEF Written
    <2>2. req[c].to \notin DOMAIN db.users BY <1>0, <2>1 DEF InsertsNew, Known
    <2>3. ASSUME NEW x, Administers(x) PROVE \E y \in Users : Administers(y)'
      <3>1. \A user : AdminIn(Register(db.users, req[c].to, user), x)
        BY <1>0, <2>1, <2>2, <2>3, SavedAdmins DEF Administers
      <3>2. QED BY <1>1, <2>1, <2>3, <3>1 DEF Administers
    <2>4. QED BY <2>1, <2>3
  <1>6. CASE ~UserStep(c)
    <2>1. db'.users = db.users BY <1>6, UsersSame
    <2>2. \A x : Administers(x) <=> Administers(x)' BY <2>1 DEF Administers
    <2>3. CASE req'[c] = Idle BY <1>1, <2>2, <2>3, IdleFacts
    <2>4. CASE req'[c] # Idle /\ req'[c].op \in {"delete", "verify", "roles"}
      <3>1. req'[c].op = req[c].op /\ req'[c].by = req[c].by /\ req'[c].to = req[c].to
        BY <1>0, <2>4 DEF Follows
      <3>2. req'[c].val = req[c].val
        BY <1>0, <2>4, <3>1, StageFacts DEF Storing, SettingsOps, Follows
      <3>3. req[c].op = "roles" /\ req'[c].at \in {"get", "save"} /\ req[c].by = req[c].to =>
              req[c].val
        <4>1. SUFFICES ASSUME req[c].op = "roles", req'[c].at \in {"get", "save"},
                              req[c].by = req[c].to
                       PROVE  req[c].val
          OBVIOUS
        <4>2. \/ OwnUser(c)
              \/ req[c].at = "get"
          <5>1. req[c].at \in {"own", "get", "save"} BY <1>0, <4>1 DEF RequestOK, Stages
          <5>2. ~IsUserRootUser(c) /\ ~FindRootUsers(c) /\ ~FindVerifiedUsers(c)
            BY <5>1, IsUserRootUserFacts, FindRootUsersFacts, FindVerifiedUsersFacts
          <5>3. OwnUser(c) \/ GetUser(c)
            BY <1>0, <2>4, <4>1, <5>2, CommandLeads DEF Leads, SettingsOps, Storing
          <5>4. QED BY <5>3, GetUserFacts
        <4>3. QED BY <1>0, <2>4, <4>1, <4>2, OwnUserFacts DEF AdminHeld
      <3>4. QED BY <1>1, <1>2, <2>2, <2>4, <3>1, <3>2, <3>3
    <2>5. QED BY <1>1, <2>2, <2>3, <2>4
  <1>7. QED BY <1>3, <1>4, <1>5, <1>6 DEF UserStep

LEMMA AdminKept ==
  ASSUME Shape, EndedIsGone, Lone, InsertsNew, AdminHeld, [Next]_vars
  PROVE  AdminHeld'
  <1>1. SUFFICES ASSUME ~past'.opened, ~past'.overlapped PROVE AdminHeld' BY DEF AdminHeld
  <1>2. ~past.opened /\ ~past.overlapped BY <1>1, RememberedFacts DEF Remembered
  <1>3. WizardDone' => \/ \E x : Administers(x)
                       \/ \E y \in Users : Administers(y)'
    BY WizardStaff, <1>2, WizardDoneFacts DEF Administers, AdminIn, WizardUser, AdminHeld
  <1>4. \A x : Administers(x) => x \in Users
    BY ShapeFacts DEF Administers, AdminIn, Known, UsersOK
  <1>5. ASSUME db'.users = db.users, \A c \in Slots : req'[c] = req[c] \/ req'[c] = Idle
        PROVE  AdminHeld'
    BY <1>5, <1>1, <1>2, <1>3, <1>4, IdleFacts DEF Administers, AdminHeld
  <1>6. CASE UNCHANGED vars BY <1>5, <1>6, StutterFacts
  <1>7. ASSUME NEW by, SqlUsers(by) PROVE AdminHeld'
    <2>1. mode.db = "sqlite" /\ Shape' /\ mode' = mode BY <1>7, SqlUsersShape
    <2>2. \A c \in Slots : req'[c] = Idle BY <2>1 DEF Shape
    <2>3. \A x : Administers(x) => \E y \in Users : Administers(y)' BY <1>1, <1>7, SqlStaff
    <2>4. QED BY <1>3, <2>2, <2>3, IdleFacts DEF AdminHeld
  <1>8. CASE SqlTokens BY <1>5, <1>8, SqlTokensShape
  <1>9. ASSUME NEW by, SqlChanges(by) PROVE AdminHeld' BY <1>5, <1>9, SqlChangesShape
  <1>10. CASE SqlWizard
    <2>1. mode.db = "sqlite" /\ Shape' /\ mode' = mode BY <1>10, SqlWizardFacts
    <2>2. \A c \in Slots : req'[c] = Idle BY <2>1 DEF Shape
    <2>3. \E y \in Users : Administers(y)'
      BY <1>10, WizardStaff DEF WizardInserts, Administers, AdminIn, WizardUser
    <2>4. QED BY <2>2, <2>3, IdleFacts DEF AdminHeld
  <1>11. ASSUME NEW t \in DOMAIN db.tokens, SqlRefresh(t) PROVE AdminHeld'
    BY <1>5, <1>11, SqlRefreshFacts
  <1>12. ASSUME NEW c \in Slots, Begun(c) PROVE AdminHeld'
    <2>1. \A x : Administers(x) <=> Administers(x)' BY <1>12 DEF Begun, Administers
    <2>2. \A d \in Slots : d # c => req'[d] = Idle BY <1>1, <1>12, LoneBegun
    <2>3. req'[c].by # None /\ ComesAs(req'[c]) BY <1>1, <1>12 DEF Begun
    <2>4. req'[c].op \in {"delete", "verify", "roles"} =>
            /\ Administers(req'[c].by)
            /\ req'[c].op # "roles" => req'[c].by # req'[c].to
            /\ ~(req'[c].at \in {"get", "save"} /\ req'[c].op = "roles")
      BY <2>3 DEF ComesAs, IsAdmin, Caller, VerifyUserCallback, Administers, AdminIn
    <2>5. QED BY <1>3, <1>4, <2>1, <2>2, <2>4, IdleFacts DEF AdminHeld
  <1>13. ASSUME NEW c \in Slots, CommandStep(c) PROVE AdminHeld'
    <2>1. \A d \in Slots : d # c => req'[d] = Idle BY <1>1, <1>13, LoneCommand
    <2>2. /\ \A x : Administers(x) => \E y \in Users : Administers(y)'
          /\ req'[c].op \in {"delete", "verify", "roles"} =>
               /\ Administers(req[c].by)'
               /\ req'[c].op # "roles" => req'[c].by # req'[c].to
               /\ req'[c].at \in {"get", "save"} /\ req'[c].op = "roles" /\ req'[c].by = req'[c].to
                    => req'[c].val
      BY <1>1, <1>13, AdminCommand
    <2>3. QED BY <1>3, <2>1, <2>2, IdleFacts DEF AdminHeld
  <1>14. CASE Expire BY <1>5, <1>14, ExpireFacts
  <1>15. CASE Restart BY <1>5, <1>15, RestartFacts
  <1>16. QED BY <1>6, <1>7, <1>8, <1>9, <1>10, <1>11, <1>12, <1>13, <1>14, <1>15, NextCases

\* While every change is made by somebody who is logged in, and requests do not overlap, the
\* server keeps a verified administrator, with either database (user.controller.ts, user.service.ts).
THEOREM NobodyLockedOut == Spec => []NotLockedOut
  <1> DEFINE Inv == Lone /\ InsertsNew /\ AdminHeld
  <1>1. Init => Inv
    <2>1. SUFFICES ASSUME Init PROVE Inv OBVIOUS
    <2>2. \A c \in Slots : req[c] = Idle BY <2>1, InitFacts
    <2>3. WizardDone => \E u \in Users : Administers(u)
      <3>1. WizardDone => store["wizardCompleted"]
        BY <2>1, <2>2, InitFacts, IdleFacts DEF WizardDone, Storing
      <3>2. PICK owner \in mode.staff \cup {None} :
              /\ db.users = [u \in mode.staff |->
                              [root |-> u = owner, verified |-> TRUE, admin |-> u = owner]]
              /\ mode.staff # {} => owner \in mode.staff
        BY <2>1, InitFacts
      <3>3. mode.staff # {} => owner \in Users /\ Administers(owner)
        <4>1. ASSUME owner \in mode.staff PROVE owner \in Users /\ Administers(owner)
          <5>1. (owner = owner) = TRUE OBVIOUS
          <5>2. db.users[owner] = [root |-> owner = owner, verified |-> TRUE, admin |-> owner = owner]
            BY <3>2, <4>1
          <5>3. db.users[owner].admin = (owner = owner) /\ db.users[owner].verified BY <5>2
          <5>4. DOMAIN db.users = mode.staff BY <3>2
          <5>5. UsersOK(db.users) BY <2>1, InitFacts, ShapeFacts
          <5>6. QED BY <4>1, <5>3, <5>4, <5>5 DEF Administers, AdminIn, Known, UsersOK
        <4>2. QED BY <3>2, <4>1
      <3>4. QED BY <2>1, <3>1, <3>3, InitFacts
    <2>4. QED BY <2>2, <2>3, IdleFacts DEF Lone, InsertsNew, AdminHeld
  <1>2. Inv /\ Shape /\ EndedIsGone /\ [Next]_vars => Inv'
    BY LoneKept, InsertsNewKept, AdminKept
  <1>3. Inv => NotLockedOut
    BY DEF AdminHeld, NotLockedOut, WizardDone, Administers, AdminIn, Known
  <1>4. QED BY <1>1, <1>2, <1>3, AccountsShaped, PTL DEF Spec

---------------------------------------------------------------------------
(* Sessions of users                                                       *)

\* Every session has its user.
AllOwned == \A t \in DOMAIN db.tokens : Known(db.users, db.tokens[t].user)

\* A command that awaits no deletion of sessions finds, with one request at a time, all
\* sessions owned.
LEMMA OwnedBefore ==
  ASSUME Shape, EndedIsGone, Lone, SessionsOwned, [Next]_vars, ~past'.overlapped, ~past'.cut,
         NEW c \in Slots, CommandStep(c)
  PROVE  /\ req[c].at # "tokens" => AllOwned
         /\ \A t \in DOMAIN db.tokens :
              Known(db.users, db.tokens[t].user) \/ db.tokens[t].user = req[c].to
         /\ req[c].op = "login" /\ req[c].at \in {"purge", "token"} => Known(db.users, req[c].to)
  <1>1. ~past.overlapped /\ ~past.cut BY RememberedFacts DEF Remembered
  <1>2. \A d \in Slots : d # c => req[d] = Idle BY LoneCommand
  <1>3. Idle.at # "tokens" BY IdleFacts
  <1>4. QED BY <1>1, <1>2, <1>3 DEF SessionsOwned, AllOwned

\* Commands leave sessions that have their users, or are about to be deleted.
LEMMA OwnedCommand ==
  ASSUME Shape, EndedIsGone, Lone, SessionsOwned, [Next]_vars, ~past'.overlapped, ~past'.cut,
         NEW c \in Slots, CommandStep(c)
  PROVE  /\ \A t \in DOMAIN db'.tokens :
              \/ Known(db'.users, db'.tokens[t].user)
              \/ /\ req'[c].op = "delete" /\ req'[c].at = "tokens"
                 /\ req'[c].to = db'.tokens[t].user
         /\ req'[c].op = "login" /\ req'[c].at \in {"purge", "token"} =>
              Known(db'.users, req'[c].to)
  <1>0. /\ RequestOK(req[c]) /\ RequestOK(req'[c]) /\ Follows(c) /\ UsersOK(db.users)
        /\ req[c] # Idle
    BY ShapeFacts, CommandFacts DEF Shape, Follows
  <1>1. /\ req[c].at # "tokens" => AllOwned
        /\ \A t \in DOMAIN db.tokens :
             Known(db.users, db.tokens[t].user) \/ db.tokens[t].user = req[c].to
        /\ req[c].op = "login" /\ req[c].at \in {"purge", "token"} => Known(db.users, req[c].to)
    BY OwnedBefore
  <1>2. CASE ReadStep(c)
    <2>1. db' = db BY <1>2, ReadStepFacts
    <2>2. req[c].at # "tokens"
      BY <1>2, IsUserRootUserFacts, OwnUserFacts, GetUserFacts, FindRootUsersFacts,
         FindVerifiedUsersFacts, FindUsersByRoleIdFacts, SignJwtTokenFacts, RenewGetUserFacts,
         AttemptsUsedFacts, CheckTokenFacts, FindSettingsFacts DEF ReadStep
    <2>3. ASSUME req'[c].op = "login", req'[c].at \in {"purge", "token"}
          PROVE  Known(db.users, req'[c].to)
      <3>1. req'[c] # Idle /\ req'[c].op = req[c].op /\ req'[c].to = req[c].to
        BY <1>0, <2>3, IdleFacts DEF Follows
      <3>2. SignJwtToken(c) \/ PurgeOutdated(c)
        BY <2>3, <3>1, CommandLeads DEF Leads, SettingsOps, Storing
      <3>3. CASE SignJwtToken(c) BY <3>1, <3>3, SignJwtTokenFacts
      <3>4. CASE PurgeOutdated(c) BY <1>1, <2>3, <3>1, <3>4, PurgeOutdatedFacts
      <3>5. QED BY <3>2, <3>3, <3>4
    <2>4. QED BY <1>1, <2>1, <2>2, <2>3 DEF AllOwned
  <1>3. CASE TokenStep(c)
    <2>1. /\ db'.users = db.users
          /\ req'[c] # Idle => req'[c].at = "token"
          /\ \A t \in DOMAIN db'.tokens :
               \/ t \in DOMAIN db.tokens /\ db'.tokens[t] = db.tokens[t]
               \/ db'.tokens[t].user = req[c].to
      BY <1>3, TokenStepFacts DEF Written
    <2>2. CASE DeleteTokens(c)
      <3>1. /\ db'.tokens = DeleteRefreshTokenByUserId(db.tokens, req[c].to) /\ req'[c] = Idle
        BY <2>2, DeleteTokensFacts DEF Written
      <3>2. \A t \in DOMAIN db'.tokens :
              t \in DOMAIN db.tokens /\ db'.tokens[t] = db.tokens[t] /\ db.tokens[t].user # req[c].to
        BY <3>1 DEF DeleteRefreshTokenByUserId, Kept
      <3>3. QED BY <1>1, <2>1, <3>1, <3>2, IdleFacts
    <2>3. CASE ~DeleteTokens(c)
      <3>1. req[c].at # "tokens"
        BY <1>3, <2>3, PurgeOutdatedFacts, InsertTokenFacts, DropTokenFacts DEF TokenStep
      <3>2. CASE DropToken(c)
        <4>1. db'.tokens = DeleteRefreshToken(db.tokens, req[c].tok) /\ req'[c] = Idle
          BY <3>2, DropTokenFacts DEF Written
        <4>2. \A t \in DOMAIN db'.tokens : t \in DOMAIN db.tokens /\ db'.tokens[t] = db.tokens[t]
          BY <4>1 DEF DeleteRefreshToken, Kept
        <4>3. QED BY <1>1, <2>1, <3>1, <4>1, <4>2, IdleFacts DEF AllOwned
      <3>3. CASE PurgeOutdated(c) \/ InsertToken(c)
        <4>1. req[c].at \in {"purge", "token"} /\ req[c].op = "login"
          BY <1>0, <3>3, PurgeOutdatedFacts, InsertTokenFacts, StageFacts
        <4>2. Known(db.users, req[c].to) BY <1>1, <4>1
        <4>3. req'[c] # Idle => req'[c].to = req[c].to BY <1>0 DEF Follows
        <4>4. QED BY <1>1, <2>1, <3>1, <4>2, <4>3, IdleFacts DEF AllOwned
      <3>4. QED BY <1>3, <2>3, <3>2, <3>3 DEF TokenStep
    <2>4. QED BY <2>2, <2>3
  <1>4. CASE UserStep(c)
    <2>1. db'.tokens = db.tokens /\ req[c].at \in {"save", "erase", "insert"}
      BY <1>4, SaveFacts, EraseUserFacts, InsertUserFacts DEF UserStep, Written
    <2>2. req'[c].at \notin {"purge", "token"}
      BY <1>4, SaveFacts, EraseUserFacts, InsertUserFacts, IdleFacts DEF UserStep
    <2>3. AllOwned BY <1>1, <2>1
    <2>4. CASE Save(c)
      <3>1. db'.users = Saved(req[c]) BY <2>4, SaveFacts DEF Written
      <3>2. DOMAIN db'.users = DOMAIN db.users BY <3>1 DEF Saved, SetField
      <3>3. QED BY <2>1, <2>2, <2>3, <3>2 DEF AllOwned, Known
    <2>5. CASE EraseUser(c)
      <3>1. /\ db'.users = Erase(db.users, req[c].to) /\ req'[c].at = "tokens"
            /\ req'[c].op = req[c].op /\ req[c].op = "delete"
        BY <1>0, <2>5, EraseUserFacts, StageFacts DEF Written
      <3>2. req'[c].to = req[c].to BY <1>0, <3>1, IdleFacts DEF Follows
      <3>3. DOMAIN db'.users = (DOMAIN db.users) \ {req[c].to} BY <3>1 DEF Erase
      <3>4. QED BY <2>1, <2>2, <2>3, <3>1, <3>2, <3>3 DEF AllOwned, Known
    <2>6. CASE InsertUser(c)
      <3>1. db'.users = Register(db.users, req[c].to, Inserted(req[c]))
        BY <2>6, InsertUserFacts DEF Written
      <3>2. DOMAIN db.users \subseteq DOMAIN db'.users BY <3>1 DEF Register, Put
      <3>3. QED BY <2>1, <2>2, <2>3, <3>2 DEF AllOwned, Known
    <2>7. QED BY <1>4, <2>4, <2>5, <2>6 DEF UserStep
  <1>5. CASE DocStep(c) \/ CountAttempt(c) \/ StoreSettings(c)
    <2>1. db'.users = db.users
      BY <1>5, UsersSame, SaveMigratedFacts, SavePatchedFacts, CountAttemptFacts, StoreSettingsFacts
         DEF DocStep, Written
    <2>2. \A t \in DOMAIN db'.tokens :
            t \in DOMAIN db.tokens /\ db'.tokens[t].user = db.tokens[t].user
      <3>1. CASE CountAttempt(c)
        <4>1. db'.tokens = UpdateRefreshTokenAttempts(db.tokens, req[c].tok, req[c].seen + 1)
          BY <3>1, CountAttemptFacts
        <4>2. TokensOK(db.tokens) BY ShapeFacts
        <4>3. QED BY <4>1, <4>2 DEF UpdateRefreshTokenAttempts, TokensOK, Token
      <3>2. QED
        BY <1>5, <3>1, SaveMigratedFacts, SavePatchedFacts, StoreSettingsFacts DEF DocStep, Written
    <2>3. req[c].at # "tokens" /\ req'[c].at \notin {"purge", "token"}
      BY <1>5, SaveMigratedFacts, SavePatchedFacts, CountAttemptFacts, StoreSettingsFacts, IdleFacts
         DEF DocStep
    <2>4. QED BY <1>1, <2>1, <2>2, <2>3 DEF AllOwned
  <1>6. QED BY <1>2, <1>3, <1>4, <1>5, CommandCases

LEMMA SessionsKept ==
  ASSUME Shape, EndedIsGone, Lone, SessionsOwned, [Next]_vars
  PROVE  SessionsOwned'
  <1>1. SUFFICES ASSUME ~past'.overlapped, ~past'.cut PROVE SessionsOwned'
    BY DEF SessionsOwned
  <1>2. ~past.overlapped /\ ~past.cut BY <1>1, RememberedFacts DEF Remembered
  <1>3. ASSUME mode.db = "sqlite" PROVE AllOwned
    BY <1>2, <1>3, IdleFacts DEF Shape, SessionsOwned, AllOwned
  <1>4. ASSUME mode.db = "sqlite", AllOwned' PROVE SessionsOwned'
    BY <1>4, ShapeKept, IdleFacts DEF Shape, SessionsOwned, AllOwned
  <1>5. CASE UNCHANGED vars BY <1>2, <1>5, StutterFacts DEF SessionsOwned
  <1>6. ASSUME NEW by, SqlUsers(by) PROVE SessionsOwned'
    BY <1>4, <1>6, SqlUsersShape DEF AllOwned
  <1>7. CASE SqlTokens BY <1>7, SqlTokensShape, <1>3, <1>4 DEF AllOwned, RowsFollow
  <1>8. ASSUME NEW by, SqlChanges(by) PROVE SessionsOwned'
    BY <1>8, SqlChangesShape, <1>3, <1>4 DEF AllOwned
  <1>9. CASE SqlWizard
    <2>1. PICK u \in Users : db'.users = Register(db.users, u, WizardUser)
      BY <1>9, SqlWizardFacts
    <2>2. mode.db = "sqlite" /\ db'.tokens = db.tokens BY <1>9, SqlWizardFacts
    <2>3. DOMAIN db.users \subseteq DOMAIN db'.users BY <2>1 DEF Register, Put
    <2>4. QED BY <1>3, <1>4, <2>2, <2>3 DEF AllOwned, Known
  <1>10. ASSUME NEW t \in DOMAIN db.tokens, SqlRefresh(t) PROVE SessionsOwned'
    <2>1. /\ mode.db = "sqlite" /\ db'.users = db.users
          /\ db'.tokens = UpdateRefreshTokenAttempts(db.tokens, t, db.tokens[t].used + 1)
      BY <1>10, SqlRefreshFacts
    <2>2. TokensOK(db.tokens) BY ShapeFacts
    <2>3. \A x \in DOMAIN db'.tokens :
            x \in DOMAIN db.tokens /\ db'.tokens[x].user = db.tokens[x].user
      BY <2>1, <2>2 DEF UpdateRefreshTokenAttempts, TokensOK, Token
    <2>4. QED BY <1>3, <1>4, <2>1, <2>3 DEF AllOwned
  <1>11. ASSUME NEW c \in Slots, Begun(c) PROVE SessionsOwned'
    <2>1. \A d \in Slots : req[d] = Idle /\ (d # c => req'[d] = Idle)
      BY <1>1, <1>11, LoneBegun
    <2>2. AllOwned BY <1>2, <2>1, IdleFacts DEF SessionsOwned, AllOwned
    <2>3. db' = db /\ (req'[c].op = "login" => req'[c].at = "sign")
      BY <1>11 DEF Begun, ComesAs
    <2>4. QED BY <2>1, <2>2, <2>3, IdleFacts DEF SessionsOwned, AllOwned
  <1>12. ASSUME NEW c \in Slots, CommandStep(c) PROVE SessionsOwned'
    <2>1. \A d \in Slots : d # c => req'[d] = Idle BY <1>1, <1>12, LoneCommand
    <2>2. /\ \A t \in DOMAIN db'.tokens :
               \/ Known(db'.users, db'.tokens[t].user)
               \/ /\ req'[c].op = "delete" /\ req'[c].at = "tokens"
                  /\ req'[c].to = db'.tokens[t].user
          /\ req'[c].op = "login" /\ req'[c].at \in {"purge", "token"} =>
               Known(db'.users, req'[c].to)
      BY <1>1, <1>12, OwnedCommand
    <2>3. QED BY <2>1, <2>2, IdleFacts DEF SessionsOwned
  <1>13. CASE Expire BY <1>13, ExpireFacts, <1>2 DEF SessionsOwned
  <1>14. CASE Restart
    <2>1. /\ db'.users = db.users /\ db'.tokens = db.tokens /\ \A c \in Slots : req'[c] = Idle
          /\ past'.cut = (past.cut \/ ~AllIdle)
      BY <1>14, RestartFacts
    <2>2. AllOwned BY <1>1, <1>2, <2>1, IdleFacts DEF AllIdle, SessionsOwned, AllOwned
    <2>3. QED BY <2>1, <2>2, IdleFacts DEF SessionsOwned, AllOwned
  <1>15. QED BY <1>5, <1>6, <1>7, <1>8, <1>9, <1>10, <1>11, <1>12, <1>13, <1>14, NextCases

\* When all requests are answered and none overlapped or was cut off, every session belongs to
\* a user that exists (user.controller.ts logs the user out that it deletes).
THEOREM SessionsOfUsers == Spec => []SessionsHaveUsers
  <1> DEFINE Inv == Lone /\ SessionsOwned
  <1>1. Init => Inv
    <2>1. SUFFICES ASSUME Init PROVE Inv OBVIOUS
    <2>2. (\A c \in Slots : req[c] = Idle) /\ DOMAIN db.tokens = {} BY <2>1, InitFacts
    <2>3. QED BY <2>2, IdleFacts DEF Lone, SessionsOwned
  <1>2. Inv /\ Shape /\ EndedIsGone /\ [Next]_vars => Inv' BY LoneKept, SessionsKept
  <1>3. Inv => SessionsHaveUsers BY IdleFacts DEF SessionsOwned, SessionsHaveUsers, AllIdle
  <1>4. QED BY <1>1, <1>2, <1>3, AccountsShaped, PTL DEF Spec

---------------------------------------------------------------------------
(* Settings that were answered                                             *)

LEMMA AskedFacts ==
  ASSUME Shape
  PROVE  IsAsked(past.asked)
  BY ShapeFacts, PastFacts DEF IsAsked

\* Settings agree with what is asked for, however both change.
LEMMA AgreeFacts ==
  ASSUME NEW settings, IsSettings(settings), NEW asked, IsAsked(asked), Agree(settings, asked)
  PROVE  /\ \A S : Agree(settings, Without(asked, S))
         /\ "autoRemoveOldFilesAtBoot" \notin DOMAIN asked =>
              Agree(MigrateSettingsRuntime(settings), asked)
  <1>1. ASSUME NEW S PROVE Agree(settings, Without(asked, S)) BY DEF Without, Agree
  <1>2. ASSUME "autoRemoveOldFilesAtBoot" \notin DOMAIN asked
        PROVE  Agree(MigrateSettingsRuntime(settings), asked)
    BY <1>2, MigratedFacts DEF Agree
  <1>3. QED BY <1>1, <1>2

LEMMA AgreeAssigned ==
  ASSUME NEW settings, IsSettings(settings), NEW asked, Agree(settings, asked),
         NEW p \in SomePatch, DOMAIN p.fields \cap DOMAIN asked = {}
  PROVE  Agree(Assigned(settings, p), asked) /\ Agree(Assigned(settings, p), p.fields)
  BY AssignedFacts DEF Agree

LEMMA AgreeAnswered ==
  ASSUME NEW asked, IsAsked(asked), NEW p \in SomePatch, NEW settings
  PROVE  Agree(settings, asked) /\ Agree(settings, p.fields) =>
           Agree(settings, Acknowledged(asked, p))
  <1>1. /\ DOMAIN Acknowledged(asked, p) = DOMAIN p.fields \cup ((DOMAIN asked) \ Lost(p))
        /\ \A s \in DOMAIN p.fields : Acknowledged(asked, p)[s] = p.fields[s]
        /\ \A s \in ((DOMAIN asked) \ Lost(p)) \ DOMAIN p.fields :
             Acknowledged(asked, p)[s] = asked[s]
    BY AcknowledgedFacts, SMTT(30)
  <1>2. QED BY <1>1 DEF Agree

LEMMA AgreePatched ==
  ASSUME mode.db = "sqlite", NEW settings, IsSettings(settings), NEW asked, IsAsked(asked),
         Agree(settings, asked), NEW p \in SomePatch,
         p.group = "timeout" => "apiTimeout" \in DOMAIN p.fields
  PROVE  Agree(Patched(settings, p), Acknowledged(asked, p))
  <1>1. /\ DOMAIN Acknowledged(asked, p) = DOMAIN p.fields \cup ((DOMAIN asked) \ Lost(p))
        /\ \A s \in DOMAIN p.fields : Acknowledged(asked, p)[s] = p.fields[s]
        /\ \A s \in ((DOMAIN asked) \ Lost(p)) \ DOMAIN p.fields :
             Acknowledged(asked, p)[s] = asked[s]
    BY AcknowledgedFacts
  <1>2. /\ \A s \in DOMAIN p.fields :
             s \in DOMAIN Patched(settings, p) /\ Patched(settings, p)[s] = p.fields[s]
        /\ \A s \in (DOMAIN settings) \ DOMAIN p.fields :
             s \notin Replaced(p) /\ s # "autoRemoveOldFilesAtBoot" =>
               s \in DOMAIN Patched(settings, p) /\ Patched(settings, p)[s] = settings[s]
    BY PatchedFacts
  <1>3. QED BY <1>1, <1>2 DEF Agree, Lost

\* Nothing that is asked for changes, and no request reads or answers settings.
LEMMA SettingsSame ==
  ASSUME Shape, Shape', mode' = mode, SettingsHeld, db'.settings = db.settings, store' = store,
         sentry' = sentry, past'.asked = past.asked, past'.doubt = past.doubt,
         past'.aside = past.aside,
         \A c \in Slots : req'[c].op \in SettingsOps =>
           /\ req[c].op \in SettingsOps /\ req'[c].val = req[c].val
           /\ req'[c].at \in Storing \ {"read"} => req'[c].at = req[c].at /\ req'[c].seen = req[c].seen
  PROVE  SettingsHeld'
  <1>1. ASSUME NEW c \in Slots, req'[c].op \in SettingsOps PROVE Apart(req[c], past.asked)'
    BY <1>1 DEF SettingsHeld, Apart
  <1>2. ASSUME NEW c \in Slots, req'[c].op \in SettingsOps, ~past.doubt
        PROVE  Answers(req[c], db.settings)'
    BY <1>2 DEF SettingsHeld, Answers, Storing
  <1>3. Agree(db.settings, past.asked)' /\ Agree(store, past.asked)' /\ SentryHeld'
    BY DEF SettingsHeld, SentryHeld
  <1>4. QED BY <1>1, <1>2, <1>3 DEF SettingsHeld

\* With SQLite, where requests are one step.
LEMMA SqlSettingsHeld ==
  ASSUME Shape', mode' = mode, mode.db = "sqlite", ~past'.doubt,
         Agree(db.settings, past.asked)', Agree(store, past.asked)', SentryHeld'
  PROVE  SettingsHeld'
  <1>1. \A c \in Slots : req'[c] = Idle BY DEF Shape
  <1>2. \A c \in Slots : req'[c].op \notin SettingsOps BY <1>1, IdleFacts DEF SettingsOps
  <1>3. QED BY <1>2 DEF SettingsHeld

\* SQLite: an answer to a request for settings.
LEMMA SettingsChanged ==
  ASSUME Shape, SettingsHeld, NEW by, SqlChanges(by)
  PROVE  SettingsHeld'
  <1>1. PICK p \in SomePatch :
          /\ "wizardCompleted" \notin DOMAIN p.fields
          /\ p.group = "timeout" => "apiTimeout" \in DOMAIN p.fields
          /\ Shape' /\ mode' = mode /\ mode.db = "sqlite" /\ req' = req
          /\ db'.users = db.users /\ db'.tokens = db.tokens
          /\ db'.settings = Patched(db.settings, p) /\ store' = db'.settings
          /\ SamePast({"opened", "asked", "aside"}) /\ past'.opened = (past.opened \/ by = None)
          /\ past'.asked = Acknowledged(past.asked, p) /\ Told(p)
    BY SqlChangesShape
  <1>2. IsSettings(db.settings) /\ IsAsked(past.asked) BY ShapeFacts, AskedFacts
  <1>3. Agree(Patched(db.settings, p), Acknowledged(past.asked, p))
    BY <1>1, <1>2, AgreePatched DEF SettingsHeld
  <1>4. Agree(db.settings, past.asked)' /\ Agree(store, past.asked)' BY <1>1, <1>3
  <1>5. SentryHeld'
    <2>1. /\ DOMAIN Acknowledged(past.asked, p) = DOMAIN p.fields \cup ((DOMAIN past.asked) \ Lost(p))
          /\ \A s \in ((DOMAIN past.asked) \ Lost(p)) \ DOMAIN p.fields :
               Acknowledged(past.asked, p)[s] = past.asked[s]
      BY <1>2, AcknowledgedFacts
    <2>2. CASE "sentryDiagnosticsEnabled" \in DOMAIN p.fields
      BY <1>1, <1>4, <2>2 DEF SentryHeld, Agree, Told
    <2>3. CASE "sentryDiagnosticsEnabled" \notin DOMAIN p.fields
      BY <1>1, <2>1, <2>3 DEF SentryHeld, SettingsHeld, Told
    <2>4. QED BY <2>2, <2>3
  <1>6. ~past'.doubt BY ShapeFacts, PastFacts, <1>1 DEF SamePast, SettingsHeld
  <1>7. QED BY <1>1, <1>4, <1>5, <1>6, SqlSettingsHeld

LEMMA SettingsWizard ==
  ASSUME Shape, SettingsHeld, SqlWizard
  PROVE  SettingsHeld'
  <1>1. /\ Shape' /\ mode' = mode /\ mode.db = "sqlite" /\ sentry' = sentry
        /\ store' = db'.settings /\ SamePast({"asked"})
        /\ DOMAIN past'.asked =
             WizardFields \cup ((DOMAIN past.asked) \ {"autoRemoveOldFilesAtBoot"})
        /\ \A s \in WizardFields : s \in DOMAIN store' /\ store'[s] = past'.asked[s]
        /\ SameBut(past'.asked, past.asked, WizardFields \cup {"autoRemoveOldFilesAtBoot"})
        /\ SameBut(store', db.settings, WizardFields \cup {"autoRemoveOldFilesAtBoot"})
    BY SqlWizardFacts
  <1>2. Agree(store', past'.asked) BY <1>1 DEF SettingsHeld, Agree, SameBut
  <1>3. Agree(db.settings, past.asked)' /\ Agree(store, past.asked)' BY <1>1, <1>2
  <1>4. past'.aside = past.aside /\ ~past'.doubt
    BY ShapeFacts, PastFacts, <1>1 DEF SamePast, SettingsHeld
  <1>5. SentryHeld' BY <1>1, <1>4 DEF WizardFields, SentryHeld, SettingsHeld, SameBut
  <1>6. QED BY <1>1, <1>3, <1>4, <1>5, SqlSettingsHeld

\* MongoDB: a request comes. What it changes is not known any more.
LEMMA SettingsBegun ==
  ASSUME Shape, EndedIsGone, SettingsHeld, NEW c \in Slots, Begun(c)
  PROVE  SettingsHeld'
  <1>0. /\ IsAsked(past.asked) /\ IsSettings(db.settings) /\ IsSettings(store)
        /\ Shape' /\ mode' = mode /\ mode.db = "mongo"
        /\ db' = db /\ store' = store /\ sentry' = sentry /\ past'.aside = past.aside
        /\ \A d \in Slots : d # c => req'[d] = req[d]
    BY AskedFacts, ShapeFacts, PastFacts, BegunShape DEF Begun, SamePast
  <1>1. CASE req'[c].op \notin SettingsOps
    <2>1. past'.asked = past.asked /\ past'.doubt = past.doubt BY <1>1 DEF Begun
    <2>2. \A d \in Slots : req'[d].op \in SettingsOps => d # c BY <1>1
    <2>3. QED BY <1>0, <2>1, <2>2, SettingsSame
  <1>2. CASE req'[c].op \in SettingsOps
    <2>1. req'[c].at \notin Storing \ {"read"} /\ RequestOK(req'[c]) /\ req'[c] # Idle
      BY DEF Begun, ComesAs, Storing
    <2>2. PICK S : past'.asked = Without(past.asked, S) BY <1>2 DEF Begun
    <2>3. /\ DOMAIN past'.asked = (DOMAIN past.asked) \ S
          /\ \A s \in DOMAIN past'.asked : past'.asked[s] = past.asked[s]
      BY <2>2 DEF Without
    <2>4. ASSUME NEW settings, Agree(settings, past.asked) PROVE Agree(settings, past'.asked)
      BY <2>3, <2>4 DEF Agree
    <2>5. Agree(db.settings, past.asked)' /\ Agree(store, past.asked)' /\ SentryHeld'
      BY <1>0, <2>3, <2>4 DEF SettingsHeld, SentryHeld
    <2>6. ASSUME NEW r, Apart(r, past.asked) PROVE Apart(r, past'.asked)
      BY <2>3, <2>4, <2>6 DEF Apart
    <2>7. ASSUME NEW d \in Slots, d # c, req'[d].op \in SettingsOps
          PROVE  Apart(req'[d], past'.asked)
      BY <1>0, <2>6, <2>7 DEF SettingsHeld
    <2>8. CASE OthersChange(c)
      <3>1. past'.asked = Without(past.asked, Switches) /\ past'.doubt
        BY <1>2, <2>8 DEF Begun
      <3>2. DOMAIN past'.asked = {} BY <1>0, <3>1 DEF Without, IsAsked
      <3>3. Apart(req'[c], past'.asked) BY <2>1, <3>2 DEF Apart
      <3>4. QED BY <1>0, <2>5, <2>7, <3>1, <3>2, <3>3 DEF SettingsHeld
    <2>9. CASE ~OthersChange(c)
      <3>1. /\ past'.asked =
                 Without(past.asked, Changed(req'[c]) \cup {"autoRemoveOldFilesAtBoot"})
            /\ past'.doubt = past.doubt
        BY <1>2, <2>9 DEF Begun
      <3>2. DOMAIN past'.asked =
              (DOMAIN past.asked) \ (Changed(req'[c]) \cup {"autoRemoveOldFilesAtBoot"})
        BY <3>1 DEF Without
      <3>3. \A i \in 1..Len(req'[c].val) : DOMAIN req'[c].val[i].fields \subseteq Changed(req'[c])
        <4>1. req'[c].val \in Seq(SomePatch) BY <1>2, <2>1 DEF RequestOK, PatchesOK
        <4>2. DOMAIN req'[c].val = 1..Len(req'[c].val) BY <4>1
        <4>3. QED BY <4>2 DEF Changed
      <3>4. Apart(req'[c], past'.asked) BY <2>1, <3>2, <3>3 DEF Apart
      <3>5. \A d \in Slots : d # c => req'[d].op \notin SettingsOps
        BY <1>0, <2>9 DEF OthersChange
      <3>6. Answers(req'[c], db'.settings) BY <2>1 DEF Answers, Storing
      <3>7. past'.doubt => DOMAIN past'.asked = {} BY <2>3, <3>1 DEF SettingsHeld
      <3>8. QED BY <1>0, <2>5, <3>4, <3>5, <3>6, <3>7 DEF SettingsHeld
    <2>10. QED BY <2>8, <2>9
  <1>3. QED BY <1>1, <1>2

\* MongoDB: the settings are read, and filled.
LEMMA SettingsFound ==
  ASSUME Shape, EndedIsGone, SettingsHeld, [Next]_vars, NEW c \in Slots, FindSettings(c)
  PROVE  SettingsHeld'
  <1>0. /\ Follows(c) /\ db' = db /\ store' = store /\ sentry' = sentry /\ past' = past
        /\ mode' = mode /\ Shape' /\ req[c].at = "read" /\ RequestOK(req[c])
        /\ req'[c].op = req[c].op /\ req'[c].at = "migrate"
        /\ req'[c].seen = MigrateSettingsRuntime(db.settings)
    BY FindSettingsFacts, ShapeKept DEF Reads, Shape
  <1>1. /\ req[c].op \in SettingsOps /\ req'[c].val = req[c].val
        /\ \A d \in Slots : d # c => req'[d] = req[d]
    BY <1>0, StageFacts, IdleFacts DEF Follows, Storing
  <1>2. Apart(req[c], past.asked) /\ Agree(db.settings, past.asked) BY <1>1 DEF SettingsHeld
  <1>3. Agree(MigrateSettingsRuntime(db.settings), past.asked)
    <2>1. IsSettings(db.settings) /\ IsAsked(past.asked) BY ShapeFacts, AskedFacts
    <2>2. "autoRemoveOldFilesAtBoot" \notin DOMAIN past.asked BY <1>2 DEF Apart
    <2>3. QED BY <1>2, <2>1, <2>2, AgreeFacts
  <1>4. Apart(req'[c], past.asked) /\ Answers(req'[c], db.settings)
    BY <1>0, <1>1, <1>2, <1>3 DEF Apart, Answers
  <1>5. ASSUME NEW d \in Slots, req'[d].op \in SettingsOps
        PROVE  Apart(req'[d], past.asked) /\ (~past.doubt => Answers(req'[d], db.settings))
    BY <1>1, <1>4, <1>5 DEF SettingsHeld
  <1>6. \A d \in Slots : req'[d].op = req[d].op BY <1>0, <1>1
  <1>7. QED BY <1>0, <1>5, <1>6 DEF SettingsHeld, SentryHeld

\* The document is written, with what a request has read.
LEMMA SettingsWritten ==
  ASSUME Shape, EndedIsGone, SettingsHeld, [Next]_vars, NEW c \in Slots, DocStep(c)
  PROVE  SettingsHeld'
  <1>0. /\ Shape' /\ mode' = mode /\ store' = store /\ sentry' = sentry /\ SamePast({"ended"})
        /\ Follows(c) /\ req[c].op \in SettingsOps /\ req'[c].op = req[c].op
        /\ req'[c].val = req[c].val /\ req[c].at \in {"migrate", "write"}
        /\ IsSettings(req[c].seen) /\ db'.settings = req'[c].seen
    BY SaveMigratedFacts, SavePatchedFacts DEF DocStep, Written
  <1>1. past'.asked = past.asked /\ past'.doubt = past.doubt /\ past'.aside = past.aside
    BY ShapeFacts, PastFacts, <1>0 DEF SamePast
  <1>2. Apart(req[c], past.asked) /\ Agree(req[c].seen, past.asked)
    BY <1>0 DEF SettingsHeld, Apart, Storing
  <1>3. \A d \in Slots : d # c => req'[d] = req[d] BY <1>0 DEF Follows
  <1>4. /\ Agree(req'[c].seen, past.asked)
        /\ req'[c].at = "answer" => Agree(req'[c].seen, req[c].val[1].fields)
    <2>1. CASE SaveMigrated(c) BY <1>2, <2>1, SaveMigratedFacts
    <2>2. CASE SavePatched(c)
      <3> DEFINE p == req[c].val[1]
      <3>1. p \in SomePatch /\ req'[c].seen = Assigned(req[c].seen, p)
        BY <2>2, SavePatchedFacts
      <3>2. 1 \in 1..Len(req[c].val) BY <1>0, FirstPatch DEF Shape
      <3>3. DOMAIN p.fields \cap DOMAIN past.asked = {} BY <1>2, <3>2 DEF Apart
      <3> HIDE DEF p
      <3>4. Agree(Assigned(req[c].seen, p), past.asked) /\ Agree(Assigned(req[c].seen, p), p.fields)
        BY <1>0, <1>2, <3>1, <3>3, AgreeAssigned
      <3>5. QED BY <3>1, <3>4 DEF p
    <2>3. QED BY <2>1, <2>2 DEF DocStep
  <1>5. Apart(req'[c], past.asked) /\ Answers(req'[c], db'.settings)
    BY <1>0, <1>2, <1>4 DEF Apart, Answers
  <1>6. ASSUME NEW d \in Slots, req'[d].op \in SettingsOps
        PROVE  Apart(req'[d], past.asked) /\ (~past.doubt => Answers(req'[d], db'.settings))
    <2>1. CASE d = c BY <1>5, <2>1
    <2>2. CASE d # c
      <3>1. req'[d] = req[d] /\ Apart(req[d], past.asked)
        BY <1>3, <1>6, <2>2 DEF SettingsHeld
      <3>2. past.doubt BY <1>0, <1>6, <2>2, <3>1 DEF SettingsHeld
      <3>3. QED BY <3>1, <3>2
    <2>3. QED BY <2>1, <2>2
  <1>7. \A d \in Slots : req'[d].op = req[d].op BY <1>0, <1>3
  <1>8. QED BY <1>0, <1>1, <1>4, <1>6, <1>7 DEF SettingsHeld, SentryHeld

\* The store takes an answer of which nothing is known.
LEMMA SettingsDoubted ==
  ASSUME Shape, EndedIsGone, SettingsHeld, NEW c \in Slots, StoreSettings(c), past.doubt
  PROVE  SettingsHeld'
  <1>0. /\ Shape' /\ Follows(c) /\ mode.db = "mongo" /\ mode' = mode /\ db' = db
        /\ past'.asked = past.asked
        /\ past'.doubt = (past.doubt /\ (OthersChange(c) \/ Len(req[c].val) # 1))
        /\ Len(req[c].val) = 1 => req'[c] = Idle
    BY StoreSettingsFacts
  <1>1. DOMAIN past.asked = {} BY DEF SettingsHeld
  <1>2. /\ Agree(db.settings, past.asked)' /\ Agree(store, past.asked)' /\ SentryHeld'
        /\ \A d \in Slots : Apart(req[d], past.asked)'
    BY <1>0, <1>1 DEF Agree, SentryHeld, Apart
  <1>3. ~past'.doubt => \A d \in Slots : req'[d].op \notin SettingsOps
    <2>1. ASSUME ~past'.doubt, NEW d \in Slots PROVE req'[d].op \notin SettingsOps
      <3>1. ~OthersChange(c) /\ req'[c] = Idle BY <1>0, <2>1
      <3>2. CASE d = c BY <3>1, <3>2, IdleFacts DEF SettingsOps
      <3>3. CASE d # c BY <1>0, <3>1, <3>3 DEF OthersChange, Follows
      <3>4. QED BY <3>2, <3>3
    <2>2. QED BY <2>1
  <1>4. QED BY <1>0, <1>1, <1>2, <1>3 DEF SettingsHeld

\* The store takes the answer to the only request for settings.
LEMMA SettingsAnswered ==
  ASSUME Shape, EndedIsGone, SettingsHeld, NEW c \in Slots, StoreSettings(c), ~past.doubt
  PROVE  SettingsHeld'
  <1> DEFINE r == req[c]
             p == r.val[1]
  <1>0. /\ Shape' /\ Follows(c) /\ mode.db = "mongo" /\ r.at = "answer" /\ r # Idle
        /\ r.op \in SettingsOps /\ IsSettings(r.seen)
        /\ p \in SomePatch /\ PatchesOK(r.op, r.val)
        /\ mode' = mode /\ db' = db /\ store' = r.seen
        /\ sentry' = IF r.op = "sentry" THEN store'["sentryDiagnosticsEnabled"] ELSE sentry
        /\ past'.asked = Acknowledged(past.asked, p) /\ ~past'.doubt /\ past'.aside = Aside(r.op, p)
        /\ IF Len(r.val) = 1 THEN req'[c] = Idle
           ELSE /\ req'[c] # Idle /\ req'[c].at = "read" /\ req'[c].op = r.op
                /\ req'[c].val = Tail(r.val)
    BY StoreSettingsFacts
  <1>1. Len(r.val) \in Nat /\ Len(r.val) >= 1 /\ 1 \in 1..Len(r.val)
    BY <1>0, FirstPatch DEF Shape
  <1>2. /\ Apart(r, past.asked) /\ Agree(r.seen, past.asked) /\ db.settings = r.seen
        /\ Agree(r.seen, p.fields)
    BY <1>0 DEF SettingsHeld, Apart, Answers, Storing
  <1>3. Told(p)
    <2>1. r.op = "sentry" => "sentryDiagnosticsEnabled" \in DOMAIN p.fields
      BY <1>0, <1>1 DEF PatchesOK
    <2> HIDE DEF p
    <2>2. QED BY <1>0, <2>1 DEF Told, Aside
  <1>4. /\ DOMAIN past'.asked = DOMAIN p.fields \cup ((DOMAIN past.asked) \ {"autoRemoveOldFilesAtBoot"})
        /\ \A s \in (DOMAIN past.asked) \ DOMAIN p.fields :
             s # "autoRemoveOldFilesAtBoot" => past'.asked[s] = past.asked[s]
    <2> HIDE DEF p
    <2>1. IsAsked(past.asked) BY AskedFacts
    <2>2. /\ DOMAIN Acknowledged(past.asked, p) = DOMAIN p.fields \cup ((DOMAIN past.asked) \ Lost(p))
          /\ \A s \in ((DOMAIN past.asked) \ Lost(p)) \ DOMAIN p.fields :
               Acknowledged(past.asked, p)[s] = past.asked[s]
      BY <1>0, <2>1, AcknowledgedFacts
    <2>3. Lost(p) = {"autoRemoveOldFilesAtBoot"} BY <1>0 DEF Lost
    <2>4. QED BY <1>0, <2>2, <2>3
  <1>5. Agree(r.seen, past'.asked)
    <2> HIDE DEF p
    <2>1. IsAsked(past.asked) BY AskedFacts
    <2>2. Agree(r.seen, Acknowledged(past.asked, p)) BY <1>0, <1>2, <2>1, AgreeAnswered
    <2>3. QED BY <1>0, <2>2
  <1>6. Agree(db.settings, past.asked)' /\ Agree(store, past.asked)' BY <1>0, <1>2, <1>5
  <1>7. SentryHeld'
    <2> HIDE DEF p
    <2>1. CASE "sentryDiagnosticsEnabled" \in DOMAIN p.fields
      BY <1>0, <1>3, <1>5, <2>1 DEF SentryHeld, Agree, Told
    <2>2. CASE "sentryDiagnosticsEnabled" \notin DOMAIN p.fields
      BY <1>3, <1>4, <2>2 DEF SentryHeld, SettingsHeld, Told
    <2>3. QED BY <2>1, <2>2
  <1>8. \A d \in Slots : d # c => req'[d].op \notin SettingsOps
    BY <1>0 DEF SettingsHeld, Follows
  <1>9. req'[c].op \in SettingsOps => Apart(req'[c], past'.asked) /\ req'[c].at # "answer"
    <2>1. SUFFICES ASSUME req'[c].op \in SettingsOps
                   PROVE  Apart(req'[c], past'.asked) /\ req'[c].at # "answer"
      OBVIOUS
    <2>2. Len(r.val) # 1 /\ req'[c].at = "read" /\ req'[c].val = Tail(r.val)
      BY <1>0, <2>1, IdleFacts DEF SettingsOps
    <2>3. "autoRemoveOldFilesAtBoot" \notin DOMAIN p.fields
      <3>1. Len(r.val) > 1
        <4>1. \A n \in Nat : n >= 1 /\ n # 1 => n > 1 OBVIOUS
        <4>2. QED BY <1>1, <2>2, <4>1
      <3>2. QED BY <1>0, <1>1, <3>1 DEF PatchesOK
    <2>4. ASSUME NEW i \in 1..Len(Tail(r.val))
          PROVE  DOMAIN Tail(r.val)[i].fields \cap DOMAIN past'.asked = {}
      <3>1. i + 1 \in 1..Len(r.val) /\ Tail(r.val)[i] = r.val[i + 1] BY <1>0, <2>2, TailOK
      <3>2. i + 1 # 1 BY <2>4
      <3>3. DOMAIN r.val[i + 1].fields \cap DOMAIN p.fields = {}
        BY <1>0, <1>1, <3>1, <3>2 DEF PatchesOK
      <3>4. DOMAIN r.val[i + 1].fields \cap DOMAIN past.asked = {} BY <1>2, <3>1 DEF Apart
      <3>5. QED BY <1>4, <3>1, <3>3, <3>4
    <2>5. QED BY <1>4, <2>2, <2>3, <2>4 DEF Apart
  <1>10. QED BY <1>0, <1>6, <1>7, <1>8, <1>9 DEF SettingsHeld, Answers

\* The other commands leave the settings, and what the requests for settings have read of them.
LEMMA SettingsLeft ==
  ASSUME Shape, EndedIsGone, SettingsHeld, [Next]_vars, NEW c \in Slots, CommandStep(c),
         ~FindSettings(c), ~DocStep(c), ~StoreSettings(c)
  PROVE  SettingsHeld'
  <1>0. /\ Shape' /\ Follows(c) /\ mode' = mode /\ req[c] # Idle
        /\ {"asked", "doubt", "aside"} \subseteq DOMAIN past
    BY CommandFacts, ShapeFacts, PastFacts
  <1>1. /\ db'.settings = db.settings /\ store' = store /\ sentry' = sentry
        /\ past'.asked = past.asked /\ past'.doubt = past.doubt /\ past'.aside = past.aside
    <2>1. CASE ReadStep(c) BY <2>1, ReadStepFacts
    <2>2. CASE TokenStep(c) BY <1>0, <2>2, TokenStepFacts DEF Written, SamePast
    <2>3. CASE UserStep(c)
      BY <1>0, <2>3, SaveFacts, EraseUserFacts, InsertUserFacts DEF UserStep, Written, SamePast
    <2>4. CASE CountAttempt(c) BY <1>0, <2>4, CountAttemptFacts DEF SamePast
    <2>5. QED BY <2>1, <2>2, <2>3, <2>4, CommandCases
  <1>2. ASSUME req'[c].op \in SettingsOps
        PROVE  /\ req[c].op \in SettingsOps /\ req'[c].val = req[c].val
               /\ req'[c].at \notin Storing \ {"read"}
    <2>1. req'[c] # Idle BY <1>2, IdleFacts DEF SettingsOps
    <2>2. req[c].at # "answer"
      <3>1. ASSUME req[c].at = "answer" PROVE FALSE
        <4>1. ~ReadStep(c)
          BY <3>1, IsUserRootUserFacts, OwnUserFacts, GetUserFacts, FindRootUsersFacts,
             FindVerifiedUsersFacts, FindUsersByRoleIdFacts, SignJwtTokenFacts, RenewGetUserFacts,
             AttemptsUsedFacts, CheckTokenFacts DEF ReadStep
        <4>2. ~TokenStep(c)
          BY <3>1, DeleteTokensFacts, PurgeOutdatedFacts, InsertTokenFacts, DropTokenFacts
             DEF TokenStep
        <4>3. ~UserStep(c) /\ ~CountAttempt(c)
          BY <3>1, SaveFacts, EraseUserFacts, InsertUserFacts, CountAttemptFacts DEF UserStep
        <4>4. QED BY <4>1, <4>2, <4>3, CommandCases
      <3>2. QED BY <3>1
    <2>3. req'[c].op = req[c].op /\ req'[c].val = req[c].val BY <1>0, <2>1, <2>2 DEF Follows
    <2>4. req'[c].at \in Storing => InsertUser(c) BY <2>1, StoringCommand
    <2>5. req'[c].at \notin Storing \ {"read"} BY <2>1, <2>4, InsertUserFacts DEF Storing
    <2>6. QED BY <1>2, <2>3, <2>5
  <1>3. \A d \in Slots : d # c => req'[d] = req[d] BY <1>0 DEF Follows
  <1>4. QED BY <1>0, <1>1, <1>2, <1>3, SettingsSame

\* A restart ends all requests and boots from the document; only settings of the environment
\* and the one that it fills may be other ones than were asked for.
LEMMA SettingsRestarted ==
  ASSUME Shape, EndedIsGone, SettingsHeld, Restart
  PROVE  SettingsHeld'
  <1> DEFINE migrated == MigrateSettingsRuntime(db.settings)
  <1>0. /\ Shape' /\ mode' = mode /\ store' = Booted(migrated)
        /\ sentry' = store'["sentryDiagnosticsEnabled"]
        /\ db'.settings \in {store', db.settings}
        /\ \A c \in Slots : req'[c] = Idle
        /\ ~past'.doubt
        /\ past'.asked = Without(past.asked, mode.env \cup {"autoRemoveOldFilesAtBoot"})
    BY RestartFacts
  <1>1. /\ DOMAIN past'.asked = (DOMAIN past.asked) \ (mode.env \cup {"autoRemoveOldFilesAtBoot"})
        /\ \A s \in DOMAIN past'.asked : past'.asked[s] = past.asked[s]
    BY <1>0 DEF Without
  <1>2. Agree(db.settings, past.asked) /\ IsSettings(db.settings) /\ mode \in Clients
    BY ShapeFacts DEF SettingsHeld
  <1>3. /\ IsSettings(migrated) /\ DOMAIN migrated = DOMAIN db.settings
        /\ \A s \in DOMAIN db.settings :
             s # "autoRemoveOldFilesAtBoot" => migrated[s] = db.settings[s]
    BY <1>2, MigratedFacts
  <1> HIDE DEF migrated
  <1>4. /\ DOMAIN Booted(migrated) = DOMAIN migrated
        /\ \A s \in DOMAIN migrated : s \notin mode.env => Booted(migrated)[s] = migrated[s]
    BY <1>2, <1>3, BootedFacts
  <1>5. Agree(store', past'.asked) /\ Agree(db.settings, past'.asked)
    BY <1>0, <1>1, <1>2, <1>3, <1>4 DEF Agree
  <1>6. Agree(db.settings, past.asked)' /\ Agree(store, past.asked)' BY <1>0, <1>5
  <1>7. SentryHeld' BY <1>0, <1>5 DEF SentryHeld, Agree
  <1>8. \A c \in Slots : req'[c].op \notin SettingsOps BY <1>0, IdleFacts DEF SettingsOps
  <1>9. QED BY <1>0, <1>6, <1>7, <1>8 DEF SettingsHeld

LEMMA SettingsStay ==
  ASSUME Shape, EndedIsGone, SettingsHeld, [Next]_vars
  PROVE  SettingsHeld'
  <1>0. Shape' /\ mode' = mode /\ {"asked", "doubt", "aside"} \subseteq DOMAIN past
    BY ShapeKept, ShapeFacts, PastFacts
  <1>1. ASSUME db'.settings = db.settings, store' = store, sentry' = sentry, req' = req,
               past'.asked = past.asked, past'.doubt = past.doubt, past'.aside = past.aside
        PROVE  SettingsHeld'
    BY <1>0, <1>1, SettingsSame
  <1>2. CASE UNCHANGED vars BY <1>1, <1>2, StutterFacts
  <1>3. ASSUME NEW by, SqlUsers(by) PROVE SettingsHeld'
    BY <1>0, <1>1, <1>3, SqlUsersShape DEF SamePast
  <1>4. CASE SqlTokens BY <1>0, <1>1, <1>4, SqlTokensShape DEF SamePast
  <1>5. ASSUME NEW by, SqlChanges(by) PROVE SettingsHeld' BY <1>5, SettingsChanged
  <1>6. CASE SqlWizard BY <1>6, SettingsWizard
  <1>7. ASSUME NEW t \in DOMAIN db.tokens, SqlRefresh(t) PROVE SettingsHeld'
    BY <1>0, <1>1, <1>7, SqlRefreshFacts DEF SamePast
  <1>8. ASSUME NEW c \in Slots, Begun(c) PROVE SettingsHeld' BY <1>8, SettingsBegun
  <1>9. ASSUME NEW c \in Slots, CommandStep(c) PROVE SettingsHeld'
    <2>1. CASE FindSettings(c) BY <2>1, SettingsFound
    <2>2. CASE DocStep(c) BY <2>2, SettingsWritten
    <2>3. CASE StoreSettings(c) BY <2>3, SettingsDoubted, SettingsAnswered
    <2>4. CASE ~FindSettings(c) /\ ~DocStep(c) /\ ~StoreSettings(c)
      BY <1>9, <2>4, SettingsLeft
    <2>5. QED BY <2>1, <2>2, <2>3, <2>4
  <1>10. CASE Expire BY <1>1, <1>10, ExpireFacts
  <1>11. CASE Restart BY <1>11, SettingsRestarted
  <1>12. QED BY <1>2, <1>3, <1>4, <1>5, <1>6, <1>7, <1>8, <1>9, <1>10, <1>11, NextCases

\* A setting that was answered is kept by the document and the settings store, and the Sentry
\* client follows its own (settings.store.ts), but for what overlapping requests, a restart
\* with other settings in the environment and the replaced groups of SQLite take back.
THEOREM SettingsAreKept == Spec => []SettingsKept
  <1>1. Init => SettingsHeld
    <2>1. SUFFICES ASSUME Init PROVE SettingsHeld OBVIOUS
    <2>2. /\ \A c \in Slots : req[c] = Idle
          /\ past.asked = [s \in {} |-> TRUE] /\ ~past.doubt
      BY <2>1, InitFacts
    <2>3. DOMAIN past.asked = {} BY <2>2
    <2>4. \A c \in Slots : req[c].op \notin SettingsOps BY <2>2, IdleFacts DEF SettingsOps
    <2>5. QED BY <2>2, <2>3, <2>4 DEF SettingsHeld, Agree, SentryHeld
  <1>2. SettingsHeld /\ Shape /\ EndedIsGone /\ [Next]_vars => SettingsHeld' BY SettingsStay
  <1>3. SettingsHeld => SettingsKept BY DEF SettingsHeld, SettingsKept, Agree, SentryHeld
  <1>4. QED BY <1>1, <1>2, <1>3, AccountsShaped, PTL DEF Spec
===============================================================================
