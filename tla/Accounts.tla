------------------------------ MODULE Accounts ------------------------------
(***************************************************************************)
(* Users, their sessions and the settings behind the requests of           *)
(* user.controller.ts, auth.controller.ts, settings.controller.ts and      *)
(* first-time-setup.controller.ts. With SQLite a request is one step. With *)
(* MongoDB each command of a request is a step, taken with the code that   *)
(* runs on its answer, and other requests run between.                     *)
(***************************************************************************)
EXTENDS RefreshTokens, Settings, Integers, Sequences

CONSTANTS Clients,  \* [db, ops: the requests sent, slots: how many at one time,
                    \*  staff: the users at first, none before the wizard,
                    \*  attempts: refreshTokenAttempts, users, tokens: the ids in use,
                    \*  changed: the settings they change, env: those of the environment]
          Slots,    \* MongoDB: requests in flight at one time, a bound
          Renewals  \* renewals of one token when attempts are not limited, a bound

ASSUME NoneIsNobody == None \notin Users \cup Tokens

\* The rule for refreshTokenAttempts is integer|min:-1; boot.task.ts applies four settings of
\* the environment.
ASSUME ClientsAreValid == \A m \in Clients :
  /\ m.db \in {"sqlite", "mongo"}
  /\ m.slots \subseteq Slots /\ m.users \subseteq Users /\ m.tokens \subseteq Tokens
  /\ m.staff \subseteq m.users
  /\ m.attempts \in Nat \cup {-1}
  /\ m.env \subseteq {"loginRequired", "registration", "jwtSecret", "jwtExpiresIn"}

ASSUME RenewalsIsCount == Renewals \in Nat

VARIABLES
  mode,   \* isTypeormMode, and what clients do
  db,     \* [users, tokens, settings]
  store,  \* settingsStore.settings
  sentry, \* the Sentry client is enabled
  req,    \* MongoDB: the requests in flight
  past    \* what has happened, see IsPast

vars == <<mode, db, store, sentry, req, past>>

\* at: the command awaited; by: the caller or None; to, tok: the user and the token
\* it is about; val: what to set; seen: the last answer; late: the token had ended
\* when the request came.
Idle == [op |-> "idle", at |-> "done", by |-> None, to |-> None, tok |-> None,
         val |-> None, seen |-> None, late |-> FALSE]

Request(op, at, by, to, val) ==
  [Idle EXCEPT !.op = op, !.at = at, !.by = by, !.to = to, !.val = val]

\* opened: somebody changed accounts without a login; overlapped: requests did;
\* cut: a restart ended a request; granted: renewals of a token; raced: tokens with
\* overlapping renewals; ended: tokens deleted; late: one was renewed after its end;
\* asked: settings as they were asked for last, doubt: requests for settings overlap; aside:
\* the flag of the Sentry client was stored past the client, by PUT /server.
IsPast(p) ==
  /\ [p EXCEPT !.asked = None] \in
       [opened : BOOLEAN, overlapped : BOOLEAN, cut : BOOLEAN, granted : [Tokens -> Nat],
        raced : SUBSET Tokens, ended : SUBSET Tokens, late : BOOLEAN,
        asked : {None}, doubt : BOOLEAN, aside : BOOLEAN]
  /\ DOMAIN p.asked \subseteq Switches /\ \A s \in DOMAIN p.asked : p.asked[s] \in BOOLEAN

AllIdle == \A c \in Slots : req[c] = Idle

FreshUser(u) ==
  /\ u \in mode.users \ DOMAIN db.users
  /\ \A t \in DOMAIN db.tokens : db.tokens[t].user # u
  /\ \A c \in Slots : u \notin {req[c].by, req[c].to}

FreshToken(t) ==
  /\ t \in mode.tokens \ (past.ended \cup DOMAIN db.tokens)
  /\ \A c \in Slots : req[c].tok # t

\* A boot loads the settings and applies those of the environment to them.
Booted(settings) ==
  IF mode.env = {} THEN settings
  ELSE [s \in DOMAIN settings |-> IF s \in mode.env THEN ~DefaultSettings[s] ELSE settings[s]]

\* The staff has one owner, who administers the others.
Init ==
  /\ mode \in Clients
  /\ \E loginRequired \in (IF "login" \in mode.ops \/ mode.staff = {} THEN {TRUE} ELSE BOOLEAN) :
       LET settings == Booted([DefaultSettings EXCEPT !["loginRequired"] = loginRequired,
                                                      !["wizardCompleted"] = mode.staff # {}])
           owner == CHOOSE u \in mode.staff : TRUE
       IN  /\ db = [users |-> [u \in mode.staff |->
                                [root |-> u = owner, verified |-> TRUE, admin |-> u = owner]],
                    tokens |-> <<>>, settings |-> settings]
           /\ store = settings /\ sentry = settings["sentryDiagnosticsEnabled"]
  /\ req = [c \in Slots |-> Idle]
  /\ past = [opened |-> FALSE, overlapped |-> FALSE, cut |-> FALSE,
             granted |-> [t \in Tokens |-> 0], raced |-> {}, ended |-> {}, late |-> FALSE,
             asked |-> [s \in {} |-> TRUE], doubt |-> FALSE, aside |-> FALSE]

\* The user of an access token, when the strategy lets it pass.
VerifyUserCallback(by) == Known(db.users, by) /\ db.users[by].verified

\* authenticate, validateWizardCompleted: a verified user, or nobody without login.
Caller(by) ==
  /\ store["wizardCompleted"]
  /\ IF by = None THEN ~store["loginRequired"] ELSE VerifyUserCallback(by)

\* The role of who registers, and of nobody.
GetAppDefaultRole == IF store["loginRequired"] THEN "GUEST" ELSE "ADMIN"

\* interceptRoles gives nobody the default role.
IsAdmin(by) ==
  Caller(by) /\ IF by = None THEN GetAppDefaultRole = "ADMIN" ELSE db.users[by].admin

CreatedUser(isAdmin) == [root |-> FALSE, verified |-> TRUE, admin |-> isAdmin]

RegisteredUser == [root |-> FALSE, verified |-> FALSE, admin |-> GetAppDefaultRole = "ADMIN"]

WizardUser == [root |-> TRUE, verified |-> TRUE, admin |-> TRUE]

WizardPatches(loginRequired, registration) ==
  << Patch("server", [s \in {"loginRequired"} |-> loginRequired]),
     Patch("server", [s \in {"registration"} |-> registration]),
     Patch("wizard", [s \in {"wizardCompleted"} |-> TRUE]) >>

Ended == past.ended \cup ((DOMAIN db.tokens) \ DOMAIN db'.tokens)

\* Only renewals that did not overlap are counted, and only up to the limit exceeded.
Granted(t) ==
  IF mode.attempts = -1 \/ t \in past.raced \/ past.granted[t] > mode.attempts
  THEN past.granted ELSE [past.granted EXCEPT ![t] = @ + 1]

SettingsOps == {"settings", "sentry", "wizard"}

\* Requests that change settings, but for the one of c.
OthersChange(c) == \E d \in Slots \ {c} : req[d].op \in SettingsOps

\* What was asked for without these settings, and with those of a patch that is answered.
Without(asked, settings) == [s \in (DOMAIN asked) \ settings |-> asked[s]]

Acknowledged(asked, patch) ==
  Overlaid(patch.fields,
           Without(asked, {"autoRemoveOldFilesAtBoot"} \cup
                          IF mode.db = "sqlite" THEN Replaced(patch) ELSE {}))

(***************************************************************************)
(* SQLite                                                                  *)
(***************************************************************************)
Answer(op, by) ==
  /\ mode.db = "sqlite" /\ op \in mode.ops
  /\ past' = [past EXCEPT !.opened = @ \/ by = None, !.ended = Ended]
  /\ UNCHANGED <<mode, sentry, req>>

AnswerUsers(op, by, users) ==
  /\ db' = [db EXCEPT !.users = users,
                      !.tokens = Kept(@, {t \in DOMAIN @ : @[t].user \in DOMAIN users})]
  /\ store' = store
  /\ Answer(op, by)

AnswerTokens(op, by, tokens) ==
  /\ db' = [db EXCEPT !.tokens = tokens]
  /\ store' = store
  /\ Answer(op, by)

SqlCreate(by) == \E u \in mode.users, isAdmin \in BOOLEAN :
  /\ IsAdmin(by) /\ FreshUser(u)
  /\ AnswerUsers("create", by, Register(db.users, u, CreatedUser(isAdmin)))

SqlRegister == \E u \in mode.users :
  /\ store["wizardCompleted"] /\ store["registration"] /\ FreshUser(u)
  /\ AnswerUsers("register", u, Register(db.users, u, RegisteredUser))

SqlDelete(by) == \E u \in (DOMAIN db.users) \ {by} :
  IsAdmin(by) /\ AnswerUsers("delete", by, OrmDeleteUser(db.users, u))

SqlSetVerified(by) == \E u \in (DOMAIN db.users) \ {by}, isVerified \in BOOLEAN :
  /\ IsAdmin(by) /\ ~db.users[u].root
  /\ AnswerUsers("verify", by, OrmSetVerifiedById(db.users, u, isVerified))

SqlSetUserRoles(by) == \E u \in DOMAIN db.users, isAdmin \in BOOLEAN :
  /\ IsAdmin(by) /\ by # None
  /\ by = u => isAdmin /\ db.users[by].root
  /\ AnswerUsers("roles", by, OrmSetUserRoleIds(db.users, u, isAdmin))

SqlSetRootUser(by) == \E u \in DOMAIN db.users, isRoot \in BOOLEAN :
  /\ Caller(by) /\ (by # None => db.users[by].root)
  /\ AnswerUsers("root", by, OrmSetIsRootUserById(db.users, u, isRoot))

SqlLogin(u) == \E t \in mode.tokens :
  /\ store["wizardCompleted"] /\ Known(db.users, u) /\ db.users[u].verified
  /\ FreshToken(t)
  /\ AnswerTokens("login", u,
       CreateRefreshTokenForUserId(PurgeOutdatedRefreshTokensByUserId(db.tokens, u), t, u))

SqlLogout(by) ==
  /\ Caller(by) /\ by # None /\ store["loginRequired"]
  /\ AnswerTokens("logout", by, DeleteRefreshTokenByUserId(db.tokens, by))

Exceeded(used) == mode.attempts # -1 /\ used >= mode.attempts

\* An expired or used-up token ends every session of its user.
SqlRefreshRefused(t) ==
  LET token == db.tokens[t]
  IN  /\ mode.db = "sqlite"
      /\ token.expired \/ (db.users[token.user].verified /\ Exceeded(token.used))
      /\ AnswerTokens("renew", token.user, DeleteRefreshTokenByUserId(db.tokens, token.user))

SqlRefresh(t) ==
  LET token == db.tokens[t]
  IN  /\ mode.db = "sqlite" /\ "renew" \in mode.ops
      /\ ~token.expired /\ db.users[token.user].verified
      /\ ~Exceeded(token.used) /\ token.used < Renewals
      /\ db' = [db EXCEPT !.tokens = UpdateRefreshTokenAttempts(@, t, token.used + 1)]
      /\ past' = [past EXCEPT !.granted = Granted(t), !.late = @ \/ t \in past.ended]
      /\ UNCHANGED <<mode, store, sentry, req>>

\* Only its own request tells the Sentry client of its flag, then and at a restart.
Aside(op, patch) ==
  IF "sentryDiagnosticsEnabled" \in DOMAIN patch.fields THEN op # "sentry" ELSE past.aside

\* The requests for settings, each with the patch that it makes.
AnswerSettings(op, by, patch) ==
  /\ mode.db = "sqlite" /\ op \in mode.ops
  /\ db' = [db EXCEPT !.settings = Patched(@, patch)]
  /\ store' = db'.settings
  /\ past' = [past EXCEPT !.opened = @ \/ by = None, !.asked = Acknowledged(@, patch),
                          !.aside = Aside(op, patch)]
  /\ UNCHANGED <<mode, req>>

SettingsPatches ==
  UNION {ServerPatches(mode.changed), FileCleanPatches(mode.changed), TimeoutPatches(mode.changed),
         CredentialPatches(mode.changed), FrontendPatches(mode.changed)}

SqlSettings(by) == \E patch \in SettingsPatches :
  IsAdmin(by) /\ AnswerSettings("settings", by, patch) /\ sentry' = sentry

\* It needs no administrator, and is answered before anything is stored.
SqlSentry(by) == \E patch \in SentryPatches(mode.changed) :
  /\ Caller(by) /\ AnswerSettings("sentry", by, patch)
  /\ sentry' = store'["sentryDiagnosticsEnabled"]

SqlWizard == \E u \in mode.users, loginRequired, registration \in BOOLEAN :
  /\ ~store["wizardCompleted"] /\ FreshUser(u)
  /\ mode.db = "sqlite" /\ "wizard" \in mode.ops
  /\ LET p == WizardPatches(loginRequired, registration)
     IN  /\ db' = [db EXCEPT !.users = Register(@, u, WizardUser),
                             !.settings = Patched(Patched(Patched(@, p[1]), p[2]), p[3])]
         /\ past' = [past EXCEPT !.asked =
                       Acknowledged(Acknowledged(Acknowledged(@, p[1]), p[2]), p[3])]
  /\ store' = db'.settings
  /\ UNCHANGED <<mode, sentry, req>>

(***************************************************************************)
(* MongoDB: a request comes and its caller is loaded.                      *)
(***************************************************************************)
Renewing(t) == \E c \in Slots : req[c].op = "renew" /\ req[c].tok = t

Begins(c, r, asked, doubt) ==
  /\ mode.db = "mongo" /\ r.op \in mode.ops /\ c \in mode.slots /\ req[c] = Idle
  /\ req' = [req EXCEPT ![c] = r]
  /\ past' = [past EXCEPT !.opened = @ \/ r.by = None, !.overlapped = @ \/ ~AllIdle,
                          !.asked = asked, !.doubt = doubt,
                          !.raced = @ \cup {t \in {r.tok} \ {None} : Renewing(t)}]
  /\ UNCHANGED <<mode, db, store, sentry>>

Begin(c, r) == Begins(c, r, past.asked, past.doubt)

\* Until it is answered nothing is known of the settings a request changes, nor of any that
\* overlapping requests were to keep.
BeginPatches(c, r, patches) ==
  LET changed == UNION {DOMAIN patches[i].fields : i \in DOMAIN patches}
  IN  IF OthersChange(c) THEN Begins(c, r, Without(past.asked, Switches), TRUE)
      ELSE Begins(c, r, Without(past.asked, changed \cup {"autoRemoveOldFilesAtBoot"}), past.doubt)

BeginCreate(c, by) == \E u \in mode.users, isAdmin \in BOOLEAN :
  /\ IsAdmin(by) /\ FreshUser(u)
  /\ Begin(c, Request("create", "insert", by, u, CreatedUser(isAdmin)))

BeginRegister(c) == \E u \in mode.users :
  /\ store["wizardCompleted"] /\ store["registration"] /\ FreshUser(u)
  /\ Begin(c, Request("register", "insert", u, u, RegisteredUser))

\* MUTANT of BeginDelete: one may delete one's own account.
BeginDeleteAny(c, by) == \E u \in DOMAIN db.users :
  IsAdmin(by) /\ Begin(c, Request("delete", "isRoot", by, u, None))

BeginDelete(c, by) == \E u \in (DOMAIN db.users) \ {by} :
  IsAdmin(by) /\ Begin(c, Request("delete", "isRoot", by, u, None))

BeginSetVerified(c, by) == \E u \in (DOMAIN db.users) \ {by}, isVerified \in BOOLEAN :
  IsAdmin(by) /\ Begin(c, Request("verify", "isRoot", by, u, isVerified))

BeginSetUserRoles(c, by) == \E u \in DOMAIN db.users, isAdmin \in BOOLEAN :
  /\ IsAdmin(by) /\ by # None
  /\ Begin(c, Request("roles", "own", by, u, isAdmin))

BeginSetRootUser(c, by) == \E u \in DOMAIN db.users, isRoot \in BOOLEAN :
  /\ Caller(by)
  /\ Begin(c, Request("root", IF by = None THEN "get" ELSE "isRoot", by, u, isRoot))

BeginLogin(c, u) ==
  /\ store["wizardCompleted"] /\ Known(db.users, u)
  /\ Begin(c, Request("login", "sign", u, u, None))

BeginLogout(c, by) ==
  /\ Caller(by) /\ by # None /\ store["loginRequired"]
  /\ Begin(c, Request("logout", "tokens", by, by, None))

\* getValidRefreshToken, called by renewLoginByRefreshToken.
BeginRefresh(c, t) ==
  LET token == db.tokens[t]
      at == IF token.expired THEN "tokens" ELSE "user"
  IN  /\ token.used < Renewals
      /\ Begin(c, [Request("renew", at, token.user, token.user, None)
                     EXCEPT !.tok = t, !.late = t \in past.ended])

BeginSettings(c, by) == \E patch \in SettingsPatches :
  IsAdmin(by) /\ BeginPatches(c, Request("settings", "read", by, None, <<patch>>), <<patch>>)

BeginSentry(c, by) == \E patch \in SentryPatches(mode.changed) :
  Caller(by) /\ BeginPatches(c, Request("sentry", "read", by, None, <<patch>>), <<patch>>)

BeginWizard(c) == \E u \in mode.users, loginRequired, registration \in BOOLEAN :
  LET patches == WizardPatches(loginRequired, registration)
  IN  /\ ~store["wizardCompleted"] /\ FreshUser(u)
      /\ BeginPatches(c, [Request("wizard", "insert", u, u, patches) EXCEPT !.seen = WizardUser], patches)

(***************************************************************************)
(* MongoDB: a command is executed and the code behind it runs.             *)
(***************************************************************************)
At(c, at) == mode.db = "mongo" /\ req[c].at = at

Step(c, at, seen) == req' = [req EXCEPT ![c].at = at, ![c].seen = seen]

Done(c) == req' = [req EXCEPT ![c] = Idle]

\* The rest of a step that only reads the database.
Reads == UNCHANGED <<mode, db, store, sentry, past>>

Writes(next) ==
  /\ db' = next
  /\ past' = [past EXCEPT !.ended = Ended]
  /\ UNCHANGED <<mode, store, sentry>>

\* isUserRootUser: of the caller of setRootUser, of the user about to be changed.
IsUserRootUser(c) ==
  LET u == IF req[c].op = "root" THEN req[c].by ELSE req[c].to
      isRoot == Known(db.users, u) /\ db.users[u].root
  IN  /\ At(c, "isRoot") /\ Reads
      /\ IF isRoot = (req[c].op = "root") THEN Step(c, "get", None) ELSE Done(c)

OwnUser(c) ==
  LET r == req[c]
      refused == \/ ~Known(db.users, r.by)
                 \/ r.by = r.to /\ ~(r.val /\ (db.users[r.by].admin \/ db.users[r.by].root))
  IN  /\ At(c, "own") /\ Reads
      /\ IF refused THEN Done(c) ELSE Step(c, "get", None)

\* What each service call does with the user it found.
AfterGet(r, user) ==
  CASE r.op = "roles" -> "save"
    [] r.op = "root" -> IF r.val THEN "save" ELSE "roots"
    [] r.op = "verify" -> IF r.val THEN "save" ELSE IF user.root THEN "done" ELSE "verified"
    [] r.op = "delete" -> IF user.root THEN "done" ELSE IF user.admin THEN "admins" ELSE "erase"

GetUser(c) ==
  /\ At(c, "get") /\ Reads
  /\ IF Known(db.users, req[c].to) /\ AfterGet(req[c], db.users[req[c].to]) # "done"
     THEN LET user == db.users[req[c].to] IN Step(c, AfterGet(req[c], user), user)
     ELSE Done(c)

\* MUTANT of FindRootUsers: the last root user is not looked for.
SkipRootUsers(c) == At(c, "roots") /\ Reads /\ Step(c, "save", req[c].seen)

FindRootUsers(c) ==
  /\ At(c, "roots") /\ Reads
  /\ IF LastRoot(db.users, req[c].to) THEN Done(c) ELSE Step(c, "save", req[c].seen)

FindVerifiedUsers(c) ==
  /\ At(c, "verified") /\ Reads
  /\ IF LastVerified(db.users) THEN Done(c) ELSE Step(c, "save", req[c].seen)

FindUsersByRoleId(c) ==
  /\ At(c, "admins") /\ Reads
  /\ IF LastAdmin(db.users, req[c].to) THEN Done(c) ELSE Step(c, "erase", None)

Field == [root |-> "root", verify |-> "verified", roles |-> "admin"]

\* save writes what was modified since the user was read.
Save(c) ==
  LET r == req[c]
      field == Field[r.op]
  IN  /\ At(c, "save") /\ Done(c)
      /\ Writes(IF r.seen[field] = r.val THEN db
                ELSE [db EXCEPT !.users = SetField(@, r.to, field, r.val)])

\* MUTANT of EraseUser: the deleted user is not logged out.
EraseOnly(c) ==
  /\ At(c, "erase") /\ Done(c)
  /\ Writes([db EXCEPT !.users = Erase(@, req[c].to)])

EraseUser(c) ==
  /\ At(c, "erase") /\ Step(c, "tokens", None)
  /\ Writes([db EXCEPT !.users = Erase(@, req[c].to)])

DeleteTokens(c) ==
  /\ At(c, "tokens") /\ Done(c)
  /\ Writes([db EXCEPT !.tokens = DeleteRefreshTokenByUserId(@, req[c].to)])

InsertUser(c) ==
  LET r == req[c]
      wizard == r.op = "wizard"
  IN  /\ At(c, "insert") /\ (IF wizard THEN Step(c, "read", None) ELSE Done(c))
      /\ Writes([db EXCEPT !.users = Register(@, r.to, IF wizard THEN r.seen ELSE r.val)])

\* signJwtToken, for a login and for a renewal.
SignJwtToken(c) ==
  LET u == req[c].to
      signed == Known(db.users, u) /\ db.users[u].verified
  IN  /\ At(c, "sign") /\ Reads
      /\ IF signed THEN Step(c, IF req[c].op = "login" THEN "purge" ELSE "again", None)
         ELSE Done(c)

PurgeOutdated(c) ==
  /\ At(c, "purge") /\ Step(c, "token", None)
  /\ Writes([db EXCEPT !.tokens = PurgeOutdatedRefreshTokensByUserId(@, req[c].to)])

InsertToken(c) == \E t \in mode.tokens :
  /\ At(c, "token") /\ FreshToken(t) /\ Done(c)
  /\ Writes([db EXCEPT !.tokens = CreateRefreshTokenForUserId(@, t, req[c].to)])

RenewGetUser(c) ==
  /\ At(c, "user") /\ Reads
  /\ Step(c, IF Known(db.users, req[c].to) THEN "sign" ELSE "dropToken", None)

DropToken(c) ==
  /\ At(c, "dropToken") /\ Done(c)
  /\ Writes([db EXCEPT !.tokens = DeleteRefreshToken(@, req[c].tok)])

\* MUTANT of AttemptsUsed: an attempt more than the limit.
AttemptsUsedInclusive(c) ==
  LET t == req[c].tok
  IN  /\ At(c, "again") /\ Reads
      /\ IF t \notin DOMAIN db.tokens THEN Done(c)
         ELSE IF db.tokens[t].expired \/ Exceeded(db.tokens[t].used - 1) THEN Step(c, "tokens", None)
         ELSE Step(c, "check", db.tokens[t].used)

\* increaseRefreshTokenAttemptsUsed: the token is read again, after the signing.
AttemptsUsed(c) ==
  LET t == req[c].tok
  IN  /\ At(c, "again") /\ Reads
      /\ IF t \notin DOMAIN db.tokens THEN Done(c)
         ELSE IF db.tokens[t].expired \/ Exceeded(db.tokens[t].used) THEN Step(c, "tokens", None)
         ELSE Step(c, "check", db.tokens[t].used)

CheckToken(c) ==
  /\ At(c, "check") /\ Reads
  /\ IF req[c].tok \in DOMAIN db.tokens THEN Step(c, "count", req[c].seen) ELSE Done(c)

\* The write that counts the renewal; the signed JWT is answered.
CountAttempt(c) ==
  LET r == req[c]
  IN  /\ At(c, "count") /\ Done(c)
      /\ db' = [db EXCEPT !.tokens = UpdateRefreshTokenAttempts(@, r.tok, r.seen + 1)]
      /\ past' = [past EXCEPT !.granted = Granted(r.tok), !.late = @ \/ r.late, !.ended = Ended]
      /\ UNCHANGED <<mode, store, sentry>>

FindSettings(c) ==
  At(c, "read") /\ Reads /\ Step(c, "migrate", MigrateSettingsRuntime(db.settings))

SaveMigrated(c) ==
  /\ At(c, "migrate") /\ Step(c, "write", req[c].seen)
  /\ Writes([db EXCEPT !.settings = req[c].seen])

SavePatched(c) ==
  LET settings == Assigned(req[c].seen, Head(req[c].val))
  IN  /\ At(c, "write") /\ Step(c, "answer", settings)
      /\ Writes([db EXCEPT !.settings = settings])

\* The store takes the answer; the wizard goes on to its next patch.
StoreSettings(c) ==
  LET r == req[c]
      last == Len(r.val) = 1
  IN  /\ At(c, "answer")
      /\ store' = r.seen
      /\ sentry' = IF r.op = "sentry" THEN store'["sentryDiagnosticsEnabled"] ELSE sentry
      /\ req' = [req EXCEPT ![c] =
                   IF last THEN Idle ELSE [r EXCEPT !.at = "read", !.seen = None, !.val = Tail(@)]]
      /\ past' = [past EXCEPT !.asked = IF past.doubt THEN @ ELSE Acknowledged(@, Head(r.val)),
                              !.doubt = @ /\ (OthersChange(c) \/ ~last),
                              !.aside = Aside(r.op, Head(r.val))]
      /\ UNCHANGED <<mode, db>>

(***************************************************************************)
(* A token expires; the process restarts: loadSettings.                    *)
(***************************************************************************)
Expire == \E t \in DOMAIN db.tokens :
  /\ "renew" \in mode.ops
  /\ db' = [db EXCEPT !.tokens[t].expired = TRUE]
  /\ UNCHANGED <<mode, store, sentry, req, past>>

Restart ==
  /\ store' = Booted(MigrateSettingsRuntime(db.settings))
  /\ sentry' = store'["sentryDiagnosticsEnabled"]
  /\ db' = IF mode.db = "mongo" \/ mode.env # {} THEN [db EXCEPT !.settings = store'] ELSE db
  /\ req' = [c \in Slots |-> Idle]
  /\ past' = [past EXCEPT !.cut = @ \/ ~AllIdle, !.doubt = FALSE, !.aside = FALSE,
                          !.asked = Without(@, mode.env \cup {"autoRemoveOldFilesAtBoot"})]
  /\ mode' = mode

SqlStep ==
  \/ \E by \in mode.users \cup {None} :
       SqlCreate(by) \/ SqlDelete(by) \/ SqlSetVerified(by) \/ SqlSetUserRoles(by)
       \/ SqlSetRootUser(by) \/ SqlSettings(by) \/ SqlSentry(by)
       \/ SqlLogout(by)
  \/ SqlRegister \/ SqlWizard
  \/ \E u \in mode.users : SqlLogin(u)
  \/ \E t \in DOMAIN db.tokens : SqlRefreshRefused(t) \/ SqlRefresh(t)

BeginStep(c) ==
  \/ \E by \in mode.users \cup {None} :
       BeginCreate(c, by) \/ BeginDelete(c, by) \/ BeginSetVerified(c, by)
       \/ BeginSetUserRoles(c, by) \/ BeginSetRootUser(c, by) \/ BeginSettings(c, by)
       \/ BeginSentry(c, by) \/ BeginLogout(c, by)
  \/ BeginRegister(c) \/ BeginWizard(c)
  \/ \E u \in mode.users : BeginLogin(c, u)
  \/ \E t \in DOMAIN db.tokens : BeginRefresh(c, t)

CommandStep(c) ==
  \/ IsUserRootUser(c) \/ OwnUser(c) \/ GetUser(c) \/ FindRootUsers(c)
  \/ FindVerifiedUsers(c) \/ FindUsersByRoleId(c) \/ Save(c) \/ EraseUser(c)
  \/ DeleteTokens(c) \/ InsertUser(c) \/ SignJwtToken(c) \/ PurgeOutdated(c)
  \/ InsertToken(c) \/ RenewGetUser(c) \/ DropToken(c) \/ AttemptsUsed(c)
  \/ CheckToken(c) \/ CountAttempt(c) \/ FindSettings(c) \/ SaveMigrated(c)
  \/ SavePatched(c) \/ StoreSettings(c)

Next ==
  \/ SqlStep
  \/ \E c \in Slots : BeginStep(c) \/ CommandStep(c)
  \/ Expire \/ Restart

Spec == Init /\ [][Next]_vars

(***************************************************************************)
(* Properties                                                              *)
(***************************************************************************)
\* The users, sessions and settings of auth.service.ts, user.service.ts and
\* settings.store.ts have the values their rows may have.
TypeOK ==
  /\ mode \in Clients
  /\ DOMAIN db.users \subseteq Users /\ \A u \in DOMAIN db.users : db.users[u] \in User
  /\ DOMAIN db.tokens \subseteq Tokens /\ \A t \in DOMAIN db.tokens : db.tokens[t] \in Token
  /\ IsSettings(db.settings) /\ IsSettings(store) /\ sentry \in BOOLEAN
  /\ IsPast(past)

\* While every change is made by somebody who is logged in, and requests do not
\* overlap, no sequence of deletions, demotions and verifications leaves the
\* server without a verified administrator: the rules on one's own account in
\* user.controller.ts and the guards of user.service.ts close every way together.
NotLockedOut == store["wizardCompleted"] /\ ~past.opened /\ ~past.overlapped =>
  \E u \in DOMAIN db.users : db.users[u].verified /\ db.users[u].admin

\* "Ensure at least one user is root user" (user.service.ts, setIsRootUserById) with
\* MongoDB, from the wizard on and even without logins, as long as requests do not
\* overlap. With SQLite the guard compares a string with a number and never fires.
SomeRoot ==
  mode.db = "mongo" /\ store["wizardCompleted"] /\ ~past.overlapped => RootUsers(db.users) # {}

\* A refresh token renews a login at most refreshTokenAttempts times (auth.service.ts)
\* however its renewals mix with logins, logouts and deletions, unless renewals of
\* that very token overlap: both read the counter before either writes it.
AttemptsBound ==
  \A t \in Tokens : mode.attempts # -1 /\ t \notin past.raced => past.granted[t] <= mode.attempts

\* A session that has ended, by a logout, a deletion of its user, its expiry or
\* too many attempts, stays ended: no renewal that comes later is answered, not
\* even when the last renewal of that session was under way when it ended.
NoLateRenewal == ~past.late

\* When all requests are answered and none overlapped or was cut off by a
\* restart, every session belongs to a user that exists: the rows go with the
\* user in SQLite, and user.controller.ts logs the user out with MongoDB.
SessionsHaveUsers == AllIdle /\ ~past.overlapped /\ ~past.cut =>
  \A t \in DOMAIN db.tokens : Known(db.users, db.tokens[t].user)

\* A setting that was answered is kept, in the document and in the settings store, and the
\* Sentry client follows its own, until it is asked for again, whichever other settings are
\* changed before and after it and however restarts cut requests off. If PUT /server was the
\* last to set its flag, the Sentry client follows only at the next restart. Overlapping requests
\* may lose each other's (MongoDB writes the whole document), the environment may set it at
\* a restart, autoRemoveOldFilesAtBoot is lost at the next one, and with SQLite a frontend
\* setting that is left out of a request.
SettingsKept == \A s \in DOMAIN past.asked :
  /\ \A settings \in {db.settings, store} : s \in DOMAIN settings /\ settings[s] = past.asked[s]
  /\ s = "sentryDiagnosticsEnabled" /\ ~past.aside => sentry = past.asked[s]
=============================================================================
