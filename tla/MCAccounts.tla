----------------------------- MODULE MCAccounts -----------------------------
EXTENDS Accounts, TLC

CONSTANTS u1, u2, u3, t1, t2, c1, c2

MCUsers == {u1, u2, u3}
MCTokens == {t1, t2}
MCSlots == {c1, c2}

People == {"create", "register", "delete", "verify", "roles", "root", "logout"}
Sessions == {"login", "renew", "logout", "delete"}

Client(dbKind, ops, slots, users, staff, attempts, tokens, changed, env) ==
  [db |-> dbKind, ops |-> ops, slots |-> slots, users |-> users, staff |-> staff,
   attempts |-> attempts, tokens |-> tokens, changed |-> changed, env |-> env]

Flags == {"experimentalClientSupport", "sentryDiagnosticsEnabled", "gridCols"}

FileClean == FileCleanSettings \cup {"jwtSecret"}

Registration == {"loginRequired", "registration"}

\* Who administers users, who logs in, who sets the server up, and who changes settings.
MCClients ==
  {Client("sqlite", People, {}, {u1, u2, u3}, {u1}, 1, {}, {}, {}),
   Client("mongo", People, {c1}, {u1, u2, u3}, {u1}, 1, {}, {}, {}),
   Client("sqlite", Sessions, {}, {u1, u2}, {u1, u2}, 2, {t1, t2}, {}, {}),
   Client("mongo", Sessions, {c1, c2}, {u1, u2}, {u1, u2}, 1, {t1, t2}, {}, {}),
   Client("mongo", {"login", "renew"}, {c1, c2}, {u1}, {u1}, -1, {t1}, {}, {}),
   Client("sqlite", {"wizard", "settings", "register"}, {}, {u1, u2}, {}, 1, {}, Registration, {}),
   Client("mongo", {"wizard", "settings", "register"}, {c1}, {u1, u2}, {}, 1, {}, Registration, {})}
  \cup {Client("sqlite", {"settings", "sentry"}, {}, {u1}, {u1}, 1, {}, changed, {}) :
          changed \in {Flags \cup {"gridRows", "apiTimeout"}, FileClean}}
  \cup {Client("mongo", {"settings", "sentry"}, {c1}, {u1}, {u1}, 1, {}, changed, {}) :
          changed \in {Flags, FileCleanSettings}}
  \cup {Client("sqlite", {"settings"}, {}, {u1}, {u1}, 1, {}, {"registration"}, {"loginRequired", "jwtExpiresIn"}),
         Client("mongo", {"settings"}, {c1, c2}, {u1}, {u1}, 1, {}, {"registration", "experimentalClientSupport"}, {"loginRequired"})}

Symmetry == Permutations(MCUsers) \cup Permutations(MCTokens) \cup Permutations(MCSlots)
=============================================================================
