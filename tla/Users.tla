------------------------------- MODULE Users -------------------------------
(***************************************************************************)
(* The accounts of user.service.ts (SQLite and MongoDB): a user is an      *)
(* owner (root) or not, verified or not, and has the ADMIN role or not.    *)
(* No caller ever registers a user that has to change its password.        *)
(***************************************************************************)
EXTENDS Maps, Naturals, FiniteSets

CONSTANTS Users, None

User == [root : BOOLEAN, verified : BOOLEAN, admin : BOOLEAN]

Known(users, u) == u \in DOMAIN users

RootUsers(users) == {u \in DOMAIN users : users[u].root}
VerifiedUsers(users) == {u \in DOMAIN users : users[u].verified}
Admins(users) == {u \in DOMAIN users : users[u].admin}

Register(users, u, user) == Put(users, u, user)

Erase(users, u) == [v \in (DOMAIN users) \ {u} |-> users[v]]

\* Document.save and repository.update write the one field, if there is a row.
SetField(users, u, field, val) ==
  IF Known(users, u) THEN [users EXCEPT ![u] = [@ EXCEPT ![field] = val]] ELSE users

(***************************************************************************)
(* SQLite: whole calls. The id of a route stays a string, which is never   *)
(* identical to the number of a row: the guards on the last root user and  *)
(* on the last administrator do not fire.                                  *)
(***************************************************************************)
OrmSetIsRootUserById(users, u, isRoot) == SetField(users, u, "root", isRoot)

OrmSetVerifiedById(users, u, isVerified) ==
  IF ~isVerified /\ (users[u].root \/ Cardinality(VerifiedUsers(users)) = 1)
  THEN users ELSE SetField(users, u, "verified", isVerified)

OrmSetUserRoleIds(users, u, isAdmin) == SetField(users, u, "admin", isAdmin)

OrmDeleteUser(users, u) == IF users[u].root THEN users ELSE Erase(users, u)

(***************************************************************************)
(* MongoDB: the checks that the calls make on what they have read.         *)
(***************************************************************************)
LastRoot(users, u) == RootUsers(users) = {u}
LastVerified(users) == Cardinality(VerifiedUsers(users)) = 1
LastAdmin(users, u) == Admins(users) = {u}
=============================================================================
