------------------------------ MODULE RoleSync ------------------------------
(***************************************************************************)
(* Roles and permissions (role.service.ts and permission.service.ts of     *)
(* both databases): the definitions of authorization.constants.ts, their   *)
(* synchronisation with stored rows into a cache, and what the middleware  *)
(* decides by that cache. A row is [id, name]; a permission stands for its *)
(* group, whose permissions every role has all or none of.                 *)
(***************************************************************************)
EXTENDS SequencesExt

ROLES == <<"ADMIN", "OPERATOR", "GUEST">>

PERM_GROUP == <<"PrinterFiles", "PrinterSettings", "PrinterFloors", "PrintCompletion", "ServerInfo">>

ROLE_PERMS ==
  [ADMIN |-> ToSet(PERM_GROUP), OPERATOR |-> ToSet(PERM_GROUP) \ {"ServerInfo"}, GUEST |-> {}]

(***************************************************************************)
(* Synchronisation: one name after the other is found or created           *)
(***************************************************************************)
\* Neither database has an index on the name that says which of two is found: the oldest.
FindOneBy(rows, name) ==
  LET named == {r \in rows : r.name = name}
  IN  {r \in named : \A q \in named : r.id <= q.id}

NextId(rows) == 1 + Max({r.id : r \in rows} \cup {0})

\* The cache after a name, when its row was found and when it was created.
\* Mutant: only what was created is kept.
PushCreated(cache, found, created) == cache \o SetToSeq(created)
Push(cache, found, created) == cache \o SetToSeq(found \cup created)

(***************************************************************************)
(* What the cache says                                                     *)
(***************************************************************************)
\* The name of the first cached row with this value in column by, an id or a name.
Normalized(cache, by, r) ==
  LET fits == {i \in DOMAIN cache : cache[i][by] = r}
  IN  {cache[i].name : i \in {i \in fits : \A j \in fits : i <= j}}

\* By ids for a user, by the name of the default role for a visitor.
NormalizedRoles(cache, by, assigned) == UNION {Normalized(cache, by, r) : r \in assigned}

RolesPermissions(cache, by, assigned) ==
  UNION {ROLE_PERMS[n] : n \in NormalizedRoles(cache, by, assigned)}

AuthorizePermission(roles, permissions, by, assigned, p) ==
  /\ p \in RolesPermissions(roles, by, assigned)
  /\ Normalized(permissions, "name", p) # {}

\* Every caller leaves subset as it is, true.
AuthorizeRoles(cache, required, by, assigned) ==
  required = {} \/ required \cap NormalizedRoles(cache, by, assigned) # {}

\* What assigned roles are good for: the routes of a role and those of a permission.
Rights(roles, permissions, by, assigned) ==
  {r \in ToSet(ROLES) : AuthorizeRoles(roles, {r}, by, assigned)} \cup
  {p \in ToSet(PERM_GROUP) : AuthorizePermission(roles, permissions, by, assigned, p)}
=============================================================================
