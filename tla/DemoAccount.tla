---------------------------- MODULE DemoAccount ----------------------------
(***************************************************************************)
(* The account of a server in demo mode (createOrUpdateDemoAccount of      *)
(* tasks/boot.task.ts): the commands that make it what the environment     *)
(* says, one awaited after the other. The environment's role stands for    *)
(* its password as well, which may change with it from start to start.     *)
(***************************************************************************)
EXTENDS Sequences

\* What is stored of it; roles are ids. There is a set of accounts, with at most one.
Account(passwords, ids) ==
  [isVerified : BOOLEAN, isRootUser : BOOLEAN, password : passwords, roles : SUBSET ids]

\* MongoDB stores a new account at once; SQLite stores its roles afterwards.
NewAccount(password, roles) ==
  [isVerified |-> TRUE, isRootUser |-> FALSE, password |-> password, roles |-> roles]

Register(password, id) == {NewAccount(password, {id})}
OrmRegister(password) == {NewAccount(password, {})}

CommandNames ==
  {"register", "ormRegister", "setVerified", "setIsRootUser", "updatePassword", "setUserRoles",
   "deleteUserRoles", "createUserRoles"}

\* An account that is there is updated field by field; with SQLite again the roles that are
\* not wanted are deleted before those that miss are stored.
Commands(isTypeorm, accounts) ==
  (IF accounts # {} THEN <<"setVerified", "setIsRootUser", "updatePassword">>
   ELSE IF isTypeorm THEN <<"ormRegister">> ELSE <<"register">>) \o
  (IF isTypeorm THEN <<"deleteUserRoles", "createUserRoles">>
   ELSE IF accounts # {} THEN <<"setUserRoles">> ELSE <<>>)

\* Who made it an owner is one as well, so it never is the last, which could not be changed.
SetVerifiedById(accounts) == {[a EXCEPT !.isVerified = TRUE] : a \in accounts}
SetIsRootUserById(accounts) == {[a EXCEPT !.isRootUser = FALSE] : a \in accounts}
UpdatePasswordUnsafe(accounts, password) == {[a EXCEPT !.password = password] : a \in accounts}
SetUserRoleIds(accounts, id) == {[a EXCEPT !.roles = {id}] : a \in accounts}
DeleteUserRoles(accounts, id) == {[a EXCEPT !.roles = @ \cap {id}] : a \in accounts}
CreateUserRoles(accounts, id) == {[a EXCEPT !.roles = @ \cup {id}] : a \in accounts}

Performed(command, accounts, password, id) ==
  CASE command = "register"        -> Register(password, id)
    [] command = "ormRegister"     -> OrmRegister(password)
    [] command = "setVerified"     -> SetVerifiedById(accounts)
    [] command = "setIsRootUser"   -> SetIsRootUserById(accounts)
    [] command = "updatePassword"  -> UpdatePasswordUnsafe(accounts, password)
    [] command = "setUserRoles"    -> SetUserRoleIds(accounts, id)
    [] command = "deleteUserRoles" -> DeleteUserRoles(accounts, id)
    [] command = "createUserRoles" -> CreateUserRoles(accounts, id)

\* setUserRoleIds of MongoDB looks up the role by its id first, and throws if it is not cached.
RolesFound(command, id, cache) ==
  command = "setUserRoles" => \E i \in DOMAIN cache : cache[i].id = id

\* What an administrator, or an owner, may make of it; the demo user itself may not.
DemoUserNotAllowed(user) == user # "demo"

Administered(account, ids) ==
  {a \in Account({account.password}, ids \cup account.roles) :
     \/ a = [account EXCEPT !.isVerified = FALSE]
     \/ a = [account EXCEPT !.isRootUser = TRUE]
     \/ a = [account EXCEPT !.roles = a.roles] /\ a.roles \subseteq ids}
=============================================================================
