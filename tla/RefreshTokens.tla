---------------------------- MODULE RefreshTokens ----------------------------
(***************************************************************************)
(* The rows of refresh-token.service.ts (SQLite and MongoDB).              *)
(***************************************************************************)
EXTENDS Users

CONSTANT Tokens

Token == [user : Users, used : Nat, expired : BOOLEAN]

Kept(tokens, T) == [t \in T |-> tokens[t]]

CreateRefreshTokenForUserId(tokens, t, u) ==
  Put(tokens, t, [user |-> u, used |-> 0, expired |-> FALSE])

\* MUTANT of UpdateRefreshTokenAttempts: an upsert.
UpsertAttempts(tokens, t, used) ==
  Put(tokens, t,
      [user |-> IF t \in DOMAIN tokens THEN tokens[t].user ELSE CHOOSE u \in Users : TRUE,
       used |-> used, expired |-> FALSE])

\* updateOne matches nothing when the token is gone.
UpdateRefreshTokenAttempts(tokens, t, used) ==
  IF t \in DOMAIN tokens THEN [tokens EXCEPT ![t].used = used] ELSE tokens

DeleteRefreshToken(tokens, t) == Kept(tokens, (DOMAIN tokens) \ {t})

DeleteRefreshTokenByUserId(tokens, u) ==
  Kept(tokens, {t \in DOMAIN tokens : tokens[t].user # u})

PurgeOutdatedRefreshTokensByUserId(tokens, u) ==
  Kept(tokens, {t \in DOMAIN tokens : ~(tokens[t].user = u /\ tokens[t].expired)})
=============================================================================
