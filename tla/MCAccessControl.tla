-------------------------- MODULE MCAccessControl --------------------------
(* Configurations for a small instance of AccessControl: before and after  *)
(* a role lost an action, another role was removed and a date of           *)
(* revocation was set, an invalid one, and servers with tokens or rules    *)
(* only.                                                                   *)
EXTENDS AccessControl, TLC

Rule(actions, abac) == [actions |-> actions, abac |-> abac]
Config(jwt, rbac, secret, date, users, roles) ==
  [jwt |-> jwt, rbac |-> rbac, secret |-> secret, revokedBefore |-> date, users |-> users, roles |-> roles]

Full(secret) == Config(TRUE, TRUE, secret, 0,
  "alice" :> <<"reader", "admin">> @@ "bob" :> <<"reader">>,
  "reader" :> <<Rule({"list"}, "mine")>> @@ "admin" :> <<Rule({"list"}, NoFilter), Rule({"revoke"}, NoFilter)>>)

Reduced == Config(TRUE, TRUE, TRUE, 2, "bob" :> <<"reader">>, "reader" :> <<Rule({"revoke"}, NoFilter)>>)

Invalid == Config(TRUE, TRUE, TRUE, 0, "bob" :> <<"writer">>, "reader" :> <<Rule({"list"}, NoFilter)>>)

TokensOnly == Config(TRUE, FALSE, TRUE, 0, <<>>, <<>>)
RulesOnly  == Config(FALSE, TRUE, TRUE, 0, "bob" :> <<"reader">>, "reader" :> <<Rule({"list"}, NoFilter)>>)

MCConfigs == {Full(TRUE), Full(FALSE), Reduced, Invalid, TokensOnly, RulesOnly}
=============================================================================
