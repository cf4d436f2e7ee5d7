--------------------------- MODULE AccessControl ---------------------------
(***************************************************************************)
(* Who may call the HTTP API: the tokens of JWTManager, the validation of  *)
(* a request's token (JWTProtected, JWTPostValidate), the rules of the     *)
(* RBAC handler, the revocation of all tokens, and the restart of the      *)
(* server, which loads its configuration again.  Sources: web/jwt.go,      *)
(* rbac/*.go, auth/auth.go, the logins of web/apiuser.go and               *)
(* web/apiaccount.go, and AddRoutes of web/webapiserver.go.                *)
(*                                                                         *)
(* Time is in seconds, the unit of the claims iat and exp.  Signatures are *)
(* taken as sound: a token is valid under the key that signed it and no    *)
(* other.  The claims iss, sub, aud and account are those of one           *)
(* installation and do not change.                                         *)
(***************************************************************************)
EXTENDS Integers, Sequences, FiniteSets

CONSTANTS
  Requests,     \* concurrent HTTP requests
  Users,        \* user ids
  Actions,      \* rbac.ActionList, as far as routes use it
  Revoke,       \* ActionJWTRevokeAll
  Configs,      \* configurations, among which the operator chooses one for each start
  SuperUser,    \* the holder of a token of the account
  NoToken,      \* a request without a token
  Filters,      \* ABAC filters of rules
  NoFilter,     \* a rule without ABAC filter
  Lifetime,     \* seconds until a token expires
  MaxTokens,    \* bound: tokens issued
  MaxStarts,    \* bound: starts of the server
  MaxTime       \* bound: seconds

ASSUME AccessAssumption ==
  /\ IsFiniteSet(Requests) /\ SuperUser \notin Users /\ Revoke \in Actions
  /\ \A c \in Configs :
       /\ c.jwt \in BOOLEAN /\ c.rbac \in BOOLEAN /\ c.secret \in BOOLEAN /\ c.revokedBefore \in Nat
       /\ \A u \in DOMAIN c.users : c.users[u] \in Seq(STRING)
       /\ \A n \in DOMAIN c.roles : c.roles[n] \in Seq([actions : SUBSET STRING, abac : Filters])
  /\ Lifetime \in Nat \ {0} /\ MaxTokens \in Nat /\ MaxStarts \in Nat /\ MaxTime \in Nat

VARIABLES
  server,         \* "down" or "up"
  config,         \* the configuration of the running server
  key,            \* JWTMgr.config.SecretKey: 0 if configured, else the start that made it
  revokedBefore,  \* RevokeEmittedBeforeDate, in seconds
  now,
  tokens,         \* tokens issued
  place,          \* of each request: "idle", "validated", "granted", "forbidden", "refused"
  token,          \* the token of each request
  action,         \* the action of its route
  filter,         \* the ABAC filter it left for the list of streams
  starts,
  revoked,        \* tokens issued before the date of revocation was last set
  inFlight        \* requests that came before a revocation and are in progress

requestVars == <<place, token, action, filter>>
vars == <<server, config, key, revokedBefore, now, tokens, requestVars, starts, revoked, inFlight>>

NoRequests ==
  /\ place' = [r \in Requests |-> "idle"]
  /\ token' = [r \in Requests |-> NoToken]
  /\ action' = [r \in Requests |-> Revoke]
  /\ filter' = [r \in Requests |-> NoFilter]

Init ==
  /\ server = "down" /\ config \in Configs /\ key = 0 /\ revokedBefore = 0
  /\ now = 1 /\ tokens = {} /\ starts = 0 /\ revoked = {} /\ inFlight = {}
  /\ place = [r \in Requests |-> "idle"]
  /\ token = [r \in Requests |-> NoToken]
  /\ action = [r \in Requests |-> Revoke]
  /\ filter = [r \in Requests |-> NoFilter]

-----------------------------------------------------------------------------
(* Faulty forms of operators below, not used by the specification.         *)

RevokedSecondEarlier(t) == t.iat < revokedBefore - 1
FirstRoleOnly(names, a) ==
  {<<1, j>> : j \in {k \in 1..Len(config.roles[names[1]]) : a \in config.roles[names[1]][k].actions}}

-----------------------------------------------------------------------------
(* The start, the end of the server, and time.                             *)

\* DeserializeRBACConfig and ValidateActions refuse unknown rules, roles and actions.
ValidConfig(c) ==
  c.rbac =>
    /\ \A u \in DOMAIN c.users : \A i \in 1..Len(c.users[u]) : c.users[u][i] \in DOMAIN c.roles
    /\ \A n \in DOMAIN c.roles : \A i \in 1..Len(c.roles[n]) : c.roles[n][i].actions \subseteq Actions

\* A key is generated when none is configured.
SecretKey(c) == IF c.secret THEN 0 ELSE starts + 1

\* RunServer: the configuration is loaded again.  The date of the last revocation is
\* not kept, the one of the configuration file holds again (0: there is none).
Start(c) ==
  /\ server = "down" /\ starts < MaxStarts /\ ValidConfig(c)
  /\ server' = "up" /\ config' = c
  /\ starts' = starts + 1
  /\ key' = SecretKey(c) /\ revokedBefore' = c.revokedBefore
  /\ revoked' = {t \in tokens : t.iat < c.revokedBefore}
  /\ UNCHANGED <<now, tokens, requestVars, inFlight>>

Stop ==
  /\ server = "up"
  /\ server' = "down"
  /\ NoRequests
  /\ revoked' = {} /\ inFlight' = {}
  /\ UNCHANGED <<config, key, revokedBefore, now, tokens, starts>>

Tick ==
  /\ now < MaxTime
  /\ now' = now + 1
  /\ UNCHANGED <<server, config, key, revokedBefore, tokens, requestVars, starts, revoked, inFlight>>

-----------------------------------------------------------------------------
(* The logins.                                                             *)

GenerateJWT(holder, names) ==
  /\ server = "up" /\ config.jwt /\ Cardinality(tokens) < MaxTokens
  /\ tokens' = tokens \cup {[holder |-> holder, roles |-> names, iat |-> now,
                             exp |-> now + Lifetime, key |-> key, start |-> starts]}
  /\ UNCHANGED <<server, config, key, revokedBefore, now, requestVars, starts, revoked, inFlight>>

\* The API key of the account was right.
LoginAccount == GenerateJWT(SuperUser, <<>>)

\* The user is known and was authenticated, or authentication is disabled.
LoginUser(u) ==
  /\ config.rbac /\ u \in DOMAIN config.users
  /\ GenerateJWT(u, config.users[u])

-----------------------------------------------------------------------------
(* A request.                                                              *)

\* Revocation has the resolution of iat: a token of the same second stays valid.
WasRevoked(t) == t.iat < revokedBefore

\* The signature and the expiration, checked by the middleware.
IsValid(t) == t # NoToken /\ t.key = key /\ now < t.exp

HasUnknownRole(t) == \E i \in 1..Len(t.roles) : t.roles[i] \notin DOMAIN config.roles

\* What JWTPostValidate leaves in the locals; without JWT it is not called.
Validated(t) ==
  IF ~config.jwt THEN "validated"
  ELSE IF ~IsValid(t) \/ WasRevoked(t) THEN "refused"
  ELSE IF t.holder = SuperUser THEN "validated"
  ELSE IF config.rbac /\ HasUnknownRole(t) THEN "refused" ELSE "validated"

JWTProtected(r, t, a) ==
  /\ server = "up" /\ place[r] = "idle"
  /\ place' = [place EXCEPT ![r] = Validated(t)]
  /\ token' = [token EXCEPT ![r] = IF config.jwt THEN t ELSE NoToken]
  /\ action' = [action EXCEPT ![r] = a]
  /\ inFlight' = inFlight \ {r}
  /\ UNCHANGED <<server, config, key, revokedBefore, now, tokens, filter, starts, revoked>>

\* Rules, by their place in the roles, that have the action.
Matching(names, a) ==
  UNION {{<<i, j>> : j \in {k \in 1..Len(config.roles[names[i]]) :
                              a \in config.roles[names[i]][k].actions}} : i \in 1..Len(names)}

\* The rule the three loops of the handler meet first.
FirstOf(rules) ==
  CHOOSE p \in rules : \A q \in rules : p[1] < q[1] \/ (p[1] = q[1] /\ p[2] <= q[2])

\* The middleware is skipped without RBAC; superusers pass.
PassesUnchecked(r) ==
  ~config.rbac \/ (token[r] # NoToken /\ token[r].holder = SuperUser)

\* No route has a handler for the properties of ABAC: the first rule with the action
\* decides, and leaves its filter to the list of streams.  Without roles: an error.
RBACProtected(r) ==
  /\ place[r] = "validated"
  /\ \/ /\ PassesUnchecked(r)
        /\ place' = [place EXCEPT ![r] = "granted"]
        /\ UNCHANGED filter
     \/ /\ ~PassesUnchecked(r) /\ token[r] # NoToken
        /\ LET names == token[r].roles
               rules == Matching(names, action[r])
               first == FirstOf(rules) IN
             \/ /\ rules # {}
                /\ place' = [place EXCEPT ![r] = "granted"]
                /\ filter' = [filter EXCEPT ![r] = config.roles[names[first[1]]][first[2]].abac]
             \/ /\ rules = {}
                /\ place' = [place EXCEPT ![r] = "forbidden"]
                /\ UNCHANGED filter
     \/ /\ ~PassesUnchecked(r) /\ token[r] = NoToken
        /\ place' = [place EXCEPT ![r] = "refused"]
        /\ UNCHANGED filter
  /\ UNCHANGED <<server, config, key, revokedBefore, now, tokens, token, action, starts, revoked,
                 inFlight>>

Answered(r) ==
  /\ place' = [place EXCEPT ![r] = "idle"]
  /\ token' = [token EXCEPT ![r] = NoToken]
  /\ filter' = [filter EXCEPT ![r] = NoFilter]
  /\ action' = [action EXCEPT ![r] = Revoke]

\* The handler of the route; all but one are the subject of other modules.
Handle(r) ==
  /\ place[r] \in {"granted", "forbidden", "refused"}
  /\ ~(place[r] = "granted" /\ action[r] = Revoke)
  /\ Answered(r)
  /\ UNCHANGED <<server, config, key, revokedBefore, now, tokens, starts, revoked, inFlight>>

ActionJWTRevokeAll(r) ==
  /\ place[r] = "granted" /\ action[r] = Revoke
  /\ revokedBefore' = now
  /\ revoked' = {t \in tokens : t.iat < now}
  /\ inFlight' = {q \in Requests \ {r} : place[q] # "idle"}
  /\ Answered(r)
  /\ UNCHANGED <<server, config, key, now, tokens, starts>>

-----------------------------------------------------------------------------
Next ==
  \/ \E c \in Configs : Start(c)
  \/ Stop \/ Tick \/ LoginAccount
  \/ \E u \in Users : LoginUser(u)
  \/ \E r \in Requests :
       \/ \E t \in tokens \cup {NoToken}, a \in Actions : JWTProtected(r, t, a)
       \/ RBACProtected(r) \/ Handle(r) \/ ActionJWTRevokeAll(r)

Spec == Init /\ [][Next]_vars

-----------------------------------------------------------------------------
\* Some role the token names, as configuration c defines it, has a rule with the
\* action and the filter.
RuleAllows(c, t, a, f) ==
  \E i \in 1..Len(t.roles) : \E j \in 1..Len(c.roles[t.roles[i]]) :
    LET rule == c.roles[t.roles[i]][j] IN a \in rule.actions /\ rule.abac = f

\* The token is missing, expired, signed with another key, revoked, or has a role that
\* the configuration does not know.
Unacceptable(t) ==
  ~IsValid(t) \/ WasRevoked(t) \/ (t.holder # SuperUser /\ HasUnknownRole(t))

(* Where tokens and rules are enabled, it is the configuration the server  *)
(* runs with that decides, not the one a token was issued under.  A        *)
(* request is let in only if its token is the account's or a rule of a     *)
(* role of the token has the action, and the filter on its list of streams *)
(* is that of such a rule; it is forbidden only if no rule of its roles    *)
(* has the action; and it is refused before the rules are asked only if    *)
(* its token is unacceptable (one unknown role suffices, although another  *)
(* role may have the action; the reason of a request already refused when  *)
(* the tokens are revoked is not followed further).  What a request that   *)
(* is let in does to one stream is restricted by no ABAC filter: the       *)
(* routes give the RBAC handler no properties to test.                     *)
AccessByRoles ==
  \A r \in Requests : config.jwt /\ config.rbac =>
    /\ place[r] = "granted" =>
         \/ token[r].holder = SuperUser /\ filter[r] = NoFilter
         \/ RuleAllows(config, token[r], action[r], filter[r])
    /\ place[r] = "forbidden" =>
         /\ token[r].holder # SuperUser
         /\ \A f \in Filters : ~RuleAllows(config, token[r], action[r], f)
    /\ place[r] = "refused" /\ r \notin inFlight => Unacceptable(token[r])

\* A token issued in a second before the date of revocation passes only with a request
\* that came before that date was set.
RevokedIsRefused(r) == token[r] \in revoked => r \in inFlight

\* jwt.go:194-196: "a new key generated at program startup implies that all jwt
\* previously generated will be obseleted".
RestartObsoletesTokens(r) ==
  token[r].key = key /\ (~config.secret => token[r].start = starts)

(* Where tokens are enabled, no request passes with a token that was       *)
(* revoked before the request came, by JWTRevokeAll of this start or by    *)
(* the date of its configuration, nor with a token signed with another key *)
(* than the one of the running server; so, where no key is configured,     *)
(* with none of an earlier start.  This holds whatever the roles of the    *)
(* token and the configurations of the starts.  It leaves out what the     *)
(* code lets pass: tokens issued in the second of the revocation, and      *)
(* after a restart those that only JWTRevokeAll had revoked.               *)
ObsoleteIsRefused ==
  \A r \in Requests : config.jwt /\ place[r] \in {"validated", "granted"} =>
    RevokedIsRefused(r) /\ RestartObsoletesTokens(r)
=============================================================================
