------------------------ MODULE AccessControlProofs ------------------------
(* Theorems about AccessControl, for every value of its constants: any     *)
(* number of users, requests, configurations and rules.                    *)
EXTENDS AccessControl, TLAPS, WellFoundedInduction, NaturalsInduction

(***************************************************************************)
(* The rule that decides                                                   *)
(***************************************************************************)

(* A set of naturals that is not empty has a least element. *)
LEMMA LeastElement ==
  ASSUME NEW S, S \subseteq Nat, S # {}
  PROVE  \E m \in S : \A n \in S : m <= n
<1>1. PICK m \in S : \A n \in S : ~(<<n, m>> \in OpToRel(<, Nat))
  BY NatLessThanWellFounded, WFMin
<1>2. ASSUME NEW n \in S PROVE m <= n
  <2>1. m \in Nat /\ n \in Nat
    OBVIOUS
  <2>2. ~(n < m)
    BY <1>1, <2>1, Zenon DEF OpToRel
  <2> QED BY <2>1, <2>2
<1> QED BY <1>2

(* The type of the elements of a sequence. *)
LEMMA ElementFacts ==
  ASSUME NEW S, NEW s \in Seq(S), NEW i \in 1..Len(s)
  PROVE  s[i] \in S
  OBVIOUS

(* The three loops of the handler meet one of the rules with the action    *)
(* before the others, if there is any.                                     *)
LEMMA FirstRule ==
  ASSUME NEW rules, rules \subseteq Nat \X Nat, rules # {}
  PROVE  FirstOf(rules) \in rules
<1> DEFINE Roles == {p[1] : p \in rules}
<1>1. Roles \subseteq Nat /\ Roles # {}
  OBVIOUS
<1>2. PICK i \in Roles : \A k \in Roles : i <= k
  BY <1>1, LeastElement
<1> DEFINE Ranks == {p[2] : p \in {q \in rules : q[1] = i}}
<1>3. Ranks \subseteq Nat /\ Ranks # {}
  OBVIOUS
<1>4. PICK j \in Ranks : \A k \in Ranks : j <= k
  BY <1>3, LeastElement
<1>5. PICK p \in rules : p[1] = i /\ p[2] = j
  BY <1>4
<1>6. ASSUME NEW q \in rules PROVE p[1] < q[1] \/ (p[1] = q[1] /\ p[2] <= q[2])
  <2>1. q[1] \in Roles /\ q[1] \in Nat /\ q[2] \in Nat /\ i \in Nat
    BY <1>1
  <2>2. i <= q[1]
    BY <1>2, <2>1
  <2>3. CASE q[1] = i
    <3>1. q[2] \in Ranks
      BY <2>3
    <3> QED BY <1>4, <1>5, <2>3, <3>1
  <2>4. CASE q[1] # i
    BY <1>5, <2>1, <2>2, <2>4
  <2> QED BY <2>3, <2>4
<1> QED BY <1>5, <1>6 DEF FirstOf

(***************************************************************************)
(* The inductive invariant                                                 *)
(***************************************************************************)

\* The running server has the key its configuration asks for; a server that is
\* down has no requests.
ServerInv ==
  /\ server \in {"down", "up"} /\ config \in Configs
  /\ now \in Nat /\ starts \in Nat /\ revokedBefore \in Nat
  /\ server = "up" => starts >= 1 /\ key = (IF config.secret THEN 0 ELSE starts)
  /\ server = "down" => \A r \in Requests : place[r] = "idle"

\* A token is signed with the configured key or with the one of its own start, and
\* a revocation withdraws tokens older than its date.
TokenInv ==
  /\ \A t \in tokens : t.roles \in Seq(STRING) /\ t.iat \in Nat /\ t.exp \in Nat /\ t.key \in {0, t.start}
  /\ \A t \in revoked : t \in tokens /\ t.iat < revokedBefore

Passing(r) == place[r] \in {"validated", "granted", "forbidden"}

\* A request that was validated has a token whose roles the configuration knows,
\* and has no filter before a rule gave it one.
RequestInv ==
  /\ place \in [Requests -> {"idle", "validated", "granted", "forbidden", "refused"}]
  /\ token \in [Requests -> tokens \cup {NoToken}]
  /\ action \in [Requests -> Actions]
  /\ filter \in [Requests -> Filters \cup {NoFilter}]
  /\ \A r \in Requests : place[r] # "granted" => filter[r] = NoFilter
  /\ \A r \in Requests : place[r] = "idle" \/ ~config.jwt => token[r] = NoToken
  /\ \A r \in Requests : config.jwt /\ Passing(r) =>
       /\ token[r] \in tokens /\ token[r] # NoToken
       /\ config.rbac /\ token[r].holder # SuperUser =>
            \A i \in 1..Len(token[r].roles) : token[r].roles[i] \in DOMAIN config.roles

AccessInv == ServerInv /\ TokenInv /\ RequestInv /\ AccessByRoles /\ ObsoleteIsRefused

LEMMA AccessInit == Init => AccessInv
<1> SUFFICES ASSUME Init PROVE AccessInv
  OBVIOUS
<1> USE AccessAssumption DEF Init
<1>1. ServerInv /\ TokenInv
  BY DEF ServerInv, TokenInv
<1>2. RequestInv
  BY DEF RequestInv, Passing
<1>3. AccessByRoles /\ ObsoleteIsRefused
  BY DEF AccessByRoles, ObsoleteIsRefused
<1> QED BY <1>1, <1>2, <1>3 DEF AccessInv

LEMMA StartKeeps ==
  ASSUME AccessInv, NEW c \in Configs, Start(c)
  PROVE  AccessInv'
<1> USE DEF AccessInv, Start, requestVars
<1>1. \A r \in Requests : place'[r] = "idle"
  BY DEF ServerInv
<1>2. ServerInv'
  BY AccessAssumption DEF ServerInv, SecretKey
<1>3. TokenInv'
  BY DEF TokenInv, ServerInv
<1>4. RequestInv'
  BY <1>1 DEF RequestInv, Passing
<1>5. AccessByRoles' /\ ObsoleteIsRefused'
  BY <1>1 DEF AccessByRoles, ObsoleteIsRefused
<1> QED BY <1>2, <1>3, <1>4, <1>5

LEMMA StopKeeps ==
  ASSUME AccessInv, Stop
  PROVE  AccessInv'
<1> USE DEF AccessInv, Stop, NoRequests
<1>1. \A r \in Requests : place'[r] = "idle"
  OBVIOUS
<1>2. ServerInv' /\ TokenInv'
  BY <1>1 DEF ServerInv, TokenInv
<1>3. RequestInv'
  BY <1>1, AccessAssumption DEF RequestInv, Passing
<1>4. AccessByRoles' /\ ObsoleteIsRefused'
  BY <1>1 DEF AccessByRoles, ObsoleteIsRefused
<1> QED BY <1>2, <1>3, <1>4

LEMMA TickKeeps ==
  ASSUME AccessInv, Tick
  PROVE  AccessInv'
<1> USE DEF AccessInv, Tick, requestVars
<1>1. ServerInv' /\ TokenInv' /\ RequestInv'
  <2>1. ServerInv'
    BY DEF ServerInv
  <2>2. TokenInv'
    BY DEF TokenInv
  <2>3. RequestInv'
    BY DEF RequestInv, Passing
  <2> QED BY <2>1, <2>2, <2>3
<1>2. AccessByRoles' /\ ObsoleteIsRefused'
  <2>1. \A t \in tokens \cup {NoToken} : IsValid(t)' => IsValid(t)
    BY DEF IsValid, ServerInv, TokenInv
  <2>2. \A r \in Requests : token[r] \in tokens \cup {NoToken}
    BY DEF RequestInv
  <2> QED BY <2>1, <2>2 DEF AccessByRoles, ObsoleteIsRefused, RevokedIsRefused, RestartObsoletesTokens,
             Unacceptable, WasRevoked, HasUnknownRole
<1> QED BY <1>1, <1>2

LEMMA LoginKeeps ==
  ASSUME AccessInv, NEW holder, NEW names \in Seq(STRING), GenerateJWT(holder, names)
  PROVE  AccessInv'
<1> USE DEF AccessInv, GenerateJWT, requestVars
<1>1. ServerInv'
  BY DEF ServerInv
<1>2. TokenInv'
  BY AccessAssumption DEF TokenInv, ServerInv
<1>3. RequestInv'
  BY DEF RequestInv, Passing
<1>4. AccessByRoles' /\ ObsoleteIsRefused'
  BY DEF AccessByRoles, ObsoleteIsRefused, RevokedIsRefused, RestartObsoletesTokens,
     Unacceptable, IsValid, WasRevoked, HasUnknownRole
<1> QED BY <1>1, <1>2, <1>3, <1>4

LEMMA ValidatedFacts ==
  ASSUME AccessInv, server = "up", config.jwt, NEW t \in tokens \cup {NoToken},
         Validated(t) = "validated"
  PROVE  /\ t \in tokens /\ t # NoToken /\ t \notin revoked
         /\ t.key = key /\ (~config.secret => t.start = starts)
         /\ config.rbac /\ t.holder # SuperUser =>
              \A i \in 1..Len(t.roles) : t.roles[i] \in DOMAIN config.roles
<1>1. IsValid(t) /\ ~WasRevoked(t)
  BY DEF Validated
<1>2. t \in tokens /\ t # NoToken /\ t.key = key
  BY <1>1 DEF IsValid
<1>3. t \notin revoked
  BY <1>1 DEF WasRevoked, AccessInv, TokenInv, ServerInv
<1>4. ~config.secret => t.start = starts
  BY <1>2 DEF AccessInv, TokenInv, ServerInv
<1>5. config.rbac /\ t.holder # SuperUser => ~HasUnknownRole(t)
  BY <1>1 DEF Validated
<1> QED BY <1>2, <1>3, <1>4, <1>5 DEF HasUnknownRole

LEMMA ProtectedKeeps ==
  ASSUME AccessInv, NEW r \in Requests, NEW t \in tokens \cup {NoToken}, NEW a \in Actions,
         JWTProtected(r, t, a)
  PROVE  AccessInv'
<1> USE DEF AccessInv, JWTProtected
<1>0. Validated(t) \in {"validated", "refused"}
  BY DEF Validated
<1>1. ServerInv' /\ TokenInv'
  BY DEF ServerInv, TokenInv
<1>2. RequestInv'
  BY <1>0, ValidatedFacts DEF RequestInv, Passing
<1>3. AccessByRoles'
  <2>1. place'[r] \notin {"granted", "forbidden"}
    BY <1>0 DEF RequestInv
  <2>2. \A q \in Requests : q # r =>
          place'[q] = place[q] /\ token'[q] = token[q] /\ action'[q] = action[q]
    BY DEF RequestInv
  <2>3. config.jwt /\ config.rbac /\ place'[r] = "refused" => Unacceptable(t) /\ token'[r] = t
    BY DEF Validated, Unacceptable, RequestInv
  <2>4. \A q \in Requests : q # r => (q \in inFlight' <=> q \in inFlight) /\ filter'[q] = filter[q]
    OBVIOUS
  <2> QED BY <2>1, <2>2, <2>3, <2>4 DEF AccessByRoles, Unacceptable, IsValid, WasRevoked, HasUnknownRole
<1>4. ObsoleteIsRefused'
  BY <1>0, ValidatedFacts DEF ObsoleteIsRefused, RevokedIsRefused, RestartObsoletesTokens, RequestInv
<1> QED BY <1>1, <1>2, <1>3, <1>4

(* The rules found for the roles of a validated token. *)
LEMMA MatchingFacts ==
  ASSUME AccessInv, NEW names \in Seq(STRING), NEW a \in Actions,
         \A i \in 1..Len(names) : names[i] \in DOMAIN config.roles
  PROVE  /\ Matching(names, a) \subseteq Nat \X Nat
         /\ \A p \in Matching(names, a) :
              /\ p[1] \in 1..Len(names) /\ p[2] \in 1..Len(config.roles[names[p[1]]])
              /\ a \in config.roles[names[p[1]]][p[2]].actions
              /\ config.roles[names[p[1]]][p[2]].abac \in Filters
         /\ \A i \in 1..Len(names) : \A j \in 1..Len(config.roles[names[i]]) :
              a \in config.roles[names[i]][j].actions => <<i, j>> \in Matching(names, a)
<1>1. \A i \in 1..Len(names) :
        config.roles[names[i]] \in Seq([actions : SUBSET STRING, abac : Filters])
  BY AccessAssumption DEF AccessInv, ServerInv
<1>2. ASSUME NEW p \in Matching(names, a)
      PROVE  /\ p \in Nat \X Nat /\ p[1] \in 1..Len(names)
             /\ p[2] \in 1..Len(config.roles[names[p[1]]])
             /\ a \in config.roles[names[p[1]]][p[2]].actions
  <2>1. PICK i \in 1..Len(names) : \E j \in 1..Len(config.roles[names[i]]) :
          p = <<i, j>> /\ a \in config.roles[names[i]][j].actions
    <3>1. PICK i \in 1..Len(names) :
            p \in {<<i, j>> : j \in {k \in 1..Len(config.roles[names[i]]) :
                                     a \in config.roles[names[i]][k].actions}}
      BY Zenon DEF Matching
    <3>2. PICK j \in {k \in 1..Len(config.roles[names[i]]) :
                       a \in config.roles[names[i]][k].actions} : p = <<i, j>>
      BY <3>1
    <3> QED BY <3>2
  <2>2. Len(names) \in Nat /\ Len(config.roles[names[i]]) \in Nat
    BY <1>1, <2>1
  <2> QED BY <2>1, <2>2
<1>3. ASSUME NEW p \in Matching(names, a) PROVE config.roles[names[p[1]]][p[2]].abac \in Filters
  <2>1. config.roles[names[p[1]]][p[2]] \in [actions : SUBSET STRING, abac : Filters]
    <3>1. config.roles[names[p[1]]] \in Seq([actions : SUBSET STRING, abac : Filters])
      BY <1>1, <1>2
    <3> QED BY <1>2, <3>1, ElementFacts
  <2> QED BY <2>1
<1>4. ASSUME NEW i \in 1..Len(names), NEW j \in 1..Len(config.roles[names[i]]),
             a \in config.roles[names[i]][j].actions
      PROVE  <<i, j>> \in Matching(names, a)
  BY <1>4 DEF Matching
<1> QED BY <1>2, <1>3, <1>4

LEMMA RBACKeeps ==
  ASSUME AccessInv, NEW r \in Requests, RBACProtected(r)
  PROVE  AccessInv'
<1>0. /\ server' = server /\ config' = config /\ now' = now /\ starts' = starts /\ key' = key
      /\ revokedBefore' = revokedBefore /\ tokens' = tokens /\ token' = token /\ action' = action
      /\ revoked' = revoked /\ inFlight' = inFlight /\ place[r] = "validated"
  BY DEF RBACProtected
<1>1. /\ place \in [Requests -> {"idle", "validated", "granted", "forbidden", "refused"}]
      /\ filter \in [Requests -> Filters \cup {NoFilter}] /\ filter[r] = NoFilter
  BY <1>0 DEF AccessInv, RequestInv
<1>2. server = "up"
  BY <1>0 DEF AccessInv, ServerInv
<1>3. \E v \in {"granted", "forbidden", "refused"}, f \in Filters \cup {NoFilter} :
        /\ place' = [place EXCEPT ![r] = v] /\ filter' = [filter EXCEPT ![r] = f]
        /\ v # "granted" => f = NoFilter
        /\ config.jwt /\ config.rbac =>
             /\ v = "granted" =>
                  \/ token[r].holder = SuperUser /\ f = NoFilter
                  \/ RuleAllows(config, token[r], action[r], f)
             /\ v = "forbidden" =>
                  /\ token[r].holder # SuperUser
                  /\ \A g \in Filters : ~RuleAllows(config, token[r], action[r], g)
             /\ v # "refused"
  <2>0. filter = [filter EXCEPT ![r] = NoFilter]
    BY <1>1
  <2>1. CASE PassesUnchecked(r)
    <3>1. place' = [place EXCEPT ![r] = "granted"] /\ filter' = filter
      BY <2>1 DEF RBACProtected
    <3>2. config.rbac => token[r].holder = SuperUser
      BY <2>1 DEF PassesUnchecked
    <3> QED BY <2>0, <3>1, <3>2
  <2>2. CASE ~PassesUnchecked(r) /\ token[r] = NoToken
    <3>1. place' = [place EXCEPT ![r] = "refused"] /\ filter' = filter
      BY <2>2 DEF RBACProtected
    <3>2. ~config.jwt
      BY <1>0, <2>2 DEF AccessInv, RequestInv, Passing
    <3> QED BY <2>0, <3>1, <3>2
  <2>3. CASE ~PassesUnchecked(r) /\ token[r] # NoToken
    <3> DEFINE names == token[r].roles
               rules == Matching(names, action[r])
               first == FirstOf(rules)
    <3>1. config.rbac /\ token[r].holder # SuperUser
      BY <2>3 DEF PassesUnchecked
    <3>2. config.jwt /\ token[r] \in tokens
      BY <1>0, <2>3 DEF AccessInv, RequestInv, Passing
    <3>3. /\ names \in Seq(STRING) /\ action[r] \in Actions
          /\ \A i \in 1..Len(names) : names[i] \in DOMAIN config.roles
      BY <1>0, <3>1, <3>2 DEF AccessInv, RequestInv, TokenInv, Passing
    <3>4. CASE rules # {}
      <4>1. first \in rules
        BY <3>3, <3>4, MatchingFacts, FirstRule
      <4> DEFINE f == config.roles[names[first[1]]][first[2]].abac
      <4>2. place' = [place EXCEPT ![r] = "granted"] /\ filter' = [filter EXCEPT ![r] = f]
        BY <2>3, <3>4 DEF RBACProtected
      <4>3. /\ first[1] \in 1..Len(names) /\ first[2] \in 1..Len(config.roles[names[first[1]]])
            /\ action[r] \in config.roles[names[first[1]]][first[2]].actions
            /\ f \in Filters
        <5> HIDE DEF first, rules
        <5> QED BY <3>3, <4>1, MatchingFacts DEF rules
      <4>4. RuleAllows(config, token[r], action[r], f)
        <5> HIDE DEF first
        <5> QED BY <4>3 DEF RuleAllows
      <4> HIDE DEF f
      <4> QED BY <4>2, <4>3, <4>4
    <3>5. CASE rules = {}
      <4>1. place' = [place EXCEPT ![r] = "forbidden"] /\ filter' = filter
        BY <2>3, <3>5 DEF RBACProtected
      <4>2. ASSUME NEW g PROVE ~RuleAllows(config, token[r], action[r], g)
        BY <3>3, <3>5, MatchingFacts DEF RuleAllows
      <4> QED BY <2>0, <3>1, <4>1, <4>2
    <3> QED BY <3>4, <3>5
  <2> QED BY <2>1, <2>2, <2>3
<1>4. PICK v \in {"granted", "forbidden", "refused"}, f \in Filters \cup {NoFilter} :
        /\ place' = [place EXCEPT ![r] = v] /\ filter' = [filter EXCEPT ![r] = f]
        /\ v # "granted" => f = NoFilter
        /\ config.jwt /\ config.rbac =>
             /\ v = "granted" =>
                  \/ token[r].holder = SuperUser /\ f = NoFilter
                  \/ RuleAllows(config, token[r], action[r], f)
             /\ v = "forbidden" =>
                  /\ token[r].holder # SuperUser
                  /\ \A g \in Filters : ~RuleAllows(config, token[r], action[r], g)
             /\ v # "refused"
  BY <1>3
<1>5. ServerInv' /\ TokenInv'
  BY <1>0, <1>1, <1>2, <1>4 DEF AccessInv, ServerInv, TokenInv
<1>6. RequestInv'
  BY <1>0, <1>1, <1>4 DEF AccessInv, RequestInv, Passing
<1>7. AccessByRoles'
  BY <1>0, <1>1, <1>4 DEF AccessInv, AccessByRoles, Unacceptable, IsValid, WasRevoked, HasUnknownRole
<1>8. ObsoleteIsRefused'
  BY <1>0, <1>1, <1>4
     DEF AccessInv, ObsoleteIsRefused, RevokedIsRefused, RestartObsoletesTokens
<1> QED BY <1>5, <1>6, <1>7, <1>8 DEF AccessInv

LEMMA HandleKeeps ==
  ASSUME AccessInv, NEW r \in Requests, Handle(r)
  PROVE  AccessInv'
<1> USE DEF AccessInv, Handle, Answered
<1>1. ServerInv' /\ TokenInv'
  BY DEF ServerInv, TokenInv, RequestInv
<1>2. RequestInv'
  BY AccessAssumption DEF RequestInv, Passing
<1>3. AccessByRoles'
  BY DEF AccessByRoles, RequestInv, Unacceptable, IsValid, WasRevoked, HasUnknownRole
<1>4. ObsoleteIsRefused'
  BY DEF ObsoleteIsRefused, RevokedIsRefused, RestartObsoletesTokens, RequestInv
<1> QED BY <1>1, <1>2, <1>3, <1>4

LEMMA RevokeKeeps ==
  ASSUME AccessInv, NEW r \in Requests, ActionJWTRevokeAll(r)
  PROVE  AccessInv'
<1> USE DEF AccessInv, ActionJWTRevokeAll, Answered
<1>1. ServerInv' /\ TokenInv'
  BY DEF ServerInv, TokenInv, RequestInv
<1>2. RequestInv'
  BY AccessAssumption DEF RequestInv, Passing
<1>3. AccessByRoles'
  BY DEF AccessByRoles, RequestInv
<1>4. ObsoleteIsRefused'
  BY DEF ObsoleteIsRefused, RevokedIsRefused, RestartObsoletesTokens, RequestInv
<1> QED BY <1>1, <1>2, <1>3, <1>4

LEMMA AccessNext == AccessInv /\ [Next]_vars => AccessInv'
<1> SUFFICES ASSUME AccessInv, [Next]_vars PROVE AccessInv'
  OBVIOUS
<1>1. CASE LoginAccount
  <2>1. <<>> \in Seq(STRING)
    OBVIOUS
  <2> QED BY <1>1, <2>1, LoginKeeps DEF LoginAccount
<1>2. ASSUME NEW u \in Users, LoginUser(u) PROVE AccessInv'
  <2>1. config.users[u] \in Seq(STRING)
    BY <1>2, AccessAssumption DEF LoginUser, AccessInv, ServerInv
  <2> QED BY <1>2, <2>1, LoginKeeps DEF LoginUser
<1>3. CASE UNCHANGED vars
  BY <1>3 DEF vars, requestVars, AccessInv, ServerInv, TokenInv, RequestInv, Passing,
     AccessByRoles, ObsoleteIsRefused, RevokedIsRefused, RestartObsoletesTokens, Unacceptable,
     IsValid, WasRevoked, HasUnknownRole
<1> QED BY <1>1, <1>2, <1>3, StartKeeps, StopKeeps, TickKeeps, ProtectedKeeps, RBACKeeps,
           HandleKeeps, RevokeKeeps DEF Next

(***************************************************************************)
(* The theorems                                                            *)
(***************************************************************************)

(* The invariant of tokens, keys and requests over all starts. *)
THEOREM AccessCorrect == Spec => []AccessInv
  BY AccessInit, AccessNext, PTL DEF Spec

(* AccessByRoles: with tokens and rules enabled, the RBAC handler lets in, *)
(* forbids and JWTPostValidate refuses a request only for the reason the   *)
(* roles of the running configuration give, for every configuration,       *)
(* whatever configuration the token was issued under.                      *)
THEOREM AccessFollowsRoles == Spec => []AccessByRoles
<1>1. AccessInv => AccessByRoles
  BY DEF AccessInv
<1> QED BY <1>1, AccessCorrect, PTL

(* ObsoleteIsRefused: a token issued in a second before the date of        *)
(* revocation that holds, of JWTRevokeAll or of the configuration, lets no *)
(* request pass that comes after the date was set, until a restart sets    *)
(* another; and JWTProtected accepts only tokens signed with the key of    *)
(* the running server, so none of an earlier start when Initialize         *)
(* generates the key.                                                      *)
THEOREM ObsoleteNeverPasses == Spec => []ObsoleteIsRefused
<1>1. AccessInv => ObsoleteIsRefused
  BY DEF AccessInv
<1> QED BY <1>1, AccessCorrect, PTL

=============================================================================
