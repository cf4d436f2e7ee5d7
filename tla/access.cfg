SPECIFICATION Spec
CONSTANTS
  Requests = {r1, r2}
  Users = {"alice", "bob"}
  Actions = {"list", "revoke"}
  Revoke = "revoke"
  Configs <- MCConfigs
  SuperUser = SuperUser
  NoToken = NoToken
  Filters = {"mine", NoFilter}
  NoFilter = NoFilter
  Lifetime = 3
  MaxTokens = 2
  MaxStarts = 2
  MaxTime = 4
CHECK_DEADLOCK FALSE
INVARIANTS AccessByRoles ObsoleteIsRefused
