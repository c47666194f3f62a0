SPECIFICATION FairSpec
CONSTANTS
  Requests = {r1, r2}
  Connections = 2
  None = none
  Users = {u1, u2}
  Creator = u1
  Roles <- MCRoles
  Managers <- MCManagers
  MaxOps = 3
INVARIANT ChainVerifies LastOwnerKept
PROPERTY EveryRequestEnds
CHECK_DEADLOCK FALSE
