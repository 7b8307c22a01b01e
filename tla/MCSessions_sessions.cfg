\* Two requests while upstream demotes, then refuses, their user.
CONSTANTS
  r1 = r1  r2 = r2  clerk = clerk  manager = manager  write = write
  none = none
  Requests <- TwoRequests
  Roles <- TwoRoles
  Abilities <- OneAbility
  AccountOf <- Demoted
  Mappings <- ThreeMappings
  FirstMapping <- Own
  TTL = 1
  Timeout = 1
  Delay = 1
  MaxTime = 3
  MaxUpdates = 1
  None = none
SPECIFICATION Spec
SYMMETRY Symmetry
INVARIANTS TypeOK IdentityIsRecent GrantsAreCurrent
\* Requests end and are not made again.
CHECK_DEADLOCK FALSE
