CONSTANTS
  alice = alice
  bob = bob
  carol = carol
  root = root
  platform = platform
  command = command
  k1 = k1
  none = none
  g1 = g1
  g2 = g2
  c0 = c0
  Agency = {g1, g2}
  Existing = {c0}
  Request <- MCTenants
  NoKey <- none
  PoolMax = 2
SPECIFICATION TenancySpec
INVARIANTS
  OneClientPerKey
  AgenciesActForTheirClients
ACTION_CONSTRAINT OneMeeting
