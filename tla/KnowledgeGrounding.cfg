CONSTANTS
  alice = alice
  none = none
  create = create
  k1 = k1
  k2 = k2
  f0 = f0
  Classified = {f0}
  Request <- MCGrounding
  NoKey <- none
  PoolMax = 2
SPECIFICATION Spec
INVARIANTS
  RecordedVersionsAreExplained
  OpportunitiesAreGrounded
ACTION_CONSTRAINT OneMeeting
