CONSTANTS
  alice = alice
  k = k
  none = none
  c1 = c1
  c2 = c2
  system = system
  Draft <- MCDraft
  Channel = {c1, c2}
  Automatic = {system}
  Request <- MCPublishing
  NoKey <- none
  PoolMax = 2
SPECIFICATION Spec
INVARIANTS
  ApprovedWithItsGates
  PageIsCurrent
  DeliveredThroughTheChain
ACTION_CONSTRAINT OneMeeting
