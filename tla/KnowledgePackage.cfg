CONSTANTS
  alice = alice
  bob = bob
  a = a
  b = b
  x = x
  y = y
  i1 = i1
  Title = {a, b}
  Text = {x, y}
  Issue = {i1}
  User = {alice, bob}
  NoOne = nobody
  Unsupported = unsupported
  Request <- MCDesk
SPECIFICATION Spec
INVARIANTS
  VersionsAndCounterAgree
  SealCoversWhatWasThere
  NewestSnapshotIsCurrent
  ResolvedOnceAndAudited
PROPERTY EveryRequestAnswered
ACTION_CONSTRAINT OneMeeting
