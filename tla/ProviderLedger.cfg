CONSTANTS
  k1 = k1
  k2 = k2
  k3 = k3
  p1 = p1
  nowhere = nowhere
  Call <- MCCalls
  Drain = {1, 2}
  Project = {p1}
  Tokens = {0, 2}
  IntMax = 3
SPECIFICATION Spec
INVARIANTS
  LedgerAgreesWithAnswers
  PaidTwiceOnlyAfterServerError
  DrainedIsDurable
PROPERTY NobodyWaitsForEver
ACTION_CONSTRAINT OneMeeting
