CONSTANTS
  alice = alice
  bob = bob
  carol = carol
  decide = decide
  group = group
  none = none
  o1 = o1
  Opportunity = {o1}
  Request <- MCReviews
  NoKey <- none
  PoolMax = 3
SPECIFICATION Spec
INVARIANTS
  RecordedAtItsVersion
  ClosedReviewStaysClosed
  FamiliesAreAuthorized
ACTION_CONSTRAINT OneMeeting
