CONSTANTS
  alice = alice
  bob = bob
  create = create
  k1 = k1
  none = none
  Request <- MCAttempts
  NoKey <- none
  PoolMax = 2
SPECIFICATION LedgerSpec
INVARIANTS
  WrittenIffAudited
  SequentialRetriesWriteOnce
  SequentialRetriesAgree
  AnswersAreTrue
  ConnectionsConserved
PROPERTY EveryRequestAnswered
ACTION_CONSTRAINT OneMeeting
