CONSTANTS
  runtime = runtime
  test = test
  canary = canary
  other = other
  live = live
  stage = stage
  Meetings <- MCMeetings
  Top = 2
  Storage = 2
  Checksum = {1, 2}
  AtStart <- MCAtStart
  Protected = {live}
SPECIFICATION ReleaseSpec
INVARIANTS
  LedgerFollowsSchema
  ReadyIsTrue
  RestoredIsTheDump
  AuditsStandOnTheirOwn
CHECK_DEADLOCK FALSE
