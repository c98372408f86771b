CONSTANTS
  alice = alice
  compile = compile
  k1 = k1
  none = none
  b1 = b1
  b2 = b2
  Brief = {b1, b2}
  Request <- MCCompiles
  NoKey <- none
  PoolMax = 2
SPECIFICATION Spec
INVARIANTS
  VersionsContiguous
  CompileIsAtomic
  SourcesComplete
PROPERTIES
  DraftHistoryOnlyGrows
  EveryCompileAnswered
ACTION_CONSTRAINT OneMeeting
