SPECIFICATION FairSpec
CONSTANTS
  N = 5
  NumOps = 4
  MaxLen = 4
  Keys <- AnyKeys
INVARIANTS TypeOK Permutation TableInjective SameTable
PROPERTY ScheduleEnds
CHECK_DEADLOCK FALSE
