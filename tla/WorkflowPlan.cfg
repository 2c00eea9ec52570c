CONSTANTS
  r = r
  a = a
  b = b
  Root = r
  Issues = {r, a, b}
  ChildLists <- MCChildLists
  PlanCap = 4
  MaxCalls = 2
SPECIFICATION FairSpec
INVARIANTS NothingBleeds TreeIsPlanned AgreedIsBriefed
PROPERTY PlanEnds
CHECK_DEADLOCK FALSE
