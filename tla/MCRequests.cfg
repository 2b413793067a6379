SPECIFICATION FairSpec
CONSTANT
  Requests = {1, 2, 3}
INVARIANTS
  TypeOK
  OverlapOnlyAfterLoss
PROPERTIES
  OverlapEnds
  HandlersEnd
CHECK_DEADLOCK FALSE
