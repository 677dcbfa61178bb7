CONSTANTS
  k1 = k1
  k2 = k2
  Keys = {k1, k2}
  Orders = {k1}
  RowLimit = 3
  PolicyLimit = 1
  MaxSpent = 4
SPECIFICATION FairSpec
INVARIANTS TypeOK OneUser
CHECK_DEADLOCK FALSE
PROPERTIES ForeignUntouched ImplementsDelivery LimitIsKept 
