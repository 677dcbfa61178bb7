CONSTANTS
  u1 = u1
  k1 = k1
  k2 = k2
  None = None
  Crashed = Crashed
  Users = {u1}
  Tasks = {k1, k2}
  MaxTopics = 2
  MaxSpent = 1
SPECIFICATION FairSpec
INVARIANTS TypeOK MappedBothWays Answerable
PROPERTIES ImplementsConversation DeliveredToCase ClosedStaysClosed ClosedIsCleared
