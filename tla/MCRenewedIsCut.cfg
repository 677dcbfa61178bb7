CONSTANTS
  o1 = o1
  promo = promo
  reward = reward
  grant = grant
  None = None
  Orders = {o1}
  OrderDays <- MCDays
  Promos = {promo}
  Rewards = {}
  Grants = {grant}
  BonusDays = 4
  TrialDays = 1
  GrantDays = 1
  RetryLimit = 2
  Early = 2
  Late = 1
  MaxTime = 2
  MaxGiven = 3
  Budget = 1
  FirstSetups = {"complete"}
SPECIFICATION Spec
INVARIANTS RenewedIsNotCut
CHECK_DEADLOCK FALSE
