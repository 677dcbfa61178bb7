CONSTANTS
  o1 = o1
  promo = promo
  reward = reward
  grant = grant
  None = None
  Orders = {o1}
  OrderDays <- MCDays
  Promos = {promo}
  Rewards = {reward}
  Grants = {grant}
  BonusDays = 4
  TrialDays = 1
  GrantDays = 1
  RetryLimit = 2
  Early = 2
  Late = 1
  MaxTime = 2
  MaxGiven = 2
  Budget = 1
  FirstSetups = {"complete", "noClient"}
SPECIFICATION FairSpec
INVARIANTS TypeOK ActiveIsServed NoDaysLost FailedIsWithinReach ToldOnce
CHECK_DEADLOCK FALSE
PROPERTIES ExpiredIsCut FailedIsRetried UserIsTold
