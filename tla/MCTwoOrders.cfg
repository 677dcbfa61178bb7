CONSTANTS
  a = a
  b = b
  t = t
  c = c
  u = u
  v = v
  NoOrder = NoOrder
  Users = {u}
  Orders = {a, b}
  TopUps = {}
  Codes = {}
  Owner <- SameOwner
  MaxPayments = 1
  MaxUses = 1
  PerUserLimit = 1
  ActivationLimit = 2
  MaxInFlight = 1
SPECIFICATION Spec
INVARIANTS ServedIffDebited DiscountWithinLimits CompletedIsServed 

