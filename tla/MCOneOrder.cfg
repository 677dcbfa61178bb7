CONSTANTS
  a = a
  b = b
  t = t
  c = c
  u = u
  v = v
  NoOrder = NoOrder
  Users = {u}
  Orders = {a}
  TopUps = {}
  Codes = {c}
  Owner <- SameOwner
  MaxPayments = 2
  MaxUses = 1
  PerUserLimit = 1
  ActivationLimit = 2
  MaxInFlight = 2
SPECIFICATION Spec
INVARIANTS TypeOK OneWalletRowPerKey OneLiveInvoice CreditedOnlyIfPaid CreditedIsSpent
PROPERTIES PaidIsFinal ImplementsSettlement
