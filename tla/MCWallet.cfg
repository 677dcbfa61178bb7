CONSTANTS
  u = u
  v = v
  topUp = topUp
  first = first
  second = second
  code = code
  Nobody = Nobody
  None = None
  Users = {u, v}
  Orders = {topUp, first, second}
  Promos = {code}
  Promo <- MCPromo
  Jobs <- MCJobs
  Kind <- MCKind
  Holder <- MCHolder
  Guard <- MCGuard
  Amount <- MCAmount
  Keys <- MCKeys
  CreditKey <- MCCreditKey
  DebitKey <- MCDebitKey
SPECIFICATION Spec
INVARIANTS TypeOK NoKeyWrittenTwice PaymentIsNeverShort ExactUnlessOvertaken PlainPurchasesDoNotDeadlock
CHECK_DEADLOCK FALSE
PROPERTIES ImplementsBookkeeping
