------------------------ MODULE OrderPaymentsPromise ------------------------
(***************************************************************************)
(* OrderPayments implements Settlement, for every set of users and orders  *)
(* and for every bound: each step is one of Settlement's, or none.  And    *)
(* what is left of the promises it breaks: when days may be added twice,   *)
(* what a false message may be of, and which cancellation may come late.   *)
(***************************************************************************)
EXTENDS OrderPaymentsMoney

\* what is known of the states on both sides of a step
Known == Typed /\ Settled /\ Collected

\* no money comes to the provider, to the wallet or to an order
SameMoney == \A p \in Payments : provider'[p].status = "paid" <=> provider[p].status = "paid"
SameCredits == \A p \in Payments : credit'[p] > 0 <=> credit[p] > 0
SameDebits == \A o \in Orders : debit'[o].rows > 0 <=> debit[o].rows > 0

\* nothing but the order o is debited
BuysOnly(o) ==
    /\ debit'[o].rows > 0
    /\ \A q \in Orders \ {o} : debit'[q].rows > 0 <=> debit[q].rows > 0

\* nothing but the payment p is credited
CreditsOnly(p) ==
    /\ credit'[p] > 0
    /\ \A q \in Payments \ {p} : credit'[q] > 0 <=> credit[q] > 0

-----------------------------------------------------------------------------
\* days follow debits, so that served is bought, before the step and after it
LEMMA ServedIsBought ==
    ASSUME Settled
    PROVE  {o \in Orders : daysAdded[o] > 0} = {o \in Orders : debit[o].rows > 0}
BY DEF Settled, Bought, ServedIffDebited

\* the same of the next state
LEMMA ServedIsBoughtNext ==
    ASSUME Settled'
    PROVE  {o \in Orders : daysAdded'[o] > 0} = {o \in Orders : debit'[o].rows > 0}
BY DEF Settled, Bought, ServedIffDebited

\* a step that moves no money promises nothing new
LEMMA Unpromised ==
    ASSUME Settled, Settled', SameMoney, SameCredits, SameDebits
    PROVE  UNCHANGED Promise!vars
<1>1. {p \in Payments : provider'[p].status = "paid"}
        = {p \in Payments : provider[p].status = "paid"}
  BY DEF SameMoney
<1>2. {p \in Payments : credit'[p] > 0} = {p \in Payments : credit[p] > 0}
  BY DEF SameCredits
<1>3. {o \in Orders : debit'[o].rows > 0} = {o \in Orders : debit[o].rows > 0}
  BY DEF SameDebits
<1>4. {o \in Orders : daysAdded'[o] > 0} = {o \in Orders : daysAdded[o] > 0}
  BY <1>3, ServedIsBought, ServedIsBoughtNext
<1> QED
  BY <1>1, <1>2, <1>3, <1>4 DEF Promise!vars

\* the provider is paid
LEMMA CollectPromised ==
    ASSUME Settled, Settled', NEW p \in Payments, provider'[p].status = "paid",
           \A q \in Payments \ {p} : provider'[q].status = "paid" <=> provider[q].status = "paid",
           SameCredits, SameDebits
    PROVE  Promise!Collect(p)
<1>1. {q \in Payments : provider'[q].status = "paid"}
        = {q \in Payments : provider[q].status = "paid"} \cup {p}
  OBVIOUS
<1>2. {q \in Payments : credit'[q] > 0} = {q \in Payments : credit[q] > 0}
  BY DEF SameCredits
<1>3. {o \in Orders : debit'[o].rows > 0} = {o \in Orders : debit[o].rows > 0}
  BY DEF SameDebits
<1>4. {o \in Orders : daysAdded'[o] > 0} = {o \in Orders : daysAdded[o] > 0}
  BY <1>3, ServedIsBought, ServedIsBoughtNext
<1> QED
  BY <1>1, <1>2, <1>3, <1>4 DEF Promise!Collect

\* an order is bought from the balance
LEMMA BuyPromised ==
    ASSUME Settled, Settled', NEW o \in Orders \ TopUps, BuysOnly(o), SameMoney, SameCredits
    PROVE  Promise!Buy(o) \/ UNCHANGED Promise!vars
<1>1. CASE debit[o].rows > 0
  <2>1. SameDebits
    BY <1>1 DEF BuysOnly, SameDebits
  <2> QED
    BY <2>1, Unpromised
<1>2. CASE ~(debit[o].rows > 0)
  <2>1. {p \in Payments : provider'[p].status = "paid"}
          = {p \in Payments : provider[p].status = "paid"}
    BY DEF SameMoney
  <2>2. {p \in Payments : credit'[p] > 0} = {p \in Payments : credit[p] > 0}
    BY DEF SameCredits
  <2>3. {q \in Orders : debit'[q].rows > 0} = {q \in Orders : debit[q].rows > 0} \cup {o}
    BY DEF BuysOnly
  <2>4. {q \in Orders : daysAdded'[q] > 0} = {q \in Orders : daysAdded[q] > 0} \cup {o}
    BY <2>3, ServedIsBought, ServedIsBoughtNext
  <2>5. o \notin {q \in Orders : debit[q].rows > 0}
    BY <1>2
  <2> QED
    BY <2>1, <2>2, <2>3, <2>4, <2>5 DEF Promise!Buy
<1> QED
  BY <1>1, <1>2

\* a top-up is credited
LEMMA TopUpPromised ==
    ASSUME Settled, Settled', NEW p \in Payments, p[1] \in TopUps,
           provider[p].status = "paid", CreditsOnly(p), SameMoney, SameDebits
    PROVE  Promise!TopUp(p) \/ UNCHANGED Promise!vars
<1>1. CASE credit[p] > 0
  <2>1. SameCredits
    BY <1>1 DEF CreditsOnly, SameCredits
  <2> QED
    BY <2>1, Unpromised
<1>2. CASE ~(credit[p] > 0)
  <2>1. {q \in Payments : provider'[q].status = "paid"}
          = {q \in Payments : provider[q].status = "paid"}
    BY DEF SameMoney
  <2>2. {q \in Payments : credit'[q] > 0} = {q \in Payments : credit[q] > 0} \cup {p}
    BY DEF CreditsOnly
  <2>3. {o \in Orders : debit'[o].rows > 0} = {o \in Orders : debit[o].rows > 0}
    BY DEF SameDebits
  <2>4. {o \in Orders : daysAdded'[o] > 0} = {o \in Orders : daysAdded[o] > 0}
    BY <2>3, ServedIsBought, ServedIsBoughtNext
  <2>5. p \in {q \in Payments : provider[q].status = "paid"} \ {q \in Payments : credit[q] > 0}
    BY <1>2
  <2>6. [q \in Payments |-> q[1]][p] \in TopUps
    OBVIOUS
  <2> QED
    BY <2>1, <2>2, <2>3, <2>4, <2>5, <2>6 DEF Promise!TopUp
<1> QED
  BY <1>1, <1>2

\* a payment is credited, and its order bought from it; a payment that was credited before
\* has bought its order before
LEMMA PayPromised ==
    ASSUME Settled, Settled', NEW p \in Payments, p[1] \notin TopUps,
           provider[p].status = "paid", CreditsOnly(p), BuysOnly(p[1]), SameMoney
    PROVE  Promise!Pay(p) \/ UNCHANGED Promise!vars
<1>0. p[1] \in Orders
  BY DEF Payments
<1>1. CASE credit[p] > 0
  <2>1. SameCredits
    BY <1>1 DEF CreditsOnly, SameCredits
  <2>2. debit[p[1]].rows > 0
    BY <1>1 DEF Settled, CreditedIsSpent
  <2>3. SameDebits
    BY <2>2 DEF BuysOnly, SameDebits
  <2> QED
    BY <2>1, <2>3, Unpromised
<1>2. CASE ~(credit[p] > 0)
  <2>1. {q \in Payments : provider'[q].status = "paid"}
          = {q \in Payments : provider[q].status = "paid"}
    BY DEF SameMoney
  <2>2. {q \in Payments : credit'[q] > 0} = {q \in Payments : credit[q] > 0} \cup {p}
    BY DEF CreditsOnly
  <2>3. {o \in Orders : debit'[o].rows > 0}
          = {o \in Orders : debit[o].rows > 0} \cup {p[1]}
    BY <1>0 DEF BuysOnly
  <2>4. {o \in Orders : daysAdded'[o] > 0}
          = {o \in Orders : daysAdded[o] > 0} \cup {p[1]}
    BY <2>3, ServedIsBought, ServedIsBoughtNext
  <2>5. p \in {q \in Payments : provider[q].status = "paid"} \ {q \in Payments : credit[q] > 0}
    BY <1>2
  <2>6. [q \in Payments |-> q[1]][p] = p[1]
    OBVIOUS
  <2> QED
    BY <2>1, <2>2, <2>3, <2>4, <2>5, <2>6 DEF Promise!Pay
<1> QED
  BY <1>1, <1>2

-----------------------------------------------------------------------------
\* a step of Settlement, or none
Promised == Promise!Next \/ UNCHANGED Promise!vars

\* a purchase debits its order only
LEMMA PurchaseBuysOnly ==
    ASSUME Typed, NEW o \in Orders, NEW seen \in OrderRow, NEW held, NEW outcome,
           Purchase(o, seen, held, outcome)
    PROVE  BuysOnly(o)
BY DEF Purchase, BuysOnly, Typed, TypeOK

\* a credit is that of its payment only
LEMMA CreditedOnly ==
    ASSUME Typed, NEW p \in Payments, credit' = Credited(p)
    PROVE  CreditsOnly(p)
BY DEF Credited, CreditsOnly, Typed, TypeOK

\* a purchase from the balance
LEMMA PurchasePromised ==
    ASSUME Known, Known', NEW o \in Orders \ TopUps, NEW seen \in OrderRow, NEW held, NEW outcome,
           Purchase(o, seen, held, outcome), UNCHANGED <<provider, credit>>
    PROVE  Promised
<1>1. BuysOnly(o)
  BY PurchaseBuysOnly DEF Known
<1>2. SameMoney /\ SameCredits
  BY DEF SameMoney, SameCredits
<1> QED
  BY <1>1, <1>2, BuyPromised DEF Known, Promised, Promise!Next

\* a step that leaves the provider, the credits and the debits alone
LEMMA IdlePromised ==
    ASSUME Known, Known', UNCHANGED <<provider, credit, debit>>
    PROVE  Promised
<1>1. SameMoney /\ SameCredits /\ SameDebits
  BY DEF SameMoney, SameCredits, SameDebits
<1> QED
  BY <1>1, Unpromised DEF Known, Promised

\* an invoice brings no money yet
LEMMA InvoicePromised ==
    ASSUME Known, Known', NEW p \in Payments, NEW promo \in BOOLEAN, Invoiced(p, promo),
           UNCHANGED <<credit, debit>>
    PROVE  Promised
<1>1. SameMoney
  BY DEF SameMoney, Invoiced, Known, Typed, TypeOK
<1>2. SameCredits /\ SameDebits
  BY DEF SameCredits, SameDebits
<1> QED
  BY <1>1, <1>2, Unpromised DEF Known, Promised

\* a confirmation of a payment the provider was paid for
LEMMA ConfirmPromised ==
    ASSUME Known, Known', NEW p \in Payments, NEW seen \in OrderRow, NEW held, NEW result,
           Confirm(p, seen, held, result), provider[p].status = "paid", provider' = provider
    PROVE  Promised
<1>0. p[1] \in Orders /\ SameMoney
  BY DEF Payments, SameMoney
<1>1. CASE ConfirmRepeated(p, seen, result)
  BY <1>1, IdlePromised DEF ConfirmRepeated, rows
<1>2. CASE ConfirmRefused(p, seen, result)
  BY <1>2, IdlePromised DEF ConfirmRefused
<1>3. CASE ConfirmTopUp(p, seen, result)
  <2>1. CreditsOnly(p)
    BY <1>3, CreditedOnly DEF ConfirmTopUp, Known
  <2>2. SameDebits /\ p[1] \in TopUps
    BY <1>3 DEF ConfirmTopUp, SameDebits
  <2> QED
    BY <1>0, <2>1, <2>2, TopUpPromised DEF Known, Promised, Promise!Next
<1>4. CASE ConfirmPurchase(p, seen, held, result)
  <2>1. CreditsOnly(p)
    BY <1>4, CreditedOnly DEF ConfirmPurchase, Known
  <2>2. BuysOnly(p[1]) /\ p[1] \notin TopUps
    BY <1>0, <1>4, PurchaseBuysOnly DEF ConfirmPurchase, Known
  <2> QED
    BY <1>0, <2>1, <2>2, PayPromised DEF Known, Promised, Promise!Next
<1> QED
  BY <1>1, <1>2, <1>3, <1>4 DEF Confirm

-----------------------------------------------------------------------------
\* what is done to an order outside of a session
LEMMA OrderStepPromised ==
    ASSUME Known, Known', NEW o \in Orders, OrderStep(o)
    PROVE  Promised
<1>0. order[o] \in OrderRow /\ order[o].promo \in BOOLEAN
  BY DEF Known, Typed, TypeOK, OrderRow
<1>1. CASE CreatePayment(o) \/ CreatePaymentLost(o)
  <2>1. NextAttempt(o) \in Payments
    BY <1>1, NextAttemptType DEF CreatePayment, CreatePaymentLost, Payable
  <2> QED
    BY <1>0, <1>1, <2>1, InvoicePromised DEF CreatePayment, CreatePaymentLost, rows
<1>2. CASE CreateTopUp(o)
  <2>1. <<o, 1>> \in Payments
    BY <1>2, BoundsAssumption DEF CreateTopUp, NewTopUp, Payments
  <2> QED
    BY <1>2, <2>1, InvoicePromised DEF CreateTopUp, NewTopUp
<1>3. CASE PurchaseFromBalance(o)
  <2>1. o \in Orders \ TopUps
    BY <1>3 DEF PurchaseFromBalance, Purchasable
  <2> QED
    BY <1>0, <1>3, <2>1, PurchasePromised, IdlePromised DEF PurchaseFromBalance
<1>4. CASE \/ CreateOrder(o) \/ ApplyPromo(o)
           \/ LoadCheck(o) \/ LoadCancel(o) \/ LoadShortfall(o)
  BY <1>4, IdlePromised
     DEF CreateOrder, ApplyPromo, LoadCheck, LoadCancel, LoadShortfall, Load, rows
<1> QED
  BY <1>1, <1>2, <1>3, <1>4 DEF OrderStep

\* what the provider does, and the reads before a webhook or a retry
LEMMA PaymentStepPromised ==
    ASSUME Known, Known', NEW p \in Payments, PaymentStep(p)
    PROVE  Promised
<1>1. CASE ProviderPay(p)
  <2>1. /\ provider'[p].status = "paid"
        /\ \A q \in Payments \ {p} : provider'[q] = provider[q]
    BY <1>1 DEF ProviderPay, Known, Typed, TypeOK, Invoice
  <2>2. SameCredits /\ SameDebits
    BY <1>1 DEF ProviderPay, rows, SameCredits, SameDebits
  <2> QED
    BY <2>1, <2>2, CollectPromised DEF Known, Promised, Promise!Next
<1>2. CASE ProviderCancel(p)
  <2>1. SameMoney
    BY <1>2 DEF ProviderCancel, SameMoney, Known, Typed, TypeOK, Invoice
  <2>2. SameCredits /\ SameDebits
    BY <1>2 DEF ProviderCancel, rows, SameCredits, SameDebits
  <2> QED
    BY <2>1, <2>2, Unpromised DEF Known, Promised
<1>3. CASE Notify(p) \/ LoadRetry(p)
  BY <1>3, IdlePromised DEF Notify, LoadRetry, Load, rows
<1> QED
  BY <1>1, <1>2, <1>3 DEF PaymentStep

\* the end of a webhook: a status that was fetched as paid is that of the provider still
LEMMA NoticeStepPromised ==
    ASSUME Known, Known', NEW n \in notice, NoticeStep(n)
    PROVE  Promised
<1>0. n.pay \in Payments /\ order[n.pay[1]] \in OrderRow
  BY DEF Known, Typed, TypeOK, Notice, Payments
<1>1. CASE ConfirmWebhook(n)
  <2>1. PICK result : Confirm(n.pay, order[n.pay[1]], Row(n.pay[1]), result)
    BY <1>1 DEF ConfirmWebhook
  <2>2. provider[n.pay].status = "paid" /\ provider' = provider
    BY <1>1 DEF ConfirmWebhook, Known, Collected, RowsAreTrue
  <2> QED
    BY <1>0, <2>1, <2>2, ConfirmPromised
<1>2. CASE DropNotice(n) \/ RecordStatus(n)
  BY <1>2, IdlePromised DEF DropNotice, RecordStatus, rows
<1> QED
  BY <1>1, <1>2 DEF NoticeStep

\* the end of a transaction that began with a read of the order
LEMMA SessionStepPromised ==
    ASSUME Known, Known', NEW s \in session, SessionStep(s)
    PROVE  Promised
<1>0. s \in Session /\ s.seen \in OrderRow
  BY DEF Known, Typed, TypeOK, Session
<1>1. CASE CheckApply(s)
  <2>1. s.pay \in Payments /\ provider' = provider
    BY <1>0, <1>1 DEF CheckApply, Session
  <2>2. CASE UNCHANGED <<order, credit, debit, promoUse, goods, told>>
    BY <2>1, <2>2, IdlePromised
  <2>3. CASE /\ provider[s.pay].status = "paid"
             /\ \E result \in {"already", "refused", "done", "unactivated"} :
                  Confirm(s.pay, s.seen, Row(s.pay[1]), result)
    BY <1>0, <2>1, <2>3, ConfirmPromised
  <2> QED
    BY <1>1, <2>2, <2>3 DEF CheckApply, Fetched
<1>2. CASE RetryApply(s)
  <2>1. s.pay \in Payments /\ provider' = provider
    BY <1>0, <1>2 DEF RetryApply, Session
  <2>2. provider[s.pay].status = "paid"
    BY <1>2, <2>1 DEF RetryApply, Known, Collected, SeenIsPast, RowsAreTrue
  <2>3. PICK result : Confirm(s.pay, s.seen, Held(s), result)
    BY <1>2 DEF RetryApply
  <2> QED
    BY <1>0, <2>1, <2>2, <2>3, ConfirmPromised
<1>3. CASE ShortfallApply(s)
  <2>1. s.order \in Orders \ TopUps
    BY <1>0, <1>3 DEF ShortfallApply, Purchasable, Session
  <2>2. CASE /\ Purchase(s.order, s.seen, Row(s.order), "active")
             /\ UNCHANGED <<payment, provider, credit>>
    BY <1>0, <2>1, <2>2, PurchasePromised
  <2>3. CASE (\E t \in TopUps : NewTopUp(t)) /\ UNCHANGED <<credit, debit, goods>>
    <3>1. PICK t \in TopUps : NewTopUp(t)
      BY <2>3
    <3>2. t \in Orders /\ Invoiced(<<t, 1>>, FALSE)
      BY <3>1, OrdersAssumption DEF NewTopUp
    <3>3. <<t, 1>> \in Payments
      BY <3>1, <3>2, BoundsAssumption DEF NewTopUp, Payments
    <3> QED
      BY <2>3, <3>2, <3>3, InvoicePromised
  <2> QED
    BY <1>3, <2>2, <2>3 DEF ShortfallApply
<1>4. CASE Abandon(s) \/ CancelApply(s)
  BY <1>4, IdlePromised DEF Abandon, CancelApply, rows
<1> QED
  BY <1>1, <1>2, <1>3, <1>4 DEF SessionStep

\* the worker and the administrator at a subscription
LEMMA UserStepPromised ==
    ASSUME Known, Known', NEW u \in Users, UserStep(u)
    PROVE  Promised
BY IdlePromised DEF UserStep, RetrySubscription, RetryDue, AdminRetry, rows

\* nothing was promised at first
LEMMA InitPromised == Init => Promise!Init
<1> SUFFICES ASSUME Init PROVE Promise!Init
  OBVIOUS
<1>1. /\ {p \in Payments : provider[p].status = "paid"} = {}
      /\ {p \in Payments : credit[p] > 0} = {}
  BY DEF Init
<1>2. /\ {o \in Orders : debit[o].rows > 0} = {}
      /\ {o \in Orders : daysAdded[o] > 0} = {}
  BY DEF Init
<1> QED
  BY <1>1, <1>2 DEF Promise!Init

\* every step is one of Settlement, or none
LEMMA NextPromised == Known /\ Known' /\ [Next]_vars => [Promise!Next]_(Promise!vars)
<1> SUFFICES ASSUME Known, Known', [Next]_vars PROVE Promised
  BY DEF Promised
<1>1. CASE UNCHANGED vars
  BY <1>1, IdlePromised DEF vars
<1>2. ASSUME NEW o \in Orders, OrderStep(o) PROVE Promised
  BY <1>2, OrderStepPromised
<1>3. ASSUME NEW p \in Payments, PaymentStep(p) PROVE Promised
  BY <1>3, PaymentStepPromised
<1>4. ASSUME NEW n \in notice, NoticeStep(n) PROVE Promised
  BY <1>4, NoticeStepPromised
<1>5. ASSUME NEW s \in session, SessionStep(s) PROVE Promised
  BY <1>5, SessionStepPromised
<1>6. ASSUME NEW u \in Users, UserStep(u) PROVE Promised
  BY <1>6, UserStepPromised
<1>7. ASSUME NEW c \in Codes, NEW outcome, Redeem(c, outcome) PROVE Promised
  BY <1>7, IdlePromised DEF Redeem, rows
<1> QED
  BY <1>1, <1>2, <1>3, <1>4, <1>5, <1>6, <1>7 DEF Next

\* The rows and the handlers implement the promise: what is collected is credited once at
\* most, and an order is bought once at most, in the step that adds its days and, for a
\* payment of its own, credits it.
THEOREM Implements == Spec => ImplementsSettlement
<1>1. Spec => []Known
  BY AlwaysTyped, AlwaysSettled, AlwaysCollected, PTL DEF Known
<1> QED
  BY <1>1, InitPromised, NextPromised, PTL DEF Spec, ImplementsSettlement, Promise!Spec

-----------------------------------------------------------------------------
(* What is left of three promises the code breaks *)

\* The days of an order are added a second time only if another order of its user was
\* bought: the subscription row then no longer names the order it activates.
TwiceOnlyIfOvertaken ==
    \A o \in Orders : daysAdded[o] > 1 =>
        \E q \in Orders \ {o} : Owner[q] = Owner[o] /\ daysAdded[q] > 0

\* days are added for an order that the row does not name
DaysMove ==
    \/ daysAdded' = daysAdded
    \/ \E o \in Orders :
         /\ Row(o).order # o
         /\ daysAdded' = [daysAdded EXCEPT ![o] = IF @ < 2 THEN @ + 1 ELSE @]

\* an older row that a session holds names its order, so that none is added by it
LEMMA ExtendMovesDays ==
    ASSUME NEW o \in Orders, NEW held, IsHeld(o, held), NEW outcome, Extend(o, held, outcome)
    PROVE  DaysMove
BY DEF Extend, ActivateAgain, AddDays, goods, IsHeld, IsOlder, DaysMove

\* a confirmation adds the days of its order, or none
LEMMA ConfirmMovesDays ==
    ASSUME NEW p \in Payments, NEW seen, NEW held, IsHeld(p[1], held), NEW result,
           Confirm(p, seen, held, result)
    PROVE  DaysMove
<1>0. p[1] \in Orders
  BY DEF Payments
<1>1. CASE ConfirmPurchase(p, seen, held, result)
  BY <1>0, <1>1, ExtendMovesDays DEF ConfirmPurchase, Purchase
<1>2. CASE UNCHANGED goods
  BY <1>2 DEF goods, DaysMove
<1> QED
  BY <1>1, <1>2 DEF Confirm, ConfirmRepeated, ConfirmRefused, ConfirmTopUp

\* every step adds the days of one order, or none
LEMMA NextMovesDays == Typed /\ Settled /\ [Next]_vars => DaysMove
<1> SUFFICES ASSUME Typed, Settled, [Next]_vars PROVE DaysMove
  OBVIOUS
<1>0. daysAdded' = daysAdded => DaysMove
  BY DEF DaysMove
<1>1. CASE UNCHANGED vars
  BY <1>0, <1>1 DEF vars
<1>2. ASSUME NEW o \in Orders, OrderStep(o) PROVE DaysMove
  <2>1. CASE PurchaseFromBalance(o)
    <3>1. IsHeld(o, Row(o))
      BY DEF IsHeld
    <3> QED
      BY <1>0, <2>1, <3>1, ExtendMovesDays DEF PurchaseFromBalance, Purchase, goods
  <2>2. CASE ~PurchaseFromBalance(o)
    BY <1>0, <1>2, <2>2
       DEF OrderStep, CreateOrder, ApplyPromo, CreatePayment, CreatePaymentLost,
           CreateTopUp, LoadCheck, LoadCancel, LoadShortfall, Load, goods
  <2> QED
    BY <2>1, <2>2
<1>3. ASSUME NEW p \in Payments, PaymentStep(p) PROVE DaysMove
  BY <1>0, <1>3 DEF PaymentStep, ProviderPay, ProviderCancel, Notify, LoadRetry, Load, goods
<1>4. ASSUME NEW n \in notice, NoticeStep(n) PROVE DaysMove
  <2>1. n.pay \in Payments /\ IsHeld(n.pay[1], Row(n.pay[1]))
    BY DEF Typed, TypeOK, Notice, IsHeld
  <2>2. CASE ConfirmWebhook(n)
    BY <2>1, <2>2, ConfirmMovesDays DEF ConfirmWebhook
  <2>3. CASE DropNotice(n) \/ RecordStatus(n)
    BY <1>0, <2>3 DEF DropNotice, RecordStatus, goods
  <2> QED
    BY <1>4, <2>2, <2>3 DEF NoticeStep
<1>5. ASSUME NEW s \in session, SessionStep(s) PROVE DaysMove
  <2>0. s \in Session
    BY DEF Typed, TypeOK
  <2>1. CASE CheckApply(s)
    <3>1. s.pay \in Payments /\ IsHeld(s.pay[1], Row(s.pay[1]))
      BY <2>0, <2>1 DEF CheckApply, Session, IsHeld
    <3> QED
      BY <1>0, <2>1, <3>1, ConfirmMovesDays DEF CheckApply, goods
  <2>2. CASE RetryApply(s)
    <3>1. s.pay \in Payments /\ IsHeld(s.pay[1], Held(s))
      BY <2>0, <2>2 DEF RetryApply, Session, Held, IsHeld, Settled, HeldIsOlder
    <3> QED
      BY <2>2, <3>1, ConfirmMovesDays DEF RetryApply
  <2>3. CASE ShortfallApply(s)
    <3>1. s.order \in Orders /\ IsHeld(s.order, Row(s.order))
      BY <2>0, <2>3 DEF ShortfallApply, Session, IsHeld
    <3> QED
      BY <1>0, <2>3, <3>1, ExtendMovesDays DEF ShortfallApply, Purchase, goods
  <2>4. CASE Abandon(s) \/ CancelApply(s)
    BY <1>0, <2>4 DEF Abandon, CancelApply, goods
  <2> QED
    BY <1>5, <2>1, <2>2, <2>3, <2>4 DEF SessionStep
<1>6. ASSUME NEW u \in Users, UserStep(u) PROVE DaysMove
  BY <1>0, <1>6 DEF UserStep, RetrySubscription, RetryDue, AdminRetry
<1>7. ASSUME NEW c \in Codes, NEW outcome, Redeem(c, outcome) PROVE DaysMove
  BY <1>0, <1>7 DEF Redeem
<1> QED
  BY <1>1, <1>2, <1>3, <1>4, <1>5, <1>6, <1>7 DEF Next

\* days that were added once are added again only for an order that was overtaken: the row
\* names another order then, and the days of that one were added
LEMMA NextOvertakes == Typed /\ Settled /\ TwiceOnlyIfOvertaken /\ [Next]_vars =>
                           TwiceOnlyIfOvertaken'
<1> SUFFICES ASSUME Typed, Settled, TwiceOnlyIfOvertaken, [Next]_vars,
                    NEW q \in Orders, daysAdded'[q] > 1
             PROVE  \E r \in Orders \ {q} : Owner[r] = Owner[q] /\ daysAdded'[r] > 0
  BY DEF TwiceOnlyIfOvertaken
<1>0. daysAdded \in [Orders -> 0..2] /\ Owner[q] \in Users
  BY OrdersAssumption DEF Typed, TypeOK
<1>1. \A r \in Orders : daysAdded[r] > 0 => daysAdded'[r] > 0
  BY NextDaysStay DEF DaysStay
<1>2. CASE daysAdded[q] > 1
  BY <1>1, <1>2 DEF TwiceOnlyIfOvertaken
<1>3. CASE ~(daysAdded[q] > 1)
  <2>1. Row(q).order # q /\ daysAdded[q] > 0
    BY <1>0, <1>3, NextMovesDays DEF DaysMove
  <2>2. q \in Added(Owner[q])
    BY <2>1 DEF Added
  <2>3. Row(q).order \in Added(Owner[q])
    BY <1>0, <2>2 DEF Settled, Bought, TermsHold, Row
  <2> QED
    BY <1>1, <2>1, <2>3 DEF Added
<1> QED
  BY <1>2, <1>3

\* A retry adds the days of an order again only after another order of the same user was
\* bought: with one order to a user, the paid days are added once.
THEOREM TwiceNeedsAnother == Spec => []TwiceOnlyIfOvertaken
<1>1. Init => TwiceOnlyIfOvertaken
  BY DEF Init, TwiceOnlyIfOvertaken
<1> QED
  BY <1>1, NextOvertakes, AlwaysTyped, AlwaysSettled, PTL DEF Spec

-----------------------------------------------------------------------------
\* the money of an order arrived: a top-up is credited, a subscription is bought
Reached(o) == IF o \in TopUps THEN \E n \in 1..MaxPayments : credit[<<o, n>>] > 0
              ELSE debit[o].rows > 0

\* an order the check button saw completed is reached still
SeenIsReached ==
    \A s \in session : s.by = "check" /\ s.seen.status = "completed" => Reached(s.pay[1])

\* a customer is told of payments of the provider only, and of orders that are reached
ToldIsReached == \A p \in told : provider[p].status = "paid" /\ Reached(p[1])

ToldTrue == SeenIsReached /\ ToldIsReached

\* The message of a topped-up balance is false only of an order that was bought from the
\* balance, while its own payment was open: of a top-up it is always true.
ToldMeansBought ==
    \A p \in told : credit[p] > 0 \/ (p[1] \notin TopUps /\ debit[p[1]].rows > 0)

\* no step takes back what was collected, credited or bought
LEMMA NothingTakenBack ==
    ASSUME Known, Known', [Next]_vars
    PROVE  /\ \A p \in Payments : provider[p].status = "paid" => provider'[p].status = "paid"
           /\ \A o \in Orders : Reached(o) => Reached(o)'
<1> DEFINE Paid == {p \in Payments : provider[p].status = "paid"}
           Credits == {p \in Payments : credit[p] > 0}
           Debits == {o \in Orders : debit[o].rows > 0}
<1>1. Paid \subseteq Paid' /\ Credits \subseteq Credits' /\ Debits \subseteq Debits'
  BY NextPromised
     DEF Promise!Next, Promise!vars, Promise!Collect, Promise!TopUp, Promise!Buy, Promise!Pay
<1>2. \A p \in Payments : credit[p] > 0 => credit'[p] > 0
  BY <1>1
<1>3. \A o \in Orders : debit[o].rows > 0 => debit'[o].rows > 0
  BY <1>1
<1> QED
  BY <1>1, <1>2, <1>3 DEF Reached, Payments

\* what is told anew is of an order that is reached, and sessions see orders as they are
LEMMA TellStep ==
    ASSUME Known, Known', [Next]_vars, ToldTrue,
           \A p \in told' : p \in told \/ (provider[p].status = "paid" /\ Reached(p[1])'),
           \A s \in session' : s \in session \/ s.by # "check"
             \/ (s.pay \in Payments /\ s.seen = order[s.pay[1]])
    PROVE  ToldTrue'
<1>1. \A s \in session' : s.by = "check" /\ s.seen.status = "completed" => Reached(s.pay[1])'
  <2> SUFFICES ASSUME NEW s \in session', s.by = "check", s.seen.status = "completed"
               PROVE  Reached(s.pay[1])'
    OBVIOUS
  <2>1. s.pay \in Payments /\ s.pay[1] \in Orders
    BY DEF Known, Typed, TypeOK, Session, Payments
  <2>2. Reached(s.pay[1])
    BY <2>1 DEF ToldTrue, SeenIsReached, Known, Settled, CompletedIsServed, Reached
  <2> QED
    BY <2>1, <2>2, NothingTakenBack
<1>2. \A p \in told' : provider'[p].status = "paid" /\ Reached(p[1])'
  BY NothingTakenBack DEF ToldTrue, ToldIsReached, Known, Typed, TypeOK, Payments
<1> QED
  BY <1>1, <1>2 DEF ToldTrue, SeenIsReached, ToldIsReached

\* a confirmation reaches its order, if it is not refused
LEMMA ConfirmReaches ==
    ASSUME Typed, NEW p \in Payments, NEW seen \in OrderRow, NEW held, NEW result,
           Confirm(p, seen, held, result)
    PROVE  result = "refused" \/ (result = "already" /\ seen.status = "completed")
             \/ Reached(p[1])'
<1>0. p[1] \in Orders /\ p[2] \in 1..MaxPayments /\ p = <<p[1], p[2]>>
  BY DEF Payments
<1>1. CASE ConfirmTopUp(p, seen, result)
  <2>1. credit'[p] > 0
    BY <1>1 DEF ConfirmTopUp, Credited, Typed, TypeOK
  <2> QED
    BY <1>0, <1>1, <2>1 DEF ConfirmTopUp, Reached
<1>2. CASE ConfirmPurchase(p, seen, held, result)
  <2>1. debit'[p[1]].rows > 0
    BY <1>0, <1>2, PurchaseBuysOnly DEF ConfirmPurchase, BuysOnly
  <2> QED
    BY <1>2, <2>1 DEF ConfirmPurchase, Reached
<1> QED
  BY <1>1, <1>2 DEF Confirm, ConfirmRepeated, ConfirmRefused

\* every step tells the truth
LEMMA NextTellsTrue == Known /\ Known' /\ ToldTrue /\ [Next]_vars => ToldTrue'
<1> SUFFICES ASSUME Known, Known', ToldTrue, [Next]_vars PROVE ToldTrue'
  OBVIOUS
<1>1. CASE UNCHANGED vars
  BY <1>1, TellStep DEF vars
<1>2. ASSUME NEW o \in Orders, OrderStep(o) PROVE ToldTrue'
  <2>1. CASE LoadCheck(o)
    <3>1. /\ <<o, Cardinality(Made(o))>> \in Payments
          /\ <<o, Cardinality(Made(o))>>[1] = o
      BY <2>1, LastAttemptType DEF LoadCheck
    <3> QED
      BY <2>1, <3>1, TellStep DEF LoadCheck, Load
  <2>2. CASE LoadCancel(o) \/ LoadShortfall(o)
    BY <2>2, TellStep DEF LoadCancel, LoadShortfall, Load
  <2>3. CASE told' = told /\ session' = session
    BY <2>3, TellStep
  <2> QED
    BY <1>2, <2>1, <2>2, <2>3
       DEF OrderStep, CreateOrder, ApplyPromo, CreatePayment, CreatePaymentLost,
           CreateTopUp, PurchaseFromBalance
<1>3. ASSUME NEW p \in Payments, PaymentStep(p) PROVE ToldTrue'
  BY <1>3, TellStep DEF PaymentStep, ProviderPay, ProviderCancel, Notify, LoadRetry, Load
<1>4. ASSUME NEW n \in notice, NoticeStep(n) PROVE ToldTrue'
  <2>0. n.pay \in Payments /\ order[n.pay[1]] \in OrderRow
    BY DEF Known, Typed, TypeOK, Notice, Payments
  <2>1. CASE ConfirmWebhook(n)
    <3>1. PICK result \in {"already", "refused", "done", "unactivated"} :
            /\ Confirm(n.pay, order[n.pay[1]], Row(n.pay[1]), result)
            /\ told' = IF result \in {"done", "unactivated"} THEN told \cup {n.pay} ELSE told
      BY <2>1 DEF ConfirmWebhook
    <3>2. provider[n.pay].status = "paid" /\ session' = session
      BY <2>1 DEF ConfirmWebhook, Known, Collected, RowsAreTrue
    <3>3. result \in {"done", "unactivated"} => Reached(n.pay[1])'
      BY <2>0, <3>1, ConfirmReaches DEF Known
    <3> QED
      BY <3>1, <3>2, <3>3, TellStep
  <2>2. CASE DropNotice(n) \/ RecordStatus(n)
    BY <2>2, TellStep DEF DropNotice, RecordStatus
  <2> QED
    BY <1>4, <2>1, <2>2 DEF NoticeStep
<1>5. ASSUME NEW s \in session, SessionStep(s) PROVE ToldTrue'
  <2>0. s \in Session /\ s.seen \in OrderRow
    BY DEF Known, Typed, TypeOK, Session
  <2>1. CASE CheckApply(s)
    <3>1. s.pay \in Payments /\ s.pay[1] \in Orders /\ session' \subseteq session
      BY <2>0, <2>1 DEF CheckApply, Session, Payments
    <3>2. CASE told' = told
      BY <3>1, <3>2, TellStep
    <3>3. CASE /\ provider[s.pay].status = "paid"
               /\ \E result \in {"already", "refused", "done", "unactivated"} :
                    /\ Confirm(s.pay, s.seen, Row(s.pay[1]), result)
                    /\ told' = IF result = "refused" THEN told ELSE told \cup {s.pay}
      <4>1. PICK result \in {"already", "refused", "done", "unactivated"} :
              /\ Confirm(s.pay, s.seen, Row(s.pay[1]), result)
              /\ told' = IF result = "refused" THEN told ELSE told \cup {s.pay}
        BY <3>3
      <4>2. result # "refused" => Reached(s.pay[1])'
        <5>1. CASE s.seen.status = "completed"
          <6>1. s.by = "check"
            BY <2>1 DEF CheckApply
          <6> QED
            BY <3>1, <5>1, <6>1, NothingTakenBack DEF ToldTrue, SeenIsReached
        <5>2. CASE s.seen.status # "completed"
          BY <2>0, <3>1, <4>1, <5>2, ConfirmReaches DEF Known
        <5> QED
          BY <5>1, <5>2
      <4> QED
        BY <3>1, <3>3, <4>1, <4>2, TellStep
    <3> QED
      BY <2>1, <3>2, <3>3 DEF CheckApply, Fetched
  <2>2. CASE Abandon(s) \/ RetryApply(s) \/ CancelApply(s) \/ ShortfallApply(s)
    BY <2>2, TellStep DEF Abandon, RetryApply, CancelApply, ShortfallApply
  <2> QED
    BY <1>5, <2>1, <2>2 DEF SessionStep
<1>6. ASSUME NEW u \in Users, UserStep(u) PROVE ToldTrue'
  BY <1>6, TellStep DEF UserStep, RetrySubscription, RetryDue, AdminRetry
<1>7. ASSUME NEW c \in Codes, NEW outcome, Redeem(c, outcome) PROVE ToldTrue'
  BY <1>7, TellStep DEF Redeem
<1> QED
  BY <1>1, <1>2, <1>3, <1>4, <1>5, <1>6, <1>7 DEF Next

\* Of a top-up the message is always true; of a subscription it is false only if the order
\* was bought from the balance, and then its days were added.
THEOREM ToldOfBought == Spec => []ToldMeansBought
<1>1. Spec => []Known
  BY AlwaysTyped, AlwaysSettled, AlwaysCollected, PTL DEF Known
<1>2. Init => ToldTrue
  BY DEF Init, ToldTrue, SeenIsReached, ToldIsReached
<1>3. Known /\ ToldTrue => ToldMeansBought
  <2> SUFFICES ASSUME Known, ToldTrue, NEW p \in told, p[1] \in TopUps
               PROVE  credit[p] > 0
    BY DEF ToldMeansBought, ToldTrue, ToldIsReached, Reached
  <2>1. p \in Payments /\ provider[p].status = "paid"
    BY DEF Known, Typed, TypeOK, ToldTrue, ToldIsReached
  <2>2. PICK n \in 1..MaxPayments : credit[<<p[1], n>>] > 0
    BY DEF ToldTrue, ToldIsReached, Reached
  <2>3. <<p[1], n>> \in Payments /\ <<p[1], n>>[1] = p[1]
    BY <2>1 DEF Payments
  <2>4. provider[<<p[1], n>>].status = "paid"
    BY <2>2, <2>3 DEF Known, Collected, CreditedIsPaid, RowsAreTrue
  <2>5. p = <<p[1], n>>
    BY <2>1, <2>3, <2>4 DEF Known, Collected, OneLiveInvoice
  <2> QED
    BY <2>2, <2>5
<1> QED
  BY <1>1, <1>2, <1>3, NextTellsTrue, PTL DEF Spec

-----------------------------------------------------------------------------
\* An order that was bought takes no payment and no promo code any more, and a handler that
\* reads it now does not cancel it: only one that read it before it was bought may.
BoughtIsPast == \A o \in Orders : debit[o].rows > 0 => Past(o)

\* an order in use that was seen when the balance was too low is in use
ShortfallSeesPast ==
    \A s \in session : s.by = "shortfall" /\ s.seen.status \in
        {"processing", "completed", "cancelled"} => Past(s.order)

PastOnceBought == BoughtIsPast /\ ShortfallSeesPast

\* no order comes back into use, and one is debited only when it is past
GoesOn ==
    /\ \A o \in Orders : Past(o) => Past(o)'
    /\ \A o \in Orders : debit'[o].rows > 0 => debit[o].rows > 0 \/ Past(o)'

\* a step that goes on keeps bought orders past, if sessions see orders as they are
LEMMA PastStep ==
    ASSUME Typed, PastOnceBought, GoesOn,
           \A s \in session' : s \in session \/ s.by # "shortfall"
             \/ (s.order \in Orders /\ s.seen = order[s.order])
    PROVE  PastOnceBought'
<1>1. BoughtIsPast'
  BY DEF PastOnceBought, BoughtIsPast, GoesOn
<1>2. ShortfallSeesPast'
  <2> SUFFICES ASSUME NEW s \in session', s.by = "shortfall",
                      s.seen.status \in {"processing", "completed", "cancelled"}
               PROVE  Past(s.order)'
    BY DEF ShortfallSeesPast
  <2>1. s.order \in Orders
    BY DEF Typed, TypeOK, Session
  <2>2. Past(s.order)
    BY DEF PastOnceBought, ShortfallSeesPast, Past
  <2> QED
    BY <2>1, <2>2 DEF GoesOn
<1> QED
  BY <1>1, <1>2 DEF PastOnceBought

\* a purchase by a handler that has seen its order in use only if it was
LEMMA PurchaseGoesOn ==
    ASSUME Typed, NEW o \in Orders, NEW seen \in OrderRow, NEW held, NEW outcome,
           Purchase(o, seen, held, outcome),
           seen.status \in {"processing", "completed", "cancelled"} => Past(o)
    PROVE  GoesOn
BY PurchaseIsPast, PurchaseBuysOnly DEF GoesOn, BuysOnly

\* a confirmation by a handler that has seen its order in use only if it was
LEMMA ConfirmGoesOn ==
    ASSUME Typed, NEW p \in Payments, NEW seen \in OrderRow, NEW held, NEW result,
           Confirm(p, seen, held, result),
           seen.status \in {"processing", "completed", "cancelled"} => Past(p[1])
    PROVE  GoesOn
<1>0. p[1] \in Orders
  BY DEF Payments
<1>1. CASE ConfirmPurchase(p, seen, held, result)
  BY <1>0, <1>1, PurchaseGoesOn DEF ConfirmPurchase
<1>2. CASE ~ConfirmPurchase(p, seen, held, result)
  <2>1. debit' = debit
    BY <1>2 DEF Confirm, ConfirmRepeated, ConfirmRefused, ConfirmTopUp, rows
  <2> QED
    BY <2>1, ConfirmForward DEF GoesOn
<1> QED
  BY <1>1, <1>2

\* every step keeps bought orders past
LEMMA NextPast == Typed /\ Collected /\ PastOnceBought /\ [Next]_vars => PastOnceBought'
<1> SUFFICES ASSUME Typed, Collected, PastOnceBought, [Next]_vars PROVE PastOnceBought'
  OBVIOUS
<1> DEFINE Still == order' = order /\ debit' = debit
<1>0. Still => GoesOn
  BY DEF GoesOn, Past
<1>1. CASE UNCHANGED vars
  BY <1>0, <1>1, PastStep DEF vars
<1>2. ASSUME NEW o \in Orders, OrderStep(o) PROVE PastOnceBought'
  <2>0. order \in [Orders -> OrderRow] /\ order[o] \in OrderRow
    BY DEF Typed, TypeOK
  <2>1. CASE CreateOrder(o) \/ ApplyPromo(o) \/ CreatePayment(o) \/ CreateTopUp(o)
    <3>1. debit' = debit /\ session' = session
      BY <2>1 DEF CreateOrder, ApplyPromo, CreatePayment, CreateTopUp
    <3>2. \A q \in Orders : Past(q) => Past(q)'
      <4>1. CASE CreateOrder(o)
        BY <2>0, <4>1 DEF CreateOrder, NewOrder, Past
      <4>2. CASE ApplyPromo(o)
        BY <2>0, <4>2 DEF ApplyPromo, Past, OrderRow
      <4>3. CASE CreatePayment(o)
        BY <2>0, <4>3 DEF CreatePayment, Payable, Cancellable, Past
      <4>4. CASE CreateTopUp(o)
        BY <2>0, <4>4 DEF CreateTopUp, NewTopUp, Past
      <4> QED
        BY <2>1, <4>1, <4>2, <4>3, <4>4
    <3> QED
      BY <3>1, <3>2, PastStep DEF GoesOn
  <2>2. CASE PurchaseFromBalance(o)
    <3>1. session' = session /\ (Still \/ \E outcome : Purchase(o, order[o], Row(o), outcome))
      BY <2>2 DEF PurchaseFromBalance
    <3>2. GoesOn
      BY <1>0, <2>0, <3>1, PurchaseGoesOn DEF Past
    <3> QED
      BY <3>1, <3>2, PastStep
  <2>3. CASE CreatePaymentLost(o) \/ LoadCheck(o) \/ LoadCancel(o) \/ LoadShortfall(o)
    BY <1>0, <2>3, PastStep
       DEF CreatePaymentLost, LoadCheck, LoadCancel, LoadShortfall, Load, rows
  <2> QED
    BY <1>2, <2>1, <2>2, <2>3 DEF OrderStep
<1>3. ASSUME NEW p \in Payments, PaymentStep(p) PROVE PastOnceBought'
  BY <1>0, <1>3, PastStep
     DEF PaymentStep, ProviderPay, ProviderCancel, Notify, LoadRetry, Load, rows
<1>4. ASSUME NEW n \in notice, NoticeStep(n) PROVE PastOnceBought'
  <2>0. n.pay \in Payments /\ n.pay[1] \in Orders /\ order[n.pay[1]] \in OrderRow
    BY DEF Typed, TypeOK, Notice, Payments
  <2>1. session' = session /\ (Still \/ \E result : Confirm(n.pay, order[n.pay[1]], Row(n.pay[1]), result))
    BY <1>4 DEF NoticeStep, DropNotice, RecordStatus, ConfirmWebhook, rows
  <2>2. GoesOn
    BY <1>0, <2>0, <2>1, ConfirmGoesOn DEF Past
  <2> QED
    BY <2>1, <2>2, PastStep
<1>5. ASSUME NEW s \in session, SessionStep(s) PROVE PastOnceBought'
  <2>0. /\ s \in Session /\ s.seen \in OrderRow
        /\ order \in [Orders -> OrderRow]
        /\ session' \subseteq session
    BY <1>5 DEF Typed, TypeOK, Session, SessionStep, Abandon, CheckApply, RetryApply,
                CancelApply, ShortfallApply
  <2>1. CASE CheckApply(s) \/ RetryApply(s)
    <3>1. s.by \in {"check", "worker"} /\ s.pay \in Payments
      BY <2>0, <2>1 DEF CheckApply, RetryApply, Session
    <3>2. s.seen.status \in {"processing", "completed", "cancelled"} => Past(s.pay[1])
      BY <3>1 DEF Collected, SeenIsPast
    <3>3. Still \/ \E held, result : Confirm(s.pay, s.seen, held, result)
      BY <2>1 DEF CheckApply, RetryApply
    <3>4. GoesOn
      BY <1>0, <2>0, <3>1, <3>2, <3>3, ConfirmGoesOn
    <3> QED
      BY <2>0, <3>4, PastStep
  <2>2. CASE ShortfallApply(s)
    <3>1. s.order \in Orders /\ s.by = "shortfall"
      BY <2>0, <2>2 DEF ShortfallApply, Session
    <3>2. s.seen.status \in {"processing", "completed", "cancelled"} => Past(s.order)
      BY <3>1 DEF PastOnceBought, ShortfallSeesPast
    <3>3. CASE Purchase(s.order, s.seen, Row(s.order), "active")
      <4>1. GoesOn
        BY <2>0, <3>1, <3>2, <3>3, PurchaseGoesOn
      <4> QED
        BY <2>0, <4>1, PastStep
    <3>4. CASE /\ \E t \in TopUps : NewTopUp(t) /\
                    order' = [order EXCEPT ![t] = [status |-> "awaiting", promo |-> FALSE]]
               /\ debit' = debit
      <4>1. GoesOn
        BY <2>0, <3>4 DEF NewTopUp, GoesOn, Past
      <4> QED
        BY <2>0, <4>1, PastStep
    <3> QED
      BY <2>2, <3>3, <3>4 DEF ShortfallApply
  <2>3. CASE CancelApply(s)
    <3>1. GoesOn
      BY <2>0, <2>3 DEF CancelApply, GoesOn, Past
    <3> QED
      BY <2>0, <3>1, PastStep
  <2>4. CASE Abandon(s)
    BY <1>0, <2>0, <2>4, PastStep DEF Abandon, rows
  <2> QED
    BY <1>5, <2>1, <2>2, <2>3, <2>4 DEF SessionStep
<1>6. ASSUME NEW u \in Users, UserStep(u) PROVE PastOnceBought'
  <2>1. CASE RetryDue(u) \/ AdminRetry(u)
    BY <1>0, <2>1, PastStep DEF RetryDue, AdminRetry, rows
  <2>2. ASSUME NEW outcome \in {"active", "failed"}, RetrySubscription(u, outcome)
        PROVE  PastOnceBought'
    <3>1. debit' = debit /\ session' = session
      BY <2>2 DEF RetrySubscription
    <3>4. order' = order \/ \E o \in Orders :
            order' = [order EXCEPT ![o].status = "completed"]
      BY <2>2 DEF RetrySubscription, CompleteNamed
    <3>5. order \in [Orders -> OrderRow]
      BY DEF Typed, TypeOK
    <3>6. \A q \in Orders : Past(q) => Past(q)'
      BY <3>4, <3>5 DEF Past, OrderRow
    <3> QED
      BY <3>1, <3>6, PastStep DEF GoesOn
  <2> QED
    BY <1>6, <2>1, <2>2 DEF UserStep
<1>7. ASSUME NEW c \in Codes, NEW outcome, Redeem(c, outcome) PROVE PastOnceBought'
  BY <1>0, <1>7, PastStep DEF Redeem, rows
<1> QED
  BY <1>1, <1>2, <1>3, <1>4, <1>5, <1>6, <1>7 DEF Next

\* An order that was bought is out of reach of payments, promo codes and cancellations,
\* those whose handlers read it before aside.
THEOREM BoughtForGood == Spec => []BoughtIsPast
<1>1. Init => PastOnceBought
  BY DEF Init, PastOnceBought, BoughtIsPast, ShortfallSeesPast
<1> QED
  BY <1>1, NextPast, AlwaysTyped, AlwaysCollected, PTL DEF Spec, PastOnceBought
=============================================================================
