------------------------ MODULE OrderPaymentsProofs ------------------------
(***************************************************************************)
(* What holds of OrderPayments for every set of users and orders and for   *)
(* every bound.                                                            *)
(***************************************************************************)
EXTENDS OrderPayments, FiniteSetTheorems, TLAPS

-----------------------------------------------------------------------------
(* Payment attempts *)

\* the attempts of an order are counted within the bound
LEMMA MadeBounded ==
    ASSUME NEW o
    PROVE  /\ IsFiniteSet(Made(o))
           /\ Cardinality(Made(o)) \in Nat
           /\ Cardinality(Made(o)) <= MaxPayments
<1>1. IsFiniteSet(1..MaxPayments) /\ Cardinality(1..MaxPayments) = MaxPayments
  <2>1. CASE MaxPayments = 0
    BY <2>1, FS_Interval
  <2>2. CASE MaxPayments > 0
    BY <2>2, FS_Interval, BoundsAssumption
  <2> QED
    BY <2>1, <2>2, BoundsAssumption
<1>2. Made(o) \in SUBSET (1..MaxPayments)
  BY DEF Made
<1> QED
  BY <1>1, <1>2, FS_Subset, FS_CardinalityType

\* a payment that may be made is one of the payments
LEMMA NextAttemptType ==
    ASSUME NEW o \in Orders, Cardinality(Made(o)) < MaxPayments
    PROVE  NextAttempt(o) \in Payments
BY MadeBounded, BoundsAssumption DEF NextAttempt, Payments

\* the latest payment of an order is one of the payments
LEMMA LastAttemptType ==
    ASSUME NEW o \in Orders, Made(o) # {}
    PROVE  <<o, Cardinality(Made(o))>> \in Payments
<1>1. Cardinality(Made(o)) # 0
  BY MadeBounded, FS_EmptySet
<1> QED
  BY <1>1, MadeBounded, BoundsAssumption DEF Payments

-----------------------------------------------------------------------------
(* Type correctness *)

\* the order a subscription names is an order of its user
SubscriptionHasOrder ==
    \A u \in Users : subscription[u].order \in Orders => Owner[subscription[u].order] = u

\* a payment row stands for a payment of the provider
PaymentHasInvoice ==
    \A p \in Payments : payment[p].status # "none" => provider[p].status # "none"

Typed == TypeOK /\ SubscriptionHasOrder /\ PaymentHasInvoice

\* the row after an attempt: its order and its days stay, its status is the outcome or stays
LEMMA AttemptedTyped ==
    ASSUME NEW row \in SubscriptionRow, NEW held \in SubscriptionRow,
           NEW outcome \in {"active", "failed"}
    PROVE  /\ Attempted(row, held, outcome) \in SubscriptionRow
           /\ Attempted(row, held, outcome).order = row.order
           /\ Attempted(row, held, outcome).days = row.days
           /\ Attempted(row, held, outcome).status =
                IF outcome = held.status THEN row.status ELSE outcome
<1>1. row.attempts \in 0..ActivationLimit /\ held.attempts \in 0..ActivationLimit
  BY DEF SubscriptionRow
<1>2. (IF held.attempts < ActivationLimit THEN held.attempts + 1 ELSE ActivationLimit)
        \in 0..ActivationLimit
  BY <1>1, BoundsAssumption
<1>3. (outcome = "active" /\ (held.status = "active" /\ held.due => row.due)) \in BOOLEAN
  OBVIOUS
<1> QED
  BY <1>2, <1>3 DEF Attempted, SubscriptionRow

\* the row of the order's user, by the user
LEMMA RowTyped ==
    ASSUME Typed, NEW k \in Keys
    PROVE  Owner[k] \in Users /\ Row(k) \in SubscriptionRow
BY OrdersAssumption DEF Typed, TypeOK, Row, Keys

\* an attempt at the panel writes rows of their types
LEMMA ProvisionTyped ==
    ASSUME Typed, NEW k \in Keys, NEW term \in SUBSET Orders, NEW outcome,
           Provision(k, term, outcome)
    PROVE  /\ operation' \in [Keys -> {"none", "failed", "completed"}]
           /\ pushed' \subseteq Orders
           /\ behind' \subseteq Users
<1>1. Owner[k] \in Users
  BY RowTyped
<1> QED
  BY <1>1 DEF Provision, Typed, TypeOK

\* the row of one user is replaced by another of its type
LEMMA SubscriptionReplaced ==
    ASSUME Typed, NEW u \in Users, NEW row \in SubscriptionRow,
           row.order \in Orders => Owner[row.order] = u,
           subscription' = [subscription EXCEPT ![u] = row]
    PROVE  /\ subscription' \in [Users -> SubscriptionRow]
           /\ SubscriptionHasOrder'
BY DEF Typed, TypeOK, SubscriptionHasOrder

\* adding days writes rows of their types
LEMMA ExtendTyped ==
    ASSUME Typed, NEW o \in Orders, NEW held \in SubscriptionRow,
           NEW outcome \in {"active", "failed"}, Extend(o, held, outcome)
    PROVE  /\ subscription' \in [Users -> SubscriptionRow]
           /\ operation' \in [Keys -> {"none", "failed", "completed"}]
           /\ daysAdded' \in [Orders -> 0..2]
           /\ pushed' \subseteq Orders
           /\ behind' \subseteq Users
           /\ SubscriptionHasOrder'
<1> DEFINE row == Attempted(Row(o), held, outcome)
<1>1. o \in Keys /\ Owner[o] \in Users /\ Row(o) \in SubscriptionRow
  BY RowTyped DEF Keys
<1>2. row \in SubscriptionRow /\ row.order = Row(o).order
  BY <1>1, AttemptedTyped
<1>3. held.days \in SUBSET Orders
  BY DEF SubscriptionRow
<1>4. CASE UNCHANGED goods
  BY <1>4 DEF goods, Typed, TypeOK, SubscriptionHasOrder
<1>5. CASE ActivateAgain(o, held, outcome)
  <2>1. subscription' = [subscription EXCEPT ![Owner[o]] = row]
    BY <1>5 DEF ActivateAgain, Row
  <2>2. row.order \in Orders => Owner[row.order] = Owner[o]
    BY <1>1, <1>2 DEF Typed, SubscriptionHasOrder, Row
  <2> HIDE DEF row
  <2>3. subscription' \in [Users -> SubscriptionRow] /\ SubscriptionHasOrder'
    BY <1>1, <1>2, <2>1, <2>2, SubscriptionReplaced
  <2>4. Provision(o, held.days, outcome) /\ daysAdded' = daysAdded
    BY <1>5 DEF ActivateAgain
  <2> QED
    BY <1>1, <1>3, <2>3, <2>4, ProvisionTyped DEF Typed, TypeOK
<1>6. CASE AddDays(o, held, outcome)
  <2> DEFINE new == Extended(row, o)
  <2>1. subscription' = [subscription EXCEPT ![Owner[o]] = new]
    BY <1>6 DEF AddDays, Row
  <2>2. new \in SubscriptionRow /\ new.order = o
    <3> HIDE DEF row
    <3> QED
      BY <1>2 DEF Extended, SubscriptionRow
  <2> HIDE DEF new
  <2>3. subscription' \in [Users -> SubscriptionRow] /\ SubscriptionHasOrder'
    BY <1>1, <2>1, <2>2, SubscriptionReplaced
  <2>4. /\ Provision(o, held.days \cup {o}, outcome)
        /\ daysAdded' = [daysAdded EXCEPT ![o] = IF @ < 2 THEN @ + 1 ELSE @]
    BY <1>6 DEF AddDays
  <2>5. daysAdded' \in [Orders -> 0..2]
    BY <2>4 DEF Typed, TypeOK
  <2> QED
    BY <1>1, <1>3, <2>3, <2>4, <2>5, ProvisionTyped
<1> QED
  BY <1>4, <1>5, <1>6 DEF Extend

\* a purchase writes rows of their types
LEMMA PurchaseTyped ==
    ASSUME Typed, NEW o \in Orders, NEW seen \in OrderRow, NEW held \in SubscriptionRow,
           NEW outcome \in {"active", "failed"}, Purchase(o, seen, held, outcome)
    PROVE  /\ order' \in [Orders -> OrderRow]
           /\ debit' \in [Orders -> [rows : Nat, promo : BOOLEAN]]
           /\ promoUse' \subseteq Orders
           /\ subscription' \in [Users -> SubscriptionRow]
           /\ operation' \in [Keys -> {"none", "failed", "completed"}]
           /\ daysAdded' \in [Orders -> 0..2]
           /\ pushed' \subseteq Orders
           /\ behind' \subseteq Users
           /\ SubscriptionHasOrder'
<1>1. order' \in [Orders -> OrderRow]
  BY DEF Purchase, SetStatus, Written, Typed, TypeOK, OrderRow
<1>2. debit' \in [Orders -> [rows : Nat, promo : BOOLEAN]]
  BY DEF Purchase, Typed, TypeOK, OrderRow
<1>3. promoUse' \subseteq Orders
  BY DEF Purchase, Consumed, Typed, TypeOK
<1>4. Extend(o, held, outcome)
  BY DEF Purchase
<1> QED
  BY <1>1, <1>2, <1>3, <1>4, ExtendTyped

\* a confirmation writes rows of their types
LEMMA ConfirmTyped ==
    ASSUME Typed, NEW p \in Payments, NEW seen \in OrderRow, NEW held \in SubscriptionRow,
           NEW result, Confirm(p, seen, held, result)
    PROVE  /\ order' \in [Orders -> OrderRow]
           /\ payment' \in [Payments -> PaymentRow]
           /\ credit' \in [Payments -> Nat]
           /\ debit' \in [Orders -> [rows : Nat, promo : BOOLEAN]]
           /\ promoUse' \subseteq Orders
           /\ subscription' \in [Users -> SubscriptionRow]
           /\ operation' \in [Keys -> {"none", "failed", "completed"}]
           /\ daysAdded' \in [Orders -> 0..2]
           /\ pushed' \subseteq Orders
           /\ behind' \subseteq Users
           /\ SubscriptionHasOrder'
<1> USE DEF Typed, TypeOK
<1>0. p[1] \in Orders
  BY DEF Payments
<1>1. CASE ConfirmRepeated(p, seen, result)
  BY <1>1 DEF ConfirmRepeated, rows, goods, SubscriptionHasOrder
<1>2. CASE ConfirmRefused(p, seen, result)
  <2>1. payment' \in [Payments -> PaymentRow]
    BY <1>2 DEF ConfirmRefused, MarkPaid, PaymentRow
  <2>2. order' \in [Orders -> OrderRow]
    BY <1>0, <1>2 DEF ConfirmRefused, SetStatus, Written, OrderRow
  <2> QED
    BY <1>2, <2>1, <2>2 DEF ConfirmRefused, goods, SubscriptionHasOrder
<1>3. CASE ConfirmTopUp(p, seen, result)
  <2>1. payment' \in [Payments -> PaymentRow]
    BY <1>3 DEF ConfirmTopUp, MarkPaid, PaymentRow
  <2>2. order' \in [Orders -> OrderRow]
    BY <1>0, <1>3 DEF ConfirmTopUp, SetStatus, Written, OrderRow
  <2>3. credit' \in [Payments -> Nat]
    BY <1>3 DEF ConfirmTopUp, Credited
  <2> QED
    BY <1>3, <2>1, <2>2, <2>3 DEF ConfirmTopUp, goods, SubscriptionHasOrder
<1>4. CASE ConfirmPurchase(p, seen, held, result)
  <2>1. credit' \in [Payments -> Nat]
    BY <1>4 DEF ConfirmPurchase, Credited
  <2>2. PICK outcome \in {"active", "failed"} :
          /\ Purchase(p[1], seen, held, outcome)
          /\ MarkPaid(p, outcome = "active")
    BY <1>4 DEF ConfirmPurchase
  <2>3. payment' \in [Payments -> PaymentRow]
    BY <2>2 DEF MarkPaid, PaymentRow
  <2> QED
    BY <1>0, <2>1, <2>2, <2>3, PurchaseTyped
<1> QED
  BY <1>1, <1>2, <1>3, <1>4 DEF Confirm

\* a confirmation finds its payment row and makes none
LEMMA ConfirmKeepsPayments ==
    ASSUME Typed, NEW p \in Payments, NEW seen \in OrderRow, NEW held, NEW result,
           Confirm(p, seen, held, result), provider' = provider
    PROVE  PaymentHasInvoice'
<1>1. payment[p].status # "none"
  BY DEF Confirm, Accepts
<1>2. payment' = payment \/ MarkPaid(p, TRUE) \/ MarkPaid(p, FALSE)
  <2>1. CASE ConfirmPurchase(p, seen, held, result)
    BY <2>1 DEF ConfirmPurchase
  <2> QED
    BY <2>1 DEF Confirm, ConfirmRepeated, ConfirmRefused, ConfirmTopUp, rows
<1> QED
  BY <1>1, <1>2 DEF MarkPaid, Typed, TypeOK, PaymentHasInvoice

\* the answer of the provider to a new invoice is of its type
LEMMA InvoicedTyped ==
    ASSUME Typed, NEW p \in Payments, NEW promo \in BOOLEAN, Invoiced(p, promo)
    PROVE  /\ provider' \in [Payments -> Invoice]
           /\ provider'[p].status # "none"
           /\ \A q \in Payments : provider[q].status # "none" => provider'[q].status # "none"
<1>1. CASE provider' = [provider EXCEPT ![p] = [status |-> "pending", promo |-> promo]]
  BY <1>1 DEF Invoice, Typed, TypeOK
<1>2. CASE provider[p] = [status |-> "pending", promo |-> promo] /\ UNCHANGED provider
  BY <1>2 DEF Typed, TypeOK
<1> QED
  BY <1>1, <1>2 DEF Invoiced

\* a new payment row is of its type
LEMMA NewPaymentTyped ==
    ASSUME Typed, NEW p \in Payments, NEW promo \in BOOLEAN, NewPayment(p, promo)
    PROVE  /\ payment' \in [Payments -> PaymentRow]
           /\ \A q \in Payments : payment'[q].status # "none" =>
                payment[q].status # "none" \/ q = p
BY DEF NewPayment, PaymentRow, Typed, TypeOK

\* what is done to an order outside of a session
LEMMA OrderStepTyped ==
    ASSUME Typed, NEW o \in Orders, OrderStep(o)
    PROVE  Typed'
<1> USE DEF Typed, TypeOK, rows, goods
<1>0. order[o] \in OrderRow /\ order[o].promo \in BOOLEAN
  BY DEF OrderRow
<1>1. CASE CreateOrder(o)
  BY <1>1 DEF CreateOrder, NewOrder, OrderRow, SubscriptionHasOrder, PaymentHasInvoice
<1>2. CASE ApplyPromo(o)
  <2>1. order' \in [Orders -> OrderRow]
    BY <1>2 DEF ApplyPromo, Discountable, OrderRow
  <2> QED
    BY <1>2, <2>1 DEF ApplyPromo, SubscriptionHasOrder, PaymentHasInvoice
<1>3. CASE CreatePayment(o)
  <2>1. NextAttempt(o) \in Payments
    BY <1>3, NextAttemptType DEF CreatePayment, Payable
  <2>2. order' \in [Orders -> OrderRow]
    BY <1>3 DEF CreatePayment, OrderRow
  <2>3. payment' \in [Payments -> PaymentRow]
    BY <1>0, <1>3, <2>1, NewPaymentTyped DEF CreatePayment
  <2>4. provider' \in [Payments -> Invoice]
    BY <1>0, <1>3, <2>1, InvoicedTyped DEF CreatePayment
  <2>5. PaymentHasInvoice'
    BY <1>0, <1>3, <2>1, InvoicedTyped, NewPaymentTyped DEF CreatePayment, PaymentHasInvoice
  <2> QED
    BY <1>3, <2>2, <2>3, <2>4, <2>5 DEF CreatePayment, SubscriptionHasOrder
<1>4. CASE CreatePaymentLost(o)
  <2>1. NextAttempt(o) \in Payments
    BY <1>4, NextAttemptType DEF CreatePaymentLost, Payable
  <2>2. /\ provider' \in [Payments -> Invoice]
        /\ PaymentHasInvoice'
    BY <1>0, <1>4, <2>1, InvoicedTyped DEF CreatePaymentLost, PaymentHasInvoice
  <2> QED
    BY <1>4, <2>2 DEF CreatePaymentLost, SubscriptionHasOrder
<1>5. CASE CreateTopUp(o)
  <2>1. <<o, 1>> \in Payments
    BY <1>5, BoundsAssumption DEF CreateTopUp, NewTopUp, Payments
  <2>2. payment' \in [Payments -> PaymentRow]
    BY <1>5, <2>1, NewPaymentTyped DEF CreateTopUp, NewTopUp
  <2>3. provider' \in [Payments -> Invoice]
    BY <1>5, <2>1, InvoicedTyped DEF CreateTopUp, NewTopUp
  <2>4. order' \in [Orders -> OrderRow]
    BY <1>5 DEF CreateTopUp, OrderRow
  <2>5. PaymentHasInvoice'
    BY <1>5, <2>1, InvoicedTyped, NewPaymentTyped
       DEF CreateTopUp, NewTopUp, PaymentHasInvoice
  <2> QED
    BY <1>5, <2>2, <2>3, <2>4, <2>5 DEF CreateTopUp, SubscriptionHasOrder
<1>6. CASE PurchaseFromBalance(o)
  <2>1. CASE \E outcome \in {"active", "failed"} :
               Purchase(o, order[o], Row(o), outcome)
    <3>1. Row(o) \in SubscriptionRow
      BY RowTyped DEF Keys
    <3> QED
      BY <1>0, <1>6, <2>1, <3>1, PurchaseTyped DEF PurchaseFromBalance, PaymentHasInvoice
  <2>2. CASE /\ Shortfall(o, order[o])
             /\ UNCHANGED <<order, payment, provider, notice, session, credit, debit,
                            goods, told>>
    BY <2>2 DEF Shortfall, Consumed, SubscriptionHasOrder, PaymentHasInvoice
  <2> QED
    BY <1>6, <2>1, <2>2 DEF PurchaseFromBalance
<1>7. CASE LoadCheck(o)
  <2>1. <<o, Cardinality(Made(o))>> \in Payments
    BY <1>7, LastAttemptType DEF LoadCheck
  <2>2. [by |-> "check", pay |-> <<o, Cardinality(Made(o))>>, seen |-> order[o]] \in Session
    BY <1>0, <2>1 DEF Session
  <2>3. session' \subseteq Session
    BY <1>7, <2>2 DEF LoadCheck, Load
  <2> QED
    BY <1>7, <2>3 DEF LoadCheck, Load, SubscriptionHasOrder, PaymentHasInvoice
<1>8. CASE LoadCancel(o)
  BY <1>0, <1>8 DEF LoadCancel, Load, Session, SubscriptionHasOrder, PaymentHasInvoice
<1>9. CASE LoadShortfall(o)
  BY <1>0, <1>9 DEF LoadShortfall, Load, Session, SubscriptionHasOrder, PaymentHasInvoice
<1> QED
  BY <1>1, <1>2, <1>3, <1>4, <1>5, <1>6, <1>7, <1>8, <1>9 DEF OrderStep

\* what the provider does, and the reads before a webhook or a retry
LEMMA PaymentStepTyped ==
    ASSUME Typed, NEW p \in Payments, PaymentStep(p)
    PROVE  Typed'
<1> USE DEF Typed, TypeOK, rows, goods
<1>0. provider[p] \in Invoice /\ p[1] \in Orders
  BY DEF Payments
<1>1. CASE ProviderPay(p)
  BY <1>1 DEF ProviderPay, Invoice, SubscriptionHasOrder, PaymentHasInvoice
<1>2. CASE ProviderCancel(p)
  BY <1>2 DEF ProviderCancel, Invoice, SubscriptionHasOrder, PaymentHasInvoice
<1>3. CASE Notify(p)
  <2>1. provider[p].status # "none" =>
          [pay |-> p, status |-> provider[p].status] \in Notice
    BY <1>0 DEF Invoice, Notice
  <2> QED
    BY <1>3, <2>1 DEF Notify, Fetched, SubscriptionHasOrder, PaymentHasInvoice
<1>4. CASE LoadRetry(p)
  <2>1. order[p[1]] \in OrderRow
    BY <1>0
  <2>2. FoundFor(p[1]) \in SubscriptionRow
    <3>1. NoRow \in SubscriptionRow
      BY BoundsAssumption DEF NoRow, SubscriptionRow
    <3> QED
      BY <1>0, <3>1, RowTyped DEF FoundFor, Keys
  <2>3. [by |-> "worker", pay |-> p, seen |-> order[p[1]], held |-> FoundFor(p[1])] \in Session
    BY <2>1, <2>2 DEF Session
  <2>4. session' \subseteq Session
    BY <1>4, <2>3 DEF LoadRetry, Load
  <2> QED
    BY <1>4, <2>4 DEF LoadRetry, Load, SubscriptionHasOrder, PaymentHasInvoice
<1> QED
  BY <1>1, <1>2, <1>3, <1>4 DEF PaymentStep

\* the end of a webhook
LEMMA NoticeStepTyped ==
    ASSUME Typed, NEW n \in notice, NoticeStep(n)
    PROVE  Typed'
<1> USE DEF Typed, TypeOK, rows, goods
<1>0. n \in Notice /\ n.pay \in Payments /\ n.pay[1] \in Orders /\ order[n.pay[1]] \in OrderRow
  BY DEF Notice, Payments
<1>1. CASE DropNotice(n)
  BY <1>1 DEF DropNotice, SubscriptionHasOrder, PaymentHasInvoice
<1>2. CASE RecordStatus(n)
  <2>1. payment' \in [Payments -> PaymentRow]
    BY <1>0, <1>2 DEF RecordStatus, PaymentRow, Notice
  <2>2. PaymentHasInvoice'
    BY <1>0, <1>2 DEF RecordStatus, Accepts, Fetched, PaymentHasInvoice
  <2> QED
    BY <1>2, <2>1, <2>2 DEF RecordStatus, SubscriptionHasOrder
<1>3. CASE ConfirmWebhook(n)
  <2>0. Row(n.pay[1]) \in SubscriptionRow
    BY <1>0, RowTyped DEF Keys
  <2>1. PICK result : Confirm(n.pay, order[n.pay[1]], Row(n.pay[1]), result)
    BY <1>3 DEF ConfirmWebhook
  <2>2. provider' = provider /\ notice' \subseteq Notice /\ session' \subseteq Session
    BY <1>3 DEF ConfirmWebhook
  <2>3. told' \subseteq Payments
    BY <1>0, <1>3 DEF ConfirmWebhook
  <2>4. PaymentHasInvoice'
    BY <1>0, <2>1, <2>2, ConfirmKeepsPayments
  <2> QED
    BY <1>0, <2>0, <2>1, <2>2, <2>3, <2>4, ConfirmTyped
<1> QED
  BY <1>1, <1>2, <1>3 DEF NoticeStep

\* the end of a transaction that began with a read of the order
LEMMA SessionStepTyped ==
    ASSUME Typed, NEW s \in session, SessionStep(s)
    PROVE  Typed'
<1> USE DEF Typed, TypeOK, rows, goods
<1>0. s \in Session /\ s.seen \in OrderRow
  BY DEF Session
<1>1. CASE Abandon(s)
  BY <1>1 DEF Abandon, SubscriptionHasOrder, PaymentHasInvoice
<1>2. CASE CheckApply(s)
  <2>1. s.pay \in Payments
    BY <1>0, <1>2 DEF CheckApply, Fetched, Session
  <2>2. session' \subseteq Session /\ provider' = provider /\ notice' \subseteq Notice
    BY <1>2 DEF CheckApply, Fetched
  <2>3. CASE /\ payment' = [payment EXCEPT ![s.pay].status = "cancelled"]
             /\ UNCHANGED <<order, credit, debit, promoUse, goods, told>>
    <3>1. payment' \in [Payments -> PaymentRow]
      BY <2>1, <2>3 DEF PaymentRow
    <3>2. PaymentHasInvoice'
      BY <1>2, <2>1, <2>2, <2>3 DEF CheckApply, Fetched, Accepts, PaymentHasInvoice
    <3> QED
      BY <2>2, <2>3, <3>1, <3>2 DEF SubscriptionHasOrder
  <2>4. CASE \E result \in {"already", "refused", "done", "unactivated"} :
               /\ Confirm(s.pay, s.seen, Row(s.pay[1]), result)
               /\ told' = IF result = "refused" THEN told ELSE told \cup {s.pay}
    <3>0. Row(s.pay[1]) \in SubscriptionRow
      BY <2>1, RowTyped DEF Payments, Keys
    <3>1. PICK result : Confirm(s.pay, s.seen, Row(s.pay[1]), result)
      BY <2>4
    <3>2. told' \subseteq Payments
      BY <2>1, <2>4
    <3>3. PaymentHasInvoice'
      BY <1>0, <2>1, <2>2, <3>1, ConfirmKeepsPayments
    <3> QED
      BY <1>0, <2>1, <2>2, <3>0, <3>1, <3>2, <3>3, ConfirmTyped
  <2> QED
    BY <1>2, <2>3, <2>4 DEF CheckApply, Fetched
<1>3. CASE RetryApply(s)
  <2>1. s.pay \in Payments /\ Held(s) \in SubscriptionRow
    <3>1. s.pay \in Payments /\ s.held \in SubscriptionRow
      BY <1>0, <1>3 DEF RetryApply, Session
    <3> QED
      BY <3>1, RowTyped DEF Held, Payments, Keys
  <2>2. PICK result : Confirm(s.pay, s.seen, Held(s), result)
    BY <1>3 DEF RetryApply
  <2>3. /\ session' \subseteq Session
        /\ UNCHANGED <<provider, notice, told>>
    BY <1>3 DEF RetryApply
  <2>4. PaymentHasInvoice'
    BY <1>0, <2>1, <2>2, <2>3, ConfirmKeepsPayments
  <2> QED
    BY <1>0, <2>1, <2>2, <2>3, <2>4, ConfirmTyped
<1>4. CASE CancelApply(s)
  <2>1. order' \in [Orders -> OrderRow]
    BY <1>4 DEF CancelApply, OrderRow
  <2> QED
    BY <1>4, <2>1 DEF CancelApply, SubscriptionHasOrder, PaymentHasInvoice
<1>5. CASE ShortfallApply(s)
  <2>1. s.order \in Orders
    BY <1>0, <1>5 DEF ShortfallApply, Session
  <2>2. /\ session' \subseteq Session
        /\ UNCHANGED <<notice, told>>
    BY <1>5 DEF ShortfallApply
  <2>3. CASE /\ Purchase(s.order, s.seen, Row(s.order), "active")
             /\ UNCHANGED <<payment, provider, credit>>
    <3>1. Row(s.order) \in SubscriptionRow
      BY <2>1, RowTyped DEF Keys
    <3> QED
      BY <1>0, <2>1, <2>2, <2>3, <3>1, PurchaseTyped DEF PaymentHasInvoice
  <2>4. CASE /\ Shortfall(s.order, s.seen)
             /\ \E t \in TopUps :
                  /\ Owner[t] = Owner[s.order]
                  /\ NewTopUp(t)
                  /\ order' = [order EXCEPT ![t] =
                                 [status |-> "awaiting", promo |-> FALSE]]
             /\ UNCHANGED <<credit, debit, goods>>
    <3>1. PICK t \in TopUps :
            /\ NewTopUp(t)
            /\ order' = [order EXCEPT ![t] = [status |-> "awaiting", promo |-> FALSE]]
      BY <2>4
    <3>2. t \in Orders /\ <<t, 1>> \in Payments
      BY <3>1, OrdersAssumption, BoundsAssumption DEF NewTopUp, Payments
    <3>3. payment' \in [Payments -> PaymentRow] /\ provider' \in [Payments -> Invoice]
      BY <3>1, <3>2, NewPaymentTyped, InvoicedTyped DEF NewTopUp
    <3>4. PaymentHasInvoice'
      BY <3>1, <3>2, NewPaymentTyped, InvoicedTyped DEF NewTopUp, PaymentHasInvoice
    <3>5. order' \in [Orders -> OrderRow]
      BY <3>1, <3>2 DEF OrderRow
    <3>6. promoUse' \subseteq Orders
      BY <2>1, <2>4 DEF Shortfall, Consumed
    <3> QED
      BY <2>2, <2>4, <3>3, <3>4, <3>5, <3>6 DEF SubscriptionHasOrder
  <2> QED
    BY <1>5, <2>3, <2>4 DEF ShortfallApply
<1> QED
  BY <1>1, <1>2, <1>3, <1>4, <1>5 DEF SessionStep

\* one more attempt writes rows of their types
LEMMA AgainTyped ==
    ASSUME Typed, NEW u \in Users, NEW k \in Keys, NEW outcome \in {"active", "failed"},
           Again(u, k, outcome)
    PROVE  /\ subscription' \in [Users -> SubscriptionRow]
           /\ SubscriptionHasOrder'
           /\ operation' \in [Keys -> {"none", "failed", "completed"}]
           /\ pushed' \subseteq Orders
           /\ behind' \subseteq Users
<1>1. /\ subscription[u] \in SubscriptionRow
      /\ subscription[u].order \in Orders => Owner[subscription[u].order] = u
  BY DEF Typed, TypeOK, SubscriptionHasOrder
<1>2. CASE /\ subscription' = [subscription EXCEPT ![u] = Attempted(@, @, outcome)]
           /\ Provision(k, subscription[u].days, outcome)
  <2> DEFINE row == Attempted(subscription[u], subscription[u], outcome)
  <2>1. row \in SubscriptionRow /\ row.order = subscription[u].order
    BY <1>1, AttemptedTyped
  <2>2. subscription' = [subscription EXCEPT ![u] = row]
    BY <1>2
  <2> HIDE DEF row
  <2>3. subscription' \in [Users -> SubscriptionRow] /\ SubscriptionHasOrder'
    BY <1>1, <2>1, <2>2, SubscriptionReplaced
  <2>4. subscription[u].days \in SUBSET Orders
    BY <1>1 DEF SubscriptionRow
  <2> QED
    BY <1>2, <2>3, <2>4, ProvisionTyped
<1>3. CASE /\ subscription' = [subscription EXCEPT ![u] =
                                 [@ EXCEPT !.status = "active", !.due = TRUE]]
           /\ UNCHANGED <<operation, pushed, behind>>
  <2> DEFINE row == [subscription[u] EXCEPT !.status = "active", !.due = TRUE]
  <2>1. row \in SubscriptionRow /\ row.order = subscription[u].order
    BY <1>1 DEF SubscriptionRow
  <2>2. subscription' = [subscription EXCEPT ![u] = row]
    BY <1>3
  <2> HIDE DEF row
  <2>3. subscription' \in [Users -> SubscriptionRow] /\ SubscriptionHasOrder'
    BY <1>1, <2>1, <2>2, SubscriptionReplaced
  <2> QED
    BY <1>3, <2>3 DEF Typed, TypeOK
<1> QED
  BY <1>2, <1>3 DEF Again

\* a code or a grant writes rows of their types
LEMMA RedeemTyped ==
    ASSUME Typed, NEW c \in Codes, NEW outcome \in {"active", "failed"}, Redeem(c, outcome)
    PROVE  Typed'
<1>1. c \in Keys /\ Owner[c] \in Users /\ Row(c) \in SubscriptionRow
  BY RowTyped DEF Keys
<1> DEFINE row == Attempted(Row(c), Row(c), outcome)
<1>2. row \in SubscriptionRow /\ row.order = Row(c).order
  BY <1>1, AttemptedTyped
<1>3. subscription' = [subscription EXCEPT ![Owner[c]] = row]
  BY DEF Redeem, Row
<1>4. row.order \in Orders => Owner[row.order] = Owner[c]
  BY <1>1, <1>2 DEF Typed, SubscriptionHasOrder, Row
<1> HIDE DEF row
<1>5. subscription' \in [Users -> SubscriptionRow] /\ SubscriptionHasOrder'
  BY <1>1, <1>2, <1>3, <1>4, SubscriptionReplaced
<1>6. Row(c).days \in SUBSET Orders
  BY <1>1 DEF SubscriptionRow
<1>7. /\ operation' \in [Keys -> {"none", "failed", "completed"}]
      /\ pushed' \subseteq Orders
      /\ behind' \subseteq Users
  BY <1>1, <1>6, ProvisionTyped DEF Redeem, Row
<1> QED
  BY <1>5, <1>7 DEF Redeem, rows, Typed, TypeOK, PaymentHasInvoice

\* the worker and the administrator at a subscription
LEMMA UserStepTyped ==
    ASSUME Typed, NEW u \in Users, UserStep(u)
    PROVE  Typed'
<1> USE DEF Typed, TypeOK, rows, goods
<1>1. ASSUME NEW outcome \in {"active", "failed"}, RetrySubscription(u, outcome)
      PROVE  Typed'
  <2>1. order' \in [Orders -> OrderRow]
    BY <1>1 DEF RetrySubscription, CompleteNamed, OrderRow
  <2>2. PICK k \in RetryKeys(u) : Again(u, k, outcome)
    BY <1>1 DEF RetrySubscription
  <2>3. k \in Keys
    BY <2>2 DEF RetryKeys, Keys
  <2>4. /\ subscription' \in [Users -> SubscriptionRow]
        /\ SubscriptionHasOrder'
        /\ operation' \in [Keys -> {"none", "failed", "completed"}]
        /\ pushed' \subseteq Orders
        /\ behind' \subseteq Users
    BY <2>2, <2>3, AgainTyped
  <2> QED
    BY <1>1, <2>1, <2>4 DEF RetrySubscription, PaymentHasInvoice
<1>2. CASE RetryDue(u)
  <2>1. subscription[u] \in SubscriptionRow
    OBVIOUS
  <2>2. [subscription[u] EXCEPT !.due = TRUE] \in SubscriptionRow
    BY <2>1 DEF SubscriptionRow
  <2>3. subscription' = [subscription EXCEPT ![u] = [subscription[u] EXCEPT !.due = TRUE]]
    BY <1>2 DEF RetryDue
  <2>4. subscription' \in [Users -> SubscriptionRow]
    BY <2>2, <2>3
  <2>5. SubscriptionHasOrder'
    BY <2>1, <2>3 DEF SubscriptionHasOrder, SubscriptionRow
  <2> QED
    BY <1>2, <2>4, <2>5 DEF RetryDue, PaymentHasInvoice
<1>3. CASE AdminRetry(u)
  <2> DEFINE row == [subscription[u] EXCEPT !.attempts = 0, !.due = TRUE]
  <2>1. row \in SubscriptionRow /\ row.order = subscription[u].order
    <3>1. subscription[u] \in SubscriptionRow /\ 0 \in 0..ActivationLimit
      BY BoundsAssumption
    <3> QED
      BY <3>1 DEF SubscriptionRow
  <2>2. subscription' = [subscription EXCEPT ![u] = row]
    BY <1>3 DEF AdminRetry
  <2>3. row.order \in Orders => Owner[row.order] = u
    BY <2>1 DEF SubscriptionHasOrder
  <2> HIDE DEF row
  <2>4. subscription' \in [Users -> SubscriptionRow] /\ SubscriptionHasOrder'
    BY <2>1, <2>2, <2>3, SubscriptionReplaced
  <2> QED
    BY <1>3, <2>4 DEF AdminRetry, PaymentHasInvoice
<1> QED
  BY <1>1, <1>2, <1>3 DEF UserStep

\* the rows of an empty database are of their types
LEMMA InitTyped == Init => Typed
<1> SUFFICES ASSUME Init PROVE Typed
  OBVIOUS
<1>1. TypeOK
  BY BoundsAssumption
     DEF Init, TypeOK, OrderRow, PaymentRow, Invoice, SubscriptionRow, NoRow
<1> QED
  BY <1>1, OrdersAssumption DEF Init, Typed, SubscriptionHasOrder, PaymentHasInvoice, NoRow

\* every step keeps the invariant
LEMMA NextTyped == Typed /\ [Next]_vars => Typed'
<1> SUFFICES ASSUME Typed, [Next]_vars PROVE Typed'
  OBVIOUS
<1>1. CASE UNCHANGED vars
  BY <1>1 DEF vars, Typed, TypeOK, SubscriptionHasOrder, PaymentHasInvoice
<1>2. CASE Next
  BY <1>2, OrderStepTyped, PaymentStepTyped, NoticeStepTyped, SessionStepTyped,
     UserStepTyped, RedeemTyped DEF Next
<1> QED
  BY <1>1, <1>2

\* Every reachable state has rows of the declared types, the order a subscription names is
\* an order of its user, and every payment row has a payment of the provider behind it.
THEOREM AlwaysTyped == Spec => []Typed
BY InitTyped, NextTyped, PTL DEF Spec

\* The type invariant of OrderPayments holds in every reachable state.
THEOREM TypeCorrect == Spec => []TypeOK
BY AlwaysTyped, PTL DEF Typed
=============================================================================
