--------------------------- MODULE OrderPayments ---------------------------
(***************************************************************************)
(* The life of an order, its YooKassa payments, the wallet rows they give  *)
(* rise to and the subscription they extend: services/payments.py,         *)
(* services/billing.py, services/promos.py, services/subscriptions.py and  *)
(* the handlers, webhook and worker that call them.                        *)
(*                                                                         *)
(* One action is one database transaction (session.begin()).  The rows of  *)
(* the payment and of the order are read under FOR UPDATE, which           *)
(* serialises the transactions on one order; but a handler that loaded the *)
(* order BEFORE it asked for the lock keeps the attributes it loaded,      *)
(* because SQLAlchemy does not refresh an object already in the identity   *)
(* map.  Those handlers are two steps here, Load and Apply, and a session  *)
(* carries the row it saw.  The worker's retry of a paid order also loads  *)
(* the subscription that names the order: it works on that row as it was,  *)
(* and writes the columns it changes over the row as it is.                *)
(*                                                                         *)
(* Abstracted: the amount of an order is whether a promo is applied to it  *)
(* (there is one discount code, which leaves a positive amount); whether   *)
(* the wallet holds enough is a choice of the environment (module Wallet   *)
(* has the balances); a term is the set of orders whose days it includes,  *)
(* and of the other dates only "the retry is due" is left.  Codes and      *)
(* grants prolong the same row under keys of their own (module Renewal has *)
(* their days); each key of a code is used once.                           *)
(***************************************************************************)
EXTENDS Naturals, FiniteSets

CONSTANTS
    Users,            \* rows of the users table
    Orders,           \* order ids
    TopUps,           \* the orders whose purpose is wallet_topup
    Codes,            \* redeemed codes and grants: keys that are not an order's
    Owner,            \* the user of each order and of each code
    NoOrder,          \* order_id IS NULL
    MaxPayments,      \* bound: payment attempts per order
    MaxUses,          \* promo_codes.max_uses
    PerUserLimit,     \* promo_codes.per_user_limit
    ActivationLimit,  \* activation_attempts at which the worker gives up (5)
    MaxInFlight       \* bound: webhooks and handlers between their first read and the lock

ASSUME OrdersAssumption ==
    /\ IsFiniteSet(Orders)
    /\ TopUps \subseteq Orders
    /\ Codes \cap Orders = {}
    /\ Owner \in [Orders \cup Codes -> Users]
    /\ NoOrder \notin Orders

ASSUME BoundsAssumption ==
    /\ MaxPayments \in Nat
    /\ MaxUses \in Nat
    /\ PerUserLimit \in Nat
    /\ ActivationLimit \in Nat \ {0}
    /\ MaxInFlight \in Nat

VARIABLES
    order,         \* orders: status, and whether the promo is applied
    payment,       \* payments: status, amount (with the promo or not), processed_at
    provider,      \* YooKassa's own payments, by idempotency key
    notice,        \* webhooks that fetched the status and not yet the rows
    session,       \* handlers that loaded the order and do not hold its lock yet
    credit,        \* wallet rows with key payment:<id>
    debit,         \* wallet rows with key subscription-purchase:<order>
    promoUse,      \* orders with a row in promo_code_usages
    subscription,  \* subscriptions: order_id, status, activation_attempts, retry due, and
                   \* the orders whose days expires_at includes
    operation,     \* provisioning_operations, by key
    daysAdded,     \* history: times the days of an order were added (2 stands for more)
    pushed,        \* history: orders whose days were in a term the panel accepted
    behind,        \* history: users whom the panel accepted a term for that was no longer
                   \* the row's
    told           \* history: payments whose user was shown a topped-up balance

rows == <<order, payment, credit, debit, promoUse>>
goods == <<subscription, operation, daysAdded, pushed, behind>>
vars == <<order, payment, provider, notice, session, credit, debit, promoUse,
          subscription, operation, daysAdded, pushed, behind, told>>

Payments == Orders \X (1..MaxPayments)
Keys == Orders \cup Codes
Cancellable == {"pending", "awaiting"}

OrderRow == [status : {"none", "pending", "awaiting", "processing", "completed",
                       "cancelled"},
             promo : BOOLEAN]
PaymentRow == [status : {"none", "pending", "paid", "cancelled"},
               promo : BOOLEAN, processed : BOOLEAN]
Invoice == [status : {"none", "pending", "paid", "cancelled"}, promo : BOOLEAN]
Notice == [pay : Payments, status : {"pending", "paid", "cancelled"}]
SubscriptionRow == [order : Orders \cup {NoOrder}, status : {"none", "active", "failed"},
                    attempts : 0..ActivationLimit, due : BOOLEAN, days : SUBSET Orders]
Session == [by : {"check"}, pay : Payments, seen : OrderRow]
           \cup [by : {"worker"}, pay : Payments, seen : OrderRow, held : SubscriptionRow]
           \cup [by : {"cancel", "shortfall"}, order : Orders, seen : OrderRow]

-----------------------------------------------------------------------------
(* Promo codes *)

UsedUpBy(u) == Cardinality({o \in promoUse : Owner[o] = u}) >= PerUserLimit

\* the checks of validate and of consume_for_paid_order against the usage rows
Exhausted(u) == Cardinality(promoUse) >= MaxUses \/ UsedUpBy(u)

\* (seeded fault: the limits are not looked at again when the usage is written)
ConsumableAnyway(o, seen) == TRUE

\* an existing usage of the order is returned before the limits are looked at
Consumable(o, seen) == seen.promo => o \in promoUse \/ ~Exhausted(Owner[o])

\* (seeded fault: no usage row)
ConsumedNever(o, seen) == promoUse

Consumed(o, seen) == IF seen.promo THEN promoUse \cup {o} ELSE promoUse

-----------------------------------------------------------------------------
(* The unit of work *)

RoomInFlight == Cardinality(notice) + Cardinality(session) < MaxInFlight

\* an attribute set to the value it was loaded with is not written back
Written(o, seen, status) ==
    IF status = seen.status THEN order[o].status ELSE status

\* (seeded fault: a status the rest of the code does not know)
SetStatusPaid(o, seen, status) ==
    order' = [order EXCEPT ![o].status = IF status = "processing" THEN "paid" ELSE status]

SetStatus(o, seen, status) ==
    order' = [order EXCEPT ![o].status = Written(o, seen, status)]

Open(o) == {n \in 1..MaxPayments : payment[<<o, n>>].status = "pending"}
Made(o) == {n \in 1..MaxPayments : payment[<<o, n>>].status # "none"}

-----------------------------------------------------------------------------
(* Activation of the subscription on the panel *)

\* the row of the user of an order or of a code
Row(k) == subscription[Owner[k]]

NoRow == [order |-> NoOrder, status |-> "none", attempts |-> 0, due |-> TRUE, days |-> {}]

\* the row after an attempt by a session that holds it as `held`: the columns it did not
\* change stay what they are by now
Attempted(row, held, outcome) ==
    [row EXCEPT
        !.status = IF outcome = held.status THEN @ ELSE outcome,
        !.attempts = IF held.attempts < ActivationLimit THEN held.attempts + 1
                                                        ELSE ActivationLimit,
        !.due = outcome = "active" /\ (held.status = "active" /\ held.due => @)]

\* RemnawaveProvisioningService.provision under key k: the panel is given the term held
Provision(k, term, outcome) ==
    \/ /\ outcome = "active"
       /\ operation' = [operation EXCEPT ![k] = "completed"]
       /\ pushed' = pushed \cup term
       /\ behind' = IF Row(k).days \subseteq term THEN behind \ {Owner[k]}
                    ELSE behind \cup {Owner[k]}
    \/ /\ outcome = "failed"
       /\ operation' = [operation EXCEPT ![k] = "failed"]
       /\ UNCHANGED <<pushed, behind>>

\* (seeded fault: any active subscription counts as the order's)
AppliedToUser(o, held) == held.status = "active"

\* order_was_applied: the subscription is returned as it is
AlreadyApplied(o, held) ==
    /\ held.status # "none"
    /\ operation[o] = "completed"

\* the row names this order: its days were added before
ActivateAgain(o, held, outcome) ==
    /\ held.order = o
    /\ subscription' = [subscription EXCEPT ![Owner[o]] = Attempted(@, held, outcome)]
    /\ Provision(o, held.days, outcome)
    /\ UNCHANGED daysAdded

\* the row names the order, and its term includes the order's days
Extended(row, o) == [row EXCEPT !.order = o, !.days = @ \cup {o}]

\* (seeded fault: the days are added only when the panel answers)
AddDaysWhenActive(o, held, outcome) ==
    /\ held.order # o
    /\ subscription' = [subscription EXCEPT ![Owner[o]] =
            Extended(Attempted(@, held, outcome), o)]
    /\ Provision(o, held.days \cup {o}, outcome)
    /\ daysAdded' = IF outcome = "failed" THEN daysAdded
                    ELSE [daysAdded EXCEPT ![o] = IF @ < 2 THEN @ + 1 ELSE @]

\* (seeded fault: the panel is called before the days are added)
AddDaysAfterPush(o, held, outcome) ==
    /\ held.order # o
    /\ subscription' = [subscription EXCEPT ![Owner[o]] =
            Extended(Attempted(@, held, outcome), o)]
    /\ Provision(o, held.days, outcome)
    /\ daysAdded' = [daysAdded EXCEPT ![o] = IF @ < 2 THEN @ + 1 ELSE @]

AddDays(o, held, outcome) ==
    /\ held.order # o
    /\ subscription' = [subscription EXCEPT ![Owner[o]] =
            Extended(Attempted(@, held, outcome), o)]
    /\ Provision(o, held.days \cup {o}, outcome)
    /\ daysAdded' = [daysAdded EXCEPT ![o] = IF @ < 2 THEN @ + 1 ELSE @]

\* extend_from_paid_order, with the subscription as the session holds it
Extend(o, held, outcome) ==
    \/ AlreadyApplied(o, held) /\ outcome = held.status /\ UNCHANGED goods
    \/ ~AlreadyApplied(o, held) /\ ActivateAgain(o, held, outcome)
    \/ ~AlreadyApplied(o, held) /\ AddDays(o, held, outcome)

\* BillingService.purchase_order once the wallet has accepted the debit: the debit
\* row is found again by its key, with its amount, or inserted
Purchase(o, seen, held, outcome) ==
    /\ Consumable(o, seen)
    /\ promoUse' = Consumed(o, seen)
    /\ \/ debit[o].rows = 0 /\ debit' = [debit EXCEPT ![o] = [rows |-> 1, promo |-> seen.promo]]
       \/ debit[o].rows > 0 /\ debit[o].promo = seen.promo /\ UNCHANGED debit
    /\ Extend(o, held, outcome)
    /\ SetStatus(o, seen, IF outcome = "active" THEN "completed" ELSE "processing")

-----------------------------------------------------------------------------
(* Orders *)

NewOrder(promo) == [status |-> "pending", promo |-> promo]

\* buy_tariff: the order, with the promo code the user sent earlier, if it is valid
CreateOrder(o) ==
    /\ o \notin TopUps
    /\ order[o].status = "none"
    /\ \E promo \in BOOLEAN :
         /\ promo => ~Exhausted(Owner[o])
         /\ order' = [order EXCEPT ![o] = NewOrder(promo)]
    /\ UNCHANGED <<payment, provider, notice, session, credit, debit, promoUse, goods, told>>

\* apply_to_order accepts an order with an open payment, whose amount stays what it was.
\* The handler reads the promo before it locks it, so the count of all uses it compares may
\* be an older, smaller one; the user's own uses it counts in their rows
Discountable(o) ==
    /\ o \notin TopUps
    /\ order[o].status \in Cancellable
    /\ MaxUses > 0
    /\ ~UsedUpBy(Owner[o])

\* a code the user sends, for the order he looks at or his latest one, which is locked;
\* without an order the code is kept for the next one
ApplyPromo(o) ==
    /\ Discountable(o)
    /\ order' = [order EXCEPT ![o].promo = TRUE]
    /\ UNCHANGED <<payment, provider, notice, session, credit, debit, promoUse, goods, told>>

\* YooKassaClient.create_payment: a repeated idempotency key is answered with the payment
\* that was made for it, and refused when the amount is another one
Invoiced(p, promo) ==
    \/ /\ provider[p].status = "none"
       /\ provider' = [provider EXCEPT ![p] = [status |-> "pending", promo |-> promo]]
    \/ /\ provider[p] = [status |-> "pending", promo |-> promo]
       /\ UNCHANGED provider

NextAttempt(o) == <<o, Cardinality(Made(o)) + 1>>

NewPayment(p, promo) ==
    payment' = [payment EXCEPT ![p] =
                  [status |-> "pending", promo |-> promo, processed |-> FALSE]]

\* (seeded fault: an open payment is not returned, a second one is made)
PayableAgain(o) ==
    /\ order[o].status \in Cancellable
    /\ order[o].promo => ~Exhausted(Owner[o])
    /\ Cardinality(Made(o)) < MaxPayments

\* the guards of create_for_order, up to the call of the provider
Payable(o) ==
    /\ order[o].status \in Cancellable
    /\ Open(o) = {}
    /\ order[o].promo => ~Exhausted(Owner[o])
    /\ Cardinality(Made(o)) < MaxPayments

CreatePayment(o) ==
    /\ Payable(o)
    /\ Invoiced(NextAttempt(o), order[o].promo)
    /\ NewPayment(NextAttempt(o), order[o].promo)
    /\ order' = [order EXCEPT ![o].status = "awaiting"]
    /\ UNCHANGED <<notice, session, credit, debit, promoUse, goods, told>>

\* the provider made the payment, and its answer is lost, or the transaction
CreatePaymentLost(o) ==
    /\ Payable(o)
    /\ Invoiced(NextAttempt(o), order[o].promo)
    /\ UNCHANGED <<rows, notice, session, goods, told>>

\* create_wallet_topup followed by create_for_order, in one transaction
NewTopUp(t) ==
    /\ t \in TopUps
    /\ order[t].status = "none"
    /\ MaxPayments > 0
    /\ Invoiced(<<t, 1>>, FALSE)
    /\ NewPayment(<<t, 1>>, FALSE)

CreateTopUp(t) ==
    /\ NewTopUp(t)
    /\ order' = [order EXCEPT ![t] = [status |-> "awaiting", promo |-> FALSE]]
    /\ UNCHANGED <<notice, session, credit, debit, promoUse, goods, told>>

-----------------------------------------------------------------------------
(* The provider: the customer gets the link with the committed payment *)

ProviderPay(p) ==
    /\ payment[p].status # "none"
    /\ provider[p].status = "pending"
    /\ provider' = [provider EXCEPT ![p].status = "paid"]
    /\ UNCHANGED <<rows, notice, session, goods, told>>

ProviderCancel(p) ==
    /\ provider[p].status = "pending"
    /\ provider' = [provider EXCEPT ![p].status = "cancelled"]
    /\ UNCHANGED <<rows, notice, session, goods, told>>

-----------------------------------------------------------------------------
(* process_confirmed_payment, with the order and the subscription as the session has them *)

\* get_payment_status: the status and the amount the provider has by now
Fetched(p) == provider[p]

\* the amounts of the provider, of the payment and of the order agree
Accepts(p, seen) ==
    /\ payment[p].status # "none"
    /\ Fetched(p).promo = payment[p].promo
    /\ payment[p].promo = seen.promo

\* processed_at is set with the completion and never taken back
MarkPaid(p, processed) ==
    payment' = [payment EXCEPT ![p] = [status |-> "paid", promo |-> @.promo,
                                       processed |-> processed \/ @.processed]]

\* (seeded fault: the key is not looked up)
CreditedAgain(p) == [credit EXCEPT ![p] = @ + 1]

\* the key payment:<id> is looked up, then inserted
Credited(p) == [credit EXCEPT ![p] = IF @ = 0 THEN 1 ELSE @]

\* (seeded fault: a cancelled order is taken for a repeated webhook)
RepeatedOrCancelled(p, seen, result) ==
    /\ seen.status \in {"completed", "cancelled"}
    /\ result = "already"
    /\ UNCHANGED <<rows, goods>>

\* the order is completed already: nothing but the audit log
ConfirmRepeated(p, seen, result) ==
    /\ seen.status = "completed"
    /\ result = "already"
    /\ UNCHANGED <<rows, goods>>

\* the promo can no longer be consumed: the payment is kept as paid
ConfirmRefused(p, seen, result) ==
    /\ seen.status # "completed"
    /\ p[1] \notin TopUps
    /\ ~Consumable(p[1], seen)
    /\ result = "refused"
    /\ MarkPaid(p, FALSE)
    /\ SetStatus(p[1], seen, "processing")
    /\ UNCHANGED <<credit, debit, promoUse, goods>>

ConfirmTopUp(p, seen, result) ==
    /\ seen.status # "completed"
    /\ p[1] \in TopUps
    /\ result = "done"
    /\ MarkPaid(p, TRUE)
    /\ credit' = Credited(p)
    /\ SetStatus(p[1], seen, "completed")
    /\ UNCHANGED <<debit, promoUse, goods>>

\* (seeded fault: the credit is committed before the purchase)
CreditWithoutPurchase(p, seen, held, result) ==
    /\ seen.status # "completed"
    /\ p[1] \notin TopUps
    /\ credit' = Credited(p)
    /\ result = "unactivated"
    /\ MarkPaid(p, FALSE)
    /\ SetStatus(p[1], seen, "processing")
    /\ UNCHANGED <<debit, promoUse, goods>>

\* credit and purchase in one transaction; the activation may fail without undoing it
ConfirmPurchase(p, seen, held, result) ==
    /\ seen.status # "completed"
    /\ p[1] \notin TopUps
    /\ credit' = Credited(p)
    /\ \E outcome \in {"active", "failed"} :
         /\ Purchase(p[1], seen, held, outcome)
         /\ result = IF outcome = "active" THEN "done" ELSE "unactivated"
         /\ MarkPaid(p, outcome = "active")

Confirm(p, seen, held, result) ==
    /\ Accepts(p, seen)
    /\ \/ ConfirmRepeated(p, seen, result)
       \/ ConfirmRefused(p, seen, result)
       \/ ConfirmTopUp(p, seen, result)
       \/ ConfirmPurchase(p, seen, held, result)

-----------------------------------------------------------------------------
(* The webhook: the status is fetched first, the transaction comes later *)

Notify(p) ==
    /\ RoomInFlight
    /\ payment[p].status # "none"
    /\ notice' = notice \cup {[pay |-> p, status |-> Fetched(p).status]}
    /\ UNCHANGED <<rows, provider, session, goods, told>>

\* the transaction is refused, aborted by the database or lost with its process;
\* YooKassa repeats the notification
DropNotice(n) ==
    /\ n \in notice
    /\ notice' = notice \ {n}
    /\ UNCHANGED <<rows, provider, session, goods, told>>

\* (seeded fault: the status of a paid payment is overwritten)
RecordStatusAnyway(n) ==
    /\ n \in notice
    /\ n.status # "paid"
    /\ Accepts(n.pay, order[n.pay[1]])
    /\ payment' = [payment EXCEPT ![n.pay].status = n.status]
    /\ Cardinality(Open(n.pay[1])') <= 1
    /\ notice' = notice \ {n}
    /\ UNCHANGED <<order, provider, session, credit, debit, promoUse, goods, told>>

\* record_provider_status; the index on open payments refuses a second one
RecordStatus(n) ==
    /\ n \in notice
    /\ n.status # "paid"
    /\ Accepts(n.pay, order[n.pay[1]])
    /\ payment' = [payment EXCEPT ![n.pay].status = IF @ = "paid" THEN @ ELSE n.status]
    /\ Cardinality(Open(n.pay[1])') <= 1
    /\ notice' = notice \ {n}
    /\ UNCHANGED <<order, provider, session, credit, debit, promoUse, goods, told>>

\* (seeded fault: the notification is believed, its status is not looked at)
ConfirmAnyWebhook(n) ==
    /\ n \in notice
    /\ \E result \in {"already", "refused", "done", "unactivated"} :
         Confirm(n.pay, order[n.pay[1]], Row(n.pay[1]), result)
    /\ notice' = notice \ {n}
    /\ UNCHANGED <<provider, session, told>>

ConfirmWebhook(n) ==
    /\ n \in notice
    /\ n.status = "paid"
    /\ \E result \in {"already", "refused", "done", "unactivated"} :
         /\ Confirm(n.pay, order[n.pay[1]], Row(n.pay[1]), result)
         /\ told' = IF result \in {"done", "unactivated"} THEN told \cup {n.pay} ELSE told
    /\ notice' = notice \ {n}
    /\ UNCHANGED <<provider, session>>

-----------------------------------------------------------------------------
(* Handlers that read the order before they lock it *)

Load(s) ==
    /\ RoomInFlight
    /\ session' = session \cup {s}
    /\ UNCHANGED <<rows, provider, notice, goods, told>>

\* the exception rolls the transaction back, or its process is gone
Abandon(s) ==
    /\ s \in session
    /\ session' = session \ {s}
    /\ UNCHANGED <<rows, provider, notice, goods, told>>

\* check_payment takes the latest payment of the order
LoadCheck(o) ==
    /\ Made(o) # {}
    /\ Load([by |-> "check", pay |-> <<o, Cardinality(Made(o))>>, seen |-> order[o]])

\* check_status: the answer of the provider, then the lock
CheckApply(s) ==
    /\ s \in session
    /\ s.by = "check"
    /\ Accepts(s.pay, s.seen)
    /\ \/ /\ Fetched(s.pay).status = "cancelled"
          /\ payment' = [payment EXCEPT ![s.pay].status = "cancelled"]
          /\ UNCHANGED <<order, credit, debit, promoUse, goods, told>>
       \/ /\ Fetched(s.pay).status = "paid"
          /\ \E result \in {"already", "refused", "done", "unactivated"} :
               /\ Confirm(s.pay, s.seen, Row(s.pay[1]), result)
               /\ told' = IF result = "refused" THEN told ELSE told \cup {s.pay}
    /\ session' = session \ {s}
    /\ UNCHANGED <<provider, notice>>

\* the subscription of the user, if it names this very order
FoundFor(o) == IF Row(o).order = o THEN Row(o) ELSE NoRow

\* _retry_paid_orders: a paid payment left unprocessed, unless the subscription of this
\* order waits for its next attempt or has used them all
LoadRetry(p) ==
    LET held == FoundFor(p[1]) IN
    /\ payment[p].status = "paid"
    /\ ~payment[p].processed
    /\ order[p[1]].status = "processing"
    /\ held.status = "failed" => held.attempts < ActivationLimit /\ held.due
    /\ Load([by |-> "worker", pay |-> p, seen |-> order[p[1]], held |-> held])

\* get_for_update returns the object the session has; if it has none, the row
Held(s) == IF s.held.status = "none" THEN Row(s.pay[1]) ELSE s.held

RetryApply(s) ==
    /\ s \in session
    /\ s.by = "worker"
    /\ \E result \in {"already", "refused", "done", "unactivated"} :
         Confirm(s.pay, s.seen, Held(s), result)
    /\ session' = session \ {s}
    /\ UNCHANGED <<provider, notice, told>>

\* OrderRepository.cancel never locks: the write waits, the check does not repeat
LoadCancel(o) ==
    /\ order[o].status \in Cancellable
    /\ Load([by |-> "cancel", order |-> o, seen |-> order[o]])

CancelApply(s) ==
    /\ s \in session
    /\ s.by = "cancel"
    /\ order' = [order EXCEPT ![s.order].status = "cancelled"]
    /\ session' = session \ {s}
    /\ UNCHANGED <<payment, provider, notice, credit, debit, promoUse, goods, told>>

-----------------------------------------------------------------------------
(* Purchases from the balance *)

\* purchase_order accepts the status the session sees
Purchasable(o, seen) ==
    /\ o \notin TopUps
    /\ seen.status \in {"pending", "awaiting", "processing"}

\* the balance is too low: the usage of the promo is committed all the same
Shortfall(o, seen) ==
    /\ debit[o].rows = 0
    /\ Consumable(o, seen)
    /\ promoUse' = Consumed(o, seen)

\* purchase_from_balance: here the order is read under its lock
PurchaseFromBalance(o) ==
    /\ Purchasable(o, order[o])
    /\ \/ /\ \E outcome \in {"active", "failed"} : Purchase(o, order[o], Row(o), outcome)
          /\ UNCHANGED <<payment, provider, notice, session, credit, told>>
       \/ /\ Shortfall(o, order[o])
          /\ UNCHANGED <<order, payment, provider, notice, session, credit, debit, goods, told>>

LoadShortfall(o) ==
    /\ o \notin TopUps
    /\ order[o].status # "none"
    /\ Load([by |-> "shortfall", order |-> o, seen |-> order[o]])

\* topup_shortfall: buys if the balance allows it by now; otherwise a top-up of what is
\* missing.  A purchase whose activation fails asks for a top-up of 0 and is rolled back
ShortfallApply(s) ==
    /\ s \in session
    /\ s.by = "shortfall"
    /\ Purchasable(s.order, s.seen)
    /\ \/ /\ Purchase(s.order, s.seen, Row(s.order), "active")
          /\ UNCHANGED <<payment, provider, credit>>
       \/ /\ Shortfall(s.order, s.seen)
          /\ \E t \in TopUps :
               /\ Owner[t] = Owner[s.order]
               /\ NewTopUp(t)
               /\ order' = [order EXCEPT ![t] = [status |-> "awaiting", promo |-> FALSE]]
          /\ UNCHANGED <<credit, debit, goods>>
    /\ session' = session \ {s}
    /\ UNCHANGED <<notice, told>>

-----------------------------------------------------------------------------
(* The worker and the administrator, on the subscription row *)

Waiting(u) == subscription[u].status = "failed"

\* the keys a retry may run: that of a failed operation of the user, the latest of them
\* (which one that is, is left open), or else that of the order the row names
RetryKeys(u) ==
    LET failed == {k \in Keys : Owner[k] = u /\ operation[k] = "failed"} IN
    IF failed # {} THEN failed ELSE {subscription[u].order} \cap Orders

\* one more attempt under key k; a completed operation is not run again
Again(u, k, outcome) ==
    \/ /\ operation[k] # "completed"
       /\ subscription' = [subscription EXCEPT ![u] = Attempted(@, @, outcome)]
       /\ Provision(k, subscription[u].days, outcome)
    \/ /\ operation[k] = "completed"
       /\ outcome = "active"
       /\ subscription' = [subscription EXCEPT ![u] =
                             [@ EXCEPT !.status = "active", !.due = TRUE]]
       /\ UNCHANGED <<operation, pushed, behind>>

\* (seeded fault: the order is completed whatever the panel answered)
CompleteAnyway(u, outcome) ==
    LET o == subscription[u].order IN
    order' = IF o \in Orders /\ order[o].status = "processing"
             THEN [order EXCEPT ![o].status = "completed"] ELSE order

\* the order the row names is completed, whichever operation succeeded
CompleteNamed(u, outcome) ==
    LET o == subscription[u].order IN
    order' = IF outcome = "active" /\ o \in Orders /\ order[o].status = "processing"
             THEN [order EXCEPT ![o].status = "completed"] ELSE order

\* (seeded fault: one attempt less)
RetryTooFew(u, outcome) ==
    /\ Waiting(u)
    /\ subscription[u].attempts < ActivationLimit - 1
    /\ subscription[u].due
    /\ \E k \in RetryKeys(u) : Again(u, k, outcome)
    /\ CompleteNamed(u, outcome)
    /\ UNCHANGED <<payment, provider, notice, session, credit, debit, promoUse, daysAdded, told>>

\* _retry_subscriptions, on the row as it is under its lock
RetrySubscription(u, outcome) ==
    /\ Waiting(u)
    /\ subscription[u].attempts < ActivationLimit
    /\ subscription[u].due
    /\ \E k \in RetryKeys(u) : Again(u, k, outcome)
    /\ CompleteNamed(u, outcome)
    /\ UNCHANGED <<payment, provider, notice, session, credit, debit, promoUse, daysAdded, told>>

\* extend_with_bonus_days: a code, or a grant, prolongs the row and pushes it
Redeem(c, outcome) ==
    /\ operation[c] = "none"
    /\ subscription' = [subscription EXCEPT ![Owner[c]] = Attempted(@, @, outcome)]
    /\ Provision(c, subscription[Owner[c]].days, outcome)
    /\ UNCHANGED <<rows, provider, notice, session, daysAdded, told>>

\* next_retry_at passes
RetryDue(u) ==
    /\ Waiting(u)
    /\ ~subscription[u].due
    /\ subscription' = [subscription EXCEPT ![u] = [@ EXCEPT !.due = TRUE]]
    /\ UNCHANGED <<rows, provider, notice, session, operation, daysAdded, pushed, behind, told>>

\* retry_failed of the administrator's panel
AdminRetry(u) ==
    /\ Waiting(u)
    /\ subscription' = [subscription EXCEPT ![u] =
            [@ EXCEPT !.attempts = 0, !.due = TRUE]]
    /\ UNCHANGED <<rows, provider, notice, session, operation, daysAdded, pushed, behind, told>>

-----------------------------------------------------------------------------
Init ==
    /\ order = [o \in Orders |-> [status |-> "none", promo |-> FALSE]]
    /\ payment = [p \in Payments |->
                    [status |-> "none", promo |-> FALSE, processed |-> FALSE]]
    /\ provider = [p \in Payments |-> [status |-> "none", promo |-> FALSE]]
    /\ notice = {}
    /\ session = {}
    /\ credit = [p \in Payments |-> 0]
    /\ debit = [o \in Orders |-> [rows |-> 0, promo |-> FALSE]]
    /\ promoUse = {}
    /\ subscription = [u \in Users |-> NoRow]
    /\ operation = [k \in Keys |-> "none"]
    /\ daysAdded = [o \in Orders |-> 0]
    /\ pushed = {}
    /\ behind = {}
    /\ told = {}

OrderStep(o) ==
    \/ CreateOrder(o)
    \/ ApplyPromo(o)
    \/ CreatePayment(o)
    \/ CreatePaymentLost(o)
    \/ CreateTopUp(o)
    \/ PurchaseFromBalance(o)
    \/ LoadCheck(o)
    \/ LoadCancel(o)
    \/ LoadShortfall(o)

PaymentStep(p) ==
    \/ ProviderPay(p)
    \/ ProviderCancel(p)
    \/ Notify(p)
    \/ LoadRetry(p)

NoticeStep(n) ==
    \/ DropNotice(n)
    \/ RecordStatus(n)
    \/ ConfirmWebhook(n)

SessionStep(s) ==
    \/ Abandon(s)
    \/ CheckApply(s)
    \/ RetryApply(s)
    \/ CancelApply(s)
    \/ ShortfallApply(s)

UserStep(u) ==
    \/ \E outcome \in {"active", "failed"} : RetrySubscription(u, outcome)
    \/ RetryDue(u)
    \/ AdminRetry(u)

Next ==
    \/ \E o \in Orders : OrderStep(o)
    \/ \E p \in Payments : PaymentStep(p)
    \/ \E n \in notice : NoticeStep(n)
    \/ \E s \in session : SessionStep(s)
    \/ \E u \in Users : UserStep(u)
    \/ \E c \in Codes, outcome \in {"active", "failed"} : Redeem(c, outcome)

Spec == Init /\ [][Next]_vars

\* YooKassa repeats a notification until it is answered, so the webhook of a paid payment
\* commits in the end if it can; every transaction ends, committed or not; the worker loop
\* runs for ever, and the panel is not down each time it is asked
Fairness ==
    /\ \A p \in Payments :
         /\ SF_vars(provider[p].status = "paid" /\ Notify(p))
         /\ SF_vars(ConfirmWebhook([pay |-> p, status |-> "paid"]))
    /\ WF_vars(\E n \in notice : NoticeStep(n))
    /\ WF_vars(\E s \in session : SessionStep(s))
    /\ \A u \in Users : SF_vars(RetrySubscription(u, "active")) /\ WF_vars(RetryDue(u))

FairSpec == Spec /\ Fairness
-----------------------------------------------------------------------------
(* Properties *)

\* Every row has the columns and every column the values the models declare.
TypeOK ==
    /\ order \in [Orders -> OrderRow]
    /\ payment \in [Payments -> PaymentRow]
    /\ provider \in [Payments -> Invoice]
    /\ notice \subseteq Notice
    /\ session \subseteq Session
    /\ credit \in [Payments -> Nat]
    /\ debit \in [Orders -> [rows : Nat, promo : BOOLEAN]]
    /\ promoUse \subseteq Orders
    /\ subscription \in [Users -> SubscriptionRow]
    /\ operation \in [Keys -> {"none", "failed", "completed"}]
    /\ daysAdded \in [Orders -> 0..2]
    /\ pushed \subseteq Orders
    /\ behind \subseteq Users
    /\ told \subseteq Payments

\* However often a payment is confirmed, by the webhook, by the check button and by the
\* worker, it is credited once, and its order is debited once.
OneWalletRowPerKey ==
    /\ \A p \in Payments : credit[p] <= 1
    /\ \A o \in Orders : debit[o].rows <= 1

\* Money appears in a wallet only for a payment the provider was paid for.
CreditedOnlyIfPaid ==
    \A p \in Payments : credit[p] > 0 =>
        provider[p].status = "paid" /\ payment[p].status = "paid"

\* The days of an order are added if and only if the wallet was debited for it: neither a
\* failed activation nor a retry parts the two.
ServedIffDebited == \A o \in Orders : daysAdded[o] > 0 <=> debit[o].rows > 0

\* A payment of a subscription order that reached the wallet has bought the order.
CreditedIsSpent ==
    \A p \in Payments : p[1] \notin TopUps /\ credit[p] > 0 => debit[p[1]].rows > 0

\* The shop calls an order completed only when the top-up was credited, or the order was
\* debited and the panel has accepted a term with its days.  (Its own operation may still
\* be the failed one: the worker completes the order the row names by whichever operation
\* succeeds, and that one pushes the whole term.)
CompletedIsServed ==
    \A o \in Orders : order[o].status = "completed" =>
        IF o \in TopUps THEN \E n \in 1..MaxPayments : credit[<<o, n>>] > 0
        ELSE debit[o].rows > 0 /\ o \in pushed

\* Nobody buys at the discount without using up the promo code, and the code is not used
\* more often than it allows, whatever orders it was applied to meanwhile.
DiscountWithinLimits ==
    /\ \A o \in Orders : debit[o].rows > 0 /\ debit[o].promo => o \in promoUse
    /\ Cardinality(promoUse) <= MaxUses
    /\ \A u \in Users : Cardinality({o \in promoUse : Owner[o] = u}) <= PerUserLimit

\* The customer can be charged for one payment of an order only: a new attempt is made
\* only when no earlier one can be paid, lost transactions and late webhooks included.
OneLiveInvoice ==
    \A p, q \in Payments :
        /\ p[1] = q[1]
        /\ provider[p].status \in {"pending", "paid"}
        /\ provider[q].status \in {"pending", "paid"}
        => p = q

\* A late status of the provider never takes a confirmed payment back.
PaidIsFinal ==
    [][\A p \in Payments : payment[p].status = "paid" => payment'[p].status = "paid"]_vars

\* What is paid reaches the wallet, for a top-up without exception.  A subscription order may
\* have been bought from the balance first, or its promo have changed its amount or run out
\* after the payment was made, or it was bought at another amount than the payment's.
Excused(p) ==
    /\ p[1] \notin TopUps
    /\ \/ order[p[1]].status = "completed"
       \/ order[p[1]].promo # payment[p].promo
       \/ ~Consumable(p[1], order[p[1]])
       \/ debit[p[1]].rows > 0 /\ debit[p[1]].promo # payment[p].promo

PaymentIsCredited ==
    \A p \in Payments : provider[p].status = "paid" ~> (credit[p] > 0 \/ Excused(p))

\* A subscription that reads active has every order on the panel that was debited, those
\* whose activation failed and that another order displaced in the row included, unless the
\* worker's retry of an older order, which holds the row as it was before, pushed that term
\* last: its success makes the row active, and nothing retries an active row.
ActiveHasBought ==
    \A o \in Orders : debit[o].rows > 0 /\ Row(o).status = "active" =>
        o \in pushed \/ Owner[o] \in behind

\* The days of a debited order reach the panel, with its own operation or with a later one,
\* unless the attempts are used up or the older term was pushed last.
DebitedIsActivated ==
    \A o \in Orders \ TopUps :
        debit[o].rows > 0 ~>
            \/ o \in pushed
            \/ Row(o).attempts = ActivationLimit
            \/ Owner[o] \in behind

\* The rows implement the promise of Settlement.
Promise == INSTANCE Settlement WITH
    OrderOf <- [p \in Payments |-> p[1]],
    collected <- {p \in Payments : provider[p].status = "paid"},
    credited <- {p \in Payments : credit[p] > 0},
    bought <- {o \in Orders : debit[o].rows > 0},
    served <- {o \in Orders : daysAdded[o] > 0}

ImplementsSettlement == Promise!Spec

\* "test_activation_retry_does_not_add_paid_days_twice": a retry of a failed activation
\* adds no days a second time.
DaysAddedOnce == \A o \in Orders : daysAdded[o] <= 1

\* The message "the balance is topped up" that follows a confirmed payment is true.
ToldMeansCredited == \A p \in told : credit[p] > 0

\* "The order can no longer be cancelled": an order that was bought is never cancelled.
BoughtIsNotCancelled ==
    \A o \in Orders : debit[o].rows > 0 => order[o].status # "cancelled"
=============================================================================
