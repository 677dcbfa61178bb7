------------------------ MODULE OrderPaymentsSafety ------------------------
(***************************************************************************)
(* The days, the debits and the credits of OrderPayments agree, a          *)
(* completed order was served, and promo codes are used within their       *)
(* limits, for every set of users and orders and for every bound.          *)
(***************************************************************************)
EXTENDS OrderPaymentsProofs

\* top-ups buy nothing
NoDebitOfTopUps == \A t \in TopUps : debit[t].rows = 0

\* the orders of a user whose days were added
Added(u) == {o \in Orders : Owner[o] = u /\ daysAdded[o] > 0}

\* a term includes the days that were added, and the row names one of their orders
TermsHold ==
    \A u \in Users :
        /\ subscription[u].days = Added(u)
        /\ subscription[u].order \in Orders => subscription[u].order \in Added(u)
        /\ Added(u) # {} => /\ subscription[u].order \in Orders
                            /\ subscription[u].status # "none"

\* the panel is called for the days that are added, and for no others
OperationIsForDays == \A o \in Orders : operation[o] # "none" <=> daysAdded[o] > 0

\* a completed operation pushed its order
CompletedIsPushed == \A o \in Orders : operation[o] = "completed" => o \in pushed

\* an active subscription was pushed with its whole term, or with an older one
ActiveIsPushed ==
    \A u \in Users : subscription[u].status = "active" =>
        subscription[u].days \subseteq pushed \/ u \in behind

\* the row as it was when it named o
IsOlder(o, held) ==
    /\ held.order = o
    /\ o \in held.days
    /\ held.days \subseteq Row(o).days

\* what a session holds of the order o: the row, or an older one
IsHeld(o, held) == held = Row(o) \/ IsOlder(o, held)

\* the worker holds the row of its order
HeldIsOlder ==
    \A s \in session : s.by = "worker" /\ s.held.status # "none" => IsOlder(s.pay[1], s.held)

\* what holds of the days, the debits and the panel, whatever the wallet was credited
Bought ==
    /\ NoDebitOfTopUps
    /\ ServedIffDebited
    /\ TermsHold
    /\ OperationIsForDays
    /\ CompletedIsPushed
    /\ ActiveIsPushed

Settled == Bought /\ HeldIsOlder /\ OneWalletRowPerKey /\ CreditedIsSpent /\ CompletedIsServed

\* the invariant but for what the sessions hold
Kept == Bought /\ OneWalletRowPerKey /\ CreditedIsSpent /\ CompletedIsServed

-----------------------------------------------------------------------------
\* a step that leaves the wallet and the subscription alone, and completes no order
LEMMA QuietStep ==
    ASSUME Typed, Settled, UNCHANGED <<credit, debit, goods>>,
           \A o \in Orders : order'[o].status = "completed" => order[o].status = "completed"
    PROVE  Kept'
BY DEF Settled, Kept, Bought, NoDebitOfTopUps, ServedIffDebited, OperationIsForDays,
       TermsHold, Added, CompletedIsPushed, ActiveIsPushed, OneWalletRowPerKey,
       CreditedIsSpent, CompletedIsServed, goods

\* what a call of the panel leaves: operations and what was pushed
LEMMA ProvisionKeeps ==
    ASSUME Typed, NEW k \in Keys, NEW term \in SUBSET Orders, k \in Orders => k \in term,
           NEW outcome \in {"active", "failed"}, Provision(k, term, outcome),
           CompletedIsPushed
    PROVE  /\ CompletedIsPushed'
           /\ pushed \subseteq pushed'
           /\ operation'[k] = IF outcome = "active" THEN "completed" ELSE "failed"
           /\ \A q \in Keys \ {k} : operation'[q] = operation[q]
           /\ \A w \in Users \ {Owner[k]} : w \in behind => w \in behind'
           /\ outcome = "active" => /\ term \subseteq pushed'
                                    /\ Row(k).days \subseteq term \/ Owner[k] \in behind'
           /\ outcome = "failed" => UNCHANGED <<pushed, behind>>
<1> USE DEF Typed, TypeOK
<1>1. CASE outcome = "active"
  BY <1>1 DEF Provision, CompletedIsPushed, Keys
<1>2. CASE outcome = "failed"
  BY <1>2 DEF Provision, CompletedIsPushed, Keys
<1> QED
  BY <1>1, <1>2

\* a row that was written after a call of the panel: if it is active, the call pushed its
\* term, or the row was active before and the call failed
LEMMA ActiveAfterPush ==
    ASSUME Typed, ActiveIsPushed, NEW u \in Users, NEW row,
           subscription' = [subscription EXCEPT ![u] = row],
           pushed \subseteq pushed',
           \A w \in Users \ {u} : w \in behind => w \in behind',
           row.status = "active" =>
             \/ row.days \subseteq pushed'
             \/ u \in behind'
             \/ /\ subscription[u].status = "active"
                /\ row.days = subscription[u].days
                /\ UNCHANGED <<pushed, behind>>
    PROVE  ActiveIsPushed'
<1> SUFFICES ASSUME NEW w \in Users, subscription'[w].status = "active"
             PROVE  subscription'[w].days \subseteq pushed' \/ w \in behind'
  BY DEF ActiveIsPushed
<1>1. CASE w = u
  BY <1>1 DEF ActiveIsPushed, Typed, TypeOK
<1>2. CASE w # u
  <2>1. subscription'[w] = subscription[w]
    BY <1>2 DEF Typed, TypeOK
  <2> QED
    BY <1>2, <2>1 DEF ActiveIsPushed
<1> QED
  BY <1>1, <1>2

\* the row of one user is replaced, its order and days are not
LEMMA TermsStay ==
    ASSUME Typed, TermsHold, NEW u \in Users, NEW row,
           subscription' = [subscription EXCEPT ![u] = row],
           row.order = subscription[u].order, row.days = subscription[u].days,
           Added(u) # {} => row.status # "none",
           daysAdded' = daysAdded
    PROVE  TermsHold'
<1> SUFFICES ASSUME NEW w \in Users
             PROVE  /\ subscription'[w].days = Added(w)'
                    /\ subscription'[w].order \in Orders => subscription'[w].order \in Added(w)'
                    /\ Added(w)' # {} => /\ subscription'[w].order \in Orders
                                         /\ subscription'[w].status # "none"
  BY DEF TermsHold
<1>1. Added(w)' = Added(w)
  BY DEF Added
<1>2. CASE w = u
  <2>1. subscription'[w] = row
    BY <1>2 DEF Typed, TypeOK
  <2> QED
    BY <1>1, <1>2, <2>1 DEF TermsHold
<1>3. CASE w # u
  <2>1. subscription'[w] = subscription[w]
    BY <1>3 DEF Typed, TypeOK
  <2> QED
    BY <1>1, <2>1 DEF TermsHold
<1> QED
  BY <1>2, <1>3

-----------------------------------------------------------------------------
\* what the purchase of an order leaves of the days and the panel
Extends(o, outcome) ==
    /\ daysAdded'[o] > 0
    /\ \A q \in Orders \ {o} : daysAdded'[q] = daysAdded[q]
    /\ TermsHold'
    /\ OperationIsForDays'
    /\ CompletedIsPushed'
    /\ ActiveIsPushed'
    /\ outcome = "active" => o \in pushed'
    /\ pushed \subseteq pushed'

\* nothing is done for an order that was applied
LEMMA AppliedKeeps ==
    ASSUME Typed, Bought, NEW o \in Orders, NEW held, operation[o] = "completed",
           NEW outcome, UNCHANGED goods
    PROVE  Extends(o, outcome)
BY DEF Extends, Bought, goods, TermsHold, Added, OperationIsForDays, CompletedIsPushed,
       ActiveIsPushed, Typed, TypeOK

\* the order is pushed again, with the term the session holds: no days are added
LEMMA ActivateAgainKeeps ==
    ASSUME Typed, Bought, NEW o \in Orders, NEW held \in SubscriptionRow, IsHeld(o, held),
           NEW outcome \in {"active", "failed"}, ActivateAgain(o, held, outcome)
    PROVE  Extends(o, outcome)
<1> DEFINE u == Owner[o]
           row == Attempted(Row(o), held, outcome)
<1>1. o \in Keys /\ u \in Users /\ Row(o) \in SubscriptionRow /\ Row(o) = subscription[u]
  BY RowTyped DEF Keys, Row
<1>2. /\ row.order = Row(o).order
      /\ row.days = Row(o).days
      /\ row.status = IF outcome = held.status THEN Row(o).status ELSE outcome
  BY <1>1, AttemptedTyped
<1>3. held.order = o /\ o \in held.days /\ held.days \subseteq Row(o).days
  <2>1. held.order = o
    BY DEF ActivateAgain
  <2> QED
    BY <1>1, <2>1 DEF IsHeld, IsOlder, Bought, TermsHold
<1>4. held.days \in SUBSET Orders
  BY DEF SubscriptionRow
<1>5. o \in Added(u) /\ Row(o).status # "none" /\ daysAdded[o] > 0
  <2>1. o \in Added(u)
    BY <1>1, <1>3 DEF Bought, TermsHold
  <2> QED
    BY <1>1, <2>1 DEF Bought, TermsHold, Added
<1>6. subscription' = [subscription EXCEPT ![u] = row] /\ daysAdded' = daysAdded
  BY DEF ActivateAgain, Row
<1>7. /\ CompletedIsPushed'
      /\ pushed \subseteq pushed'
      /\ operation'[o] = IF outcome = "active" THEN "completed" ELSE "failed"
      /\ \A q \in Keys \ {o} : operation'[q] = operation[q]
      /\ \A w \in Users \ {u} : w \in behind => w \in behind'
      /\ outcome = "active" => /\ held.days \subseteq pushed'
                               /\ Row(o).days \subseteq held.days \/ u \in behind'
      /\ outcome = "failed" => UNCHANGED <<pushed, behind>>
  BY <1>1, <1>3, <1>4, ProvisionKeeps DEF ActivateAgain, Bought
<1> HIDE DEF u, row
<1>8. TermsHold'
  BY <1>1, <1>2, <1>5, <1>6, TermsStay DEF Bought
<1>9. OperationIsForDays'
  BY <1>5, <1>6, <1>7 DEF Bought, OperationIsForDays, Keys
<1>10. ActiveIsPushed'
  <2>1. row.status = "active" =>
          \/ row.days \subseteq pushed'
          \/ u \in behind'
          \/ /\ subscription[u].status = "active"
             /\ row.days = subscription[u].days
             /\ UNCHANGED <<pushed, behind>>
    BY <1>1, <1>2, <1>7
  <2> QED
    BY <1>1, <1>6, <1>7, <2>1, ActiveAfterPush DEF Bought
<1> QED
  BY <1>3, <1>5, <1>6, <1>7, <1>8, <1>9, <1>10 DEF Extends

\* the days are added to the term, and the term is pushed
LEMMA AddDaysKeeps ==
    ASSUME Typed, Bought, NEW o \in Orders, NEW held \in SubscriptionRow, IsHeld(o, held),
           NEW outcome \in {"active", "failed"}, AddDays(o, held, outcome)
    PROVE  Extends(o, outcome)
<1> DEFINE u == Owner[o]
           row == Extended(Attempted(Row(o), held, outcome), o)
<1>1. o \in Keys /\ u \in Users /\ Row(o) \in SubscriptionRow /\ Row(o) = subscription[u]
  BY RowTyped DEF Keys, Row
<1>2. held = Row(o)
  BY DEF AddDays, IsHeld, IsOlder
<1>3. /\ row.order = o
      /\ row.days = Row(o).days \cup {o}
      /\ row.status = outcome
  <2>1. /\ Attempted(Row(o), held, outcome) \in SubscriptionRow
        /\ Attempted(Row(o), held, outcome).days = Row(o).days
        /\ Attempted(Row(o), held, outcome).status =
             IF outcome = held.status THEN Row(o).status ELSE outcome
    BY <1>1, AttemptedTyped
  <2> QED
    BY <1>2, <2>1 DEF Extended, SubscriptionRow
<1>4. held.days \cup {o} \in SUBSET Orders
  BY DEF SubscriptionRow
<1>5. /\ subscription' = [subscription EXCEPT ![u] = row]
      /\ daysAdded' = [daysAdded EXCEPT ![o] = IF @ < 2 THEN @ + 1 ELSE @]
  BY DEF AddDays, Row
<1>6. /\ CompletedIsPushed'
      /\ pushed \subseteq pushed'
      /\ operation'[o] = IF outcome = "active" THEN "completed" ELSE "failed"
      /\ \A q \in Keys \ {o} : operation'[q] = operation[q]
      /\ \A w \in Users \ {u} : w \in behind => w \in behind'
      /\ outcome = "active" => held.days \cup {o} \subseteq pushed'
  BY <1>1, <1>4, ProvisionKeeps DEF AddDays, Bought
<1> HIDE DEF row
<1>7. daysAdded'[o] > 0 /\ \A q \in Orders \ {o} : daysAdded'[q] = daysAdded[q]
  BY <1>5 DEF Typed, TypeOK
<1>8. TermsHold'
  <2> SUFFICES ASSUME NEW w \in Users
               PROVE  /\ subscription'[w].days = Added(w)'
                      /\ subscription'[w].order \in Orders => subscription'[w].order \in Added(w)'
                      /\ Added(w)' # {} => /\ subscription'[w].order \in Orders
                                           /\ subscription'[w].status # "none"
    BY DEF TermsHold
  <2>1. CASE w = u
    <3>1. Added(w)' = Added(w) \cup {o}
      BY <1>7, <2>1 DEF Added
    <3>2. subscription'[w] = row
      BY <1>1, <1>5, <2>1 DEF Typed, TypeOK
    <3>3. row.days = Added(w) \cup {o}
      BY <1>1, <1>3, <2>1 DEF Bought, TermsHold
    <3> QED
      BY <1>3, <3>1, <3>2, <3>3
  <2>2. CASE w # u
    <3>1. Added(w)' = Added(w)
      BY <1>7, <2>2 DEF Added
    <3>2. subscription'[w] = subscription[w]
      BY <1>5, <2>2 DEF Typed, TypeOK
    <3> QED
      BY <3>1, <3>2 DEF Bought, TermsHold
  <2> QED
    BY <2>1, <2>2
<1>9. OperationIsForDays'
  BY <1>6, <1>7 DEF Bought, OperationIsForDays, Keys
<1>10. ActiveIsPushed'
  <2>1. row.status = "active" => row.days \subseteq pushed'
    BY <1>2, <1>3, <1>6
  <2> QED
    BY <1>1, <1>5, <1>6, <2>1, ActiveAfterPush DEF Bought
<1> QED
  BY <1>6, <1>7, <1>8, <1>9, <1>10 DEF Extends

\* days that are added, and the call of the panel after them, add to one order only
LEMMA ExtendKeeps ==
    ASSUME Typed, Bought, NEW o \in Orders, NEW held \in SubscriptionRow, IsHeld(o, held),
           NEW outcome \in {"active", "failed"}, Extend(o, held, outcome)
    PROVE  Extends(o, outcome)
<1>1. CASE AlreadyApplied(o, held) /\ UNCHANGED goods
  BY <1>1, AppliedKeeps DEF AlreadyApplied
<1>2. CASE ActivateAgain(o, held, outcome)
  BY <1>2, ActivateAgainKeeps
<1>3. CASE AddDays(o, held, outcome)
  BY <1>3, AddDaysKeeps
<1> QED
  BY <1>1, <1>2, <1>3 DEF Extend

-----------------------------------------------------------------------------
\* A purchase debits the order and adds its days, and completes it only when the panel
\* has its days.
LEMMA PurchaseSettles ==
    ASSUME Typed, Bought, \A q \in Orders : debit[q].rows <= 1,
           NEW o \in Orders \ TopUps, NEW seen \in OrderRow,
           NEW held \in SubscriptionRow, IsHeld(o, held),
           NEW outcome \in {"active", "failed"}, Purchase(o, seen, held, outcome)
    PROVE  /\ Bought'
           /\ debit'[o].rows > 0
           /\ \A q \in Orders : debit'[q].rows <= 1
           /\ \A q \in Orders : debit[q].rows > 0 => debit'[q].rows > 0
           /\ pushed \subseteq pushed'
           /\ \A q \in Orders : order'[q].status = "completed" =>
                \/ order[q].status = "completed"
                \/ q = o /\ o \in pushed'
<1> USE DEF Typed, TypeOK
<1>1. Extends(o, outcome)
  BY ExtendKeeps DEF Purchase
<1>2. /\ debit'[o].rows > 0
      /\ debit'[o].rows <= 1
      /\ \A q \in Orders \ {o} : debit'[q] = debit[q]
  BY DEF Purchase
<1>3. NoDebitOfTopUps'
  BY <1>2, OrdersAssumption DEF Bought, NoDebitOfTopUps
<1>4. ServedIffDebited'
  BY <1>1, <1>2 DEF Bought, ServedIffDebited, Extends
<1>5. \A q \in Orders : order'[q].status = "completed" =>
        order[q].status = "completed" \/ (q = o /\ outcome = "active")
  <2>1. order' = [order EXCEPT ![o].status =
                    Written(o, seen, IF outcome = "active" THEN "completed" ELSE "processing")]
    BY DEF Purchase, SetStatus
  <2> QED
    BY <2>1 DEF Written
<1> QED
  BY <1>1, <1>2, <1>3, <1>4, <1>5 DEF Bought, Extends

\* a purchase keeps all of it, if what it credits is of the order it buys
LEMMA PurchaseKeepsSettled ==
    ASSUME Typed, Settled, NEW o \in Orders \ TopUps, NEW seen \in OrderRow,
           NEW held \in SubscriptionRow, IsHeld(o, held),
           NEW outcome \in {"active", "failed"}, Purchase(o, seen, held, outcome),
           \A q \in Payments : credit[q] > 0 => credit'[q] > 0,
           \A q \in Payments : credit'[q] > 0 => credit[q] > 0 \/ q[1] = o,
           \A q \in Payments : credit'[q] <= 1
    PROVE  Kept'
<1>1. /\ Bought'
      /\ debit'[o].rows > 0
      /\ \A q \in Orders : debit'[q].rows <= 1
      /\ \A q \in Orders : debit[q].rows > 0 => debit'[q].rows > 0
      /\ pushed \subseteq pushed'
      /\ \A q \in Orders : order'[q].status = "completed" =>
           \/ order[q].status = "completed"
           \/ q = o /\ o \in pushed'
  BY PurchaseSettles DEF Settled, OneWalletRowPerKey
<1>2. OneWalletRowPerKey'
  BY <1>1 DEF OneWalletRowPerKey
<1>3. CreditedIsSpent'
  BY <1>1 DEF Settled, CreditedIsSpent, Payments
<1>4. CompletedIsServed'
  <2> SUFFICES ASSUME NEW q \in Orders, order'[q].status = "completed"
               PROVE  IF q \in TopUps THEN \E n \in 1..MaxPayments : credit'[<<q, n>>] > 0
                      ELSE debit'[q].rows > 0 /\ q \in pushed'
    BY DEF CompletedIsServed
  <2>1. CASE q = o /\ o \in pushed'
    BY <1>1, <2>1
  <2>2. CASE order[q].status = "completed"
    BY <1>1, <2>2 DEF Settled, CompletedIsServed, Payments
  <2> QED
    BY <1>1, <2>1, <2>2
<1> QED
  BY <1>1, <1>2, <1>3, <1>4 DEF Kept

\* the wallet key of a payment is written once, and no other
LEMMA CreditedOnce ==
    ASSUME Typed, OneWalletRowPerKey, NEW p \in Payments, credit' = Credited(p)
    PROVE  /\ credit'[p] > 0
           /\ \A q \in Payments : credit[q] > 0 => credit'[q] > 0
           /\ \A q \in Payments : credit'[q] > 0 => credit[q] > 0 \/ q = p
           /\ \A q \in Payments : credit'[q] <= 1
BY DEF Credited, OneWalletRowPerKey, Typed, TypeOK

\* a status that is not written as completed completes nothing
LEMMA SetStatusCompletes ==
    ASSUME Typed, NEW o \in Orders, NEW seen \in OrderRow,
           NEW status \in {"processing", "completed"}, SetStatus(o, seen, status)
    PROVE  \A q \in Orders : order'[q].status = "completed" =>
             order[q].status = "completed" \/ (q = o /\ status = "completed")
BY DEF SetStatus, Written, Typed, TypeOK

\* a confirmation, whichever of its branches it takes
LEMMA ConfirmSettles ==
    ASSUME Typed, Settled, NEW p \in Payments, NEW seen \in OrderRow,
           NEW held \in SubscriptionRow, IsHeld(p[1], held), NEW result,
           Confirm(p, seen, held, result)
    PROVE  Kept'
<1>0. p[1] \in Orders
  BY DEF Payments
<1>1. CASE ConfirmRepeated(p, seen, result)
  BY <1>1, QuietStep DEF ConfirmRepeated, rows
<1>2. CASE ConfirmRefused(p, seen, result)
  BY <1>0, <1>2, SetStatusCompletes, QuietStep DEF ConfirmRefused
<1>3. CASE ConfirmTopUp(p, seen, result)
  <2>1. /\ credit'[p] > 0
        /\ \A q \in Payments : credit[q] > 0 => credit'[q] > 0
        /\ \A q \in Payments : credit'[q] > 0 => credit[q] > 0 \/ q = p
        /\ \A q \in Payments : credit'[q] <= 1
    BY <1>3, CreditedOnce DEF ConfirmTopUp, Settled
  <2>2. /\ UNCHANGED <<debit, subscription, operation, daysAdded, pushed, behind>>
        /\ p[1] \in TopUps
    BY <1>3 DEF ConfirmTopUp, goods
  <2>3. Bought'
    BY <2>2 DEF Settled, Bought, NoDebitOfTopUps, ServedIffDebited, OperationIsForDays,
                TermsHold, Added, CompletedIsPushed, ActiveIsPushed
  <2>4. OneWalletRowPerKey' /\ CreditedIsSpent'
    BY <2>1, <2>2 DEF Settled, OneWalletRowPerKey, CreditedIsSpent
  <2>5. CompletedIsServed'
    <3> SUFFICES ASSUME NEW q \in Orders, order'[q].status = "completed"
                 PROVE  IF q \in TopUps THEN \E n \in 1..MaxPayments : credit'[<<q, n>>] > 0
                        ELSE debit'[q].rows > 0 /\ q \in pushed'
      BY DEF CompletedIsServed
    <3>1. order[q].status = "completed" \/ q = p[1]
      BY <1>0, <1>3, SetStatusCompletes DEF ConfirmTopUp
    <3>2. CASE q = p[1]
      <4>1. p[2] \in 1..MaxPayments /\ p = <<q, p[2]>>
        BY <3>2 DEF Payments
      <4> QED
        BY <2>1, <2>2, <3>2, <4>1
    <3>3. CASE order[q].status = "completed"
      BY <2>1, <2>2, <3>3 DEF Settled, CompletedIsServed, Payments
    <3> QED
      BY <3>1, <3>2, <3>3
  <2> QED
    BY <2>3, <2>4, <2>5 DEF Kept
<1>4. CASE ConfirmPurchase(p, seen, held, result)
  <2>1. PICK outcome \in {"active", "failed"} : Purchase(p[1], seen, held, outcome)
    BY <1>4 DEF ConfirmPurchase
  <2>2. p[1] \in Orders \ TopUps
    BY <1>0, <1>4 DEF ConfirmPurchase
  <2>3. /\ \A q \in Payments : credit[q] > 0 => credit'[q] > 0
        /\ \A q \in Payments : credit'[q] > 0 => credit[q] > 0 \/ q[1] = p[1]
        /\ \A q \in Payments : credit'[q] <= 1
    BY <1>4, CreditedOnce DEF ConfirmPurchase, Settled
  <2> QED
    BY <2>1, <2>2, <2>3, PurchaseKeepsSettled
<1> QED
  BY <1>1, <1>2, <1>3, <1>4 DEF Confirm

-----------------------------------------------------------------------------
\* what is done to an order outside of a session
LEMMA OrderStepSettles ==
    ASSUME Typed, Settled, NEW o \in Orders, OrderStep(o)
    PROVE  Kept'
<1> USE DEF rows
<1>0. order \in [Orders -> OrderRow] /\ order[o] \in OrderRow
  BY DEF Typed, TypeOK
<1>1. CASE CreateOrder(o)
  BY <1>0, <1>1, QuietStep DEF CreateOrder, NewOrder
<1>2. CASE ApplyPromo(o)
  BY <1>0, <1>2, QuietStep DEF ApplyPromo, Discountable
<1>3. CASE CreatePayment(o)
  BY <1>0, <1>3, QuietStep DEF CreatePayment
<1>4. CASE CreatePaymentLost(o)
  BY <1>4, QuietStep DEF CreatePaymentLost
<1>5. CASE CreateTopUp(o)
  BY <1>0, <1>5, QuietStep DEF CreateTopUp
<1>6. CASE PurchaseFromBalance(o)
  <2>1. ASSUME NEW outcome \in {"active", "failed"}, Purchase(o, order[o], Row(o), outcome),
               UNCHANGED credit
        PROVE  Kept'
    <3>1. \A q \in Payments : credit'[q] <= 1
      BY <2>1 DEF Settled, OneWalletRowPerKey
    <3>2. o \in Orders \ TopUps
      BY <1>6 DEF PurchaseFromBalance, Purchasable
    <3>3. Row(o) \in SubscriptionRow /\ IsHeld(o, Row(o))
      BY RowTyped DEF IsHeld, Keys
    <3> QED
      BY <1>0, <2>1, <3>1, <3>2, <3>3, PurchaseKeepsSettled
  <2>2. CASE UNCHANGED <<order, payment, provider, notice, session, credit, debit, goods, told>>
    BY <2>2, QuietStep
  <2> QED
    BY <1>6, <2>1, <2>2 DEF PurchaseFromBalance
<1>7. CASE LoadCheck(o) \/ LoadCancel(o) \/ LoadShortfall(o)
  BY <1>7, QuietStep DEF LoadCheck, LoadCancel, LoadShortfall, Load
<1> QED
  BY <1>1, <1>2, <1>3, <1>4, <1>5, <1>6, <1>7 DEF OrderStep

\* what the provider does, and the reads before a webhook or a retry
LEMMA PaymentStepSettles ==
    ASSUME Typed, Settled, NEW p \in Payments, PaymentStep(p)
    PROVE  Kept'
BY QuietStep DEF PaymentStep, ProviderPay, ProviderCancel, Notify, Fetched, LoadRetry, Load, rows

\* the end of a webhook
LEMMA NoticeStepSettles ==
    ASSUME Typed, Settled, NEW n \in notice, NoticeStep(n)
    PROVE  Kept'
<1>0. n.pay \in Payments /\ order[n.pay[1]] \in OrderRow
  BY DEF Typed, TypeOK, Notice, Payments
<1>1. CASE DropNotice(n)
  BY <1>1, QuietStep DEF DropNotice, rows
<1>2. CASE RecordStatus(n)
  BY <1>2, QuietStep DEF RecordStatus
<1>3. CASE ConfirmWebhook(n)
  <2>1. Row(n.pay[1]) \in SubscriptionRow /\ IsHeld(n.pay[1], Row(n.pay[1]))
    BY <1>0, RowTyped DEF IsHeld, Payments, Keys
  <2> QED
    BY <1>0, <1>3, <2>1, ConfirmSettles DEF ConfirmWebhook
<1> QED
  BY <1>1, <1>2, <1>3 DEF NoticeStep

\* the end of a transaction that began with a read of the order
LEMMA SessionStepSettles ==
    ASSUME Typed, Settled, NEW s \in session, SessionStep(s)
    PROVE  Kept'
<1>0. s \in Session /\ s.seen \in OrderRow /\ order \in [Orders -> OrderRow]
  BY DEF Typed, TypeOK, Session
<1>1. CASE Abandon(s)
  BY <1>1, QuietStep DEF Abandon, rows
<1>2. CASE CheckApply(s)
  <2>1. s.pay \in Payments
    BY <1>0, <1>2 DEF CheckApply, Fetched, Session
  <2>2. CASE UNCHANGED <<order, credit, debit, promoUse, goods, told>>
    BY <2>2, QuietStep
  <2>3. CASE \E result \in {"already", "refused", "done", "unactivated"} :
               Confirm(s.pay, s.seen, Row(s.pay[1]), result)
    <3>1. Row(s.pay[1]) \in SubscriptionRow /\ IsHeld(s.pay[1], Row(s.pay[1]))
      BY <2>1, RowTyped DEF IsHeld, Payments, Keys
    <3> QED
      BY <1>0, <2>1, <2>3, <3>1, ConfirmSettles
  <2> QED
    BY <1>2, <2>2, <2>3 DEF CheckApply, Fetched
<1>3. CASE RetryApply(s)
  <2>1. s.pay \in Payments /\ s.held \in SubscriptionRow
    BY <1>0, <1>3 DEF RetryApply, Session
  <2>2. Row(s.pay[1]) \in SubscriptionRow
    BY <2>1, RowTyped DEF Payments, Keys
  <2>3. Held(s) \in SubscriptionRow /\ IsHeld(s.pay[1], Held(s))
    <3>1. CASE s.held.status = "none"
      BY <2>2, <3>1 DEF Held, IsHeld
    <3>2. CASE s.held.status # "none"
      BY <1>3, <2>1, <3>2 DEF Held, RetryApply, Settled, HeldIsOlder, IsHeld
    <3> QED
      BY <3>1, <3>2
  <2> QED
    BY <1>0, <1>3, <2>1, <2>3, ConfirmSettles DEF RetryApply
<1>4. CASE CancelApply(s)
  BY <1>0, <1>4, QuietStep DEF CancelApply
<1>5. CASE ShortfallApply(s)
  <2>1. s.order \in Orders \ TopUps
    BY <1>0, <1>5 DEF ShortfallApply, Purchasable, Session
  <2>2. CASE /\ Purchase(s.order, s.seen, Row(s.order), "active")
             /\ UNCHANGED <<payment, provider, credit>>
    <3>1. \A q \in Payments : credit'[q] <= 1
      BY <2>2 DEF Settled, OneWalletRowPerKey
    <3>2. Row(s.order) \in SubscriptionRow /\ IsHeld(s.order, Row(s.order))
      BY <2>1, RowTyped DEF IsHeld, Keys
    <3> QED
      BY <1>0, <2>1, <2>2, <3>1, <3>2, PurchaseKeepsSettled
  <2>3. CASE /\ \E t \in TopUps :
                  order' = [order EXCEPT ![t] = [status |-> "awaiting", promo |-> FALSE]]
             /\ UNCHANGED <<credit, debit, goods>>
    BY <1>0, <2>3, QuietStep
  <2> QED
    BY <1>5, <2>2, <2>3 DEF ShortfallApply
<1> QED
  BY <1>1, <1>2, <1>3, <1>4, <1>5 DEF SessionStep

\* the row after one more attempt, whichever key it has, on the row as it is
LEMMA AgainKeeps ==
    ASSUME Typed, Bought, NEW u \in Users, NEW k \in Keys, Owner[k] = u,
           k \in Orders => daysAdded[k] > 0,
           NEW outcome \in {"active", "failed"}, daysAdded' = daysAdded,
           subscription' = [subscription EXCEPT ![u] = Attempted(@, @, outcome)],
           Provision(k, subscription[u].days, outcome)
    PROVE  /\ TermsHold' /\ OperationIsForDays' /\ CompletedIsPushed' /\ ActiveIsPushed'
           /\ pushed \subseteq pushed'
           /\ outcome = "active" => Added(u) \subseteq pushed'
<1> DEFINE row == Attempted(subscription[u], subscription[u], outcome)
<1>1. subscription[u] \in SubscriptionRow /\ Row(k) = subscription[u]
  BY DEF Typed, TypeOK, Row
<1>2. /\ row.order = subscription[u].order
      /\ row.days = subscription[u].days
      /\ row.status = outcome
  <2>1. /\ row.order = subscription[u].order
        /\ row.days = subscription[u].days
        /\ row.status = IF outcome = subscription[u].status THEN subscription[u].status
                        ELSE outcome
    BY <1>1, AttemptedTyped
  <2> QED
    BY <2>1
<1>3. subscription' = [subscription EXCEPT ![u] = row]
  OBVIOUS
<1>4. subscription[u].days = Added(u) /\ subscription[u].days \in SUBSET Orders
  BY DEF Bought, TermsHold, Added
<1>5. k \in Orders => k \in subscription[u].days
  BY <1>4 DEF Added
<1>6. /\ CompletedIsPushed'
      /\ pushed \subseteq pushed'
      /\ operation'[k] = IF outcome = "active" THEN "completed" ELSE "failed"
      /\ \A q \in Keys \ {k} : operation'[q] = operation[q]
      /\ \A w \in Users \ {u} : w \in behind => w \in behind'
      /\ outcome = "active" => subscription[u].days \subseteq pushed'
  BY <1>4, <1>5, ProvisionKeeps DEF Bought
<1> HIDE DEF row
<1>7. TermsHold'
  BY <1>2, <1>3, TermsStay DEF Bought
<1>8. OperationIsForDays'
  BY <1>6 DEF Bought, OperationIsForDays, Keys
<1>9. ActiveIsPushed'
  BY <1>2, <1>3, <1>4, <1>6, ActiveAfterPush DEF Bought
<1> QED
  BY <1>4, <1>6, <1>7, <1>8, <1>9

\* no operation failed, so that all orders were applied: the row is made active
LEMMA AppliedIsActive ==
    ASSUME Typed, Bought, NEW u \in Users, NEW k \in RetryKeys(u), operation[k] = "completed",
           subscription' = [subscription EXCEPT ![u] =
                              [@ EXCEPT !.status = "active", !.due = TRUE]],
           UNCHANGED <<daysAdded, operation, pushed, behind>>
    PROVE  /\ TermsHold' /\ OperationIsForDays' /\ CompletedIsPushed' /\ ActiveIsPushed'
           /\ Added(u) \subseteq pushed'
<1> DEFINE row == [subscription[u] EXCEPT !.status = "active", !.due = TRUE]
<1>1. /\ row.order = subscription[u].order
      /\ row.days = subscription[u].days
      /\ row.status = "active"
  BY DEF Typed, TypeOK, SubscriptionRow
<1>2. subscription' = [subscription EXCEPT ![u] = row]
  OBVIOUS
<1>3. Added(u) \subseteq pushed
  <2> SUFFICES ASSUME NEW o \in Added(u) PROVE o \in pushed
    OBVIOUS
  <2>1. o \in Orders /\ Owner[o] = u /\ daysAdded[o] > 0
    BY DEF Added
  <2>2. operation[o] # "failed"
    BY <2>1 DEF RetryKeys, Keys
  <2>3. operation[o] \in {"none", "failed", "completed"}
    BY <2>1 DEF Typed, TypeOK, Keys
  <2> QED
    BY <2>1, <2>2, <2>3 DEF Bought, OperationIsForDays, CompletedIsPushed
<1>4. subscription[u].days = Added(u)
  BY DEF Bought, TermsHold
<1> HIDE DEF row
<1>5. TermsHold'
  BY <1>1, <1>2, TermsStay DEF Bought
<1>6. OperationIsForDays' /\ CompletedIsPushed'
  BY DEF Bought, OperationIsForDays, CompletedIsPushed
<1>7. ActiveIsPushed'
  <2>1. row.days \subseteq pushed'
    BY <1>1, <1>3, <1>4
  <2> QED
    BY <1>2, <2>1, ActiveAfterPush DEF Bought
<1> QED
  BY <1>3, <1>5, <1>6, <1>7

\* the worker's retry of a subscription: nothing is debited or added, and the order that the
\* row names is completed when its days were pushed
LEMMA RetrySettles ==
    ASSUME Typed, Settled, NEW u \in Users, NEW outcome \in {"active", "failed"},
           RetrySubscription(u, outcome)
    PROVE  Kept'
<1> DEFINE o == subscription[u].order
<1>1. PICK k \in RetryKeys(u) : Again(u, k, outcome)
  BY DEF RetrySubscription
<1>2. UNCHANGED <<credit, debit, daysAdded>>
  BY DEF RetrySubscription
<1>3. k \in Keys /\ Owner[k] = u /\ (k \in Orders => daysAdded[k] > 0)
  <2>1. CASE operation[k] = "failed" /\ k \in Keys /\ Owner[k] = u
    BY <2>1 DEF Settled, Bought, OperationIsForDays
  <2>2. CASE k = o /\ k \in Orders
    <3>1. k \in Added(u)
      BY <2>2 DEF Settled, Bought, TermsHold
    <3> QED
      BY <2>2, <3>1 DEF Added, Keys
  <2> QED
    BY <2>1, <2>2 DEF RetryKeys
<1>4. /\ TermsHold' /\ OperationIsForDays' /\ CompletedIsPushed' /\ ActiveIsPushed'
      /\ pushed \subseteq pushed'
      /\ outcome = "active" => Added(u) \subseteq pushed'
  <2>1. CASE /\ subscription' = [subscription EXCEPT ![u] = Attempted(@, @, outcome)]
             /\ Provision(k, subscription[u].days, outcome)
    BY <1>2, <1>3, <2>1, AgainKeeps DEF Settled
  <2>2. CASE /\ operation[k] = "completed"
             /\ subscription' = [subscription EXCEPT ![u] =
                                   [@ EXCEPT !.status = "active", !.due = TRUE]]
             /\ UNCHANGED <<operation, pushed, behind>>
    BY <1>2, <2>2, AppliedIsActive DEF Settled
  <2> QED
    BY <1>1, <2>1, <2>2 DEF Again
<1>5. Bought'
  BY <1>2, <1>4 DEF Settled, Bought, NoDebitOfTopUps, ServedIffDebited
<1>6. OneWalletRowPerKey' /\ CreditedIsSpent'
  BY <1>2 DEF Settled, OneWalletRowPerKey, CreditedIsSpent
<1>7. CompletedIsServed'
  <2> SUFFICES ASSUME NEW q \in Orders, order'[q].status = "completed"
               PROVE  IF q \in TopUps THEN \E n \in 1..MaxPayments : credit'[<<q, n>>] > 0
                      ELSE debit'[q].rows > 0 /\ q \in pushed'
    BY DEF CompletedIsServed
  <2>1. CASE order[q].status = "completed"
    BY <1>2, <1>4, <2>1 DEF Settled, CompletedIsServed
  <2>2. CASE order[q].status # "completed"
    <3>1. q = o /\ outcome = "active"
      BY <2>2 DEF RetrySubscription, CompleteNamed, Typed, TypeOK
    <3>2. q \in Added(u)
      BY <3>1 DEF Settled, Bought, TermsHold
    <3>3. debit[q].rows > 0 /\ q \notin TopUps
      BY <3>2 DEF Added, Settled, Bought, ServedIffDebited, NoDebitOfTopUps
    <3> QED
      BY <1>2, <1>4, <3>1, <3>2, <3>3
  <2> QED
    BY <2>1, <2>2
<1> QED
  BY <1>5, <1>6, <1>7 DEF Kept

\* a code or a grant pushes the row as it is
LEMMA RedeemSettles ==
    ASSUME Typed, Settled, NEW c \in Codes, NEW outcome \in {"active", "failed"},
           Redeem(c, outcome)
    PROVE  Kept'
<1>1. c \in Keys /\ c \notin Orders /\ Owner[c] \in Users
  BY RowTyped, OrdersAssumption DEF Keys
<1>2. UNCHANGED <<order, credit, debit, daysAdded>>
  BY DEF Redeem, rows
<1>3. /\ TermsHold' /\ OperationIsForDays' /\ CompletedIsPushed' /\ ActiveIsPushed'
      /\ pushed \subseteq pushed'
  BY <1>1, <1>2, AgainKeeps DEF Redeem, Settled
<1> QED
  BY <1>2, <1>3
     DEF Settled, Kept, Bought, NoDebitOfTopUps, ServedIffDebited, OneWalletRowPerKey,
         CreditedIsSpent, CompletedIsServed

\* the retry comes due, or is made due: the rest of the row stays
LEMMA DueSettles ==
    ASSUME Typed, Settled, NEW u \in Users, RetryDue(u) \/ AdminRetry(u)
    PROVE  Kept'
<1>1. /\ subscription'[u].order = subscription[u].order
      /\ subscription'[u].status = subscription[u].status
      /\ subscription'[u].days = subscription[u].days
      /\ \A w \in Users \ {u} : subscription'[w] = subscription[w]
  BY DEF RetryDue, AdminRetry, Typed, TypeOK, SubscriptionRow
<1>2. UNCHANGED <<order, credit, debit, operation, daysAdded, pushed, behind>>
  BY DEF RetryDue, AdminRetry, rows
<1>3. \A w \in Users : /\ subscription'[w].order = subscription[w].order
                       /\ subscription'[w].status = subscription[w].status
                       /\ subscription'[w].days = subscription[w].days
                       /\ Added(w)' = Added(w)
  BY <1>1, <1>2 DEF Added
<1>4. TermsHold' /\ ActiveIsPushed'
  BY <1>2, <1>3 DEF Settled, Bought, TermsHold, ActiveIsPushed
<1> QED
  BY <1>2, <1>4
     DEF Settled, Kept, Bought, NoDebitOfTopUps, ServedIffDebited, OperationIsForDays,
         CompletedIsPushed, OneWalletRowPerKey, CreditedIsSpent, CompletedIsServed

\* the worker and the administrator at a subscription
LEMMA UserStepSettles ==
    ASSUME Typed, Settled, NEW u \in Users, UserStep(u)
    PROVE  Kept'
<1>1. ASSUME NEW outcome \in {"active", "failed"}, RetrySubscription(u, outcome)
      PROVE  Kept'
  BY <1>1, RetrySettles
<1>2. CASE RetryDue(u) \/ AdminRetry(u)
  BY <1>2, DueSettles
<1> QED
  BY <1>1, <1>2 DEF UserStep

\* nothing was credited, debited or served at first
LEMMA InitSettled == Init => Settled
<1> SUFFICES ASSUME Init PROVE Settled
  OBVIOUS
<1>1. \A u \in Users : Added(u) = {}
  BY DEF Init, Added
<1>2. NoDebitOfTopUps /\ ServedIffDebited
  BY OrdersAssumption DEF Init, NoDebitOfTopUps, ServedIffDebited
<1>3. TermsHold /\ ActiveIsPushed
  <2>1. \A u \in Users : subscription[u] = NoRow
    BY DEF Init
  <2>2. NoRow.order \notin Orders /\ NoRow.days = {} /\ NoRow.status = "none"
    BY OrdersAssumption DEF NoRow
  <2> QED
    BY <1>1, <2>1, <2>2 DEF TermsHold, ActiveIsPushed
<1>4. OperationIsForDays /\ CompletedIsPushed
  BY DEF Init, OperationIsForDays, CompletedIsPushed, Keys
<1> QED
  BY <1>2, <1>3, <1>4 DEF Init, Settled, Bought, HeldIsOlder, OneWalletRowPerKey, CreditedIsSpent,
              CompletedIsServed

\* every step keeps the invariant, but for what the sessions hold
LEMMA NextKept == Typed /\ Settled /\ [Next]_vars => Kept'
<1> SUFFICES ASSUME Typed, Settled, [Next]_vars PROVE Kept'
  OBVIOUS
<1>1. CASE UNCHANGED vars
  <2>1. UNCHANGED <<credit, debit, goods>> /\ order' = order
    BY <1>1 DEF vars, goods
  <2> QED
    BY <2>1, QuietStep
<1>2. ASSUME NEW o \in Orders, OrderStep(o) PROVE Kept'
  BY <1>2, OrderStepSettles
<1>3. ASSUME NEW p \in Payments, PaymentStep(p) PROVE Kept'
  BY <1>3, PaymentStepSettles
<1>4. ASSUME NEW n \in notice, NoticeStep(n) PROVE Kept'
  BY <1>4, NoticeStepSettles
<1>5. ASSUME NEW s \in session, SessionStep(s) PROVE Kept'
  BY <1>5, SessionStepSettles
<1>6. ASSUME NEW u \in Users, UserStep(u) PROVE Kept'
  BY <1>6, UserStepSettles
<1>7. ASSUME NEW c \in Codes, NEW outcome \in {"active", "failed"}, Redeem(c, outcome)
      PROVE  Kept'
  BY <1>7, RedeemSettles
<1> QED
  BY <1>1, <1>2, <1>3, <1>4, <1>5, <1>6, <1>7 DEF Next

-----------------------------------------------------------------------------
(* What the worker's sessions hold *)

\* days are never taken back
DaysStay == \A o \in Orders : daysAdded[o] > 0 => daysAdded'[o] > 0

LEMMA ExtendDaysStay ==
    ASSUME Typed, NEW o \in Orders, NEW held, NEW outcome, Extend(o, held, outcome)
    PROVE  DaysStay
BY DEF Extend, ActivateAgain, AddDays, goods, DaysStay, Typed, TypeOK

LEMMA ConfirmDaysStay ==
    ASSUME Typed, NEW p \in Payments, NEW seen, NEW held, NEW result,
           Confirm(p, seen, held, result)
    PROVE  DaysStay
<1>1. CASE UNCHANGED goods
  BY <1>1 DEF goods, DaysStay
<1>2. CASE ConfirmPurchase(p, seen, held, result)
  BY <1>2, ExtendDaysStay DEF ConfirmPurchase, Purchase, Payments
<1> QED
  BY <1>1, <1>2 DEF Confirm, ConfirmRepeated, ConfirmRefused, ConfirmTopUp

LEMMA NextDaysStay == Typed /\ [Next]_vars => DaysStay
<1> SUFFICES ASSUME Typed, [Next]_vars PROVE DaysStay
  OBVIOUS
<1>0. UNCHANGED daysAdded => DaysStay
  BY DEF DaysStay
<1>1. CASE UNCHANGED vars
  BY <1>0, <1>1 DEF vars
<1>2. ASSUME NEW o \in Orders, OrderStep(o) PROVE DaysStay
  <2>1. CASE PurchaseFromBalance(o)
    BY <1>0, <2>1, ExtendDaysStay DEF PurchaseFromBalance, Purchase, goods
  <2>2. CASE ~PurchaseFromBalance(o)
    BY <1>0, <1>2, <2>2
       DEF OrderStep, CreateOrder, ApplyPromo, CreatePayment, CreatePaymentLost,
           CreateTopUp, LoadCheck, LoadCancel, LoadShortfall, Load, goods
  <2> QED
    BY <2>1, <2>2
<1>3. ASSUME NEW p \in Payments, PaymentStep(p) PROVE DaysStay
  BY <1>0, <1>3
     DEF PaymentStep, ProviderPay, ProviderCancel, Notify, LoadRetry, Load, goods
<1>4. ASSUME NEW n \in notice, NoticeStep(n) PROVE DaysStay
  <2>1. n.pay \in Payments
    BY DEF Typed, TypeOK, Notice
  <2> QED
    BY <1>0, <1>4, <2>1, ConfirmDaysStay
       DEF NoticeStep, ConfirmWebhook, DropNotice, RecordStatus, goods
<1>5. ASSUME NEW s \in session, SessionStep(s) PROVE DaysStay
  <2>0. s \in Session
    BY DEF Typed, TypeOK
  <2>1. CASE CheckApply(s)
    <3>1. s.pay \in Payments
      BY <2>0, <2>1 DEF CheckApply, Session
    <3> QED
      BY <1>0, <2>1, <3>1, ConfirmDaysStay DEF CheckApply, goods
  <2>2. CASE RetryApply(s)
    <3>1. s.pay \in Payments
      BY <2>0, <2>2 DEF RetryApply, Session
    <3> QED
      BY <2>2, <3>1, ConfirmDaysStay DEF RetryApply
  <2>3. CASE ShortfallApply(s)
    <3>1. s.order \in Orders
      BY <2>0, <2>3 DEF ShortfallApply, Session
    <3> QED
      BY <1>0, <2>3, <3>1, ExtendDaysStay DEF ShortfallApply, Purchase, goods
  <2>4. CASE Abandon(s) \/ CancelApply(s)
    BY <1>0, <2>4 DEF Abandon, CancelApply, goods
  <2> QED
    BY <1>5, <2>1, <2>2, <2>3, <2>4 DEF SessionStep
<1>6. ASSUME NEW u \in Users, UserStep(u) PROVE DaysStay
  BY <1>0, <1>6 DEF UserStep, RetrySubscription, RetryDue, AdminRetry
<1>7. ASSUME NEW c \in Codes, NEW outcome, Redeem(c, outcome) PROVE DaysStay
  BY <1>0, <1>7 DEF Redeem
<1> QED
  BY <1>1, <1>2, <1>3, <1>4, <1>5, <1>6, <1>7 DEF Next

\* only the worker's first read makes a session of the worker
NewSessions ==
    \A s \in session' : s \in session \/ s.by # "worker" \/ \E p \in Payments :
        s.pay = p /\ s.held = FoundFor(p[1]) /\ UNCHANGED <<subscription, daysAdded>>

LEMMA NextNewSessions == Typed /\ [Next]_vars => NewSessions
<1> SUFFICES ASSUME Typed, [Next]_vars PROVE NewSessions
  OBVIOUS
<1>0. session' \subseteq session => NewSessions
  BY DEF NewSessions
<1>1. CASE UNCHANGED vars
  BY <1>0, <1>1 DEF vars
<1>2. ASSUME NEW o \in Orders, OrderStep(o) PROVE NewSessions
  <2>1. CASE LoadCheck(o) \/ LoadCancel(o) \/ LoadShortfall(o)
    BY <2>1 DEF LoadCheck, LoadCancel, LoadShortfall, Load, NewSessions
  <2>2. CASE ~(LoadCheck(o) \/ LoadCancel(o) \/ LoadShortfall(o))
    BY <1>0, <1>2, <2>2
       DEF OrderStep, CreateOrder, ApplyPromo, CreatePayment, CreatePaymentLost,
           CreateTopUp, PurchaseFromBalance
  <2> QED
    BY <2>1, <2>2
<1>3. ASSUME NEW p \in Payments, PaymentStep(p) PROVE NewSessions
  <2>1. CASE LoadRetry(p)
    BY <2>1 DEF LoadRetry, Load, NewSessions, goods
  <2>2. CASE ~LoadRetry(p)
    BY <1>0, <1>3, <2>2 DEF PaymentStep, ProviderPay, ProviderCancel, Notify
  <2> QED
    BY <2>1, <2>2
<1>4. ASSUME NEW n \in notice, NoticeStep(n) PROVE NewSessions
  BY <1>0, <1>4 DEF NoticeStep, ConfirmWebhook, DropNotice, RecordStatus
<1>5. ASSUME NEW s \in session, SessionStep(s) PROVE NewSessions
  BY <1>0, <1>5 DEF SessionStep, Abandon, CheckApply, RetryApply, CancelApply, ShortfallApply
<1>6. ASSUME NEW u \in Users, UserStep(u) PROVE NewSessions
  BY <1>0, <1>6 DEF UserStep, RetrySubscription, RetryDue, AdminRetry
<1>7. ASSUME NEW c \in Codes, NEW outcome, Redeem(c, outcome) PROVE NewSessions
  BY <1>0, <1>7 DEF Redeem
<1> QED
  BY <1>1, <1>2, <1>3, <1>4, <1>5, <1>6, <1>7 DEF Next

\* what a session holds stays older than the row, whose term only grows
LEMMA NextHeldIsOlder ==
    ASSUME Typed, Typed', Settled, Bought', DaysStay, NewSessions
    PROVE  HeldIsOlder'
<1> SUFFICES ASSUME NEW s \in session', s.by = "worker", s.held.status # "none"
             PROVE  IsOlder(s.pay[1], s.held)'
  BY DEF HeldIsOlder
<1> DEFINE o == s.pay[1]
<1>0. s \in Session /\ o \in Orders /\ Owner[o] \in Users
  BY OrdersAssumption DEF Typed, TypeOK, Session, Payments
<1>1. Row(o).days = Added(Owner[o]) /\ Row(o)'.days = Added(Owner[o])'
  BY <1>0 DEF Settled, Bought, TermsHold, Row
<1>2. Row(o).days \subseteq Row(o)'.days
  BY <1>1 DEF Added, DaysStay
<1>3. /\ s.held.order = o
      /\ o \in s.held.days
      /\ s.held.days \subseteq Row(o).days
  <2>1. CASE s \in session
    BY <2>1 DEF Settled, HeldIsOlder, IsOlder
  <2>2. CASE s.held = FoundFor(o)
    <3>1. Row(o).order = o /\ s.held = Row(o)
      BY <2>2 DEF FoundFor, NoRow
    <3>2. o \in Added(Owner[o])
      BY <1>0, <3>1 DEF Settled, Bought, TermsHold, Row
    <3> QED
      BY <1>1, <3>1, <3>2
  <2> QED
    BY <2>1, <2>2 DEF NewSessions
<1> QED
  BY <1>2, <1>3 DEF IsOlder

\* every step keeps the invariant
LEMMA NextSettled == Typed /\ Typed' /\ Settled /\ [Next]_vars => Settled'
BY NextKept, NextDaysStay, NextNewSessions, NextHeldIsOlder DEF Kept, Settled

\* Whatever webhooks, buttons, workers and administrators do, in any order: debits and
\* days agree, credits were spent, and completed orders were served.
THEOREM AlwaysSettled == Spec => []Settled
BY AlwaysTyped, InitSettled, NextSettled, PTL DEF Spec

\* A payment is credited once, and an order debited once.
THEOREM RowsOnce == Spec => []OneWalletRowPerKey
BY AlwaysSettled, PTL DEF Settled

\* The days of an order are added if and only if it was debited.
THEOREM ServedExactly == Spec => []ServedIffDebited
BY AlwaysSettled, PTL DEF Settled, Bought

\* A payment of a subscription order that reached the wallet has bought the order.
THEOREM CreditsAreSpent == Spec => []CreditedIsSpent
BY AlwaysSettled, PTL DEF Settled

\* A completed order was debited and its days were pushed to the panel, whichever operation
\* the worker completed it by; or it is a credited top-up.
THEOREM CompletedIsTrue == Spec => []CompletedIsServed
BY AlwaysSettled, PTL DEF Settled

\* A subscription that reads active has all its debited orders on the panel, the displaced
\* ones too, unless the worker pushed an older term over it.
THEOREM BoughtIsPushed == Spec => []ActiveHasBought
<1>1. Typed /\ Settled => ActiveHasBought
  <2> SUFFICES ASSUME Typed, Settled, NEW o \in Orders, debit[o].rows > 0,
                      Row(o).status = "active"
               PROVE  o \in pushed \/ Owner[o] \in behind
    BY DEF ActiveHasBought
  <2>1. Owner[o] \in Users /\ o \in Added(Owner[o])
    BY OrdersAssumption DEF Settled, Bought, ServedIffDebited, Added
  <2> QED
    BY <2>1 DEF Settled, Bought, TermsHold, ActiveIsPushed, Row
<1> QED
  BY <1>1, AlwaysTyped, AlwaysSettled, PTL

-----------------------------------------------------------------------------
(* Promo codes *)


\* the usages are finitely many
LEMMA UsesAreFinite ==
    ASSUME Typed
    PROVE  /\ IsFiniteSet(promoUse)
           /\ \A u \in Users : IsFiniteSet({o \in promoUse : Owner[o] = u})
<1>1. IsFiniteSet(promoUse)
  BY FS_Subset, OrdersAssumption DEF Typed, TypeOK
<1>2. ASSUME NEW u \in Users
      PROVE  IsFiniteSet({o \in promoUse : Owner[o] = u})
  <2>1. {o \in promoUse : Owner[o] = u} \subseteq promoUse
    OBVIOUS
  <2> QED
    BY <1>1, <2>1, FS_Subset
<1> QED
  BY <1>1, <1>2

\* a usage is written within the limits: of the code, and of the owner of the order
LEMMA UseIsWithinLimits ==
    ASSUME Typed, DiscountWithinLimits, NEW o \in Orders, o \notin promoUse,
           ~Exhausted(Owner[o]), promoUse' = promoUse \cup {o}
    PROVE  /\ Cardinality(promoUse') <= MaxUses
           /\ \A u \in Users : Cardinality({q \in promoUse' : Owner[q] = u}) <= PerUserLimit
<1> USE UsesAreFinite
<1>1. Cardinality(promoUse') <= MaxUses
  <2>1. Cardinality(promoUse') = Cardinality(promoUse) + 1
    BY FS_AddElement
  <2>2. Cardinality(promoUse) \in Nat /\ ~(Cardinality(promoUse) >= MaxUses)
    BY FS_CardinalityType DEF Exhausted, UsedUpBy
  <2> QED
    BY <2>1, <2>2, BoundsAssumption
<1>2. ASSUME NEW u \in Users
      PROVE  Cardinality({q \in promoUse' : Owner[q] = u}) <= PerUserLimit
  <2> DEFINE S == {q \in promoUse : Owner[q] = u}
  <2>1. IsFiniteSet(S) /\ Cardinality(S) \in Nat
    BY FS_CardinalityType
  <2>2. CASE Owner[o] = u
    <3>1. {q \in promoUse' : Owner[q] = u} = S \cup {o} /\ o \notin S
      BY <2>2
    <3>2. ~(Cardinality(S) >= PerUserLimit)
      BY <2>2 DEF Exhausted, UsedUpBy
    <3>3. Cardinality(S \cup {o}) = Cardinality(S) + 1
      BY <2>1, <3>1, FS_AddElement
    <3> HIDE DEF S
    <3>4. Cardinality(S \cup {o}) <= PerUserLimit
      BY <2>1, <3>2, <3>3, BoundsAssumption
    <3> QED
      BY <3>1, <3>4, Zenon
  <2>3. CASE Owner[o] # u
    <3>1. {q \in promoUse' : Owner[q] = u} = S
      BY <2>3
    <3> QED
      BY <3>1 DEF DiscountWithinLimits
  <2> QED
    BY <2>2, <2>3
<1> QED
  BY <1>1, <1>2

\* the usages of an order whose discount is consumed, whatever was debited before
LEMMA ConsumeKeepsLimits ==
    ASSUME Typed, DiscountWithinLimits, NEW o \in Orders, NEW seen \in OrderRow,
           Consumable(o, seen), promoUse' = Consumed(o, seen)
    PROVE  /\ Cardinality(promoUse') <= MaxUses
           /\ \A u \in Users : Cardinality({q \in promoUse' : Owner[q] = u}) <= PerUserLimit
           /\ promoUse \subseteq promoUse'
           /\ seen.promo => o \in promoUse'
<1>1. CASE seen.promo /\ o \notin promoUse
  <2>1. ~Exhausted(Owner[o]) /\ promoUse' = promoUse \cup {o}
    BY <1>1 DEF Consumable, Consumed
  <2> QED
    BY <1>1, <2>1, UseIsWithinLimits
<1>2. CASE ~seen.promo \/ o \in promoUse
  <2>1. promoUse' = promoUse
    BY <1>2 DEF Consumed
  <2> QED
    BY <1>2, <2>1 DEF DiscountWithinLimits
<1> QED
  BY <1>1, <1>2

\* a purchase at the discount has its usage
LEMMA PurchaseKeepsLimits ==
    ASSUME Typed, DiscountWithinLimits, NEW o \in Orders, NEW seen \in OrderRow,
           NEW held, NEW outcome, Purchase(o, seen, held, outcome)
    PROVE  DiscountWithinLimits'
<1>1. /\ Cardinality(promoUse') <= MaxUses
      /\ \A u \in Users : Cardinality({q \in promoUse' : Owner[q] = u}) <= PerUserLimit
      /\ promoUse \subseteq promoUse'
      /\ seen.promo => o \in promoUse'
  BY ConsumeKeepsLimits DEF Purchase
<1>2. \A q \in Orders : debit'[q].rows > 0 /\ debit'[q].promo => q \in promoUse'
  <2>1. CASE UNCHANGED debit
    BY <1>1, <2>1 DEF DiscountWithinLimits
  <2>2. CASE debit' = [debit EXCEPT ![o] = [rows |-> 1, promo |-> seen.promo]]
    BY <1>1, <2>2 DEF DiscountWithinLimits, Typed, TypeOK
  <2> QED
    BY <2>1, <2>2 DEF Purchase
<1> QED
  BY <1>1, <1>2 DEF DiscountWithinLimits

\* money is short: the usage is committed without a debit
LEMMA ShortfallKeepsLimits ==
    ASSUME Typed, DiscountWithinLimits, NEW o \in Orders, NEW seen \in OrderRow,
           Shortfall(o, seen), debit' = debit
    PROVE  DiscountWithinLimits'
<1>1. /\ Cardinality(promoUse') <= MaxUses
      /\ \A u \in Users : Cardinality({q \in promoUse' : Owner[q] = u}) <= PerUserLimit
      /\ promoUse \subseteq promoUse'
  BY ConsumeKeepsLimits DEF Shortfall
<1> QED
  BY <1>1 DEF DiscountWithinLimits

\* a step that writes neither debits nor usages
LEMMA UnusedKeepsLimits ==
    ASSUME DiscountWithinLimits, UNCHANGED <<debit, promoUse>>
    PROVE  DiscountWithinLimits'
BY DEF DiscountWithinLimits

\* a confirmation writes them by a purchase only
LEMMA ConfirmKeepsLimits ==
    ASSUME Typed, DiscountWithinLimits, NEW p \in Payments, NEW seen \in OrderRow,
           NEW held, NEW result, Confirm(p, seen, held, result)
    PROVE  DiscountWithinLimits'
<1>0. p[1] \in Orders
  BY DEF Payments
<1>1. CASE ConfirmPurchase(p, seen, held, result)
  BY <1>0, <1>1, PurchaseKeepsLimits DEF ConfirmPurchase
<1>2. CASE \/ ConfirmRepeated(p, seen, result)
           \/ ConfirmRefused(p, seen, result)
           \/ ConfirmTopUp(p, seen, result)
  BY <1>2, UnusedKeepsLimits DEF ConfirmRepeated, ConfirmRefused, ConfirmTopUp, rows
<1> QED
  BY <1>1, <1>2 DEF Confirm

-----------------------------------------------------------------------------
\* what is done to an order outside of a session
LEMMA OrderStepKeepsLimits ==
    ASSUME Typed, DiscountWithinLimits, NEW o \in Orders, OrderStep(o)
    PROVE  DiscountWithinLimits'
<1>0. order[o] \in OrderRow
  BY DEF Typed, TypeOK
<1>1. CASE PurchaseFromBalance(o)
  BY <1>0, <1>1, PurchaseKeepsLimits, ShortfallKeepsLimits DEF PurchaseFromBalance
<1>2. CASE \/ CreateOrder(o) \/ ApplyPromo(o) \/ CreatePayment(o) \/ CreatePaymentLost(o)
           \/ CreateTopUp(o) \/ LoadCheck(o) \/ LoadCancel(o) \/ LoadShortfall(o)
  BY <1>2, UnusedKeepsLimits
     DEF CreateOrder, ApplyPromo, CreatePayment, CreatePaymentLost, CreateTopUp, LoadCheck,
         LoadCancel, LoadShortfall, Load, rows
<1> QED
  BY <1>1, <1>2 DEF OrderStep

\* the end of a webhook
LEMMA NoticeStepKeepsLimits ==
    ASSUME Typed, DiscountWithinLimits, NEW n \in notice, NoticeStep(n)
    PROVE  DiscountWithinLimits'
<1>0. n.pay \in Payments /\ order[n.pay[1]] \in OrderRow
  BY DEF Typed, TypeOK, Notice, Payments
<1>1. CASE ConfirmWebhook(n)
  BY <1>0, <1>1, ConfirmKeepsLimits DEF ConfirmWebhook
<1>2. CASE DropNotice(n) \/ RecordStatus(n)
  BY <1>2, UnusedKeepsLimits DEF DropNotice, RecordStatus, rows
<1> QED
  BY <1>1, <1>2 DEF NoticeStep

\* the end of a transaction that began with a read of the order
LEMMA SessionStepKeepsLimits ==
    ASSUME Typed, DiscountWithinLimits, NEW s \in session, SessionStep(s)
    PROVE  DiscountWithinLimits'
<1>0. s \in Session /\ s.seen \in OrderRow
  BY DEF Typed, TypeOK, Session
<1>1. CASE CheckApply(s)
  <2>1. s.pay \in Payments
    BY <1>0, <1>1 DEF CheckApply, Session
  <2> QED
    BY <1>0, <1>1, <2>1, ConfirmKeepsLimits, UnusedKeepsLimits DEF CheckApply
<1>2. CASE RetryApply(s)
  <2>1. s.pay \in Payments
    BY <1>0, <1>2 DEF RetryApply, Session
  <2> QED
    BY <1>0, <1>2, <2>1, ConfirmKeepsLimits DEF RetryApply
<1>3. CASE ShortfallApply(s)
  <2>1. s.order \in Orders
    BY <1>0, <1>3 DEF ShortfallApply, Session
  <2> QED
    BY <1>0, <1>3, <2>1, PurchaseKeepsLimits, ShortfallKeepsLimits DEF ShortfallApply
<1>4. CASE Abandon(s) \/ CancelApply(s)
  BY <1>4, UnusedKeepsLimits DEF Abandon, CancelApply, rows
<1> QED
  BY <1>1, <1>2, <1>3, <1>4 DEF SessionStep

\* the provider, and who works at a subscription, uses no code
LEMMA OtherStepKeepsLimits ==
    ASSUME DiscountWithinLimits,
           \/ \E p \in Payments : PaymentStep(p)
           \/ \E u \in Users : UserStep(u)
           \/ \E c \in Codes, outcome \in {"active", "failed"} : Redeem(c, outcome)
           \/ UNCHANGED vars
    PROVE  DiscountWithinLimits'
<1>1. UNCHANGED <<debit, promoUse>>
  BY DEF PaymentStep, ProviderPay, ProviderCancel, Notify, LoadRetry, Load, UserStep,
         RetrySubscription, RetryDue, AdminRetry, Redeem, rows, vars
<1> QED
  BY <1>1, UnusedKeepsLimits

\* no code was used at first
LEMMA InitKeepsLimits == Init => DiscountWithinLimits
<1> SUFFICES ASSUME Init PROVE DiscountWithinLimits
  OBVIOUS
<1>1. promoUse = {} /\ \A u \in Users : {o \in promoUse : Owner[o] = u} = {}
  BY DEF Init
<1>2. \A o \in Orders : debit[o].rows = 0
  BY DEF Init
<1> QED
  BY <1>1, <1>2, FS_EmptySet, BoundsAssumption DEF DiscountWithinLimits

\* every step keeps the limits
LEMMA NextKeepsLimits == Typed /\ DiscountWithinLimits /\ [Next]_vars => DiscountWithinLimits'
<1> SUFFICES ASSUME Typed, DiscountWithinLimits, [Next]_vars PROVE DiscountWithinLimits'
  OBVIOUS
<1>1. ASSUME NEW o \in Orders, OrderStep(o) PROVE DiscountWithinLimits'
  BY <1>1, OrderStepKeepsLimits
<1>2. ASSUME NEW n \in notice, NoticeStep(n) PROVE DiscountWithinLimits'
  BY <1>2, NoticeStepKeepsLimits
<1>3. ASSUME NEW s \in session, SessionStep(s) PROVE DiscountWithinLimits'
  BY <1>3, SessionStepKeepsLimits
<1>4. CASE \/ \E p \in Payments : PaymentStep(p)
           \/ \E u \in Users : UserStep(u)
           \/ \E c \in Codes, outcome \in {"active", "failed"} : Redeem(c, outcome)
           \/ UNCHANGED vars
  BY <1>4, OtherStepKeepsLimits
<1> QED
  BY <1>1, <1>2, <1>3, <1>4 DEF Next

\* A discount is bought with a usage of the code, and usages keep within the limits of the
\* code and of each user, though a code is applied to orders long before it is used.
THEOREM LimitsHold == Spec => []DiscountWithinLimits
BY AlwaysTyped, InitKeepsLimits, NextKeepsLimits, PTL DEF Spec
=============================================================================
