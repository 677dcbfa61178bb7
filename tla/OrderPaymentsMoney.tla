------------------------- MODULE OrderPaymentsMoney -------------------------
(***************************************************************************)
(* Between the provider and the rows of OrderPayments: what is credited    *)
(* was paid, what is paid stays paid, and an order has one payment that    *)
(* can be paid, for every set of users and orders and for every bound.     *)
(***************************************************************************)
EXTENDS OrderPaymentsSafety

\* an order that takes no further payment
Past(o) == order[o].status \in {"processing", "completed", "cancelled"}

\* paid and cancelled are final at the provider, and written down as fetched
RowsAreTrue ==
    /\ \A p \in Payments : payment[p].status \in {"paid", "cancelled"} =>
         provider[p].status = payment[p].status
    /\ \A n \in notice : n.status \in {"paid", "cancelled"} =>
         provider[n.pay].status = n.status

\* a wallet row comes with a paid payment
CreditedIsPaid == \A p \in Payments : credit[p] > 0 => payment[p].status = "paid"

\* an order takes no payment any more once one was paid
PaidIsPast == \A p \in Payments : payment[p].status = "paid" => Past(p[1])

\* an order that a handler saw in use is in use
SeenIsPast ==
    \A s \in session : s.by \in {"check", "worker"} =>
        /\ s.seen.status \in {"processing", "completed", "cancelled"} => Past(s.pay[1])
        /\ s.by = "worker" => payment[s.pay].status = "paid"

\* an order without a row has no payments
NewIsUnpaid ==
    \A o \in Orders : order[o].status = "none" =>
        \A n \in 1..MaxPayments : payment[<<o, n>>].status = "none"

\* attempts are made one after the other, and the provider knows of one more at most
AttemptsFollow ==
    \A o \in Orders : \E k \in 0..MaxPayments :
        \A n \in 1..MaxPayments :
            /\ payment[<<o, n>>].status # "none" <=> n <= k
            /\ provider[<<o, n>>].status # "none" => n <= k + 1

Collected ==
    /\ RowsAreTrue
    /\ CreditedIsPaid
    /\ PaidIsPast
    /\ SeenIsPast
    /\ NewIsUnpaid
    /\ AttemptsFollow
    /\ OneLiveInvoice

\* what a step may never do: take a paid payment back
PaidStays == \A p \in Payments : payment[p].status = "paid" => payment'[p].status = "paid"

-----------------------------------------------------------------------------
\* a step that makes no attempt: the provider goes forward, rows repeat what it said, a
\* payment that is marked paid is of an order that takes no further payment
LEMMA SteadyStep ==
    ASSUME Typed, Collected,
           \A p \in Payments : payment'[p].status # "none" <=> payment[p].status # "none",
           \A p \in Payments :
             \/ provider'[p].status = provider[p].status
             \/ provider[p].status = "pending" /\ provider'[p].status \in {"paid", "cancelled"},
           \A o \in Orders : Past(o) => Past(o)',
           \A o \in Orders : order'[o].status = "none" => order[o].status = "none",
           \A p \in Payments : payment'[p].status = "paid" =>
             payment[p].status = "paid" \/ (provider[p].status = "paid" /\ Past(p[1])'),
           \A p \in Payments : payment'[p].status = "cancelled" =>
             payment[p].status = "cancelled" \/ provider[p].status = "cancelled",
           PaidStays,
           \A p \in Payments : credit'[p] > 0 => credit[p] > 0 \/ payment'[p].status = "paid",
           \A n \in notice' : n \in notice
             \/ (n.pay \in Payments /\ n.status = provider[n.pay].status),
           \A s \in session' : s \in session
             \/ (s.by \in {"check", "worker"} =>
                   /\ s.pay \in Payments
                   /\ s.seen = order[s.pay[1]]
                   /\ s.by = "worker" => payment[s.pay].status = "paid")
    PROVE  Collected'
<1>1. RowsAreTrue'
  BY DEF Collected, RowsAreTrue, Typed, TypeOK, Notice
<1>2. CreditedIsPaid'
  BY DEF Collected, CreditedIsPaid, PaidStays
<1>3. PaidIsPast'
  BY DEF Collected, PaidIsPast, Payments
<1>4. SeenIsPast'
  <2> SUFFICES ASSUME NEW s \in session', s.by \in {"check", "worker"}
               PROVE  /\ s.seen.status \in {"processing", "completed", "cancelled"} =>
                           Past(s.pay[1])'
                      /\ s.by = "worker" => payment'[s.pay].status = "paid"
    BY DEF SeenIsPast
  <2>1. CASE s \in session
    <3>1. s.pay \in Payments /\ s.pay[1] \in Orders
      BY <2>1 DEF Typed, TypeOK, Session, Payments
    <3> QED
      BY <2>1, <3>1 DEF Collected, SeenIsPast, PaidStays
  <2>2. CASE /\ s.pay \in Payments
             /\ s.seen = order[s.pay[1]]
             /\ s.by = "worker" => payment[s.pay].status = "paid"
    <3>1. s.pay[1] \in Orders
      BY <2>2 DEF Payments
    <3> QED
      BY <2>2, <3>1 DEF Past, PaidStays
  <2> QED
    BY <2>1, <2>2
<1>5. NewIsUnpaid'
  BY DEF Collected, NewIsUnpaid, Payments
<1>6. AttemptsFollow'
  BY DEF Collected, AttemptsFollow, Payments
<1>7. OneLiveInvoice'
  BY DEF Collected, OneLiveInvoice
<1> QED
  BY <1>1, <1>2, <1>3, <1>4, <1>5, <1>6, <1>7 DEF Collected

\* the number of attempts made is what NextAttempt counts from
LEMMA AttemptsCounted ==
    ASSUME NEW o \in Orders, NEW k \in 0..MaxPayments,
           \A n \in 1..MaxPayments : payment[<<o, n>>].status # "none" <=> n <= k
    PROVE  Cardinality(Made(o)) = k
<1>1. Made(o) = 1..k
  BY BoundsAssumption DEF Made
<1>2. CASE k = 0
  BY <1>1, <1>2, FS_EmptySet
<1>3. CASE k > 0
  BY <1>1, <1>3, FS_Interval
<1> QED
  BY <1>2, <1>3

\* An invoice for an order without a payment that is open or paid is the only one of it
\* that can be paid: what was made before it is cancelled at the provider.
LEMMA InvoiceIsOnly ==
    ASSUME Typed, Collected, NEW o \in Orders, NEW k \in Nat, k + 1 <= MaxPayments,
           ~Past(o), Open(o) = {},
           \A n \in 1..MaxPayments :
             /\ payment[<<o, n>>].status # "none" <=> n <= k
             /\ provider[<<o, n>>].status # "none" => n <= k + 1,
           NEW promo \in BOOLEAN, Invoiced(<<o, k + 1>>, promo)
    PROVE  /\ OneLiveInvoice'
           /\ \A p \in Payments \ {<<o, k + 1>>} : provider'[p] = provider[p]
           /\ provider[<<o, k + 1>>].status \in {"none", "pending"}
           /\ provider'[<<o, k + 1>>].status = "pending"
           /\ payment[<<o, k + 1>>].status = "none"
<1> USE DEF Typed, TypeOK
<1>1. k + 1 \in 1..MaxPayments /\ <<o, k + 1>> \in Payments
  BY BoundsAssumption DEF Payments
<1>2. payment[<<o, k + 1>>].status = "none"
  BY <1>1
<1>3. /\ \A p \in Payments \ {<<o, k + 1>>} : provider'[p] = provider[p]
      /\ provider[<<o, k + 1>>].status \in {"none", "pending"}
      /\ provider'[<<o, k + 1>>].status = "pending"
  BY <1>1 DEF Invoiced
<1>4. \A n \in 1..MaxPayments : n # k + 1 =>
        provider[<<o, n>>].status \notin {"pending", "paid"}
  <2> SUFFICES ASSUME NEW n \in 1..MaxPayments, n # k + 1
               PROVE  provider[<<o, n>>].status \notin {"pending", "paid"}
    OBVIOUS
  <2>1. CASE n > k + 1
    BY <2>1
  <2>2. CASE n <= k
    <3>1. <<o, n>> \in Payments /\ payment[<<o, n>>] \in PaymentRow
      BY DEF Payments
    <3>2. payment[<<o, n>>].status \notin {"none", "pending"}
      BY <2>2 DEF Open
    <3>3. payment[<<o, n>>].status # "paid"
      BY <3>1 DEF Collected, PaidIsPast
    <3>4. payment[<<o, n>>].status = "cancelled"
      BY <3>1, <3>2, <3>3 DEF PaymentRow
    <3> QED
      BY <3>1, <3>4 DEF Collected, RowsAreTrue
  <2> QED
    BY <2>1, <2>2, BoundsAssumption
<1>5. \A p \in Payments : p[1] = o /\ p # <<o, k + 1>> =>
        provider[p].status \notin {"pending", "paid"}
  <2> SUFFICES ASSUME NEW p \in Payments, p[1] = o, p # <<o, k + 1>>
               PROVE  provider[p].status \notin {"pending", "paid"}
    OBVIOUS
  <2>1. p = <<o, p[2]>> /\ p[2] \in 1..MaxPayments
    BY DEF Payments
  <2> QED
    BY <1>4, <2>1
<1>6. OneLiveInvoice'
  <2> SUFFICES ASSUME NEW p \in Payments, NEW q \in Payments, p[1] = q[1],
                      provider'[p].status \in {"pending", "paid"},
                      provider'[q].status \in {"pending", "paid"}
               PROVE  p = q
    BY DEF OneLiveInvoice
  <2>1. CASE p[1] = o
    BY <1>3, <1>5, <2>1
  <2>2. CASE p[1] # o
    BY <1>3, <2>2 DEF Collected, OneLiveInvoice
  <2> QED
    BY <2>1, <2>2
<1> QED
  BY <1>2, <1>3, <1>6

\* a step that makes an attempt, whose row is new
LEMMA AttemptStep ==
    ASSUME Typed, Collected, NEW o \in Orders, NEW k \in Nat, k + 1 <= MaxPayments,
           ~Past(o), Open(o) = {},
           \A n \in 1..MaxPayments :
             /\ payment[<<o, n>>].status # "none" <=> n <= k
             /\ provider[<<o, n>>].status # "none" => n <= k + 1,
           NEW promo \in BOOLEAN,
           Invoiced(<<o, k + 1>>, promo),
           NewPayment(<<o, k + 1>>, promo),
           \A q \in Orders \ {o} : order'[q] = order[q],
           order'[o].status # "none",
           credit' = credit, notice' = notice, session' \subseteq session
    PROVE  Collected' /\ PaidStays
<1> USE DEF Typed, TypeOK
<1>1. k + 1 \in 1..MaxPayments /\ <<o, k + 1>> \in Payments
  BY BoundsAssumption DEF Payments
<1>2. /\ OneLiveInvoice'
      /\ \A p \in Payments \ {<<o, k + 1>>} : provider'[p] = provider[p]
      /\ provider[<<o, k + 1>>].status \in {"none", "pending"}
      /\ provider'[<<o, k + 1>>].status = "pending"
      /\ payment[<<o, k + 1>>].status = "none"
  BY InvoiceIsOnly
<1>3. /\ \A p \in Payments \ {<<o, k + 1>>} : payment'[p] = payment[p]
      /\ payment'[<<o, k + 1>>].status = "pending"
  BY <1>1 DEF NewPayment
<1>4. PaidStays
  BY <1>2, <1>3 DEF PaidStays
<1>5. RowsAreTrue'
  <2>1. \A p \in Payments : payment'[p].status \in {"paid", "cancelled"} =>
          provider'[p].status = payment'[p].status
    BY <1>2, <1>3 DEF Collected, RowsAreTrue
  <2>2. \A n \in notice : n.pay \in Payments
    BY DEF Notice
  <2>3. \A n \in notice' : n.status \in {"paid", "cancelled"} =>
          provider'[n.pay].status = n.status
    BY <1>2, <2>2 DEF Collected, RowsAreTrue
  <2> QED
    BY <2>1, <2>3 DEF RowsAreTrue
<1>6. CreditedIsPaid'
  BY <1>4 DEF Collected, CreditedIsPaid, PaidStays
<1>7. \A q \in Orders : Past(q) => Past(q)'
  BY DEF Past
<1>8. PaidIsPast'
  BY <1>3, <1>7 DEF Collected, PaidIsPast, Payments
<1>9. SeenIsPast'
  <2> SUFFICES ASSUME NEW s \in session, s.by \in {"check", "worker"}
               PROVE  /\ s.seen.status \in {"processing", "completed", "cancelled"} =>
                           Past(s.pay[1])'
                      /\ s.by = "worker" => payment'[s.pay].status = "paid"
    BY DEF SeenIsPast
  <2>1. s.pay \in Payments /\ s.pay[1] \in Orders
    BY DEF Session, Payments
  <2> QED
    BY <1>4, <1>7, <2>1 DEF Collected, SeenIsPast, PaidStays
<1>10. NewIsUnpaid'
  BY <1>3 DEF Collected, NewIsUnpaid, Payments
<1>11. AttemptsFollow'
  <2> SUFFICES ASSUME NEW q \in Orders
               PROVE  \E j \in 0..MaxPayments : \A n \in 1..MaxPayments :
                        /\ payment'[<<q, n>>].status # "none" <=> n <= j
                        /\ provider'[<<q, n>>].status # "none" => n <= j + 1
    BY DEF AttemptsFollow
  <2>1. \A n \in 1..MaxPayments : <<q, n>> \in Payments
    BY DEF Payments
  <2>2. CASE q = o
    <3>1. \A n \in 1..MaxPayments :
            /\ payment'[<<q, n>>].status # "none" <=> n <= k + 1
            /\ provider'[<<q, n>>].status # "none" => n <= (k + 1) + 1
      <4> SUFFICES ASSUME NEW n \in 1..MaxPayments
                   PROVE  /\ payment'[<<q, n>>].status # "none" <=> n <= k + 1
                          /\ provider'[<<q, n>>].status # "none" => n <= (k + 1) + 1
        OBVIOUS
      <4>1. CASE n = k + 1
        BY <1>3, <2>2, <4>1
      <4>2. CASE n # k + 1
        <5>1. <<q, n>> # <<o, k + 1>>
          BY <4>2
        <5>2. payment'[<<q, n>>] = payment[<<q, n>>] /\ provider'[<<q, n>>] = provider[<<q, n>>]
          BY <1>2, <1>3, <2>1, <5>1
        <5> QED
          BY <2>2, <4>2, <5>2, BoundsAssumption
      <4> QED
        BY <4>1, <4>2
    <3>2. k + 1 \in 0..MaxPayments
      BY <1>1
    <3> QED
      BY <3>1, <3>2
  <2>3. CASE q # o
    <3>1. \A n \in 1..MaxPayments :
            payment'[<<q, n>>] = payment[<<q, n>>] /\ provider'[<<q, n>>] = provider[<<q, n>>]
      BY <1>2, <1>3, <2>1, <2>3
    <3>2. PICK j \in 0..MaxPayments : \A n \in 1..MaxPayments :
            /\ payment[<<q, n>>].status # "none" <=> n <= j
            /\ provider[<<q, n>>].status # "none" => n <= j + 1
      BY DEF Collected, AttemptsFollow
    <3>3. \A n \in 1..MaxPayments :
            /\ payment'[<<q, n>>].status # "none" <=> n <= j
            /\ provider'[<<q, n>>].status # "none" => n <= j + 1
      BY <3>1, <3>2
    <3> QED
      BY <3>3
  <2> QED
    BY <2>2, <2>3
<1> QED
  BY <1>2, <1>4, <1>5, <1>6, <1>8, <1>9, <1>10, <1>11 DEF Collected

-----------------------------------------------------------------------------
\* an order whose status is set is past, and stays so: a status that the session saw
\* already is not written, but then the order has gone on from it
LEMMA SetStatusIsPast ==
    ASSUME Typed, NEW o \in Orders, NEW seen \in OrderRow,
           NEW status \in {"processing", "completed"}, SetStatus(o, seen, status)
    PROVE  /\ (seen.status = status /\ ~Past(o)) \/ Past(o)'
           /\ \A q \in Orders : Past(q) => Past(q)'
           /\ \A q \in Orders : order'[q].status = "none" => order[q].status = "none"
BY DEF SetStatus, Written, Past, Typed, TypeOK, OrderRow

\* a purchase sets the status of its order
LEMMA PurchaseIsPast ==
    ASSUME Typed, NEW o \in Orders, NEW seen \in OrderRow, NEW held, NEW outcome,
           Purchase(o, seen, held, outcome)
    PROVE  /\ (seen.status \in {"processing", "completed"} /\ ~Past(o)) \/ Past(o)'
           /\ \A q \in Orders : Past(q) => Past(q)'
           /\ \A q \in Orders : order'[q].status = "none" => order[q].status = "none"
<1>1. SetStatus(o, seen, IF outcome = "active" THEN "completed" ELSE "processing")
  BY DEF Purchase
<1>2. SetStatus(o, seen, "completed") \/ SetStatus(o, seen, "processing")
  BY <1>1
<1>3. CASE SetStatus(o, seen, "completed")
  BY <1>3, SetStatusIsPast
<1>4. CASE SetStatus(o, seen, "processing")
  BY <1>4, SetStatusIsPast
<1> QED
  BY <1>2, <1>3, <1>4

\* the row of a payment that is marked paid
LEMMA MarkPaidMarks ==
    ASSUME Typed, NEW p \in Payments, payment[p].status # "none", NEW processed,
           MarkPaid(p, processed)
    PROVE  /\ payment'[p].status = "paid"
           /\ \A q \in Payments \ {p} : payment'[q] = payment[q]
BY DEF MarkPaid, Typed, TypeOK

\* a confirmation of a payment that the provider was paid for
LEMMA ConfirmForward ==
    ASSUME Typed, NEW p \in Payments, NEW seen \in OrderRow, NEW held, NEW result,
           Confirm(p, seen, held, result),
           seen.status \in {"processing", "completed", "cancelled"} => Past(p[1])
    PROVE  /\ \A q \in Payments : payment'[q].status # "none" <=> payment[q].status # "none"
           /\ \A q \in Orders : Past(q) => Past(q)'
           /\ \A q \in Orders : order'[q].status = "none" => order[q].status = "none"
           /\ \A q \in Payments : payment'[q].status = "paid" =>
                payment[q].status = "paid" \/ (q = p /\ Past(p[1])')
           /\ \A q \in Payments : payment'[q].status = "cancelled" =>
                payment[q].status = "cancelled"
           /\ PaidStays
           /\ \A q \in Payments : credit'[q] > 0 =>
                credit[q] > 0 \/ payment'[q].status = "paid"
<1>0. p[1] \in Orders /\ payment[p].status # "none"
  BY DEF Payments, Confirm, Accepts
<1>1. CASE ConfirmRepeated(p, seen, result)
  BY <1>1 DEF ConfirmRepeated, rows, Past, PaidStays
<1>2. CASE ConfirmRefused(p, seen, result)
  <2>1. /\ payment'[p].status = "paid"
        /\ \A q \in Payments \ {p} : payment'[q] = payment[q]
    BY <1>0, <1>2, MarkPaidMarks DEF ConfirmRefused
  <2>2. /\ Past(p[1])'
        /\ \A q \in Orders : Past(q) => Past(q)'
        /\ \A q \in Orders : order'[q].status = "none" => order[q].status = "none"
    BY <1>0, <1>2, SetStatusIsPast DEF ConfirmRefused
  <2>3. credit' = credit
    BY <1>2 DEF ConfirmRefused
  <2> QED
    BY <1>0, <2>1, <2>2, <2>3 DEF PaidStays
<1>3. CASE ConfirmTopUp(p, seen, result)
  <2>1. /\ payment'[p].status = "paid"
        /\ \A q \in Payments \ {p} : payment'[q] = payment[q]
    BY <1>0, <1>3, MarkPaidMarks DEF ConfirmTopUp
  <2>2. /\ Past(p[1])'
        /\ \A q \in Orders : Past(q) => Past(q)'
        /\ \A q \in Orders : order'[q].status = "none" => order[q].status = "none"
    BY <1>0, <1>3, SetStatusIsPast DEF ConfirmTopUp
  <2>3. \A q \in Payments \ {p} : credit'[q] = credit[q]
    BY <1>3 DEF ConfirmTopUp, Credited, Typed, TypeOK
  <2> QED
    BY <1>0, <2>1, <2>2, <2>3 DEF PaidStays
<1>4. CASE ConfirmPurchase(p, seen, held, result)
  <2>1. PICK outcome \in {"active", "failed"} :
          /\ Purchase(p[1], seen, held, outcome)
          /\ MarkPaid(p, outcome = "active")
    BY <1>4 DEF ConfirmPurchase
  <2>2. /\ payment'[p].status = "paid"
        /\ \A q \in Payments \ {p} : payment'[q] = payment[q]
    BY <1>0, <2>1, MarkPaidMarks
  <2>3. /\ Past(p[1])'
        /\ \A q \in Orders : Past(q) => Past(q)'
        /\ \A q \in Orders : order'[q].status = "none" => order[q].status = "none"
    BY <1>0, <2>1, PurchaseIsPast
  <2>4. \A q \in Payments \ {p} : credit'[q] = credit[q]
    BY <1>4 DEF ConfirmPurchase, Credited, Typed, TypeOK
  <2> QED
    BY <1>0, <2>2, <2>3, <2>4 DEF PaidStays
<1> QED
  BY <1>1, <1>2, <1>3, <1>4 DEF Confirm

\* a transaction that confirms a payment and ends
LEMMA ConfirmCollects ==
    ASSUME Typed, Collected, NEW p \in Payments, NEW seen \in OrderRow, NEW held, NEW result,
           Confirm(p, seen, held, result),
           seen.status \in {"processing", "completed", "cancelled"} => Past(p[1]),
           provider[p].status = "paid",
           provider' = provider, notice' \subseteq notice, session' \subseteq session
    PROVE  Collected' /\ PaidStays
<1>1. /\ \A q \in Payments : payment'[q].status # "none" <=> payment[q].status # "none"
      /\ \A q \in Orders : Past(q) => Past(q)'
      /\ \A q \in Orders : order'[q].status = "none" => order[q].status = "none"
      /\ \A q \in Payments : payment'[q].status = "paid" =>
           payment[q].status = "paid" \/ (q = p /\ Past(p[1])')
      /\ \A q \in Payments : payment'[q].status = "cancelled" =>
           payment[q].status = "cancelled"
      /\ PaidStays
      /\ \A q \in Payments : credit'[q] > 0 =>
           credit[q] > 0 \/ payment'[q].status = "paid"
  BY ConfirmForward
<1>2. \A q \in Payments : payment'[q].status = "paid" =>
        payment[q].status = "paid" \/ (provider[q].status = "paid" /\ Past(q[1])')
  BY <1>1
<1>3. /\ \A q \in Payments : payment'[q].status = "cancelled" =>
           payment[q].status = "cancelled" \/ provider[q].status = "cancelled"
      /\ \A n \in notice' : n \in notice
           \/ (n.pay \in Payments /\ n.status = provider[n.pay].status)
      /\ \A s \in session' : s \in session
           \/ (s.by \in {"check", "worker"} =>
                 /\ s.pay \in Payments
                 /\ s.seen = order[s.pay[1]]
                 /\ s.by = "worker" => payment[s.pay].status = "paid")
  BY <1>1
<1>4. \A q \in Payments :
        \/ provider'[q].status = provider[q].status
        \/ provider[q].status = "pending" /\ provider'[q].status \in {"paid", "cancelled"}
  OBVIOUS
<1>5. Collected'
  BY <1>1, <1>2, <1>3, <1>4, SteadyStep
<1> QED
  BY <1>1, <1>5

-----------------------------------------------------------------------------
\* a step that leaves the provider and the rows of payments and wallet alone, and brings no
\* order back
LEMMA AsideStep ==
    ASSUME Typed, Collected, UNCHANGED <<payment, provider, credit>>,
           \A o \in Orders : Past(o) => Past(o)',
           \A o \in Orders : order'[o].status = "none" => order[o].status = "none",
           notice' \subseteq notice,
           \A s \in session' : s \in session
             \/ (s.by \in {"check", "worker"} =>
                   /\ s.pay \in Payments
                   /\ s.seen = order[s.pay[1]]
                   /\ s.by = "worker" => payment[s.pay].status = "paid")
    PROVE  Collected' /\ PaidStays
<1>1. PaidStays
  BY DEF PaidStays
<1>2. \A n \in notice' : n \in notice
        \/ (n.pay \in Payments /\ n.status = provider[n.pay].status)
  OBVIOUS
<1>3. Collected'
  BY <1>1, <1>2, SteadyStep
<1> QED
  BY <1>1, <1>3

\* the provider has a payment that the shop knows nothing of: no rows are written
LEMMA LostAttemptStep ==
    ASSUME Typed, Collected, NEW o \in Orders, CreatePaymentLost(o)
    PROVE  Collected' /\ PaidStays
<1> USE DEF Typed, TypeOK
<1>1. PICK k \in 0..MaxPayments : \A n \in 1..MaxPayments :
        /\ payment[<<o, n>>].status # "none" <=> n <= k
        /\ provider[<<o, n>>].status # "none" => n <= k + 1
  BY DEF Collected, AttemptsFollow
<1>2. Cardinality(Made(o)) = k
  BY <1>1, AttemptsCounted
<1>3. /\ k \in Nat
      /\ k + 1 <= MaxPayments
      /\ ~Past(o)
      /\ Open(o) = {}
      /\ order[o].promo \in BOOLEAN
      /\ Invoiced(<<o, k + 1>>, order[o].promo)
  BY <1>2, BoundsAssumption
     DEF CreatePaymentLost, Payable, NextAttempt, Cancellable, Past, OrderRow
<1>4. /\ OneLiveInvoice'
      /\ \A p \in Payments \ {<<o, k + 1>>} : provider'[p] = provider[p]
      /\ provider[<<o, k + 1>>].status \in {"none", "pending"}
      /\ provider'[<<o, k + 1>>].status = "pending"
      /\ payment[<<o, k + 1>>].status = "none"
  BY <1>1, <1>3, InvoiceIsOnly
<1>5. UNCHANGED <<order, payment, credit, notice, session>>
  BY DEF CreatePaymentLost, rows
<1>6. RowsAreTrue'
  <2>1. \A n \in notice : n.pay \in Payments
    BY DEF Notice
  <2> QED
    BY <1>4, <1>5, <2>1 DEF Collected, RowsAreTrue
<1>7. AttemptsFollow'
  <2> SUFFICES ASSUME NEW q \in Orders
               PROVE  \E j \in 0..MaxPayments : \A n \in 1..MaxPayments :
                        /\ payment'[<<q, n>>].status # "none" <=> n <= j
                        /\ provider'[<<q, n>>].status # "none" => n <= j + 1
    BY DEF AttemptsFollow
  <2>1. \A n \in 1..MaxPayments : <<q, n>> \in Payments
    BY DEF Payments
  <2>2. PICK j \in 0..MaxPayments : \A n \in 1..MaxPayments :
          /\ payment[<<q, n>>].status # "none" <=> n <= j
          /\ provider[<<q, n>>].status # "none" => n <= j + 1
    BY DEF Collected, AttemptsFollow
  <2>3. CASE q = o
    <3>1. \A n \in 1..MaxPayments :
            /\ payment'[<<q, n>>].status # "none" <=> n <= k
            /\ provider'[<<q, n>>].status # "none" => n <= k + 1
      <4> SUFFICES ASSUME NEW n \in 1..MaxPayments
                   PROVE  /\ payment'[<<q, n>>].status # "none" <=> n <= k
                          /\ provider'[<<q, n>>].status # "none" => n <= k + 1
        OBVIOUS
      <4>1. CASE n = k + 1
        BY <1>1, <1>5, <2>3, <4>1
      <4>2. CASE n # k + 1
        <5>1. <<q, n>> # <<o, k + 1>>
          BY <4>2
        <5>2. provider'[<<q, n>>] = provider[<<q, n>>]
          BY <1>4, <2>1, <5>1
        <5> QED
          BY <1>1, <1>5, <2>3, <5>2
      <4> QED
        BY <4>1, <4>2
    <3> QED
      BY <3>1
  <2>4. CASE q # o
    <3>1. \A n \in 1..MaxPayments : provider'[<<q, n>>] = provider[<<q, n>>]
      BY <1>4, <2>1, <2>4
    <3>2. \A n \in 1..MaxPayments :
            /\ payment'[<<q, n>>].status # "none" <=> n <= j
            /\ provider'[<<q, n>>].status # "none" => n <= j + 1
      BY <1>5, <2>2, <3>1
    <3> QED
      BY <3>2
  <2> QED
    BY <2>3, <2>4
<1> QED
  BY <1>4, <1>5, <1>6, <1>7
     DEF Collected, CreditedIsPaid, PaidIsPast, SeenIsPast, NewIsUnpaid, Past, PaidStays

\* a wallet top-up is created together with its first payment
LEMMA TopUpStep ==
    ASSUME Typed, Collected, NEW t \in Orders, NewTopUp(t),
           order' = [order EXCEPT ![t] = [status |-> "awaiting", promo |-> FALSE]],
           credit' = credit, notice' = notice, session' \subseteq session
    PROVE  Collected' /\ PaidStays
<1> USE DEF Typed, TypeOK
<1>1. \A n \in 1..MaxPayments : payment[<<t, n>>].status = "none"
  BY DEF NewTopUp, Collected, NewIsUnpaid
<1>2. PICK k \in 0..MaxPayments : \A n \in 1..MaxPayments :
        /\ payment[<<t, n>>].status # "none" <=> n <= k
        /\ provider[<<t, n>>].status # "none" => n <= k + 1
  BY DEF Collected, AttemptsFollow
<1>3. 1 \in 1..MaxPayments
  BY BoundsAssumption DEF NewTopUp
<1>4. k = 0
  <2>1. ~(1 <= k)
    BY <1>1, <1>2, <1>3
  <2> QED
    BY <2>1, BoundsAssumption
<1>5. Open(t) = {} /\ ~Past(t)
  <2>1. Open(t) = {}
    BY <1>1 DEF Open
  <2>2. ~Past(t)
    BY DEF Past, NewTopUp
  <2> QED
    BY <2>1, <2>2
<1>6. Invoiced(<<t, 0 + 1>>, FALSE) /\ NewPayment(<<t, 0 + 1>>, FALSE)
  <2>1. 0 + 1 = 1
    OBVIOUS
  <2>2. Invoiced(<<t, 1>>, FALSE) /\ NewPayment(<<t, 1>>, FALSE)
    BY DEF NewTopUp
  <2> QED
    BY <2>1, <2>2
<1>7. /\ \A q \in Orders \ {t} : order'[q] = order[q]
      /\ order'[t].status # "none"
  OBVIOUS
<1>8. \A n \in 1..MaxPayments :
        /\ payment[<<t, n>>].status # "none" <=> n <= 0
        /\ provider[<<t, n>>].status # "none" => n <= 0 + 1
  BY <1>2, <1>4
<1>9. 0 + 1 <= MaxPayments
  BY <1>3
<1> HIDE DEF Typed, TypeOK
<1> QED
  BY <1>5, <1>6, <1>7, <1>8, <1>9, AttemptStep

\* what is done to an order outside of a session
LEMMA OrderStepCollects ==
    ASSUME Typed, Collected, NEW o \in Orders, OrderStep(o)
    PROVE  Collected' /\ PaidStays
<1> USE DEF rows
<1>0. /\ order \in [Orders -> OrderRow]
      /\ order[o] \in OrderRow
      /\ order[o].promo \in BOOLEAN
  BY DEF Typed, TypeOK, OrderRow
<1>1. CASE CreateOrder(o)
  BY <1>0, <1>1, AsideStep DEF CreateOrder, NewOrder, Past
<1>2. CASE ApplyPromo(o)
  <2>1. \A q \in Orders : order'[q].status = order[q].status
    BY <1>0, <1>2 DEF ApplyPromo, OrderRow
  <2> QED
    BY <1>2, <2>1, AsideStep DEF ApplyPromo, Past
<1>3. CASE CreatePayment(o)
  <2>1. PICK k \in 0..MaxPayments : \A n \in 1..MaxPayments :
          /\ payment[<<o, n>>].status # "none" <=> n <= k
          /\ provider[<<o, n>>].status # "none" => n <= k + 1
    BY DEF Collected, AttemptsFollow
  <2>2. NextAttempt(o) = <<o, k + 1>> /\ k \in Nat /\ k + 1 <= MaxPayments
    BY <1>3, <2>1, AttemptsCounted, BoundsAssumption DEF CreatePayment, Payable, NextAttempt
  <2>3. /\ ~Past(o)
        /\ Open(o) = {}
        /\ Invoiced(<<o, k + 1>>, order[o].promo)
        /\ NewPayment(<<o, k + 1>>, order[o].promo)
    BY <1>3, <2>2 DEF CreatePayment, Payable, Cancellable, Past
  <2>4. /\ \A q \in Orders \ {o} : order'[q] = order[q]
        /\ order'[o].status # "none"
        /\ credit' = credit /\ notice' = notice /\ session' \subseteq session
    BY <1>0, <1>3 DEF CreatePayment
  <2> QED
    BY <1>0, <2>1, <2>2, <2>3, <2>4, AttemptStep
<1>4. CASE CreatePaymentLost(o)
  BY <1>4, LostAttemptStep
<1>5. CASE CreateTopUp(o)
  BY <1>5, TopUpStep DEF CreateTopUp
<1>6. CASE PurchaseFromBalance(o)
  <2>1. CASE \E outcome \in {"active", "failed"} : Purchase(o, order[o], Row(o), outcome)
    <3>1. /\ \A q \in Orders : Past(q) => Past(q)'
          /\ \A q \in Orders : order'[q].status = "none" => order[q].status = "none"
      BY <1>0, <2>1, PurchaseIsPast
    <3>2. UNCHANGED <<payment, provider, credit, notice, session>>
      BY <1>6 DEF PurchaseFromBalance
    <3> QED
      BY <3>1, <3>2, AsideStep
  <2>2. CASE UNCHANGED <<order, payment, provider, notice, session, credit, debit, goods, told>>
    BY <2>2, AsideStep DEF Past
  <2> QED
    BY <1>6, <2>1, <2>2 DEF PurchaseFromBalance
<1>7. CASE LoadCheck(o)
  <2>1. <<o, Cardinality(Made(o))>> \in Payments
    BY <1>7, LastAttemptType DEF LoadCheck
  <2> QED
    BY <1>7, <2>1, AsideStep DEF LoadCheck, Load, Past
<1>8. CASE LoadCancel(o) \/ LoadShortfall(o)
  BY <1>8, AsideStep DEF LoadCancel, LoadShortfall, Load, Past
<1> QED
  BY <1>1, <1>2, <1>3, <1>4, <1>5, <1>6, <1>7, <1>8 DEF OrderStep

\* what the provider does, and the reads before a webhook or a retry
LEMMA PaymentStepCollects ==
    ASSUME Typed, Collected, NEW p \in Payments, PaymentStep(p)
    PROVE  Collected' /\ PaidStays
<1> USE DEF rows
<1>1. CASE ProviderPay(p) \/ ProviderCancel(p)
  <2>1. \A q \in Payments :
          \/ provider'[q].status = provider[q].status
          \/ provider[q].status = "pending" /\ provider'[q].status \in {"paid", "cancelled"}
    BY <1>1 DEF ProviderPay, ProviderCancel, Typed, TypeOK, Invoice
  <2>2. UNCHANGED <<order, payment, credit, notice, session>>
    BY <1>1 DEF ProviderPay, ProviderCancel
  <2>3. PaidStays
    BY <2>2 DEF PaidStays
  <2>4. \A q \in Orders : Past(q) => Past(q)'
    BY <2>2 DEF Past
  <2>5. Collected'
    BY <2>1, <2>2, <2>3, <2>4, SteadyStep
  <2> QED
    BY <2>3, <2>5
<1>2. CASE Notify(p)
  <2>1. UNCHANGED <<order, payment, provider, credit, session>>
    BY <1>2 DEF Notify
  <2>2. \A n \in notice' : n \in notice
          \/ (n.pay \in Payments /\ n.status = provider[n.pay].status)
    BY <1>2 DEF Notify, Fetched
  <2>3. PaidStays
    BY <2>1 DEF PaidStays
  <2>4. \A q \in Orders : Past(q) => Past(q)'
    BY <2>1 DEF Past
  <2>5. Collected'
    BY <2>1, <2>2, <2>3, <2>4, SteadyStep
  <2> QED
    BY <2>3, <2>5
<1>3. CASE LoadRetry(p)
  BY <1>3, AsideStep DEF LoadRetry, Load, Past
<1> QED
  BY <1>1, <1>2, <1>3 DEF PaymentStep

\* the end of a webhook
LEMMA NoticeStepCollects ==
    ASSUME Typed, Collected, NEW n \in notice, NoticeStep(n)
    PROVE  Collected' /\ PaidStays
<1>0. /\ n \in Notice
      /\ n.pay \in Payments
      /\ n.pay[1] \in Orders
      /\ order[n.pay[1]] \in OrderRow
  BY DEF Typed, TypeOK, Notice, Payments
<1>1. CASE DropNotice(n)
  BY <1>1, AsideStep DEF DropNotice, rows, Past
<1>2. CASE RecordStatus(n)
  <2>1. payment[n.pay].status # "none" /\ n.status \in {"pending", "cancelled"}
    BY <1>0, <1>2 DEF RecordStatus, Accepts, Notice
  <2>2. /\ \A q \in Payments \ {n.pay} : payment'[q] = payment[q]
        /\ payment'[n.pay].status = IF payment[n.pay].status = "paid" THEN "paid"
                                    ELSE n.status
    BY <1>0, <1>2 DEF RecordStatus, Typed, TypeOK, PaymentRow
  <2>3. n.status = "cancelled" => provider[n.pay].status = "cancelled"
    BY DEF Collected, RowsAreTrue
  <2>4. UNCHANGED <<order, provider, credit, session>> /\ notice' \subseteq notice
    BY <1>2 DEF RecordStatus
  <2>5. PaidStays
    BY <2>2 DEF PaidStays
  <2>6. \A q \in Orders : Past(q) => Past(q)'
    BY <2>4 DEF Past
  <2>7. \A q \in Payments :
          /\ payment'[q].status # "none" <=> payment[q].status # "none"
          /\ payment'[q].status = "paid" => payment[q].status = "paid"
          /\ payment'[q].status = "cancelled" =>
               payment[q].status = "cancelled" \/ provider[q].status = "cancelled"
    BY <2>1, <2>2, <2>3
  <2>8. \A m \in notice' : m \in notice
          \/ (m.pay \in Payments /\ m.status = provider[m.pay].status)
    BY <2>4
  <2>9. Collected'
    BY <2>4, <2>5, <2>6, <2>7, <2>8, SteadyStep
  <2> QED
    BY <2>5, <2>9
<1>3. CASE ConfirmWebhook(n)
  <2>1. PICK result : Confirm(n.pay, order[n.pay[1]], Row(n.pay[1]), result)
    BY <1>3 DEF ConfirmWebhook
  <2>2. provider[n.pay].status = "paid"
    BY <1>3 DEF ConfirmWebhook, Collected, RowsAreTrue
  <2>3. order[n.pay[1]].status \in {"processing", "completed", "cancelled"} =>
          Past(n.pay[1])
    BY DEF Past
  <2>4. provider' = provider /\ notice' \subseteq notice /\ session' \subseteq session
    BY <1>3 DEF ConfirmWebhook
  <2> QED
    BY <1>0, <2>1, <2>2, <2>3, <2>4, ConfirmCollects
<1> QED
  BY <1>1, <1>2, <1>3 DEF NoticeStep

\* the end of a transaction that began with a read of the order
LEMMA SessionStepCollects ==
    ASSUME Typed, Collected, NEW s \in session, SessionStep(s)
    PROVE  Collected' /\ PaidStays
<1>0. s \in Session /\ s.seen \in OrderRow /\ order \in [Orders -> OrderRow]
  BY DEF Typed, TypeOK, Session
<1>1. CASE Abandon(s)
  BY <1>1, AsideStep DEF Abandon, rows, Past
<1>2. CASE CheckApply(s)
  <2>1. s.pay \in Payments /\ payment[s.pay].status # "none"
    BY <1>0, <1>2 DEF CheckApply, Accepts, Session
  <2>2. s.seen.status \in {"processing", "completed", "cancelled"} => Past(s.pay[1])
    BY <1>2 DEF CheckApply, Collected, SeenIsPast
  <2>3. provider' = provider /\ notice' = notice /\ session' \subseteq session
    BY <1>2 DEF CheckApply
  <2>4. CASE /\ provider[s.pay].status = "cancelled"
             /\ payment' = [payment EXCEPT ![s.pay].status = "cancelled"]
             /\ UNCHANGED <<order, credit, debit, promoUse, goods, told>>
    <3>1. payment[s.pay].status # "paid"
      BY <2>1, <2>4 DEF Collected, RowsAreTrue
    <3>2. /\ payment'[s.pay].status = "cancelled"
          /\ \A q \in Payments \ {s.pay} : payment'[q] = payment[q]
      BY <2>1, <2>4 DEF Typed, TypeOK, PaymentRow
    <3>3. PaidStays
      BY <3>1, <3>2 DEF PaidStays
    <3>4. \A q \in Orders : Past(q) => Past(q)'
      BY <2>4 DEF Past
    <3>5. \A q \in Payments :
            /\ payment'[q].status # "none" <=> payment[q].status # "none"
            /\ payment'[q].status = "paid" => payment[q].status = "paid"
            /\ payment'[q].status = "cancelled" =>
                 payment[q].status = "cancelled" \/ provider[q].status = "cancelled"
      BY <2>1, <2>4, <3>2
    <3>6. Collected'
      BY <2>3, <2>4, <3>3, <3>4, <3>5, SteadyStep
    <3> QED
      BY <3>3, <3>6
  <2>5. CASE /\ provider[s.pay].status = "paid"
             /\ \E result \in {"already", "refused", "done", "unactivated"} :
                  Confirm(s.pay, s.seen, Row(s.pay[1]), result)
    BY <1>0, <2>1, <2>2, <2>3, <2>5, ConfirmCollects
  <2> QED
    BY <1>2, <2>4, <2>5 DEF CheckApply, Fetched
<1>3. CASE RetryApply(s)
  <2>1. s.pay \in Payments
    BY <1>0, <1>3 DEF RetryApply, Session
  <2>2. /\ s.seen.status \in {"processing", "completed", "cancelled"} => Past(s.pay[1])
        /\ payment[s.pay].status = "paid"
    BY <1>3 DEF RetryApply, Collected, SeenIsPast
  <2>3. provider[s.pay].status = "paid"
    BY <2>1, <2>2 DEF Collected, RowsAreTrue
  <2>4. provider' = provider /\ notice' = notice /\ session' \subseteq session
    BY <1>3 DEF RetryApply
  <2>5. PICK result : Confirm(s.pay, s.seen, Held(s), result)
    BY <1>3 DEF RetryApply
  <2> QED
    BY <1>0, <2>1, <2>2, <2>3, <2>4, <2>5, ConfirmCollects
<1>4. CASE CancelApply(s)
  <2>1. /\ \A q \in Orders : Past(q) => Past(q)'
        /\ \A q \in Orders : order'[q].status = "none" => order[q].status = "none"
    BY <1>0, <1>4 DEF CancelApply, Past, OrderRow
  <2> QED
    BY <1>4, <2>1, AsideStep DEF CancelApply
<1>5. CASE ShortfallApply(s)
  <2>1. s.order \in Orders
    BY <1>0, <1>5 DEF ShortfallApply, Session
  <2>2. notice' = notice /\ session' \subseteq session
    BY <1>5 DEF ShortfallApply
  <2>3. CASE /\ Purchase(s.order, s.seen, Row(s.order), "active")
             /\ UNCHANGED <<payment, provider, credit>>
    <3>1. /\ \A q \in Orders : Past(q) => Past(q)'
          /\ \A q \in Orders : order'[q].status = "none" => order[q].status = "none"
      BY <1>0, <2>1, <2>3, PurchaseIsPast
    <3> QED
      BY <2>2, <2>3, <3>1, AsideStep
  <2>4. CASE /\ \E t \in TopUps :
                  /\ NewTopUp(t)
                  /\ order' = [order EXCEPT ![t] =
                                 [status |-> "awaiting", promo |-> FALSE]]
             /\ UNCHANGED <<credit, debit, goods>>
    BY <2>2, <2>4, TopUpStep, OrdersAssumption
  <2> QED
    BY <1>5, <2>3, <2>4 DEF ShortfallApply
<1> QED
  BY <1>1, <1>2, <1>3, <1>4, <1>5 DEF SessionStep

\* the worker and the administrator at a subscription
LEMMA UserStepCollects ==
    ASSUME Typed, Collected, NEW u \in Users, UserStep(u)
    PROVE  Collected' /\ PaidStays
<1>1. ASSUME NEW outcome \in {"active", "failed"}, RetrySubscription(u, outcome)
      PROVE  Collected' /\ PaidStays
  <2>1. /\ \A q \in Orders : Past(q) => Past(q)'
        /\ \A q \in Orders : order'[q].status = "none" => order[q].status = "none"
    BY <1>1 DEF RetrySubscription, CompleteNamed, Past, Typed, TypeOK, OrderRow
  <2> QED
    BY <1>1, <2>1, AsideStep DEF RetrySubscription
<1>2. CASE RetryDue(u) \/ AdminRetry(u)
  BY <1>2, AsideStep DEF RetryDue, AdminRetry, rows, Past
<1> QED
  BY <1>1, <1>2 DEF UserStep

\* nothing was asked for and nothing paid at first
LEMMA InitCollected == Init => Collected
<1> SUFFICES ASSUME Init PROVE Collected
  OBVIOUS
<1>1. AttemptsFollow
  <2>1. 0 \in 0..MaxPayments
    BY BoundsAssumption
  <2>2. \A o \in Orders : \A n \in 1..MaxPayments :
          /\ payment[<<o, n>>].status = "none"
          /\ provider[<<o, n>>].status = "none"
    BY DEF Init, Payments
  <2>3. \A o \in Orders : \A n \in 1..MaxPayments :
          /\ payment[<<o, n>>].status # "none" <=> n <= 0
          /\ provider[<<o, n>>].status # "none" => n <= 0 + 1
    <3>1. \A n \in 1..MaxPayments : ~(n <= 0)
      BY BoundsAssumption
    <3> QED
      BY <2>2, <3>1
  <2> QED
    BY <2>1, <2>3 DEF AttemptsFollow
<1>2. NewIsUnpaid
  BY DEF Init, NewIsUnpaid, Payments
<1>3. RowsAreTrue /\ CreditedIsPaid /\ PaidIsPast /\ SeenIsPast /\ OneLiveInvoice
  BY DEF Init, RowsAreTrue, CreditedIsPaid, PaidIsPast, SeenIsPast, OneLiveInvoice
<1> QED
  BY <1>1, <1>2, <1>3 DEF Collected

\* every step keeps the invariant, and takes no paid payment back
LEMMA NextCollected == Typed /\ Collected /\ [Next]_vars => Collected' /\ PaidStays
<1> SUFFICES ASSUME Typed, Collected, [Next]_vars PROVE Collected' /\ PaidStays
  OBVIOUS
<1>1. CASE UNCHANGED vars
  BY <1>1, AsideStep DEF vars, Past
<1>2. ASSUME NEW o \in Orders, OrderStep(o) PROVE Collected' /\ PaidStays
  BY <1>2, OrderStepCollects
<1>3. ASSUME NEW p \in Payments, PaymentStep(p) PROVE Collected' /\ PaidStays
  BY <1>3, PaymentStepCollects
<1>4. ASSUME NEW n \in notice, NoticeStep(n) PROVE Collected' /\ PaidStays
  BY <1>4, NoticeStepCollects
<1>5. ASSUME NEW s \in session, SessionStep(s) PROVE Collected' /\ PaidStays
  BY <1>5, SessionStepCollects
<1>6. ASSUME NEW u \in Users, UserStep(u) PROVE Collected' /\ PaidStays
  BY <1>6, UserStepCollects
<1>7. ASSUME NEW c \in Codes, NEW outcome, Redeem(c, outcome) PROVE Collected' /\ PaidStays
  BY <1>7, AsideStep DEF Redeem, rows, Past
<1> QED
  BY <1>1, <1>2, <1>3, <1>4, <1>5, <1>6, <1>7 DEF Next

\* In every reachable state the rows say of a payment what the provider says, attempts
\* follow one another, and one at most can be paid.
THEOREM AlwaysCollected == Spec => []Collected
BY AlwaysTyped, InitCollected, NextCollected, PTL DEF Spec

\* Money appears in a wallet only for a payment the provider was paid for.
THEOREM NoMoneyFromNothing == Spec => []CreditedOnlyIfPaid
<1>1. Collected => CreditedOnlyIfPaid
  BY DEF Collected, RowsAreTrue, CreditedIsPaid, CreditedOnlyIfPaid
<1> QED
  BY <1>1, AlwaysCollected, PTL

\* The customer can be charged for one payment of an order only.
THEOREM ChargedOnce == Spec => []OneLiveInvoice
BY AlwaysCollected, PTL DEF Collected

\* A late status of the provider never takes a confirmed payment back.
THEOREM PaidForGood == Spec => PaidIsFinal
<1>1. Typed /\ Collected /\ [Next]_vars =>
        [\A p \in Payments : payment[p].status = "paid" => payment'[p].status = "paid"]_vars
  BY NextCollected DEF PaidStays
<1> QED
  BY <1>1, AlwaysTyped, AlwaysCollected, PTL DEF Spec, PaidIsFinal
=============================================================================
