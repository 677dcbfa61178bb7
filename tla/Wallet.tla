------------------------------- MODULE Wallet -------------------------------
(***************************************************************************)
(* The balance of a user and its history (services/balance.py) under the   *)
(* transactions that change it: a confirmed payment, a purchase from the   *)
(* balance, a referral bonus.  Module OrderPayments takes these as atomic; *)
(* here they are taken apart at the points where another transaction can   *)
(* come in: the read of the users row, the waits for row locks, the flush  *)
(* and the commit.                                                         *)
(*                                                                         *)
(* PostgreSQL runs at READ COMMITTED: a read sees what is committed, FOR   *)
(* UPDATE and UPDATE wait for the holder of the row.  SQLAlchemy keeps one *)
(* object per row and session, so a users row that was loaded before it is *)
(* locked keeps the balance it had when it was loaded.                     *)
(***************************************************************************)
EXTENDS Integers, Sequences, FiniteSets

CONSTANTS
    Users,     \* users rows, each with a wallet
    Orders,    \* orders rows
    Promos,    \* promo_codes rows
    Jobs,      \* the transactions
    Kind,      \* what each of them is
    Holder,    \* the user whose balance it changes
    Guard,     \* the row it locks first: its order, or the user who was invited
    Promo,     \* the promo code of the order it buys, or None
    Amount,    \* the price, the payment, or the bonus
    Keys,      \* idempotency keys
    CreditKey, \* key of its credit: payment:<id> or referral:<id>
    DebitKey,  \* key of its debit: subscription-purchase:<id>
    Nobody,    \* no holder of a lock
    None       \* promo_code_id IS NULL

Rows == Users \cup Orders \cup Promos

Kinds == {"topup", "checked", "payment", "check", "purchase", "referral"}

ASSUME WalletAssumption ==
    /\ Kind \in [Jobs -> Kinds]
    /\ Holder \in [Jobs -> Users]
    /\ Guard \in [Jobs -> Rows]
    /\ Promo \in [Jobs -> Promos \cup {None}]
    /\ None \notin Promos
    /\ Amount \in [Jobs -> Nat \ {0}]
    /\ CreditKey \in [Jobs -> Keys]
    /\ DebitKey \in [Jobs -> Keys]
    /\ Nobody \notin Jobs \cup Users
    /\ Users \cap Orders = {}
    /\ \A j \in Jobs : Kind[j] # "referral" => Guard[j] \in Orders

\* those that credit a payment and buy its order in one transaction
Payers == {j \in Jobs : Kind[j] \in {"payment", "check"}}

\* a key belongs to one payment, order or invited user, whose row is locked when it is
\* written; and whoever confirms the payment of an order buys that order
ASSUME KeysAssumption ==
    \A i, j \in Jobs :
        /\ CreditKey[i] # DebitKey[j]
        /\ CreditKey[i] = CreditKey[j] => Guard[i] = Guard[j]
        /\ DebitKey[i] = DebitKey[j] => Guard[i] = Guard[j]
        /\ CreditKey[i] = CreditKey[j] /\ j \in Payers =>
             i \in Payers /\ DebitKey[i] = DebitKey[j]

\* What a transaction does, in the order of the code.

\* confirmed by the webhook or the worker: the user is read, not locked, once the order
\* is locked
TopUpSteps == <<"guard", "load", "credit">>

\* confirmed by the check button, which has read the user before
CheckedTopUpSteps == <<"load", "guard", "credit">>

\* (seeded fault: the order is paid for before the payment is credited)
DebitFirst == <<"guard", "promo", "load", "debit", "credit">>

PaymentSteps == <<"guard", "promo", "load", "credit", "debit">>

CheckSteps == <<"load", "guard", "promo", "credit", "debit">>

\* (seeded fault: the user is locked before the order)
UserFirst == <<"load", "lock", "guard", "promo", "debit">>

\* from the balance: the lock on the user comes after the handler has read him
PurchaseSteps == <<"load", "guard", "lock", "promo", "debit">>

\* /start inserts the row of the invited user, which no other transaction has then
RegisterSteps == <<"guard">>

\* ... and credits the one who invited him
ReferralSteps == RegisterSteps \o <<"load", "lock", "credit">>

Program == [topup |-> TopUpSteps, checked |-> CheckedTopUpSteps, payment |-> PaymentSteps,
            check |-> CheckSteps, purchase |-> PurchaseSteps, referral |-> ReferralSteps]

VARIABLES
    balance,   \* users.balance, committed
    ledger,    \* balance_transactions by key, committed
    total,     \* history: the sum of the committed rows of each user
    past,      \* history: the balances that were committed for each user
    overtaken, \* history: users whose balance was committed while another open
               \* transaction had read it
    holds,     \* the holder of each row lock
    pc,        \* the number of program steps each transaction has done
    result,    \* open, done, short of money, or rolled back
    object,    \* the balance in the session's User object
    sought,    \* the transactions that looked for their next row and found none
    added      \* the rows each transaction has flushed, by key

vars == <<balance, ledger, total, past, overtaken, holds, pc, result, object, sought, added>>
committed == <<balance, ledger, total, past, overtaken>>

Amounts == {Amount[j] : j \in Jobs} \cup {-Amount[j] : j \in Jobs}
NoRow == [user |-> Nobody, amount |-> 0]
Entry == [user : Users, amount : Amounts] \cup {NoRow}

Open(j) == result[j] = "open"
Step(j) == Program[Kind[j]][pc[j] + 1]
AtStep(j, step) == Open(j) /\ pc[j] < Len(Program[Kind[j]]) /\ Step(j) = step
Loaded(j) == \E i \in 1..pc[j] : Program[Kind[j]][i] = "load"
Advance(j) == pc' = [pc EXCEPT ![j] = @ + 1]

Free(row, j) == holds[row] \in {Nobody, j}
Take(row, j) == holds' = [holds EXCEPT ![row] = j]

-----------------------------------------------------------------------------
\* (seeded fault: the order is read without FOR UPDATE)
ReadGuard(j) ==
    /\ AtStep(j, "guard")
    /\ Advance(j)
    /\ UNCHANGED <<committed, holds, result, object, sought, added>>

\* SELECT ... FOR UPDATE of the order, or of the invited user
LockGuard(j) ==
    /\ AtStep(j, "guard")
    /\ Free(Guard[j], j)
    /\ Take(Guard[j], j)
    /\ Advance(j)
    /\ UNCHANGED <<committed, result, object, sought, added>>

\* consume_for_paid_order locks the promo code, if the order has one; a usage that the
\* order has already is not modelled, the lock is then taken all the same
LockPromo(j) ==
    /\ AtStep(j, "promo")
    /\ \/ Promo[j] = None /\ UNCHANGED holds
       \/ Promo[j] # None /\ Free(Promo[j], j) /\ Take(Promo[j], j)
    /\ Advance(j)
    /\ UNCHANGED <<committed, result, object, sought, added>>

\* the plain read of the user
LoadUser(j) ==
    /\ AtStep(j, "load")
    /\ object' = [object EXCEPT ![j] = balance[Holder[j]]]
    /\ Advance(j)
    /\ UNCHANGED <<committed, holds, result, sought, added>>

\* SELECT ... FOR UPDATE of the user: the lock, and the object loaded before
LockUser(j) ==
    /\ AtStep(j, "lock")
    /\ Free(Holder[j], j)
    /\ Take(Holder[j], j)
    /\ Advance(j)
    /\ UNCHANGED <<committed, result, object, sought, added>>

\* BalanceService.change: the row is there already ...
Repeated(j, key) ==
    /\ ledger[key] # NoRow
    /\ ~sought[j]
    /\ Advance(j)
    /\ UNCHANGED <<holds, object, added, sought>>

\* (seeded fault: the balance is not compared with the price)
SoughtUnchecked(j, key, amount) ==
    /\ ledger[key] = NoRow
    /\ ~sought[j]
    /\ sought' = [sought EXCEPT ![j] = TRUE]
    /\ UNCHANGED <<holds, pc, object, added>>

\* ... or it is not, and the balance allows the change ...
Sought(j, key, amount) ==
    /\ ledger[key] = NoRow
    /\ object[j] + amount >= 0
    /\ ~sought[j]
    /\ sought' = [sought EXCEPT ![j] = TRUE]
    /\ UNCHANGED <<holds, pc, object, added>>

\* (seeded fault: the row is written, the balance is left as it was)
ChangedRowOnly(j, key, amount) ==
    /\ sought[j]
    /\ Free(Holder[j], j)
    /\ Take(Holder[j], j)
    /\ added' = [added EXCEPT ![j][key] = [user |-> Holder[j], amount |-> amount]]
    /\ sought' = [sought EXCEPT ![j] = FALSE]
    /\ Advance(j)
    /\ UNCHANGED object

\* (seeded fault: the new balance is written in the column of the amount)
ChangedColumns(j, key, amount) ==
    /\ sought[j]
    /\ Free(Holder[j], j)
    /\ Take(Holder[j], j)
    /\ object' = [object EXCEPT ![j] = @ + amount]
    /\ added' = [added EXCEPT ![j][key] = [user |-> Holder[j], amount |-> object[j] + amount]]
    /\ sought' = [sought EXCEPT ![j] = FALSE]
    /\ Advance(j)

\* ... and it is inserted: the flush updates the users row, which it locks
Changed(j, key, amount) ==
    /\ sought[j]
    /\ Free(Holder[j], j)
    /\ Take(Holder[j], j)
    /\ object' = [object EXCEPT ![j] = @ + amount]
    /\ added' = [added EXCEPT ![j][key] = [user |-> Holder[j], amount |-> amount]]
    /\ sought' = [sought EXCEPT ![j] = FALSE]
    /\ Advance(j)

Change(j, key, amount) ==
    /\ \/ Repeated(j, key)
       \/ Sought(j, key, amount)
       \/ Changed(j, key, amount)
    /\ UNCHANGED <<committed, result>>

Credit(j) == AtStep(j, "credit") /\ Change(j, CreditKey[j], Amount[j])

Debit(j) == AtStep(j, "debit") /\ Change(j, DebitKey[j], -Amount[j])

-----------------------------------------------------------------------------
\* the sum of the rows a transaction has flushed: a credit and a debit at most
Flushed(j) ==
    added[j][CreditKey[j]].amount + added[j][DebitKey[j]].amount

Wrote(j) == \E key \in Keys : added[j][key] # NoRow

\* what the transaction leaves behind once it is committed
Publish(j) ==
    LET user == Holder[j] IN
    \/ /\ ~Wrote(j)
       /\ UNCHANGED committed
    \/ /\ Wrote(j)
       /\ balance' = [balance EXCEPT ![user] = object[j]]
       /\ total' = [total EXCEPT ![user] = @ + Flushed(j)]
       /\ past' = [past EXCEPT ![user] = @ \cup {object[j]}]
       /\ ledger' = [key \in Keys |->
                        IF added[j][key] # NoRow THEN added[j][key] ELSE ledger[key]]
       /\ overtaken' = IF \E i \in Jobs \ {j} : Open(i) /\ Loaded(i) /\ Holder[i] = user
                       THEN overtaken \cup {user} ELSE overtaken

\* the session is closed and its locks are released
End(j, outcome) ==
    /\ result' = [result EXCEPT ![j] = outcome]
    /\ holds' = [row \in Rows |-> IF holds[row] = j THEN Nobody ELSE holds[row]]
    /\ pc' = [pc EXCEPT ![j] = 0]
    /\ object' = [object EXCEPT ![j] = 0]
    /\ sought' = [sought EXCEPT ![j] = FALSE]
    /\ added' = [added EXCEPT ![j] = [key \in Keys |-> NoRow]]

Commit(j) ==
    /\ Open(j)
    /\ pc[j] = Len(Program[Kind[j]])
    /\ Publish(j)
    /\ End(j, "done")

\* InsufficientBalanceError is caught: the transaction commits without the debit
Short(j) ==
    /\ AtStep(j, "debit")
    /\ ~sought[j]
    /\ ledger[DebitKey[j]] = NoRow
    /\ object[j] - Amount[j] < 0
    /\ Publish(j)
    /\ End(j, "short")

\* before the promo code is consumed the order is found completed: nothing more is done.
\* (An order whose activation failed is debited as well, but not completed: the
\* transaction goes on.)
Return(j) ==
    /\ AtStep(j, "promo")
    /\ ledger[DebitKey[j]] # NoRow
    /\ UNCHANGED committed
    /\ End(j, "done")

\* an exception, a lost connection or process, or the victim of a deadlock
Rollback(j) ==
    /\ Open(j)
    /\ pc[j] > 0
    /\ UNCHANGED committed
    /\ End(j, "rolled back")

-----------------------------------------------------------------------------
Init ==
    /\ balance = [u \in Users |-> 0]
    /\ ledger = [key \in Keys |-> NoRow]
    /\ total = [u \in Users |-> 0]
    /\ past = [u \in Users |-> {0}]
    /\ overtaken = {}
    /\ holds = [row \in Rows |-> Nobody]
    /\ pc = [j \in Jobs |-> 0]
    /\ result = [j \in Jobs |-> "open"]
    /\ object = [j \in Jobs |-> 0]
    /\ sought = [j \in Jobs |-> FALSE]
    /\ added = [j \in Jobs |-> [key \in Keys |-> NoRow]]

Forward(j) ==
    \/ LockGuard(j)
    \/ LockPromo(j)
    \/ LoadUser(j)
    \/ LockUser(j)
    \/ Credit(j)
    \/ Debit(j)
    \/ Short(j)
    \/ Return(j)
    \/ Commit(j)

Next == \E j \in Jobs : Forward(j) \/ Rollback(j)

Spec == Init /\ [][Next]_vars

-----------------------------------------------------------------------------
(* Properties *)

\* Every variable has the values the model declares.
TypeOK ==
    /\ balance \in [Users -> Int]
    /\ ledger \in [Keys -> Entry]
    /\ total \in [Users -> Int]
    /\ past \in [Users -> SUBSET Nat]
    /\ overtaken \subseteq Users
    /\ holds \in [Rows -> Jobs \cup {Nobody}]
    /\ pc \in [Jobs -> 0..5]
    /\ result \in [Jobs -> {"open", "done", "short", "rolled back"}]
    /\ object \in [Jobs -> Int]
    /\ sought \in [Jobs -> BOOLEAN]
    /\ added \in [Jobs -> [Keys -> Entry]]

\* The balance column is never negative, whatever was read before whatever lock: the
\* check of the database (balance_nonnegative) never fires.
NeverNegative == \A u \in Users : balance[u] >= 0

\* The unique index on the key never fires: when a transaction has flushed a row, no other
\* one has flushed or committed a row with its key.
NoKeyWrittenTwice ==
    \A j \in Jobs, key \in Keys : added[j][key] # NoRow =>
        /\ ledger[key] = NoRow
        /\ \A i \in Jobs \ {j} : added[i][key] = NoRow

\* A confirmed payment always pays for its own order: the debit that follows the credit in
\* the same transaction is not refused, however stale the balance it starts from.
PaymentIsNeverShort == \A j \in Payers : result[j] # "short"

\* The balance is the sum of the history as long as no transaction commits a balance that
\* another open transaction has read: this is the only way money is lost or made.
ExactUnlessOvertaken ==
    \A u \in Users : u \notin overtaken => balance[u] = total[u]

\* the row a transaction asks for next
Wanted(j) ==
    IF AtStep(j, "guard") THEN {Guard[j]}
    ELSE IF AtStep(j, "promo") THEN {Promo[j]} \ {None}
    ELSE IF AtStep(j, "lock") \/ sought[j] THEN {Holder[j]} ELSE {}

Waits(j) == \E row \in Wanted(j) : ~Free(row, j)
WaitsFor(i, j) == \E row \in Wanted(i) : holds[row] = j

\* the transactions of orders without a promo code
Plain == {j \in Jobs : Kind[j] # "referral" /\ Promo[j] = None}

\* Payments and purchases of orders without a promo code take the lock of the order before
\* that of the user: they never wait for each other in a circle.  (With a promo code they
\* can: a payment locks the code before the user, a purchase after.)
PlainPurchasesDoNotDeadlock ==
    \A D \in SUBSET {j \in Plain : Waits(j)} :
        (\A i \in D : \E j \in D : WaitsFor(i, j)) => D = {}

Books == INSTANCE Bookkeeping WITH exact <- Users \ overtaken

\* The transactions, taken apart, do what callers of the wallet rely on: each of them is one
\* step that enters its rows once, for the right user and amount, a payment with the purchase
\* of its order or after it, that never overdraws, and that moves the balance by just these
\* rows until transactions of the user overlap.
ImplementsBookkeeping == Books!Spec

\* The balance of a user is what the history of the balance adds up to.
BalanceIsHistory == \A u \in Users : balance[u] = total[u]
=============================================================================
