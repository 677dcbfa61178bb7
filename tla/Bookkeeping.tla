----------------------------- MODULE Bookkeeping -----------------------------
(***************************************************************************)
(* What the wallet promises whoever credits or buys, without the locks,    *)
(* the sessions and what they have read: an entry is made once, for the    *)
(* amount asked for, and stays; the payment of an order is entered         *)
(* together with the purchase, or after it; nobody falls below zero; and   *)
(* the balance moves by what is entered, for as long as no two             *)
(* transactions of the user overlap.                                       *)
(***************************************************************************)
EXTENDS Integers

CONSTANTS Users, Jobs, Payers, Holder, Amount, Keys, CreditKey, DebitKey, Nobody

VARIABLES
    balance,
    ledger,   \* what is entered under each key
    past,     \* the balances each user has had
    exact     \* the users whose transactions have not overlapped

vars == <<balance, ledger, past, exact>>

NoRow == [user |-> Nobody, amount |-> 0]
Entered(key) == ledger[key] # NoRow

CreditRow(j) == [user |-> Holder[j], amount |-> Amount[j]]
DebitRow(j) == [user |-> Holder[j], amount |-> -Amount[j]]

Init ==
    /\ balance = [u \in Users |-> 0]
    /\ ledger = [key \in Keys |-> NoRow]
    /\ past = [u \in Users |-> {0}]
    /\ exact = Users

\* the balance moves by n: from where it is or, once transactions of the user have
\* overlapped, from where it was
Moves(user, n) ==
    \E b \in past[user] :
        /\ b + n >= 0
        /\ user \in exact => b = balance[user]
        /\ balance' = [balance EXCEPT ![user] = b + n]
        /\ past' = [past EXCEPT ![user] = @ \cup {b + n}]
        /\ exact' \in {exact, exact \ {user}}

\* a payment for the wallet, or a bonus
Credit(j) ==
    /\ ~Entered(CreditKey[j])
    /\ ledger' = [ledger EXCEPT ![CreditKey[j]] = CreditRow(j)]
    /\ Moves(Holder[j], Amount[j])

\* an order is bought from the balance
Buy(j) ==
    /\ ~Entered(DebitKey[j])
    /\ ledger' = [ledger EXCEPT ![DebitKey[j]] = DebitRow(j)]
    /\ Moves(Holder[j], -Amount[j])

\* an order is paid for: the money does not rest in the wallet ...
Pay(j) ==
    /\ ~Entered(CreditKey[j]) /\ ~Entered(DebitKey[j])
    /\ ledger' = [ledger EXCEPT ![CreditKey[j]] = CreditRow(j), ![DebitKey[j]] = DebitRow(j)]
    /\ Moves(Holder[j], 0)

\* ... unless the order was bought from the balance before
PayAgain(j) ==
    /\ ~Entered(CreditKey[j]) /\ Entered(DebitKey[j])
    /\ ledger' = [ledger EXCEPT ![CreditKey[j]] = CreditRow(j)]
    /\ Moves(Holder[j], Amount[j])

\* nothing moves without an entry
Next ==
    /\ ledger' # ledger
    /\ \/ \E j \in Jobs \ Payers : Credit(j) \/ Buy(j)
       \/ \E j \in Payers : Pay(j) \/ PayAgain(j)

Spec == Init /\ [][Next]_vars
=============================================================================
