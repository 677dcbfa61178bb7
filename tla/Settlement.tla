----------------------------- MODULE Settlement -----------------------------
(***************************************************************************)
(* What the shop promises, without the rows and the handlers: money the    *)
(* provider collected reaches the wallet at most once, and a subscription  *)
(* is taken from the wallet at most once, together with its days.  The     *)
(* payment of a subscription order does both in one step, so that money    *)
(* for a subscription never rests in the wallet.                           *)
(***************************************************************************)
CONSTANTS Payments, Orders, TopUps, OrderOf

VARIABLES
    collected,   \* the payments the provider holds the money of
    credited,    \* the payments credited to the wallet
    bought,      \* the orders debited from the wallet
    served       \* the orders whose days were added

vars == <<collected, credited, bought, served>>

Init ==
    /\ collected = {}
    /\ credited = {}
    /\ bought = {}
    /\ served = {}

Collect(p) ==
    /\ collected' = collected \cup {p}
    /\ UNCHANGED <<credited, bought, served>>

TopUp(p) ==
    /\ OrderOf[p] \in TopUps
    /\ p \in collected \ credited
    /\ credited' = credited \cup {p}
    /\ UNCHANGED <<collected, bought, served>>

\* from the balance
Buy(o) ==
    /\ o \notin TopUps
    /\ o \notin bought
    /\ bought' = bought \cup {o}
    /\ served' = served \cup {o}
    /\ UNCHANGED <<collected, credited>>

\* with a payment of its own; the order may have been bought from the balance before
Pay(p) ==
    /\ OrderOf[p] \notin TopUps
    /\ p \in collected \ credited
    /\ credited' = credited \cup {p}
    /\ bought' = bought \cup {OrderOf[p]}
    /\ served' = served \cup {OrderOf[p]}
    /\ UNCHANGED collected

Next ==
    \/ \E p \in Payments : Collect(p) \/ TopUp(p) \/ Pay(p)
    \/ \E o \in Orders : Buy(o)

Spec == Init /\ [][Next]_vars
=============================================================================
