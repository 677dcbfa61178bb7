------------------------------ MODULE Delivery ------------------------------
(***************************************************************************)
(* What provisioning promises of the term of a subscription, without the   *)
(* calls, the names, the marks and the answers that are lost: an operation *)
(* opens for a term, the panel is given that term while it is open, and it *)
(* is completed only with the term delivered to the user it goes by; the   *)
(* term of a user does not move while nothing is open; the row never loses *)
(* a term, and the panel is never more than the one open term ahead of it. *)
(*                                                                         *)
(* The worker may look at the row first and open an operation later, by    *)
(* what it has seen: then the term may be an older one, and the link one   *)
(* from before.  An account that had no link when the worker looked may so *)
(* get a second name, and with it a second user: it is astray.             *)
(***************************************************************************)
EXTENDS Naturals

CONSTANT Keys

VARIABLES
    term,   \* the term the row has stored
    link,   \* the user the row is linked to
    status, \* of each operation
    open,   \* the operation that is running, its term, and the link it goes by
    kept,   \* the operation the worker has looked at, and the term and link it has seen
    astray, \* the account may have two names
    panel   \* the account's own users: the term of each, and whether he is there still

vars == <<term, link, status, open, kept, astray, panel>>

NoUser == 0
Nothing == [key |-> "none", term |-> 0, link |-> NoUser]

Alive(u) == u \in DOMAIN panel /\ panel[u].there

\* no user who is there loses the link to another one
MayLink(u) == astray \/ (Alive(link) => u = link)

Init ==
    /\ term = 0 /\ link = NoUser
    /\ status = [k \in Keys |-> "none"]
    /\ open = Nothing /\ kept = Nothing /\ astray = FALSE
    /\ panel = [u \in {} |-> {}]

\* a first attempt brings the next term, a retry the one that is stored
Begin(k) ==
    /\ open = Nothing /\ status[k] # "completed"
    /\ open' = [key |-> k, term |-> IF status[k] = "none" THEN term + 1 ELSE term, link |-> link]
    /\ UNCHANGED <<term, link, status, kept, astray, panel>>

\* the row takes its next term without the panel
Postpone(k) ==
    /\ open = Nothing /\ status[k] = "none"
    /\ term' = term + 1
    /\ status' = [status EXCEPT ![k] = "waiting"]
    /\ UNCHANGED <<link, open, kept, astray, panel>>

\* the worker looks at the row of an operation that is not completed
Look(k) ==
    /\ kept = Nothing /\ status[k] \in {"waiting", "failed"}
    /\ kept' = [key |-> k, term |-> term, link |-> link]
    /\ UNCHANGED <<term, link, status, open, astray, panel>>

Forget == kept' = Nothing /\ UNCHANGED <<term, link, status, open, astray, panel>>

\* the worker's retry, by what it has seen
BeginKept(k) ==
    /\ open = Nothing /\ kept.key = k /\ status[k] # "completed"
    /\ open' = kept /\ kept' = Nothing
    /\ astray' \in {astray, astray \/ kept.link = NoUser}
    /\ UNCHANGED <<term, link, status, panel>>

\* a user is made, now or late, for the open term or one before: nobody else is touched
Make(u) ==
    /\ u \notin DOMAIN panel
    /\ \E d \in 1 .. term + 1 :
          panel' = [v \in DOMAIN panel \cup {u} |->
                       IF v = u THEN [term |-> d, there |-> TRUE] ELSE panel[v]]
    /\ UNCHANGED <<term, link, status, open, kept, astray>>

\* a user gets the open term: the linked one, if the operation knows of a link
Deliver(u) ==
    /\ open # Nothing
    /\ Alive(u) /\ open.link \in {NoUser, u} /\ MayLink(u)
    /\ panel' = [panel EXCEPT ![u].term = open.term]
    /\ UNCHANGED <<term, link, status, open, kept, astray>>

\* the row keeps the open term, or a later one
Store(result) ==
    /\ open # Nothing
    /\ term' = IF open.term > term THEN open.term ELSE term
    /\ status' = [status EXCEPT ![open.key] = result]
    /\ open' = Nothing
    /\ UNCHANGED <<kept, astray, panel>>

\* the user is linked, unless the operation has taken him for the linked one
Complete(u) ==
    /\ Store("completed")
    /\ u \in DOMAIN panel /\ panel[u].term = open.term
    /\ open.link \in {NoUser, u} /\ MayLink(u)
    /\ link' = IF u = open.link THEN link ELSE u

\* the row keeps the new term although the panel may not have it
Fail == Store("failed") /\ UNCHANGED link

\* rolled back: the panel may keep the new term although the row does not
Abort ==
    /\ open # Nothing
    /\ open' = Nothing
    /\ UNCHANGED <<term, link, status, kept, astray, panel>>

\* a user is deleted by people
Remove(u) ==
    /\ Alive(u)
    /\ panel' = [panel EXCEPT ![u] = [term |-> @.term, there |-> FALSE]]
    /\ UNCHANGED <<term, link, status, open, kept, astray>>

\* a synchronisation links a user it has found
Adopt(u) ==
    /\ open = Nothing
    /\ u \in DOMAIN panel /\ (Alive(u) => MayLink(u))
    /\ link' = u
    /\ UNCHANGED <<term, status, open, kept, astray, panel>>

Next ==
    \/ \E k \in Keys : Begin(k) \/ Postpone(k) \/ Look(k) \/ BeginKept(k)
    \/ Forget
    \/ \E u \in DOMAIN panel' : Make(u)
    \/ \E u \in DOMAIN panel : Deliver(u) \/ Complete(u) \/ Remove(u) \/ Adopt(u)
    \/ Fail \/ Abort

Spec == Init /\ [][Next]_vars
=============================================================================
