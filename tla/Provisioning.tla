---------------------------- MODULE Provisioning ----------------------------
(***************************************************************************)
(* RemnawaveProvisioningService.provision for one subscriptions row, call  *)
(* by call: find the user on the panel, or make him, set him up, read him  *)
(* back, and store the link.  One operation of the row runs at a time,     *)
(* since its transaction holds the row's lock; but a call may fail after   *)
(* it took effect, a creation may take effect after it was given up, the   *)
(* transaction may be rolled back, and people work on the panel meanwhile. *)
(* And the worker's retry of a paid order goes by the row as it was loaded *)
(* before the lock: by an older expiry and limit, without the name or the  *)
(* link that another handler has stored since.                             *)
(*                                                                         *)
(* Of what a user has on the panel only the expiry and the device limit    *)
(* are kept: squads, traffic, tag and description go the same way as one   *)
(* of the two.  What moves the expiry is the matter of Renewal.            *)
(***************************************************************************)
EXTENDS Integers, Sequences, FiniteSets

CONSTANTS
    Keys,        \* idempotency keys of the row's operations
    Orders,      \* those of paid orders; the others are of codes, trials and grants
    RowLimit,    \* device limit the row starts with
    PolicyLimit, \* device limit of the template for new users
    MaxSpent     \* bound on failures, rollbacks, rows held and work on the panel together

ASSUME ProvisioningAssumption ==
    /\ Orders \subseteq Keys
    /\ RowLimit \in Nat /\ PolicyLimit \in Nat /\ RowLimit # PolicyLimit
    /\ MaxSpent \in Nat

NoName == 0
NoUser == 0

\* where a transaction is: before the call it makes next, or at its end
Calls == {"get by uuid", "get by name", "get policy", "create", "look again",
          "converge", "verify", "set limit", "set identity", "read"}
Places == Calls \cup {"idle", "done", "failed"}

VARIABLES
    row,    \* the columns of the subscriptions row
    ops,    \* its provisioning_operations
    held,   \* the row as the worker has loaded it to retry a paid order
    tx,     \* the running transaction, with what it has not committed
    users,  \* the users of the panel; a uuid is an index
    flying, \* creations that were given up and may still take effect
    names,  \* the names generated so far
    sync,   \* the user and his limit as a synchronisation has read them
    spent,  \* of MaxSpent
    seen    \* history, for the properties only

vars == <<row, ops, held, tx, users, flying, names, sync, spent, seen>>

NoRow == [name |-> NoName, uuid |-> NoUser, term |-> 0, limit |-> RowLimit]

NotHeld == [key |-> "none", row |-> NoRow]

\* loaded is the row as the session has it: what is equal to it is not written
Idle == [pc |-> "idle", key |-> "none", stale |-> FALSE, loaded |-> NoRow,
         name |-> NoName, term |-> 0, marked |-> FALSE,
         user |-> NoUser, created |-> FALSE, conflict |-> FALSE]

Spend(n) == spent + n <= MaxSpent /\ spent' = spent + n

-----------------------------------------------------------------------------
\* The panel.

There == {u \in DOMAIN users : users[u].there}
Called(name) == {u \in There : users[u].name = name}

Made(name, term) == [name |-> name, mine |-> TRUE, term |-> term, limit |-> PolicyLimit, there |-> TRUE]

\* the user with a uuid, if the panel still has him
Asked(u) == {u} \cap There

\* names are unique on the panel
Created(name, term) == IF Called(name) = {} THEN Append(users, Made(name, term)) ELSE users

\* a field that a request does not set stays as it is
Patched(term, limit) == [users EXCEPT ![tx.user] = [@ EXCEPT !.term = term, !.limit = limit]]

-----------------------------------------------------------------------------
\* The transaction.

Goto(pc) == tx' = [tx EXCEPT !.pc = pc]

\* an error after which _fail is called
Fails == Goto("failed") /\ Spend(1)

\* (seeded fault: only the name is compared)
OwnerByName(u) == users[u].name = tx.name

\* _validate_owner
OwnerIsValid(u) ==
    /\ users[u].name = tx.name
    /\ users[u].mine
    /\ tx.loaded.uuid \in {NoUser, u}

\* (seeded fault: a name is generated for every attempt)
NameOfAttempt(loaded) == names + 1

NameToUse(loaded) == IF loaded.name = NoName THEN names + 1 ELSE loaded.name

\* (seeded fault: an operation is not tried again once its user is on the panel)
NotWhenMade(k) == ops[k].status # "completed" /\ ~ops[k].marked

MayRun(k) == ops[k].status # "completed"

\* A new operation comes with a new expiry of the row; a retry has the one that is loaded.
Begin(k, loaded, stale) ==
    /\ tx.pc = "idle"
    /\ MayRun(k)
    /\ tx' = [Idle EXCEPT
                !.pc = IF loaded.uuid # NoUser THEN "get by uuid" ELSE "get by name",
                !.key = k, !.stale = stale, !.loaded = loaded,
                !.name = NameToUse(loaded),
                !.term = IF ops[k].status = "none" THEN loaded.term + 1 ELSE loaded.term,
                !.marked = ops[k].marked]
    /\ names' = IF NameToUse(loaded) > names THEN NameToUse(loaded) ELSE names
    /\ UNCHANGED <<row, ops, users, flying, sync, spent>>

\* the row is locked, and loaded with the lock
BeginLocked(k) == Begin(k, row, FALSE) /\ UNCHANGED <<held, seen>>

\* A paid order is confirmed while the panel is not configured: its days are in the row, which
\* gets neither a name nor an operation.
Unavailable(k) ==
    /\ tx.pc = "idle"
    /\ k \in Orders /\ ops[k].status = "none"
    /\ row' = [row EXCEPT !.term = @ + 1]
    /\ ops' = [ops EXCEPT ![k].status = "waiting"]
    /\ UNCHANGED <<held, tx, users, flying, names, sync, spent, seen>>

\* _retry_paid_orders looks at the row of an order that is not completed, without a lock; it
\* has one order at a time.
Hold(k) ==
    /\ held = NotHeld /\ ~tx.stale
    /\ k \in Orders /\ ops[k].status \in {"waiting", "failed"}
    /\ Spend(1)
    /\ held' = [key |-> k, row |-> row]
    /\ UNCHANGED <<row, ops, tx, users, flying, names, sync, seen>>

\* get_for_update has locked the row and returns the one that is loaded already
BeginHeld(k) ==
    /\ held # NotHeld /\ held.key = k
    /\ Begin(k, held.row, TRUE)
    /\ held' = NotHeld
    /\ seen' = IF held.row.name = NoName /\ row.name # NoName
               THEN [seen EXCEPT !.forgotten = @ \cup {row.name}, !.renamed = TRUE]
               ELSE seen

\* the order is completed or waits for its time, or the worker is restarted
LetGo ==
    /\ held # NotHeld
    /\ held' = NotHeld
    /\ UNCHANGED <<row, ops, tx, users, flying, names, sync, spent, seen>>

\* The user is found; it is set up as new, by the template, when the operation is marked to
\* have made it.
Found(u, created) ==
    tx' = [tx EXCEPT !.pc = IF created THEN "converge" ELSE "set limit", !.user = u, !.created = created]

\* (seeded fault: a linked user is set up as new by a marked operation)
FoundMarked(u) == Found(u, tx.marked)

FoundLinked(u) == Found(u, FALSE)

GetByUuid ==
    /\ tx.pc = "get by uuid"
    /\ \/ \E u \in Asked(tx.loaded.uuid) : FoundLinked(u) /\ UNCHANGED spent
       \/ Asked(tx.loaded.uuid) = {} /\ Goto("get by name") /\ UNCHANGED spent
       \/ Fails
    /\ UNCHANGED <<row, ops, held, users, flying, names, sync, seen>>

GetByName ==
    /\ tx.pc = "get by name"
    /\ \/ /\ \E u \in Called(tx.name) :
               IF OwnerIsValid(u) THEN Found(u, tx.marked) ELSE Goto("failed")
          /\ UNCHANGED spent
       \/ Called(tx.name) = {} /\ Goto("get policy") /\ UNCHANGED spent
       \/ Fails
    /\ UNCHANGED <<row, ops, held, users, flying, names, sync, seen>>

GetPolicy ==
    /\ tx.pc = "get policy"
    /\ \/ tx' = [tx EXCEPT !.pc = "create", !.marked = TRUE] /\ UNCHANGED spent
       \/ Fails
    /\ UNCHANGED <<row, ops, held, users, flying, names, sync, seen>>

\* the answer is lost: the creation has taken effect, has not, or will
CreateUncertain ==
    /\ \/ users' = Created(tx.name, tx.term) /\ UNCHANGED flying
       \/ UNCHANGED <<users, flying>>
       \/ flying' = flying \cup {<<tx.name, tx.term>>} /\ UNCHANGED users
    /\ Goto("look again")

\* the POST is never repeated
Create ==
    /\ tx.pc = "create"
    /\ \/ /\ Called(tx.name) = {}
          /\ users' = Created(tx.name, tx.term)
          /\ tx' = [tx EXCEPT !.pc = "converge", !.user = Len(users) + 1, !.created = TRUE]
          /\ UNCHANGED <<flying, spent>>
       \/ /\ Called(tx.name) # {}
          /\ tx' = [tx EXCEPT !.pc = "look again", !.conflict = TRUE]
          /\ UNCHANGED <<users, flying, spent>>
       \/ CreateUncertain /\ Spend(1)
       \* refused, or answered in a form that the client does not know
       \/ Fails /\ users' \in {users, Created(tx.name, tx.term)} /\ UNCHANGED flying
    /\ UNCHANGED <<row, ops, held, names, sync, seen>>

\* after a conflict the user is taken for an older one, and the operation for unmarked
LookAgain ==
    /\ tx.pc = "look again"
    /\ \/ /\ \E u \in Called(tx.name) :
               IF OwnerIsValid(u)
               THEN tx' = [tx EXCEPT
                            !.pc = IF tx.conflict THEN "set limit" ELSE "converge",
                            !.user = u, !.created = ~tx.conflict, !.marked = ~tx.conflict]
               ELSE Goto("failed")
          /\ UNCHANGED spent
       \/ Called(tx.name) = {} /\ Goto("failed") /\ UNCHANGED spent
       \/ Fails
    /\ UNCHANGED <<row, ops, held, users, flying, names, sync, seen>>

\* An update is repeated by the client, and may fail after it took effect; it fails when the
\* user is gone.
Update(pc, after, effect) ==
    /\ tx.pc = pc
    /\ \/ tx.user \in There /\ users' = effect /\ Goto(after) /\ UNCHANGED spent
       \/ users' \in {users, IF tx.user \in There THEN effect ELSE users} /\ Fails
       \/ tx.user \notin There /\ Goto("failed") /\ UNCHANGED <<users, spent>>
    /\ UNCHANGED <<row, ops, held, flying, names, sync, seen>>

\* the four updates of a user that exists: limits, then status and expiry
SetLimit == Update("set limit", "set identity", Patched(users[tx.user].term, tx.loaded.limit))

\* (seeded fault: the expiry is left out)
IdentityWithoutTerm == Update("set identity", "read", users)

SetIdentity == Update("set identity", "read", Patched(tx.term, users[tx.user].limit))

\* the one update of a new user
Converge == Update("converge", "verify", Patched(tx.term, PolicyLimit))

\* the user is read back, his owner is checked and, when he is new, everything else
ReadBack ==
    /\ tx.pc \in {"verify", "read"}
    /\ \/ /\ Asked(tx.user) # {}
          /\ LET u == users[tx.user]
                 isAsAsked == tx.created => u.term = tx.term /\ u.limit = PolicyLimit
             IN  Goto(IF OwnerIsValid(tx.user) /\ isAsAsked THEN "done" ELSE "failed")
          /\ UNCHANGED spent
       \/ Asked(tx.user) = {} /\ Goto("failed") /\ UNCHANGED spent
       \/ Fails
    /\ UNCHANGED <<row, ops, held, users, flying, names, sync, seen>>

\* (seeded fault: the mark of a completed operation is left)
MarkLeft(done) == tx.marked

MarkAfter(done) == ~done /\ tx.marked

\* a column that the session has not changed is not written
Written(now, loaded, stored) == IF now = loaded THEN stored ELSE now

\* _save_remote, or _fail, and the commit
Commit ==
    /\ tx.pc \in {"done", "failed"}
    /\ LET done == tx.pc = "done"
       IN  /\ row' = [row EXCEPT
                        !.name = Written(tx.name, tx.loaded.name, @),
                        !.term = Written(tx.term, tx.loaded.term, @),
                        !.uuid = IF done THEN Written(tx.user, tx.loaded.uuid, @) ELSE @]
           /\ ops' = [ops EXCEPT ![tx.key] =
                        [status |-> IF done THEN "completed" ELSE "failed",
                         marked |-> MarkAfter(done)]]
    /\ tx' = Idle
    /\ UNCHANGED <<held, users, flying, names, sync, spent, seen>>

\* a crash, or a later step of the handler: the name is forgotten with the rest
RollBack ==
    /\ tx.pc # "idle"
    /\ Spend(1)
    /\ tx' = Idle
    /\ seen' = [seen EXCEPT !.forgotten = (@ \cup {tx.name}) \ {row.name}]
    /\ UNCHANGED <<row, ops, held, users, flying, names, sync>>

-----------------------------------------------------------------------------
\* The panel and its people.

Land ==
    \E f \in flying :
        /\ users' = Created(f[1], f[2])
        /\ flying' = flying \ {f}
        /\ UNCHANGED <<row, ops, held, tx, names, sync, spent, seen>>

\* a creation that was given up does not arrive
Vanish ==
    \E f \in flying :
        /\ flying' = flying \ {f}
        /\ UNCHANGED <<row, ops, held, tx, users, names, sync, spent, seen>>

\* a user is deleted on the panel
Remove ==
    \E u \in There :
        /\ Spend(1)
        /\ users' = [users EXCEPT ![u].there = FALSE]
        /\ seen' = [seen EXCEPT !.removed = TRUE]
        /\ UNCHANGED <<row, ops, held, tx, flying, names, sync>>

\* a user of another Telegram account has the row's name
Foreign ==
    /\ row.name # NoName /\ Called(row.name) = {}
    /\ Spend(1)
    /\ users' = Append(users, [Made(row.name, 0) EXCEPT !.mine = FALSE])
    /\ UNCHANGED <<row, ops, held, tx, flying, names, sync, seen>>

-----------------------------------------------------------------------------
\* RemnawaveSyncService.sync_one: the row is not locked, and it is written in the end.

NotSyncing == [user |-> NoUser, limit |-> 0, loaded |-> NoUser]

\* the user of the row, if he passes for this account's; any other one is a conflict
Identified ==
    {u \in IF row.uuid # NoUser THEN Asked(row.uuid) ELSE Called(row.name) :
        users[u].mine /\ users[u].name = row.name}

SyncAsk ==
    /\ sync = NotSyncing
    /\ \E u \in Identified : sync' = [user |-> u, limit |-> users[u].limit, loaded |-> row.uuid]
    /\ Spend(1)
    /\ UNCHANGED <<row, ops, held, tx, users, flying, names, seen>>

SyncStore ==
    /\ sync # NotSyncing /\ tx.pc = "idle"
    /\ row' = [row EXCEPT !.uuid = Written(sync.user, sync.loaded, @), !.limit = sync.limit]
    /\ sync' = NotSyncing
    /\ UNCHANGED <<ops, held, tx, users, flying, names, spent, seen>>

-----------------------------------------------------------------------------
Init ==
    /\ row = NoRow
    /\ ops = [k \in Keys |-> [status |-> "none", marked |-> FALSE]]
    /\ tx = Idle /\ held = NotHeld
    /\ users = <<>> /\ flying = {} /\ names = 0 /\ sync = NotSyncing /\ spent = 0
    /\ seen = [forgotten |-> {}, removed |-> FALSE, renamed |-> FALSE]

Next ==
    \/ \E k \in Keys : BeginLocked(k) \/ Unavailable(k) \/ Hold(k) \/ BeginHeld(k)
    \/ LetGo
    \/ GetByUuid \/ GetByName \/ GetPolicy \/ Create \/ LookAgain
    \/ SetLimit \/ SetIdentity \/ Converge \/ ReadBack
    \/ Commit \/ RollBack
    \/ Land \/ Vanish \/ Remove \/ Foreign
    \/ SyncAsk \/ SyncStore

Spec == Init /\ [][Next]_vars

Step ==
    \/ GetByUuid \/ GetByName \/ GetPolicy \/ Create \/ LookAgain
    \/ SetLimit \/ SetIdentity \/ Converge \/ ReadBack \/ Commit

\* A transaction goes on, and what has failed is tried again by the worker.
Fairness == WF_vars(Step) /\ \A k \in Keys : SF_vars(ops[k].status = "failed" /\ BeginLocked(k))

FairSpec == Spec /\ Fairness

-----------------------------------------------------------------------------
User == [name : 1 .. names, mine : BOOLEAN, term : Nat, limit : {RowLimit, PolicyLimit},
         there : BOOLEAN]

\* The shape of the state.  A transaction that has a user works on one the panel has had,
\* and an operation is marked only while it has failed.
TypeOK ==
    /\ row.name \in 0 .. names /\ row.term \in Nat /\ row.uuid \in 0 .. Len(users)
    /\ row.limit \in {RowLimit, PolicyLimit}
    /\ \A k \in Keys : /\ ops[k].status \in {"none", "waiting", "failed", "completed"}
                       /\ ops[k].marked => ops[k].status = "failed"
    /\ tx.pc \in Places /\ tx.name \in 0 .. names
    /\ tx.user \in IF tx.pc \in {"converge", "verify", "set limit", "set identity", "read", "done"}
                   THEN DOMAIN users ELSE 0 .. Len(users)
    /\ \A r \in {held.row, tx.loaded} : r.name \in 0 .. names /\ r.uuid \in 0 .. Len(users)
    /\ held.key \in Orders \cup {"none"}
    /\ \A u \in DOMAIN users : users[u] \in User
    /\ \A f \in flying : f[1] \in 1 .. names
    /\ sync.user \in 0 .. Len(users) /\ spent \in 0 .. MaxSpent

\* README.md:91, "a separate panel user for each Telegram ID": however often a creation was
\* uncertain, given up, late, or overtaken by a retry under another key, the panel has one user
\* of this account.  Names that were generated in a transaction rolled back do not count, nor does
\* the name that a retry gives up which held the row from before it had one (remnawave.py:329).
OneUser ==
    Cardinality({u \in There : users[u].mine /\ users[u].name \notin seen.forgotten}) <= 1

\* A user who belongs to another Telegram account is never changed by the bot, not even when he
\* took the stored name between two attempts.
ForeignUntouched ==
    [][\A u \in DOMAIN users :
          ~users[u].mine => users'[u] \in {users[u], [users[u] EXCEPT !.there = FALSE]}]_vars

\* An operation is completed only when the linked user has on the panel the expiry of the row,
\* whichever calls failed before, whoever made him and whichever operation is tried again;
\* unless he was deleted after he was read back, or the row was stored after the worker's session
\* had loaded it.
CompletedIsPushed ==
    [][\A k \in Keys :
          ops[k].status # "completed" /\ ops'[k].status = "completed" /\ tx.loaded = row =>
              LET u == row'.uuid IN
              /\ u # NoUser
              /\ users[u].there => users[u].term = row'.term]_vars

\* What the promise sees: the operations, the one that is running, the row that is held for one,
\* and the account's own users.
Status == [k \in Keys |-> ops[k].status]
Open == [key |-> tx.key, term |-> tx.term, link |-> tx.loaded.uuid]
Kept == [key |-> held.key, term |-> held.row.term, link |-> held.row.uuid]
Account == [u \in {v \in DOMAIN users : users[v].mine} |->
               [term |-> users[u].term, there |-> users[u].there]]

Promise == INSTANCE Delivery WITH
    term <- row.term, link <- row.uuid, status <- Status, open <- Open, kept <- Kept,
    astray <- seen.renamed, panel <- Account

\* Delivery: whichever calls failed before, whoever made the user and whichever operation is tried
\* again, an operation is completed only when the user it goes by has on the panel the expiry it
\* was begun for, and that is the row's, or the one the row had when the worker looked; between
\* operations no synchronisation, late creation or deletion moves the expiry of a user; the row
\* goes back to no earlier term; and no user who is there loses the link to another one, unless
\* the account was given a second name.
ImplementsDelivery == Promise!Spec

\* A linked user who has the row's own limit is never set back to the template's, although
\* an operation that is marked to set up a new user may still be tried again; unless the retry
\* goes by a row from before that link or that limit.  (Only a synchronisation can bring the
\* template's limit into the row.)
LimitIsKept ==
    [][\A u \in DOMAIN users :
          /\ u = row.uuid /\ users[u].limit = RowLimit /\ row.limit = RowLimit
          /\ tx.pc # "idle" => tx.loaded.uuid = row.uuid /\ tx.loaded.limit = row.limit
          => users'[u].limit = RowLimit]_vars

\* A failed operation is completed in the end, if nobody deletes users or takes the name, and the
\* account was not given a second name.  (A deleted user is never replaced: his row keeps the link,
\* and the owner check refuses every other user.  With a second name in the row and the link to the
\* user of the first, it refuses them both.)
Undisturbed == ~seen.removed /\ ~seen.renamed /\ \A u \in DOMAIN users : users[u].mine

FailedIsCompleted ==
    \A k \in Keys : ops[k].status = "failed" ~> (ops[k].status = "completed" \/ ~Undisturbed)
=============================================================================
