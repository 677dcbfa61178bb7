------------------------- MODULE ProvisioningProofs -------------------------
(***************************************************************************)
(* What holds of Provisioning for every set of operations, every limit of  *)
(* devices and every number of failures.  The inductive invariant is built *)
(* up in layers, each of which is inductive with the ones before.          *)
(***************************************************************************)
EXTENDS Provisioning, FiniteSetTheorems, TLAPS

-----------------------------------------------------------------------------
(* The inductive invariant *)

PanelUser ==
    [name : Nat, mine : BOOLEAN, term : Nat, limit : {RowLimit, PolicyLimit}, there : BOOLEAN]

Row == [name : Nat, uuid : Nat, term : Nat, limit : {RowLimit, PolicyLimit}]

Transaction == [pc : Places, key : Keys \cup {"none"}, stale : BOOLEAN, loaded : Row,
                name : Nat, term : Nat, marked : BOOLEAN,
                user : Nat, created : BOOLEAN, conflict : BOOLEAN]

\* what each variable is
Typed ==
    /\ row \in Row
    /\ ops \in [Keys -> [status : {"none", "waiting", "failed", "completed"}, marked : BOOLEAN]]
    /\ held \in [key : Orders \cup {"none"}, row : Row]
    /\ held # NotHeld => held.key \in Keys
    /\ tx \in Transaction
    /\ tx.pc # "idle" => tx.key \in Keys
    /\ users \in Seq(PanelUser)
    /\ flying \in SUBSET (Nat \X Nat)
    /\ names \in Nat
    /\ sync \in [user : Nat, limit : {0, RowLimit, PolicyLimit}, loaded : Nat]
    /\ sync # NotSyncing => sync.limit \in {RowLimit, PolicyLimit}
    /\ spent \in 0 .. MaxSpent
    /\ seen \in [forgotten : SUBSET Nat, removed : BOOLEAN, renamed : BOOLEAN]

\* places at which the transaction has found or made its user
Held == {"converge", "verify", "set limit", "set identity", "read", "done"}

\* whoever the row, now or as it was loaded, the transaction or a synchronisation refers to is
\* the account's own user
Own(u) == u \in DOMAIN users /\ users[u].mine

Owned ==
    /\ row.uuid # NoUser => Own(row.uuid)
    /\ held.row.uuid # NoUser => Own(held.row.uuid)
    /\ tx.loaded.uuid # NoUser => Own(tx.loaded.uuid)
    /\ tx.user # NoUser => Own(tx.user)
    /\ tx.pc \in Held => tx.user # NoUser
    /\ sync.user # NoUser => Own(sync.user)
    /\ sync # NotSyncing => sync.user # NoUser

\* names come from the counter, and marks do not outlive their purpose
Named ==
    /\ row.name <= names /\ tx.name <= names
    /\ held.row.name <= names /\ tx.loaded.name <= names
    /\ IF tx.pc = "idle" THEN tx = Idle ELSE tx.name # NoName
    /\ \A u \in DOMAIN users : users[u].name \in 1 .. names
    /\ \A f \in flying : f[1] \in 1 .. names
    /\ \A k \in Keys : ops[k].marked => ops[k].status = "failed"

\* places at which the user the row is known to be linked to has been found missing
Unlinked == {"get by name", "get policy", "create", "look again", "converge", "verify"}

\* places before the transaction has a user
Searching == {"get by uuid", "get by name", "get policy", "create", "look again"}

\* the user a transaction has set up has its expiry, and a linked user is never set up as new
SetUp ==
    /\ tx.pc \in {"converge", "verify"} => tx.created
    /\ tx.pc \in {"set limit", "set identity", "read"} => ~tx.created
    /\ tx.pc \in {"read", "done"} => users[tx.user].term = tx.term
    /\ tx.pc \in Searching => tx.user = NoUser
    /\ tx.pc \in Unlinked /\ tx.loaded.uuid # NoUser =>
           ~users[tx.loaded.uuid].there /\ tx.user # tx.loaded.uuid

\* the steps that only decide where the transaction goes on
Looks == GetByUuid \/ GetByName \/ GetPolicy \/ LookAgain \/ ReadBack

\* the steps that change a user of the panel
Updates == SetLimit \/ SetIdentity \/ Converge

\* the steps that open a transaction, and those of the worker and its orders outside of one
Begins == \E k \in Keys : BeginLocked(k) \/ BeginHeld(k)
Looked == LetGo \/ \E k \in Keys : Hold(k)
Postpones == \E k \in Keys : Unavailable(k)

-----------------------------------------------------------------------------
(* Layer one: types *)

\* a user the panel makes is a user of the panel
LEMMA CreatedTyped ==
    ASSUME users \in Seq(PanelUser), NEW n \in Nat, NEW d \in Nat
    PROVE  Created(n, d) \in Seq(PanelUser)
<1>1. Made(n, d) \in PanelUser
  BY DEF Made, PanelUser
<1> QED
  BY <1>1 DEF Created

\* an update leaves users of the panel
LEMMA PatchedTyped ==
    ASSUME users \in Seq(PanelUser), tx.user \in DOMAIN users,
           NEW d \in Nat, NEW l \in {RowLimit, PolicyLimit}
    PROVE  Patched(d, l) \in Seq(PanelUser)
<1>1. users[tx.user] \in PanelUser
  OBVIOUS
<1>2. [users[tx.user] EXCEPT !.term = d, !.limit = l] \in PanelUser
  BY <1>1 DEF PanelUser
<1> QED
  BY <1>2 DEF Patched

\* a call spends nothing, or one of the failures
LEMMA SpentTyped ==
    ASSUME Typed, UNCHANGED spent \/ Spend(1)
    PROVE  spent' \in 0 .. MaxSpent
BY ProvisioningAssumption DEF Typed, Spend

\* a step that only looks keeps the types
LEMMA LooksTyped ==
    ASSUME Typed, Looks
    PROVE  Typed'
<1>1. tx \in Transaction
  BY DEF Typed
<1>2. /\ UNCHANGED <<row, ops, held, users, flying, names, sync, seen>>
      /\ UNCHANGED spent \/ Spend(1)
  BY DEF Looks, GetByUuid, GetByName, GetPolicy, LookAgain, ReadBack, Fails
<1>3. \A pc \in Places : Goto(pc) => tx' \in Transaction /\ tx'.key = tx.key
  BY <1>1 DEF Goto, Transaction
<1> \A u \in DOMAIN users : u \in Nat
  BY DEF Typed
<1>4. \A u \in DOMAIN users, b \in BOOLEAN : Found(u, b) => tx' \in Transaction /\ tx'.key = tx.key
  <2> SUFFICES ASSUME NEW u \in DOMAIN users, NEW b \in BOOLEAN, Found(u, b)
               PROVE  tx' \in Transaction /\ tx'.key = tx.key
    OBVIOUS
  <2>1. (IF b THEN "converge" ELSE "set limit") \in Places
    BY DEF Places, Calls
  <2> QED
    BY <1>1, <2>1 DEF Found, Transaction
<1>5. tx' \in Transaction /\ tx'.key = tx.key /\ tx.pc # "idle"
  <2>1. CASE GetByUuid
    BY <1>1, <1>3, <1>4, <2>1 DEF GetByUuid, Fails, FoundLinked, Asked, There, Places, Calls
  <2>2. CASE GetByName
    BY <1>1, <1>3, <1>4, <2>2 DEF GetByName, Fails, Called, There, Places, Calls, Transaction
  <2>3. CASE GetPolicy
    BY <1>1, <1>3, <1>4, <2>3 DEF GetPolicy, Fails, Places, Calls, Transaction
  <2>4. CASE LookAgain
    <3>1. (IF tx.conflict THEN "set limit" ELSE "converge") \in Places /\ tx.conflict \in BOOLEAN
      BY <1>1 DEF Places, Calls, Transaction
    <3>2. \A u \in DOMAIN users :
            [tx EXCEPT !.pc = IF tx.conflict THEN "set limit" ELSE "converge",
                       !.user = u, !.created = ~tx.conflict, !.marked = ~tx.conflict] \in Transaction
      BY <1>1, <3>1 DEF Transaction
    <3>3. CASE Goto("failed")
      BY <1>3, <2>4, <3>3 DEF LookAgain, Places
    <3>4. CASE ~Goto("failed")
      <4>1. PICK u \in DOMAIN users :
              tx' = [tx EXCEPT !.pc = IF tx.conflict THEN "set limit" ELSE "converge",
                               !.user = u, !.created = ~tx.conflict, !.marked = ~tx.conflict]
        BY <2>4, <3>4 DEF LookAgain, Fails, Called, There
      <4> QED
        BY <1>1, <2>4, <3>2, <4>1 DEF LookAgain, Transaction
    <3> QED
      BY <3>3, <3>4
  <2>5. CASE ReadBack
    BY <1>1, <1>3, <1>4, <2>5 DEF ReadBack, Fails, Places, Calls
  <2> QED
    BY <2>1, <2>2, <2>3, <2>4, <2>5 DEF Looks
<1> QED
  BY <1>2, <1>5, SpentTyped DEF Typed

\* an update keeps the types
LEMMA UpdatesTyped ==
    ASSUME Typed, tx.pc \in Held => tx.user \in DOMAIN users, Updates
    PROVE  Typed'
<1>1. tx.pc \in Held /\ tx.user \in DOMAIN users
  BY DEF Updates, SetLimit, SetIdentity, Converge, Update, Held
<1>2. users[tx.user] \in PanelUser
  BY <1>1 DEF Typed
<1>3. \A d \in Nat, l \in {RowLimit, PolicyLimit} : Patched(d, l) \in Seq(PanelUser)
  BY <1>1, PatchedTyped DEF Typed
<1>4. /\ Patched(users[tx.user].term, tx.loaded.limit) \in Seq(PanelUser)
      /\ Patched(tx.term, users[tx.user].limit) \in Seq(PanelUser)
      /\ Patched(tx.term, PolicyLimit) \in Seq(PanelUser)
  BY <1>2, <1>3 DEF Typed, Transaction, Row, PanelUser
<1>5. users' \in Seq(PanelUser)
  BY <1>4 DEF Updates, SetLimit, SetIdentity, Converge, Update, Typed
<1>6. \E pc \in {"set identity", "read", "verify", "failed"} : Goto(pc)
  BY DEF Updates, SetLimit, SetIdentity, Converge, Update, Fails
<1>7. tx' \in Transaction /\ tx'.key = tx.key /\ tx.pc # "idle"
  BY <1>1, <1>6 DEF Goto, Held, Places, Calls, Typed, Transaction
<1>8. /\ UNCHANGED <<row, ops, held, flying, names, sync, seen>>
      /\ UNCHANGED spent \/ Spend(1)
  BY DEF Updates, SetLimit, SetIdentity, Converge, Update, Fails
<1> QED
  BY <1>5, <1>7, <1>8, SpentTyped DEF Typed

\* a creation keeps the types, whatever becomes of it
LEMMA CreateTyped ==
    ASSUME Typed, Create
    PROVE  Typed'
<1>1. tx \in Transaction /\ users \in Seq(PanelUser) /\ tx.name \in Nat /\ tx.term \in Nat
  BY DEF Typed, Transaction
<1>2. Created(tx.name, tx.term) \in Seq(PanelUser) /\ users' \in Seq(PanelUser)
  BY <1>1, CreatedTyped DEF Create, CreateUncertain
<1>3. flying' \in SUBSET (Nat \X Nat)
  <2>1. flying' \in {flying, flying \cup {<<tx.name, tx.term>>}}
    BY DEF Create, CreateUncertain
  <2>2. <<tx.name, tx.term>> \in Nat \X Nat
    BY <1>1
  <2> QED
    BY <2>1, <2>2 DEF Typed
<1>4. tx' \in Transaction /\ tx'.key = tx.key /\ tx.pc # "idle"
  <2>1. \/ \E pc \in {"look again", "failed"} : Goto(pc)
        \/ tx' = [tx EXCEPT !.pc = "look again", !.conflict = TRUE]
        \/ tx' = [tx EXCEPT !.pc = "converge", !.user = Len(users) + 1, !.created = TRUE]
    BY DEF Create, CreateUncertain, Fails
  <2>2. Len(users) + 1 \in Nat
    BY <1>1
  <2> QED
    BY <1>1, <2>1, <2>2 DEF Create, Goto, Transaction, Places, Calls
<1>5. /\ UNCHANGED <<row, ops, held, names, sync, seen>>
      /\ UNCHANGED spent \/ Spend(1)
  BY DEF Create, Fails
<1> QED
  BY <1>2, <1>3, <1>4, <1>5, SpentTyped DEF Typed

\* the transaction as it begins
LEMMA Begun ==
    ASSUME Typed, Named, NEW k \in Keys, NEW loaded \in Row, NEW stale \in BOOLEAN,
           Begin(k, loaded, stale)
    PROVE  /\ tx' \in Transaction /\ tx'.key = k /\ tx'.stale = stale /\ tx'.loaded = loaded
           /\ tx'.pc = IF loaded.uuid # NoUser THEN "get by uuid" ELSE "get by name"
           /\ tx'.name = NameToUse(loaded) /\ tx'.user = NoUser
           /\ tx'.term = IF ops[k].status = "none" THEN loaded.term + 1 ELSE loaded.term
           /\ names' \in Nat /\ names <= names' /\ NameToUse(loaded) \in 1 .. names'
           /\ tx = Idle /\ UNCHANGED <<row, ops, users, flying, sync, spent>>
<1>1. /\ loaded.name \in Nat /\ loaded.term \in Nat /\ names \in Nat
      /\ ops[k].marked \in BOOLEAN
  BY DEF Typed, Row
<1>2. NameToUse(loaded) \in Nat \ {0}
  BY <1>1 DEF NameToUse, NoName
<1>3. tx' = [pc |-> IF loaded.uuid # NoUser THEN "get by uuid" ELSE "get by name", key |-> k,
             stale |-> stale, loaded |-> loaded, name |-> NameToUse(loaded),
             term |-> IF ops[k].status = "none" THEN loaded.term + 1 ELSE loaded.term,
             marked |-> ops[k].marked, user |-> NoUser, created |-> FALSE, conflict |-> FALSE]
  BY DEF Begin, Idle
<1>4. tx' \in Transaction
  <2>1. (IF loaded.uuid # NoUser THEN "get by uuid" ELSE "get by name") \in Places
    BY DEF Places, Calls
  <2>2. (IF ops[k].status = "none" THEN loaded.term + 1 ELSE loaded.term) \in Nat
    BY <1>1
  <2> QED
    BY <1>1, <1>2, <1>3, <2>1, <2>2 DEF Transaction, NoUser
<1>5. names' \in Nat /\ names <= names' /\ NameToUse(loaded) \in 1 .. names'
  BY <1>1, <1>2 DEF Begin
<1>6. /\ tx'.key = k /\ tx'.stale = stale /\ tx'.loaded = loaded
      /\ tx'.pc = IF loaded.uuid # NoUser THEN "get by uuid" ELSE "get by name"
      /\ tx'.name = NameToUse(loaded) /\ tx'.user = NoUser
      /\ tx'.term = IF ops[k].status = "none" THEN loaded.term + 1 ELSE loaded.term
  BY <1>3
<1>7. tx = Idle /\ UNCHANGED <<row, ops, users, flying, sync, spent>>
  BY DEF Begin, Named
<1> QED
  BY <1>4, <1>5, <1>6, <1>7

\* a transaction goes by the row, or by the one the worker has held
LEMMA BeginsAre ==
    ASSUME Typed, Begins
    PROVE  \E k \in Keys, loaded \in Row, stale \in BOOLEAN :
              /\ Begin(k, loaded, stale)
              /\ IF stale THEN held.key = k /\ loaded = held.row /\ BeginHeld(k)
                 ELSE loaded = row /\ UNCHANGED <<held, seen>>
<1>1. row \in Row /\ held.row \in Row
  BY DEF Typed
<1>2. CASE \E k \in Keys : BeginLocked(k)
  BY <1>1, <1>2 DEF BeginLocked
<1>3. CASE \E k \in Keys : BeginHeld(k)
  BY <1>1, <1>3 DEF BeginHeld
<1> QED
  BY <1>2, <1>3 DEF Begins

\* a row is held, or none is
LEMMA NothingTyped == NoRow \in Row /\ NotHeld.row = NoRow /\ NotHeld.key = "none"
BY DEF NoRow, Row, NotHeld, NoName, NoUser

\* the beginning of a transaction keeps the types
LEMMA BeginTyped ==
    ASSUME Typed, Named, Begins
    PROVE  Typed'
<1>1. CASE \E k \in Keys : BeginLocked(k)
  <2>1. PICK k \in Keys : Begin(k, row, FALSE) /\ UNCHANGED <<held, seen>>
    BY <1>1 DEF BeginLocked
  <2>2. row \in Row
    BY DEF Typed
  <2>3. /\ tx' \in Transaction /\ tx'.key \in Keys /\ names' \in Nat
        /\ UNCHANGED <<row, ops, users, flying, sync, spent>>
    BY <2>1, <2>2, Begun
  <2> QED
    BY <2>1, <2>3 DEF Typed, NotSyncing
<1>2. CASE \E k \in Keys : BeginHeld(k)
  <2>1. PICK k \in Keys : Begin(k, held.row, TRUE) /\ BeginHeld(k)
    BY <1>2 DEF BeginHeld
  <2>2. held.row \in Row /\ row.name \in Nat
    BY DEF Typed, Row
  <2>3. /\ tx' \in Transaction /\ tx'.key \in Keys /\ names' \in Nat
        /\ UNCHANGED <<row, ops, users, flying, sync, spent>>
    BY <2>1, <2>2, Begun
  <2>4. held' = NotHeld /\ NotHeld \in [key : Orders \cup {"none"}, row : Row]
    BY <2>1, NothingTyped DEF BeginHeld, NotHeld
  <2>5. seen' \in [forgotten : SUBSET Nat, removed : BOOLEAN, renamed : BOOLEAN]
    BY <2>1, <2>2 DEF BeginHeld, Typed
  <2> QED
    BY <2>3, <2>4, <2>5 DEF Typed, NotSyncing
<1> QED
  BY <1>1, <1>2 DEF Begins

\* no transaction is one too
LEMMA IdleTyped == Idle \in Transaction
BY NothingTyped DEF Idle, Transaction, Places, Calls, NoName, NoUser

\* what the worker looks at, and an order that waits, keep the types
LEMMA WorkerTyped ==
    ASSUME Typed, Looked \/ Postpones
    PROVE  Typed'
<1>1. CASE LetGo
  BY <1>1, NothingTyped DEF LetGo, Typed, NotHeld, NotSyncing
<1>2. CASE \E k \in Keys : Hold(k)
  <2>1. PICK k \in Keys : Hold(k)
    BY <1>2
  <2>2. held' \in [key : Orders \cup {"none"}, row : Row] /\ held'.key \in Keys
    BY <2>1 DEF Hold, Typed
  <2>3. spent' \in 0 .. MaxSpent
    BY <2>1, SpentTyped DEF Hold
  <2>4. UNCHANGED <<row, ops, tx, users, flying, names, sync, seen>>
    BY <2>1 DEF Hold
  <2> QED
    BY <2>2, <2>3, <2>4 DEF Typed, NotSyncing
<1>3. CASE \E k \in Keys : Unavailable(k)
  <2>1. PICK k \in Keys : Unavailable(k)
    BY <1>3
  <2>2. row' \in Row
    <3>1. row' = [row EXCEPT !.term = row.term + 1] /\ row.term + 1 \in Nat
      BY <2>1 DEF Unavailable, Typed, Row
    <3> QED
      BY <3>1 DEF Typed, Row
  <2>3. ops' \in [Keys -> [status : {"none", "waiting", "failed", "completed"}, marked : BOOLEAN]]
    BY <2>1 DEF Unavailable, Typed
  <2>4. UNCHANGED <<held, tx, users, flying, names, sync, spent, seen>>
    BY <2>1 DEF Unavailable
  <2> QED
    BY <2>2, <2>3, <2>4 DEF Typed, NotSyncing
<1> QED
  BY <1>1, <1>2, <1>3 DEF Looked, Postpones

\* the row a commit leaves
LEMMA RowStored ==
    ASSUME Typed, Commit
    PROVE  /\ row' \in Row
           /\ row'.name = Written(tx.name, tx.loaded.name, row.name)
           /\ row'.term = Written(tx.term, tx.loaded.term, row.term)
           /\ row'.uuid = IF tx.pc = "done" THEN Written(tx.user, tx.loaded.uuid, row.uuid)
                          ELSE row.uuid
           /\ row'.limit = row.limit
<1>1. row \in Row /\ tx \in Transaction
  BY DEF Typed
<1>2. row' = [row EXCEPT
                !.name = Written(tx.name, tx.loaded.name, row.name),
                !.term = Written(tx.term, tx.loaded.term, row.term),
                !.uuid = IF tx.pc = "done" THEN Written(tx.user, tx.loaded.uuid, row.uuid)
                         ELSE row.uuid]
  BY <1>1 DEF Commit, Row
<1>3. /\ Written(tx.name, tx.loaded.name, row.name) \in Nat
      /\ Written(tx.term, tx.loaded.term, row.term) \in Nat
      /\ Written(tx.user, tx.loaded.uuid, row.uuid) \in Nat
  BY <1>1 DEF Written, Transaction, Row
<1> QED
  BY <1>1, <1>2, <1>3 DEF Row

\* a commit keeps the types
LEMMA CommitTyped ==
    ASSUME Typed, Commit
    PROVE  Typed'
<1> DEFINE done == tx.pc = "done"
<1>1. tx \in Transaction /\ tx.key \in Keys
  BY DEF Typed, Commit
<1>2. row' \in Row
  BY RowStored
<1>3. [status |-> IF done THEN "completed" ELSE "failed", marked |-> MarkAfter(done)]
          \in [status : {"none", "waiting", "failed", "completed"}, marked : BOOLEAN]
  BY <1>1 DEF MarkAfter, Transaction
<1>4. ops' = [ops EXCEPT ![tx.key] =
                 [status |-> IF done THEN "completed" ELSE "failed", marked |-> MarkAfter(done)]]
  BY DEF Commit
<1>5. ops' \in [Keys -> [status : {"none", "waiting", "failed", "completed"}, marked : BOOLEAN]]
  BY <1>3, <1>4 DEF Typed
<1> QED
  BY <1>2, <1>5, IdleTyped DEF Commit, Typed, Idle

\* a rollback and what happens on the panel keep the types
LEMMA PeopleTyped ==
    ASSUME Typed, Named, RollBack \/ Land \/ Vanish \/ Remove \/ Foreign
    PROVE  Typed'
<1>1. CASE RollBack
  <2>1. seen' \in [forgotten : SUBSET Nat, removed : BOOLEAN, renamed : BOOLEAN]
    BY <1>1 DEF RollBack, Typed, Transaction
  <2> QED
    BY <1>1, <2>1, IdleTyped, SpentTyped DEF RollBack, Typed, Idle
<1>2. CASE Land
  <2>1. PICK f \in flying : users' = Created(f[1], f[2]) /\ flying' = flying \ {f}
    BY <1>2 DEF Land
  <2>2. f[1] \in Nat /\ f[2] \in Nat
    BY DEF Typed
  <2>3. users' \in Seq(PanelUser)
    BY <2>1, <2>2, CreatedTyped DEF Typed
  <2> QED
    BY <1>2, <2>1, <2>3 DEF Land, Typed
<1>3. CASE Vanish
  BY <1>3 DEF Vanish, Typed
<1>4. CASE Remove
  <2>1. PICK u \in There : users' = [users EXCEPT ![u].there = FALSE]
    BY <1>4 DEF Remove
  <2>2. users[u] \in PanelUser /\ u \in DOMAIN users
    BY DEF There, Typed
  <2>3. [users[u] EXCEPT !.there = FALSE] \in PanelUser
    BY <2>2 DEF PanelUser
  <2>4. users' \in Seq(PanelUser)
    BY <2>1, <2>2, <2>3 DEF Typed
  <2>5. seen' \in [forgotten : SUBSET Nat, removed : BOOLEAN, renamed : BOOLEAN]
    BY <1>4 DEF Remove, Typed
  <2> QED
    BY <1>4, <2>4, <2>5, SpentTyped DEF Remove, Typed
<1>5. CASE Foreign
  <2>1. [Made(row.name, 0) EXCEPT !.mine = FALSE] \in PanelUser
    BY DEF Made, PanelUser, Typed, Row
  <2>2. users' \in Seq(PanelUser)
    BY <1>5, <2>1 DEF Foreign, Typed
  <2> QED
    BY <1>5, <2>2, SpentTyped DEF Foreign, Typed
<1> QED
  BY <1>1, <1>2, <1>3, <1>4, <1>5

\* a synchronisation keeps the types
LEMMA SyncTyped ==
    ASSUME Typed, SyncAsk \/ SyncStore
    PROVE  Typed'
<1>1. CASE SyncAsk
  <2>1. PICK u \in Identified : sync' = [user |-> u, limit |-> users[u].limit, loaded |-> row.uuid]
    BY <1>1 DEF SyncAsk
  <2>2. u \in DOMAIN users
    BY DEF Identified, Asked, Called, There
  <2>3. u \in Nat /\ users[u].limit \in {RowLimit, PolicyLimit}
    <3>1. users[u] \in PanelUser /\ u \in Nat
      BY <2>2 DEF Typed
    <3> QED
      BY <3>1 DEF PanelUser
  <2> QED
    BY <1>1, <2>1, <2>3, SpentTyped DEF SyncAsk, Typed, Row
<1>2. CASE SyncStore
  <2>1. row' \in Row
    BY <1>2 DEF SyncStore, Typed, Row, Written
  <2> QED
    BY <1>2, <2>1 DEF SyncStore, Typed, NotSyncing, NoUser
<1> QED
  BY <1>1, <1>2

\* every step keeps the types, given the layers after
LEMMA TypedStep ==
    ASSUME Typed, Owned, Named, [Next]_vars
    PROVE  Typed'
<1>1. CASE Looks
  BY <1>1, LooksTyped
<1>2. CASE Updates
  BY <1>2, UpdatesTyped DEF Owned, Own
<1>3. CASE Create
  BY <1>3, CreateTyped
<1>4. CASE Begins
  BY <1>4, BeginTyped
<1>5. CASE Commit
  BY <1>5, CommitTyped
<1>6. CASE RollBack \/ Land \/ Vanish \/ Remove \/ Foreign
  BY <1>6, PeopleTyped
<1>7. CASE SyncAsk \/ SyncStore
  BY <1>7, SyncTyped
<1>8. CASE Looked \/ Postpones
  BY <1>8, WorkerTyped
<1>9. CASE UNCHANGED vars
  BY <1>9 DEF vars, Typed, NotSyncing
<1> QED
  BY <1>1, <1>2, <1>3, <1>4, <1>5, <1>6, <1>7, <1>8, <1>9
     DEF Next, Looks, Updates, Begins, Looked, Postpones

\* a call keeps what its transaction is about
LEMMA CallKeeps ==
    ASSUME Typed, Looks \/ Updates \/ Create
    PROVE  /\ tx'.key = tx.key /\ tx'.name = tx.name /\ tx'.term = tx.term
           /\ tx'.loaded = tx.loaded /\ tx'.stale = tx.stale
           /\ tx.pc # "idle" /\ tx'.pc # "idle"
           /\ UNCHANGED <<row, ops, held, names, sync, seen>>
<1> DEFINE Keeps == /\ tx'.key = tx.key /\ tx'.name = tx.name /\ tx'.term = tx.term
                    /\ tx'.loaded = tx.loaded /\ tx'.stale = tx.stale /\ tx'.pc # "idle"
<1>1. tx \in Transaction
  BY DEF Typed
<1>2. \A pc : Goto(pc) /\ pc # "idle" => Keeps
  BY <1>1 DEF Goto, Transaction
<1>3. \A u, b : Found(u, b) => Keeps
  BY <1>1 DEF Found, Transaction
<1>4. CASE Looks
  <2> SUFFICES Keeps
    BY <1>4 DEF Looks, GetByUuid, GetByName, GetPolicy, LookAgain, ReadBack
  <2>1. CASE \E pc \in {"get by name", "get policy", "done", "failed"} : Goto(pc)
    BY <1>1, <2>1 DEF Goto, Transaction
  <2>2. CASE GetByUuid \/ GetByName
    BY <1>1, <1>3, <2>1, <2>2 DEF GetByUuid, GetByName, Fails, FoundLinked
  <2>3. CASE ReadBack
    BY <2>1, <2>3 DEF ReadBack, Fails
  <2>4. CASE GetPolicy
    <3>1. CASE tx' = [tx EXCEPT !.pc = "create", !.marked = TRUE]
      BY <1>1, <3>1 DEF Transaction
    <3> QED
      BY <2>1, <2>4, <3>1 DEF GetPolicy, Fails
  <2>5. CASE LookAgain
    <3>1. ASSUME NEW u, tx' = [tx EXCEPT !.pc = IF tx.conflict THEN "set limit" ELSE "converge",
                                  !.user = u, !.created = ~tx.conflict, !.marked = ~tx.conflict]
          PROVE  Keeps
      BY <1>1, <3>1 DEF Transaction
    <3> QED
      BY <2>1, <2>5, <3>1 DEF LookAgain, Fails
  <2> QED
    BY <1>4, <2>2, <2>3, <2>4, <2>5 DEF Looks
<1>5. CASE Updates
  <2>1. \E pc \in {"set identity", "read", "verify", "failed"} : Goto(pc)
    BY <1>5 DEF Updates, SetLimit, SetIdentity, Converge, Update, Fails
  <2>2. Keeps
    BY <1>2, <2>1
  <2> QED
    BY <1>5, <2>2 DEF Updates, SetLimit, SetIdentity, Converge, Update
<1>6. CASE Create
  <2>1. \/ \E pc \in {"look again", "failed"} : Goto(pc)
        \/ tx' = [tx EXCEPT !.pc = "look again", !.conflict = TRUE]
        \/ tx' = [tx EXCEPT !.pc = "converge", !.user = Len(users) + 1, !.created = TRUE]
    BY <1>6 DEF Create, CreateUncertain, Fails
  <2>2. Keeps
    BY <1>1, <1>2, <2>1 DEF Transaction
  <2> QED
    BY <1>6, <2>2 DEF Create
<1> QED
  BY <1>4, <1>5, <1>6

-----------------------------------------------------------------------------
(* Layer two: users of the account's own *)

\* the panel's users as a creation leaves them
LEMMA CreatedUsers ==
    ASSUME users \in Seq(PanelUser), NEW n \in Nat, NEW d \in Nat
    PROVE  LET after == Created(n, d) IN
           /\ \A u \in DOMAIN users : u \in DOMAIN after /\ after[u] = users[u]
           /\ \A u \in DOMAIN after : u \notin DOMAIN users =>
                  u = Len(users) + 1 /\ after[u] = Made(n, d) /\ Called(n) = {}
BY DEF Created, Made, PanelUser

\* the panel's users as an update leaves them
LEMMA PatchedUsers ==
    ASSUME users \in Seq(PanelUser), tx.user \in DOMAIN users, NEW d, NEW l
    PROVE  LET after == Patched(d, l) IN
           /\ DOMAIN after = DOMAIN users
           /\ \A u \in DOMAIN users :
                 /\ u # tx.user => after[u] = users[u]
                 /\ after[u].name = users[u].name
                 /\ after[u].mine = users[u].mine
                 /\ after[u].there = users[u].there
                 /\ after[u].term = IF u = tx.user THEN d ELSE users[u].term
                 /\ after[u].limit = IF u = tx.user THEN l ELSE users[u].limit
BY DEF Patched, PanelUser

\* a user keeps his name and his owner, does not come back, and is changed by updates only
Lasting ==
    \A u \in DOMAIN users :
        /\ u \in DOMAIN users'
        /\ users'[u].name = users[u].name
        /\ users'[u].mine = users[u].mine
        /\ users'[u].there => users[u].there
        /\ ~Updates => users'[u].term = users[u].term /\ users'[u].limit = users[u].limit

\* every step keeps what lasts
LEMMA UsersLast ==
    ASSUME Typed, Owned, [Next]_vars
    PROVE  Lasting
<1> users \in Seq(PanelUser)
  BY DEF Typed
<1>1. CASE UNCHANGED users
  BY <1>1 DEF Lasting
<1>2. ASSUME NEW n \in Nat, NEW d \in Nat, users' = Created(n, d) PROVE Lasting
  BY <1>2, CreatedUsers DEF Lasting
<1>3. CASE Updates
  <2>1. tx.user \in DOMAIN users
    BY <1>3 DEF Owned, Own, Held, Updates, SetLimit, SetIdentity, Converge, Update
  <2>2. \/ UNCHANGED users
        \/ users' = Patched(users[tx.user].term, tx.loaded.limit)
        \/ users' = Patched(tx.term, users[tx.user].limit)
        \/ users' = Patched(tx.term, PolicyLimit)
    BY <1>3 DEF Updates, SetLimit, SetIdentity, Converge, Update
  <2> QED
    BY <1>3, <2>1, <2>2, PatchedUsers DEF Lasting
<1>4. CASE Create
  BY <1>1, <1>2, <1>4 DEF Create, CreateUncertain, Typed, Transaction
<1>5. CASE Land
  BY <1>2, <1>5 DEF Land, Typed
<1>6. CASE Remove
  BY <1>6 DEF Remove, There, Lasting, PanelUser
<1>7. CASE Foreign
  <2>1. PICK x : users' = Append(users, x)
    BY <1>7 DEF Foreign
  <2>2. \A u \in DOMAIN users : u \in DOMAIN users' /\ users'[u] = users[u]
    BY <2>1
  <2> QED
    BY <2>2 DEF Lasting
<1>8. CASE \/ Looks \/ Commit \/ RollBack \/ Vanish \/ SyncAsk \/ SyncStore \/ UNCHANGED vars
           \/ Begins \/ Looked \/ Postpones
  BY <1>1, <1>8 DEF Looks, GetByUuid, GetByName, GetPolicy, LookAgain, ReadBack, Commit, RollBack,
                    Vanish, SyncAsk, SyncStore, vars, Begins, BeginLocked, BeginHeld, Begin,
                    Looked, LetGo, Hold, Postpones, Unavailable
<1> QED
  BY <1>3, <1>4, <1>5, <1>6, <1>7, <1>8 DEF Next, Looks, Updates, Begins, Looked, Postpones

\* a transaction finds or makes only a user of the account's own
LEMMA OwnFound ==
    ASSUME Typed, Owned, Lasting, Looks \/ Updates \/ Create
    PROVE  /\ tx'.user # NoUser => Own(tx.user)'
           /\ tx'.pc \in Held => tx'.user # NoUser
<1> USE DEF NoUser
<1> \A u \in DOMAIN users : u # 0
  BY DEF Typed
<1>1. tx \in Transaction
  BY DEF Typed
<1>2. ASSUME NEW u \in DOMAIN users, NEW b \in BOOLEAN, Found(u, b), users[u].mine
      PROVE  tx'.user # NoUser /\ Own(tx.user)'
  BY <1>1, <1>2 DEF Found, Transaction, Own, Lasting
<1>3. ASSUME tx'.user = tx.user, tx'.pc \in Held => tx.pc \in Held
      PROVE  /\ tx'.user # NoUser => Own(tx.user)'
             /\ tx'.pc \in Held => tx'.user # NoUser
  BY <1>3 DEF Owned, Lasting, Own
<1>4. \A pc : Goto(pc) => tx'.user = tx.user /\ tx'.pc = pc
  BY <1>1 DEF Goto, Transaction
<1>5. CASE \E pc \in {"get by name", "get policy", "look again", "failed"} : Goto(pc)
  BY <1>3, <1>4, <1>5 DEF Held
<1>6. CASE GetByUuid
  <2>1. CASE \E u \in Asked(tx.loaded.uuid) : FoundLinked(u)
    BY <1>2, <2>1 DEF Asked, There, FoundLinked, Owned, Own
  <2> QED
    BY <1>6, <1>5, <2>1 DEF GetByUuid, Fails
<1>7. CASE GetByName
  <2>1. CASE \E u \in Called(tx.name) : OwnerIsValid(u) /\ Found(u, tx.marked)
    BY <1>1, <1>2, <2>1 DEF Called, There, OwnerIsValid, Transaction
  <2> QED
    BY <1>7, <1>5, <2>1 DEF GetByName, Fails
<1>8. CASE GetPolicy
  <2>1. CASE tx' = [tx EXCEPT !.pc = "create", !.marked = TRUE]
    BY <1>1, <1>3, <2>1 DEF Transaction, Held
  <2> QED
    BY <1>8, <1>5, <2>1 DEF GetPolicy, Fails
<1>9. CASE LookAgain
  <2>1. CASE Goto("failed")
    BY <1>5, <2>1
  <2>2. CASE ~Goto("failed")
    <3>1. PICK u \in DOMAIN users :
            /\ users[u].mine
            /\ tx' = [tx EXCEPT !.pc = IF tx.conflict THEN "set limit" ELSE "converge",
                               !.user = u, !.created = ~tx.conflict, !.marked = ~tx.conflict]
      BY <1>9, <2>2 DEF LookAgain, Fails, Called, There, OwnerIsValid
    <3>2. tx'.user = u
      BY <1>1, <3>1 DEF Transaction
    <3> QED
      BY <3>1, <3>2 DEF Own, Lasting
  <2> QED
    BY <2>1, <2>2
<1>10. CASE ReadBack
  <2>1. \E pc \in {"done", "failed"} : Goto(pc)
    BY <1>10 DEF ReadBack, Fails
  <2> QED
    BY <1>3, <1>4, <1>10, <2>1 DEF ReadBack, Held
<1>11. CASE Updates
  <2>1. \E pc \in {"set identity", "read", "verify", "failed"} : Goto(pc)
    BY <1>11 DEF Updates, SetLimit, SetIdentity, Converge, Update, Fails
  <2>2. tx.pc \in Held
    BY <1>11 DEF Updates, SetLimit, SetIdentity, Converge, Update, Held
  <2> QED
    BY <1>3, <1>4, <2>1, <2>2
<1>12. CASE Create
  <2>2. CASE tx' = [tx EXCEPT !.pc = "look again", !.conflict = TRUE]
    BY <1>1, <1>3, <2>2 DEF Transaction, Held
  <2>3. CASE /\ users' = Created(tx.name, tx.term) /\ Called(tx.name) = {}
             /\ tx' = [tx EXCEPT !.pc = "converge", !.user = Len(users) + 1, !.created = TRUE]
    <3>1. users \in Seq(PanelUser) /\ tx'.user = Len(users) + 1
      BY <1>1, <2>3 DEF Typed, Transaction
    <3>2. users' = Append(users, Made(tx.name, tx.term))
      BY <2>3 DEF Created
    <3>3. tx'.user \in DOMAIN users' /\ users'[tx'.user] = Made(tx.name, tx.term)
      BY <3>1, <3>2
    <3> QED
      BY <3>1, <3>3 DEF Made, Own
  <2> QED
    BY <1>12, <1>5, <2>2, <2>3 DEF Create, CreateUncertain, Fails
<1> QED
  BY <1>6, <1>7, <1>8, <1>9, <1>10, <1>11, <1>12 DEF Looks

\* every step keeps to the account's own users
LEMMA OwnedStep ==
    ASSUME Typed, Owned, Named, [Next]_vars
    PROVE  Owned'
<1> USE DEF NoUser
<1>1. Lasting
  BY UsersLast
<1>2. CASE Looks \/ Updates \/ Create
  <2>1. UNCHANGED <<row, held, sync>> /\ tx'.loaded = tx.loaded
    BY <1>2, CallKeeps
  <2> QED
    BY <1>1, <1>2, <2>1, OwnFound DEF Owned, NotSyncing, Lasting, Own
<1>3. CASE Begins
  <2>1. PICK k \in Keys, loaded \in Row, stale \in BOOLEAN :
              /\ Begin(k, loaded, stale)
              /\ IF stale THEN held.key = k /\ loaded = held.row /\ BeginHeld(k)
                 ELSE loaded = row /\ UNCHANGED <<held, seen>>
    BY <1>3, BeginsAre
  <2>2. /\ tx'.user = NoUser /\ tx'.pc \notin Held /\ tx'.loaded \in {row, held.row}
        /\ UNCHANGED <<row, users, sync>>
    BY <2>1, Begun DEF Held
  <2>3. held' \in {held, NotHeld}
    BY <2>1 DEF BeginHeld
  <2>4. (held.row.uuid # NoUser => Own(held.row.uuid))'
    BY <1>1, <2>2, <2>3, NothingTyped DEF Owned, Lasting, Own, NoRow
  <2> QED
    BY <1>1, <2>2, <2>4 DEF Owned, NotSyncing, Lasting, Own
<1>9. CASE Commit \/ RollBack
  <2>1. /\ tx' = Idle /\ UNCHANGED <<held, sync>>
        /\ tx'.user = NoUser /\ tx'.pc \notin Held /\ tx'.loaded.uuid = NoUser
    <3>1. tx' = Idle /\ UNCHANGED <<held, sync>>
      BY <1>9 DEF Commit, RollBack
    <3> QED
      BY <3>1 DEF Idle, NoRow, Held
  <2>2. row'.uuid = row.uuid \/ (tx.pc \in Held /\ row'.uuid = tx.user)
    BY <1>9, RowStored DEF Commit, RollBack, Held, Written
  <2> QED
    BY <1>1, <2>1, <2>2 DEF Owned, NotSyncing, Lasting, Own
<1>4. CASE Land \/ Vanish \/ Remove \/ Foreign \/ LetGo \/ Postpones \/ UNCHANGED vars
  <2>1. row'.uuid = row.uuid /\ UNCHANGED <<tx, sync>> /\ held' \in {held, NotHeld}
    BY <1>4 DEF Land, Vanish, Remove, Foreign, LetGo, Postpones, Unavailable, vars, Typed, Row
  <2>2. held'.row.uuid \in {held.row.uuid, NoUser}
    BY <2>1, NothingTyped DEF NoRow
  <2> QED
    BY <1>1, <2>1, <2>2 DEF Owned, NotSyncing, Lasting, Own
<1>7. CASE \E k \in Keys : Hold(k)
  <2>1. UNCHANGED <<row, tx, sync>> /\ held'.row = row
    BY <1>7 DEF Hold
  <2> QED
    BY <1>1, <2>1 DEF Owned, NotSyncing, Lasting, Own
<1>5. CASE SyncAsk
  <2>1. PICK u \in Identified : sync' = [user |-> u, limit |-> users[u].limit, loaded |-> row.uuid]
    BY <1>5 DEF SyncAsk
  <2>2. Own(u) /\ u # NoUser
    BY DEF Identified, Asked, Called, There, Own, Typed
  <2> QED
    BY <1>1, <1>5, <2>1, <2>2 DEF SyncAsk, Owned, Lasting, Own
<1>6. CASE SyncStore
  <2>1. /\ row'.uuid \in {sync.user, row.uuid} /\ sync'.user = NoUser /\ sync' = NotSyncing
        /\ UNCHANGED <<held, tx>>
    BY <1>6 DEF SyncStore, Typed, Row, NotSyncing, Written
  <2> QED
    BY <1>1, <2>1 DEF Owned, NotSyncing, Lasting, Own
<1> QED
  BY <1>2, <1>3, <1>4, <1>5, <1>6, <1>7, <1>9 DEF Next, Looks, Updates, Begins, Looked, Postpones

-----------------------------------------------------------------------------
(* Layer three: names and marks *)

\* whom the panel has anew, and from where
Newcomers ==
    \A u \in DOMAIN users' : u \notin DOMAIN users =>
        /\ u = Len(users) + 1
        /\ Called(users'[u].name) = {}
        /\ \/ Create /\ users'[u].name = tx.name
           \/ Land /\ \E f \in flying : users'[u].name = f[1]
           \/ Foreign /\ users'[u].name = row.name /\ ~users'[u].mine

\* every step makes users in these ways only
LEMMA UsersCome ==
    ASSUME Typed, Owned, [Next]_vars
    PROVE  Newcomers
<1> users \in Seq(PanelUser)
  BY DEF Typed
<1>1. CASE DOMAIN users' = DOMAIN users
  BY <1>1 DEF Newcomers
<1>2. CASE Create
  <2>1. UNCHANGED users \/ users' = Created(tx.name, tx.term)
    BY <1>2 DEF Create, CreateUncertain
  <2>2. tx.name \in Nat /\ tx.term \in Nat
    BY DEF Typed, Transaction
  <2> QED
    BY <1>1, <1>2, <2>1, <2>2, CreatedUsers DEF Newcomers, Made
<1>3. CASE Land
  <2>1. PICK f \in flying : users' = Created(f[1], f[2])
    BY <1>3 DEF Land
  <2>2. f[1] \in Nat /\ f[2] \in Nat
    BY DEF Typed
  <2> QED
    BY <1>3, <2>1, <2>2, CreatedUsers DEF Newcomers, Made
<1>4. CASE Foreign
  <2> DEFINE x == [Made(row.name, 0) EXCEPT !.mine = FALSE]
  <2>1. x.name = row.name /\ ~x.mine
    BY DEF Made
  <2>2. users' = Append(users, x) /\ Called(row.name) = {}
    BY <1>4 DEF Foreign
  <2> HIDE DEF x
  <2>3. \A u \in DOMAIN users' : u \notin DOMAIN users => u = Len(users) + 1 /\ users'[u] = x
    BY <2>2
  <2> QED
    BY <1>4, <2>1, <2>2, <2>3 DEF Newcomers
<1>5. CASE Updates
  <2>1. tx.user \in DOMAIN users
    BY <1>5 DEF Owned, Own, Held, Updates, SetLimit, SetIdentity, Converge, Update
  <2>2. \/ UNCHANGED users
        \/ users' = Patched(users[tx.user].term, tx.loaded.limit)
        \/ users' = Patched(tx.term, users[tx.user].limit)
        \/ users' = Patched(tx.term, PolicyLimit)
    BY <1>5 DEF Updates, SetLimit, SetIdentity, Converge, Update
  <2> QED
    BY <1>1, <2>1, <2>2, PatchedUsers
<1>6. CASE Remove
  BY <1>1, <1>6 DEF Remove, There
<1>7. CASE \/ Looks \/ Commit \/ RollBack \/ Vanish \/ SyncAsk \/ SyncStore \/ UNCHANGED vars
           \/ Begins \/ Looked \/ Postpones
  BY <1>1, <1>7 DEF Looks, GetByUuid, GetByName, GetPolicy, LookAgain, ReadBack, Commit, RollBack,
                    Vanish, SyncAsk, SyncStore, vars, Begins, BeginLocked, BeginHeld, Begin,
                    Looked, LetGo, Hold, Postpones, Unavailable
<1> QED
  BY <1>2, <1>3, <1>4, <1>5, <1>6, <1>7 DEF Next, Looks, Updates, Begins, Looked, Postpones

\* every step takes names from the counter
LEMMA NamedStep ==
    ASSUME Typed, Owned, Named, [Next]_vars
    PROVE  Named'
<1> USE DEF NoName
<1>1. Lasting /\ Newcomers
  BY UsersLast, UsersCome
<1>2. /\ row.name \in Nat /\ tx.name \in Nat /\ names \in Nat
      /\ \A f \in flying : f[1] \in Nat
  BY DEF Typed, Transaction, Row
<1>3. (\A u \in DOMAIN users : users[u].name \in 1 .. names)'
  <2>1. names <= names' /\ names' \in Nat
    <3>1. Begins => names <= names' /\ names' \in Nat
      BY BeginsAre, Begun
    <3>2. UNCHANGED names \/ Begins
      BY DEF Begins, LetGo, Hold, Unavailable, Next, vars, GetByUuid, GetByName, GetPolicy, LookAgain, ReadBack, SetLimit, SetIdentity,
             Converge, Update, Create, Commit, RollBack, Land, Vanish, Remove, Foreign, SyncAsk, SyncStore
    <3> QED
      BY <1>2, <3>1, <3>2
  <2>2. \A u \in DOMAIN users' : u \in DOMAIN users => users'[u].name \in 1 .. names'
    BY <1>1, <1>2, <2>1 DEF Named, Lasting
  <2>3. Create => tx.name \in 1 .. names
    BY <1>2 DEF Named, Create
  <2>4. Foreign => row.name \in 1 .. names
    BY <1>2 DEF Named, Foreign
  <2>5. \A u \in DOMAIN users' : u \notin DOMAIN users => users'[u].name \in 1 .. names'
    BY <1>1, <1>2, <2>1, <2>3, <2>4 DEF Named, Newcomers
  <2> QED
    BY <2>2, <2>5
<1>4. CASE Looks \/ Updates
  <2>1. UNCHANGED flying
    BY <1>4 DEF Looks, GetByUuid, GetByName, GetPolicy, LookAgain, ReadBack, Updates, SetLimit,
                SetIdentity, Converge, Update
  <2> QED
    BY <1>3, <1>4, <2>1, CallKeeps DEF Named
<1>5. CASE Create
  <2>1. flying' \in {flying, flying \cup {<<tx.name, tx.term>>}}
    BY <1>5 DEF Create, CreateUncertain
  <2>2. tx.name \in 1 .. names
    BY <1>2, <1>5 DEF Named, Create
  <2> QED
    BY <1>3, <1>5, <2>1, <2>2, CallKeeps DEF Named
<1>6. CASE Begins
  <2>1. PICK k \in Keys, loaded \in Row, stale \in BOOLEAN :
              /\ Begin(k, loaded, stale)
              /\ IF stale THEN held.key = k /\ loaded = held.row /\ BeginHeld(k)
                 ELSE loaded = row /\ UNCHANGED <<held, seen>>
    BY <1>6, BeginsAre
  <2>2. /\ tx'.name = NameToUse(loaded) /\ tx'.pc # "idle" /\ tx'.loaded \in {row, held.row}
        /\ NameToUse(loaded) \in 1 .. names' /\ names <= names' /\ names' \in Nat
        /\ UNCHANGED <<row, ops, flying>>
    BY <2>1, Begun
  <2>3. held'.row \in {held.row, NoRow} /\ NoRow.name = 0
    BY <2>1, NothingTyped DEF BeginHeld, NoRow
  <2>4. held.row.name \in Nat
    BY DEF Typed, Row
  <2>5. /\ row'.name <= names' /\ tx'.name <= names' /\ tx'.name # NoName
        /\ held'.row.name <= names' /\ tx'.loaded.name <= names'
    BY <1>2, <2>2, <2>3, <2>4 DEF Named
  <2>6. (\A f \in flying : f[1] \in 1 .. names)'
    BY <1>2, <2>2 DEF Named
  <2> QED
    BY <1>3, <2>2, <2>5, <2>6 DEF Named
<1>7. CASE Commit
  <2>1. tx.key \in Keys
    BY <1>7 DEF Typed, Commit
  <2>2. row'.name \in {tx.name, row.name} /\ tx'.loaded.name = 0
    BY <1>7, RowStored DEF Written, Commit, Idle, NoRow
  <2>3. \A k \in Keys : ops'[k].marked => ops'[k].status = "failed"
    BY <1>7, <2>1 DEF Commit, MarkAfter, Named, Typed
  <2> QED
    BY <1>2, <1>3, <1>7, <2>2, <2>3 DEF Commit, Named, Idle
<1>8. CASE RollBack
  BY <1>2, <1>3, <1>8 DEF RollBack, Named, Idle, NoRow
<1>9. CASE Land \/ Vanish \/ Remove \/ Foreign \/ SyncAsk \/ Looked \/ UNCHANGED vars
  <2>1. UNCHANGED <<row, ops, tx, names>> /\ flying' \in SUBSET flying
    BY <1>9 DEF Land, Vanish, Remove, Foreign, SyncAsk, Looked, LetGo, Hold, vars
  <2>2. held' \in {held, NotHeld} \/ held'.row = row
    BY <1>9 DEF Land, Vanish, Remove, Foreign, SyncAsk, Looked, LetGo, Hold, vars
  <2>3. held'.row.name \in {held.row.name, row.name, 0}
    BY <2>2, NothingTyped DEF NoRow
  <2> QED
    BY <1>2, <1>3, <2>1, <2>3 DEF Named, Idle
<1>10. CASE SyncStore
  <2>1. row'.name = row.name
    BY <1>10 DEF SyncStore, Typed, Row
  <2> QED
    BY <1>3, <1>10, <2>1 DEF SyncStore, Named, Idle
<1>11. CASE Postpones
  <2>1. PICK k \in Keys : Unavailable(k)
    BY <1>11 DEF Postpones
  <2>2. row'.name = row.name /\ UNCHANGED <<held, tx, users, flying, names>>
    BY <2>1 DEF Unavailable, Typed, Row
  <2>3. \A j \in Keys : ops'[j].marked => ops'[j].status = "failed"
    BY <2>1 DEF Unavailable, Named, Typed
  <2> QED
    BY <1>3, <2>2, <2>3 DEF Named, Idle
<1> QED
  BY <1>4, <1>5, <1>6, <1>7, <1>8, <1>9, <1>10, <1>11
     DEF Next, Looks, Updates, Begins, Looked, Postpones

-----------------------------------------------------------------------------
(* Layer four: the expiry *)

\* a step that looks leads a linked user to the updates that are his
LEMMA LooksSetUp ==
    ASSUME Typed, Owned, SetUp, Lasting, Looks
    PROVE  SetUp'
<1> USE DEF NoUser
<1>1. tx \in Transaction /\ UNCHANGED users
  BY DEF Typed, Looks, GetByUuid, GetByName, GetPolicy, LookAgain, ReadBack
<1> \A u \in DOMAIN users : u \in Nat
  BY DEF Typed
<1> USE DEF NoUser, Unlinked, Searching
<1>2. ASSUME NEW pc \in {"get by name", "get policy", "look again", "failed"}, Goto(pc),
             pc # "failed" => tx.pc \in Searching,
             pc # "failed" /\ tx.loaded.uuid # NoUser => ~users[tx.loaded.uuid].there
      PROVE  SetUp'
  BY <1>1, <1>2 DEF Goto, Transaction, SetUp
<1>3. CASE Goto("failed")
  BY <1>2, <1>3
<1>4. ASSUME NEW u \in DOMAIN users, Found(u, FALSE)
      PROVE  SetUp'
  BY <1>1, <1>4 DEF Found, Transaction, SetUp
<1>5. ASSUME NEW u \in There, Found(u, TRUE), tx.pc \in Unlinked
      PROVE  SetUp'
  <2>1. /\ tx'.pc = "converge" /\ tx'.user = u /\ tx'.created /\ tx'.loaded = tx.loaded
        /\ UNCHANGED users
    BY <1>1, <1>5 DEF Found, Transaction
  <2>2. tx.loaded.uuid # NoUser => ~users[tx.loaded.uuid].there /\ u # tx.loaded.uuid
    BY <1>5 DEF SetUp, There
  <2> QED
    BY <2>1, <2>2 DEF SetUp
<1>6. CASE GetByUuid
  <2>1. CASE Asked(tx.loaded.uuid) = {} /\ Goto("get by name")
    <3>1. tx.loaded.uuid # NoUser => ~users[tx.loaded.uuid].there
      BY <2>1 DEF Asked, There, Owned, Own
    <3> QED
      BY <1>2, <1>6, <2>1, <3>1 DEF GetByUuid
  <2> QED
    BY <1>3, <1>4, <1>6, <2>1 DEF GetByUuid, FoundLinked, Asked, There, Fails
<1>7. CASE GetByName
  <2>1. CASE Goto("get policy")
    BY <1>2, <1>7, <2>1 DEF GetByName, SetUp
  <2>2. CASE \E u \in Called(tx.name) : Found(u, tx.marked)
    <3>1. PICK u \in There : Found(u, tx.marked)
      BY <2>2 DEF Called
    <3>2. tx.marked \in BOOLEAN
      BY <1>1 DEF Transaction
    <3>3. CASE tx.marked
      BY <1>5, <1>7, <3>1, <3>3 DEF GetByName
    <3>4. CASE ~tx.marked
      BY <1>4, <3>1, <3>2, <3>4 DEF There
    <3> QED
      BY <3>3, <3>4
  <2> QED
    BY <1>3, <1>7, <2>1, <2>2 DEF GetByName, Fails
<1>8. CASE GetPolicy
  <2>1. CASE tx' = [tx EXCEPT !.pc = "create", !.marked = TRUE]
    BY <1>1, <1>8, <2>1 DEF GetPolicy, Transaction, SetUp
  <2> QED
    BY <1>3, <1>8, <2>1 DEF GetPolicy, Fails
<1>9. CASE LookAgain
  <2>1. CASE ~Goto("failed")
    <3>1. PICK u \in There :
            tx' = [tx EXCEPT !.pc = IF tx.conflict THEN "set limit" ELSE "converge",
                             !.user = u, !.created = ~tx.conflict, !.marked = ~tx.conflict]
      BY <1>9, <2>1 DEF LookAgain, Fails, Called
    <3>2. /\ tx'.pc = (IF tx.conflict THEN "set limit" ELSE "converge")
          /\ tx'.user = u /\ tx'.created = ~tx.conflict /\ tx'.loaded = tx.loaded
      BY <1>1, <3>1 DEF Transaction
    <3>3. tx.loaded.uuid # NoUser => ~users[tx.loaded.uuid].there /\ u # tx.loaded.uuid
      BY <1>9, <3>1 DEF LookAgain, SetUp, There
    <3> QED
      BY <1>1, <3>2, <3>3 DEF SetUp, Transaction
  <2> QED
    BY <1>3, <2>1
<1>10. CASE ReadBack
  <2>1. CASE Goto("done") /\ tx.user \in There /\ (tx.created => users[tx.user].term = tx.term)
    BY <1>1, <1>10, <2>1 DEF ReadBack, Goto, Transaction, SetUp
  <2> QED
    BY <1>3, <1>10, <2>1 DEF ReadBack, Fails, Asked
<1> QED
  BY <1>6, <1>7, <1>8, <1>9, <1>10 DEF Looks

\* an update moves the transaction on
LEMMA UpdateMoves ==
    ASSUME Typed, Updates
    PROVE  tx' # tx
<1>1. tx \in Transaction
  BY DEF Typed
<1>2. \E pc \in {"set identity", "read", "verify", "failed"} : Goto(pc) /\ tx.pc # pc
  BY DEF Updates, SetLimit, SetIdentity, Converge, Update, Fails
<1> QED
  BY <1>1, <1>2 DEF Goto, Transaction

\* every step leaves the users set up as the place of the transaction says
LEMMA SetUpStep ==
    ASSUME Typed, Owned, Named, SetUp, [Next]_vars
    PROVE  SetUp'
<1> USE DEF NoUser, Unlinked, Searching
<1>1. Lasting
  BY UsersLast
<1>2. tx \in Transaction /\ users \in Seq(PanelUser) /\ \A u \in DOMAIN users : u \in Nat \ {0}
  BY DEF Typed
<1>3. CASE Looks
  BY <1>1, <1>3, LooksSetUp
<1>4. CASE Updates
  <2>1. tx.user \in DOMAIN users /\ UNCHANGED row
    BY <1>4 DEF Owned, Own, Held, Updates, SetLimit, SetIdentity, Converge, Update
  <2>2. CASE Goto("failed")
    BY <1>2, <2>2 DEF Goto, Transaction, SetUp
  <2>3. CASE SetLimit /\ Goto("set identity")
    BY <1>2, <2>3 DEF SetLimit, Update, Goto, Transaction, SetUp
  <2>4. CASE SetIdentity /\ Goto("read") /\ users' = Patched(tx.term, users[tx.user].limit)
    <3>1. users'[tx.user].term = tx.term
      BY <1>2, <2>1, <2>4, PatchedUsers
    <3> QED
      BY <1>2, <2>4, <3>1 DEF SetIdentity, Update, Goto, Transaction, SetUp
  <2>5. CASE Converge /\ Goto("verify")
    BY <1>1, <1>2, <2>1, <2>5 DEF Converge, Update, Goto, Transaction, SetUp, Lasting, Owned, Own
  <2> QED
    BY <1>4, <2>2, <2>3, <2>4, <2>5 DEF Updates, SetLimit, SetIdentity, Converge, Update, Fails
<1>5. CASE Create
  <2>1. tx.pc = "create" /\ tx.user = NoUser /\ UNCHANGED row
    BY <1>5 DEF Create, SetUp
  <2>2. tx.loaded.uuid # NoUser => ~users'[tx.loaded.uuid].there /\ tx.loaded.uuid # Len(users) + 1
    BY <1>1, <1>2, <2>1 DEF SetUp, Lasting, Owned, Own
  <2>3. CASE \/ \E pc \in {"look again", "failed"} : Goto(pc)
             \/ tx' = [tx EXCEPT !.pc = "look again", !.conflict = TRUE]
    BY <1>2, <2>1, <2>2, <2>3 DEF Goto, Transaction, SetUp
  <2>4. CASE tx' = [tx EXCEPT !.pc = "converge", !.user = Len(users) + 1, !.created = TRUE]
    BY <1>2, <2>1, <2>2, <2>4 DEF Transaction, SetUp
  <2> QED
    BY <1>5, <2>3, <2>4 DEF Create, CreateUncertain, Fails
<1>6. CASE Begins
  <2>1. tx'.pc \in {"get by uuid", "get by name"} /\ tx'.user = NoUser
        /\ (tx'.pc = "get by name" => tx'.loaded.uuid = NoUser)
    BY <1>6, BeginsAre, Begun
  <2> QED
    BY <2>1 DEF SetUp
<1>7. CASE Commit \/ RollBack
  <2>1. tx' = Idle
    BY <1>7 DEF Commit, RollBack
  <2> QED
    BY <2>1 DEF Idle, SetUp
<1>8. CASE \/ Land \/ Vanish \/ Remove \/ Foreign \/ SyncAsk \/ SyncStore
           \/ Looked \/ Postpones \/ UNCHANGED vars
  <2>1. UNCHANGED tx
    BY <1>8 DEF Land, Vanish, Remove, Foreign, SyncAsk, SyncStore, Looked, LetGo, Hold, Postpones,
                Unavailable, vars
  <2>2. \A u \in DOMAIN users : users'[u].term = users[u].term /\ (users'[u].there => users[u].there)
    BY <1>1, <2>1, UpdateMoves DEF Lasting
  <2>3. tx.pc \in {"read", "done"} => tx.user \in DOMAIN users
    BY DEF Owned, Own, Held
  <2> QED
    BY <2>1, <2>2, <2>3 DEF SetUp, Owned, Own
<1> QED
  BY <1>3, <1>4, <1>5, <1>6, <1>7, <1>8 DEF Next, Looks, Updates, Begins, Looked, Postpones

-----------------------------------------------------------------------------
(* What follows *)

\* the layers together
Inv == Typed /\ Owned /\ Named /\ SetUp

\* the invariant holds at first
LEMMA InitInv ==
    ASSUME Init
    PROVE  Inv
<1> USE DEF Init, NoUser, NoName
<1>1. Typed
  BY ProvisioningAssumption, IdleTyped, NothingTyped DEF Typed, NotSyncing, NotHeld, Idle
<1>2. Owned
  BY DEF Owned, Idle, NoRow, NotHeld, Held, NotSyncing
<1>3. Named
  BY DEF Named, Idle, NoRow, NotHeld
<1>4. SetUp
  BY DEF SetUp, Idle, Unlinked, Searching
<1> QED
  BY <1>1, <1>2, <1>3, <1>4 DEF Inv

\* every step keeps the invariant
LEMMA InvStep ==
    ASSUME Inv, [Next]_vars
    PROVE  Inv'
BY TypedStep, OwnedStep, NamedStep, SetUpStep DEF Inv

\* The inductive invariant: whoever the row, the transaction or a synchronisation refers to is the
\* account's own user; names come from the counter; and a transaction that is past the updates has
\* given its user the expiry it was begun for.
THEOREM AlwaysInv == Spec => []Inv
<1>1. Init => Inv
  BY InitInv
<1>2. Inv /\ [Next]_vars => Inv'
  BY InvStep
<1> QED
  BY <1>1, <1>2, PTL DEF Spec

\* Every reachable state has the declared shape, for all operations, limits and failures.
THEOREM TypeCorrect == Spec => []TypeOK
<1>1. Inv => TypeOK
  <2> SUFFICES ASSUME Inv PROVE TypeOK
    OBVIOUS
  <2> USE DEF Inv, NoUser
  <2>1. \A u \in DOMAIN users : users[u] \in User
    <3> SUFFICES ASSUME NEW u \in DOMAIN users PROVE users[u] \in User
      OBVIOUS
    <3>1. users[u] \in PanelUser /\ users[u].name \in 1 .. names
      BY DEF Typed, Named
    <3> QED
      BY <3>1 DEF PanelUser, User
  <2>0. /\ row \in Row /\ held.row \in Row /\ tx.loaded \in Row /\ tx.user \in Nat
        /\ sync.user \in Nat /\ users \in Seq(PanelUser) /\ names \in Nat
    BY DEF Typed, Transaction
  <2>2. row.uuid \in 0 .. Len(users) /\ tx.user \in 0 .. Len(users) /\ sync.user \in 0 .. Len(users)
    BY <2>0 DEF Row, Owned, Own
  <2>5. \A r \in {held.row, tx.loaded} : r.name \in 0 .. names /\ r.uuid \in 0 .. Len(users)
    <3>1. ASSUME NEW r \in Row, r.name <= names, r.uuid # NoUser => Own(r.uuid)
          PROVE  r.name \in 0 .. names /\ r.uuid \in 0 .. Len(users)
      BY <2>0, <3>1 DEF Row, Own
    <3> QED
      BY <2>0, <3>1 DEF Owned, Named
  <2>3. tx.pc \in {"converge", "verify", "set limit", "set identity", "read", "done"}
            => tx.user \in DOMAIN users
    BY DEF Owned, Own, Held
  <2>4. /\ row.name \in 0 .. names /\ tx.name \in 0 .. names
        /\ \A f \in flying : f[1] \in 1 .. names
    BY DEF Typed, Row, Transaction, Named
  <2> QED
    BY <2>1, <2>2, <2>3, <2>4, <2>5 DEF TypeOK, Typed, Row, Transaction, Named
<1> QED
  BY <1>1, AlwaysInv, PTL

\* The bot changes no user of another account, whatever names and users come and go between its
\* calls.
THEOREM ForeignersUntouched == Spec => ForeignUntouched
<1>1. Inv /\ [Next]_vars =>
        \A u \in DOMAIN users :
            ~users[u].mine => users'[u] \in {users[u], [users[u] EXCEPT !.there = FALSE]}
  <2> SUFFICES ASSUME Inv, [Next]_vars, NEW u \in DOMAIN users, ~users[u].mine
               PROVE  users'[u] \in {users[u], [users[u] EXCEPT !.there = FALSE]}
    OBVIOUS
  <2> users \in Seq(PanelUser)
    BY DEF Inv, Typed
  <2>1. CASE Updates
    <3>1. tx.user \in DOMAIN users /\ users[tx.user].mine
      BY <2>1 DEF Inv, Owned, Own, Held, Updates, SetLimit, SetIdentity, Converge, Update
    <3>2. \/ UNCHANGED users
          \/ users' = Patched(users[tx.user].term, tx.loaded.limit)
          \/ users' = Patched(tx.term, users[tx.user].limit)
          \/ users' = Patched(tx.term, PolicyLimit)
      BY <2>1 DEF Updates, SetLimit, SetIdentity, Converge, Update
    <3> QED
      BY <3>1, <3>2, PatchedUsers
  <2>2. CASE Remove
    BY <2>2 DEF Remove, There
  <2>3. ASSUME NEW x, users' = Append(users, x) PROVE users'[u] = users[u]
    BY <2>3
  <2>4. CASE Create \/ Land \/ Foreign
    BY <2>3, <2>4 DEF Create, CreateUncertain, Land, Foreign, Created
  <2>5. CASE \/ Looks \/ Commit \/ RollBack \/ Vanish \/ SyncAsk \/ SyncStore \/ UNCHANGED vars
             \/ Begins \/ Looked \/ Postpones
    BY <2>5 DEF Looks, GetByUuid, GetByName, GetPolicy, LookAgain, ReadBack, Commit, RollBack,
                Vanish, SyncAsk, SyncStore, vars, Begins, BeginLocked, BeginHeld, Begin,
                    Looked, LetGo, Hold, Postpones, Unavailable
  <2> QED
    BY <2>1, <2>2, <2>4, <2>5 DEF Next, Looks, Updates, Begins, Looked, Postpones
<1> QED
  BY <1>1, AlwaysInv, PTL DEF Spec, ForeignUntouched

\* An operation that is completed by the row as it is stored has linked a user who has its expiry,
\* for every number of failed calls before.
THEOREM CompletedMeansPushed == Spec => CompletedIsPushed
<1>1. Inv /\ [Next]_vars =>
        \A k \in Keys :
            ops[k].status # "completed" /\ ops'[k].status = "completed" /\ tx.loaded = row =>
                LET u == row'.uuid IN
                /\ u # NoUser
                /\ users[u].there => users[u].term = row'.term
  <2> SUFFICES ASSUME Inv, [Next]_vars, NEW k \in Keys,
                      ops[k].status # "completed", ops'[k].status = "completed", tx.loaded = row
               PROVE  row'.uuid # NoUser /\ users[row'.uuid].term = row'.term
    OBVIOUS
  <2>1. Commit
    <3>1. Postpones => ops'[k].status # "completed"
      BY DEF Postpones, Unavailable, Inv, Typed
    <3> QED
      BY <3>1 DEF Next, vars, BeginLocked, BeginHeld, Begin, Postpones, Hold, LetGo,
                  GetByUuid, GetByName, GetPolicy, LookAgain, ReadBack, SetLimit,
                  SetIdentity, Converge, Update, Create, RollBack, Land, Vanish, Remove, Foreign,
                  SyncAsk, SyncStore
  <2>2. tx.pc = "done"
    BY <2>1 DEF Commit, Inv, Typed
  <2>3. row'.uuid = tx.user /\ row'.term = tx.term
    BY <2>1, <2>2, RowStored DEF Written, Inv
  <2> QED
    BY <2>2, <2>3 DEF Inv, SetUp, Owned, Held
<1> QED
  BY <1>1, AlwaysInv, PTL DEF Spec, CompletedIsPushed

\* The device limit of a linked user is never set back to that of the template by an operation that
\* goes by the link and the limit of the row.
THEOREM LimitsKept == Spec => LimitIsKept
<1>1. Inv /\ [Next]_vars =>
        \A u \in DOMAIN users :
            /\ u = row.uuid /\ users[u].limit = RowLimit /\ row.limit = RowLimit
            /\ tx.pc # "idle" => tx.loaded.uuid = row.uuid /\ tx.loaded.limit = row.limit
            => users'[u].limit = RowLimit
  <2> SUFFICES ASSUME Inv, [Next]_vars, NEW u \in DOMAIN users,
                      u = row.uuid, users[u].limit = RowLimit, row.limit = RowLimit,
                      tx.pc # "idle" => tx.loaded.uuid = row.uuid /\ tx.loaded.limit = row.limit
               PROVE  users'[u].limit = RowLimit
    OBVIOUS
  <2> users \in Seq(PanelUser)
    BY DEF Inv, Typed
  <2>1. CASE ~Updates
    BY <2>1, UsersLast DEF Inv, Lasting
  <2>2. ASSUME Updates, tx.user \in DOMAIN users PROVE users'[u].limit = RowLimit
    <3>1. CASE SetLimit
      <4>1. UNCHANGED users \/ users' = Patched(users[tx.user].term, RowLimit)
        BY <3>1 DEF SetLimit, Update
      <4> QED
        BY <2>2, <4>1, PatchedUsers
    <3>2. CASE SetIdentity
      <4>1. UNCHANGED users \/ users' = Patched(tx.term, users[tx.user].limit)
        BY <3>2 DEF SetIdentity, Update
      <4> QED
        BY <2>2, <4>1, PatchedUsers
    <3>3. CASE Converge
      <4>1. tx.user # u
        BY <3>3 DEF Converge, Update, Inv, Typed, SetUp, Unlinked, NoUser
      <4> QED
        BY <2>2, <3>3, <4>1, PatchedUsers DEF Converge, Update
    <3> QED
      BY <2>2, <3>1, <3>2, <3>3 DEF Updates
  <2>3. Updates => tx.user \in DOMAIN users
    BY DEF Inv, Owned, Own, Held, Updates, SetLimit, SetIdentity, Converge, Update
  <2> QED
    BY <2>1, <2>2, <2>3
<1> QED
  BY <1>1, AlwaysInv, PTL DEF Spec, LimitIsKept

-----------------------------------------------------------------------------
(* One user *)

\* the name that counts: that of the row, or the one the transaction goes by
Current == IF tx.pc = "idle" THEN row.name ELSE tx.name

\* a name the bot has given to a user of this account
Known(n) == n = Current \/ n \in seen.forgotten

\* A transaction that has the lock goes by the row as it is.  One that does not is the worker's only
\* one; the row it goes by has the name of the row, or none.
Sessions ==
    /\ tx.pc # "idle" /\ ~tx.stale => tx.loaded = row
    /\ tx.stale => held = NotHeld
    /\ tx.pc # "idle" => /\ tx.loaded.name \in {NoName, row.name}
                         /\ tx.loaded.name # NoName => tx.name = tx.loaded.name
    /\ held.row.name \in {NoName, row.name}

\* of the users that are there, no two have the same name, and there is one name that counts
Alone ==
    /\ \A u, v \in There : users[u].name = users[v].name => u = v
    /\ \A u \in DOMAIN users : users[u].mine => Known(users[u].name)
    /\ \A f \in flying : Known(f[1])

\* the name a commit leaves in the row
LEMMA NameStored ==
    ASSUME Inv, Sessions, Commit
    PROVE  row'.name = tx.name /\ tx.name # NoName /\ (row.name # NoName /\ ~tx.stale => row'.name = row.name)
<1>1. tx.name # NoName /\ tx.pc # "idle"
  BY DEF Commit, Inv, Named
<1>2. row'.name = Written(tx.name, tx.loaded.name, row.name)
  BY RowStored DEF Inv
<1> QED
  BY <1>1, <1>2 DEF Written, Sessions

\* every step keeps what a transaction goes by
LEMMA SessionsStep ==
    ASSUME Inv, Sessions, [Next]_vars
    PROVE  Sessions'
<1> USE DEF Inv
<1>1. Idle.pc = "idle" /\ ~Idle.stale /\ NotHeld.row.name = NoName
  BY DEF Idle, NotHeld, NoRow
<1>2. CASE Looks \/ Updates \/ Create
  BY <1>2, CallKeeps DEF Sessions
<1>3. CASE Begins
  <2>1. PICK k \in Keys, loaded \in Row, stale \in BOOLEAN :
              /\ Begin(k, loaded, stale)
              /\ IF stale THEN held.key = k /\ loaded = held.row /\ BeginHeld(k)
                 ELSE loaded = row /\ UNCHANGED <<held, seen>>
    BY <1>3, BeginsAre
  <2>2. /\ tx'.stale = stale /\ tx'.loaded = loaded /\ tx'.name = NameToUse(loaded) /\ UNCHANGED row
    BY <2>1, Begun
  <2>3. stale => held' = NotHeld
    BY <2>1 DEF BeginHeld
  <2> QED
    BY <1>1, <2>1, <2>2, <2>3 DEF Sessions, NameToUse
<1>4. CASE Commit
  <2>1. tx' = Idle /\ UNCHANGED held
    BY <1>4 DEF Commit
  <2>2. held.row.name \in {NoName, row'.name}
    BY <1>1, <1>4, NameStored DEF Sessions
  <2> QED
    BY <1>1, <2>1, <2>2 DEF Sessions
<1>5. CASE RollBack
  BY <1>1, <1>5 DEF RollBack, Sessions
<1>6. CASE SyncStore \/ Postpones
  <2>1. row'.name = row.name /\ UNCHANGED <<held, tx>> /\ tx.pc = "idle"
    BY <1>6 DEF SyncStore, Postpones, Unavailable, Typed, Row
  <2> QED
    BY <2>1 DEF Sessions
<1>7. CASE Land \/ Vanish \/ Remove \/ Foreign \/ SyncAsk \/ UNCHANGED vars
  BY <1>7 DEF Land, Vanish, Remove, Foreign, SyncAsk, vars, Sessions
<1>8. CASE Looked
  <2>1. UNCHANGED <<row, tx>> /\ (held' = NotHeld \/ (~tx.stale /\ held'.row = row))
    BY <1>8 DEF Looked, LetGo, Hold
  <2> QED
    BY <1>1, <2>1 DEF Sessions
<1> QED
  BY <1>2, <1>3, <1>4, <1>5, <1>6, <1>7, <1>8 DEF Next, Looks, Updates, Begins, Looked, Postpones

\* a name that counts is kept, or forgotten with the transaction that generated it or gave it up
LEMMA NamesStay ==
    ASSUME Inv, Sessions, [Next]_vars
    PROVE  \A n \in Nat \ {0} : Known(n) => Known(n)'
<1> USE DEF Inv, NoName
<1>1. CASE Looks \/ Updates \/ Create
  BY <1>1, CallKeeps DEF Known, Current
<1>2. CASE Begins
  <2>1. PICK k \in Keys, loaded \in Row, stale \in BOOLEAN :
              /\ Begin(k, loaded, stale)
              /\ IF stale THEN held.key = k /\ loaded = held.row /\ BeginHeld(k)
                 ELSE loaded = row /\ UNCHANGED <<held, seen>>
    BY <1>2, BeginsAre
  <2>2. /\ tx'.pc # "idle" /\ tx'.name = NameToUse(loaded) /\ tx.pc = "idle"
    <3>1. /\ tx'.pc = IF loaded.uuid # NoUser THEN "get by uuid" ELSE "get by name"
          /\ tx'.name = NameToUse(loaded) /\ tx = Idle
      BY <2>1, Begun
    <3> QED
      BY <3>1 DEF Idle
  <2>3. seen'.forgotten = IF stale /\ loaded.name = 0 /\ row.name # 0
                          THEN seen.forgotten \cup {row.name} ELSE seen.forgotten
    BY <2>1 DEF BeginHeld, Typed
  <2>4. loaded.name \in {0, row.name}
    BY <2>1 DEF Sessions
  <2> QED
    BY <2>1, <2>2, <2>3, <2>4 DEF Known, Current, NameToUse
<1>3. CASE Commit
  <2>1. row'.name = tx.name /\ UNCHANGED seen /\ tx'.pc = "idle" /\ tx.pc # "idle"
    BY <1>3, NameStored DEF Commit, Idle
  <2> QED
    BY <2>1 DEF Known, Current
<1>4. CASE RollBack
  <2>1. seen'.forgotten = (seen.forgotten \cup {tx.name}) \ {row.name}
    BY <1>4 DEF RollBack, Typed
  <2> QED
    BY <1>4, <2>1 DEF RollBack, Known, Current, Idle
<1>5. CASE \/ Land \/ Vanish \/ Remove \/ Foreign \/ SyncAsk \/ SyncStore
           \/ Looked \/ Postpones \/ UNCHANGED vars
  <2>1. row'.name = row.name /\ UNCHANGED tx
    BY <1>5 DEF Land, Vanish, Remove, Foreign, SyncAsk, SyncStore, Looked, LetGo, Hold, Postpones,
                Unavailable, vars, Typed, Row
  <2>2. seen'.forgotten = seen.forgotten
    BY <1>5 DEF Land, Vanish, Remove, Foreign, SyncAsk, SyncStore, Looked, LetGo, Hold, Postpones,
                Unavailable, vars, Typed
  <2> QED
    BY <2>1, <2>2 DEF Known, Current
<1> QED
  BY <1>1, <1>2, <1>3, <1>4, <1>5 DEF Next, Looks, Updates, Begins, Looked, Postpones

\* every step keeps the name that counts unique
LEMMA AloneStep ==
    ASSUME Inv, Sessions, Alone, [Next]_vars
    PROVE  Alone'
<1> USE DEF NoName
<1>1. Lasting /\ Newcomers
  BY UsersLast, UsersCome DEF Inv
<1>2. \A u \in DOMAIN users : users[u].name \in Nat \ {0}
  BY DEF Inv, Typed, Named
<1>3. \A f \in flying : f[1] \in Nat \ {0}
  BY DEF Inv, Typed, Named
<1>4. (\A u, v \in There : users[u].name = users[v].name => u = v)'
  BY <1>1 DEF Lasting, Newcomers, There, Called, Alone
<1>6. Create => tx.name \in Nat \ {0} /\ Known(tx.name)
  BY DEF Create, Inv, Named, Typed, Transaction, Known, Current, Alone
<1>7. ASSUME NEW u \in DOMAIN users', users'[u].mine
      PROVE  Known(users[u].name)'
  <2>1. CASE u \in DOMAIN users
    <3>1. users[u].name \in Nat \ {0} /\ Known(users[u].name) /\ users'[u].name = users[u].name
      BY <1>1, <1>2, <1>7, <2>1 DEF Lasting, Alone
    <3> QED
      BY <3>1, NamesStay DEF Known
  <2>2. CASE u \notin DOMAIN users
    <3>1. PICK n \in Nat \ {0} : users'[u].name = n /\ Known(n)
      BY <1>1, <1>3, <1>6, <1>7, <2>2 DEF Newcomers, Alone
    <3> QED
      BY <3>1, NamesStay DEF Known
  <2> QED
    BY <2>1, <2>2
<1>8. ASSUME NEW f \in flying' PROVE Known(f[1])'
  <2>1. f \in flying \/ (Create /\ f = <<tx.name, tx.term>>)
    BY DEF Next, vars, BeginLocked, BeginHeld, Begin, LetGo, Hold, Unavailable,
           GetByUuid, GetByName, GetPolicy, LookAgain, ReadBack, SetLimit,
           SetIdentity, Converge, Update, Create, CreateUncertain, Commit, RollBack, Land, Vanish,
           Remove, Foreign, SyncAsk, SyncStore
  <2>2. f[1] \in Nat \ {0} /\ Known(f[1])
    BY <1>3, <1>6, <2>1 DEF Alone
  <2> QED
    BY <2>2, NamesStay
<1> QED
  BY <1>4, <1>7, <1>8 DEF Alone

\* However often creations fail, land late or are rolled back, the panel has at most one user of
\* this account, names aside that were forgotten with their transaction, or given up for another
\* by the worker's retry.
THEOREM AtMostOneUser == Spec => []OneUser
<1>1. Init => Alone /\ Sessions
  BY DEF Init, Alone, Sessions, There, Idle, NoRow, NotHeld, NoName
<1>2. Inv /\ Sessions /\ [Next]_vars => Sessions'
  BY SessionsStep
<1>4. Inv /\ Sessions /\ Alone /\ [Next]_vars => Alone'
  BY AloneStep
<1>3. Inv /\ Alone => OneUser
  <2> SUFFICES ASSUME Inv, Alone PROVE OneUser
    OBVIOUS
  <2> DEFINE S == {u \in There : users[u].mine /\ users[u].name \notin seen.forgotten}
  <2>1. \A u, v \in S : u = v
    BY DEF Alone, Known, There
  <2>2. CASE S = {}
    BY <2>2, FS_EmptySet DEF OneUser
  <2>3. CASE S # {}
    <3>1. PICK x : S = {x}
      BY <2>1, <2>3
    <3> QED
      BY <3>1, FS_Singleton DEF OneUser
  <2> QED
    BY <2>2, <2>3
<1> QED
  BY <1>1, <1>2, <1>3, <1>4, AlwaysInv, PTL DEF Spec

-----------------------------------------------------------------------------
(* What is delivered *)

\* A row without a name has no link.  A user who is not the one the transaction takes for linked is
\* at most set up with the term he was made with, and never linked.
Linked ==
    /\ row.name = NoName => row.uuid = NoUser /\ sync.user = NoUser
    /\ held.row.name = NoName => held.row.uuid = NoUser
    /\ tx.pc \in Held /\ tx.loaded.uuid \notin {NoUser, tx.user} => users[tx.user].term = tx.term
    /\ tx.pc = "done" => tx.loaded.uuid \in {NoUser, tx.user}

\* Unless a second name was given, whom the row, the transaction and a synchronisation mean goes by
\* the row's name, and a linked user who is there is the transaction's.
OneName ==
    \/ seen.renamed
    \/ /\ row.uuid # NoUser => users[row.uuid].name = row.name
       /\ sync.user # NoUser => users[sync.user].name = row.name
       /\ held.row.uuid # NoUser => users[held.row.uuid].name = held.row.name
       /\ tx.loaded.uuid # NoUser => users[tx.loaded.uuid].name = tx.loaded.name
       /\ tx.user # NoUser => users[tx.user].name = tx.name
       /\ tx.pc # "idle" /\ row.name # NoName => tx.name = row.name
       /\ tx.user # NoUser /\ row.uuid # NoUser /\ users[row.uuid].there => row.uuid = tx.user

\* whatever is on its way to the panel is one term ahead of the row at most, and what the worker
\* brings is not ahead
Ahead ==
    /\ tx.pc # "idle" => /\ tx.loaded.term <= row.term
                         /\ tx.term \in {tx.loaded.term, tx.loaded.term + 1} \ {0}
                         /\ tx.stale => tx.term = tx.loaded.term
    /\ held # NotHeld => held.row.term \in 1 .. row.term /\ ops[held.key].status # "none"
    /\ \A f \in flying : f[2] \in 1 .. row.term + 1
    /\ \A k \in Keys : ops[k].status # "none" => row.term # 0

\* what the terms are
LEMMA TermsTyped ==
    ASSUME Inv
    PROVE  /\ row \in Row /\ held.row \in Row /\ tx \in Transaction /\ tx.loaded \in Row
           /\ row.term \in Nat /\ tx.term \in Nat /\ tx.loaded.term \in Nat /\ held.row.term \in Nat
           /\ \A f \in flying : f[2] \in Nat
<1>1. row \in Row /\ held.row \in Row /\ tx \in Transaction /\ tx.loaded \in Row
  BY DEF Inv, Typed, Transaction
<1> QED
  BY <1>1 DEF Inv, Typed, Row, Transaction

\* the row keeps the later one of its term and the transaction's
LEMMA TermStored ==
    ASSUME Inv, Sessions, Ahead, Commit
    PROVE  /\ row'.term = IF tx.term > row.term THEN tx.term ELSE row.term
           /\ row'.term \in Nat /\ row'.term >= row.term /\ row'.term # 0
<1>1. row'.term = Written(tx.term, tx.loaded.term, row.term) /\ tx.pc # "idle"
  BY RowStored DEF Inv, Commit
<1>2. /\ tx.loaded.term <= row.term /\ tx.term \in {tx.loaded.term, tx.loaded.term + 1} \ {0}
      /\ tx.stale => tx.term = tx.loaded.term
      /\ ~tx.stale => tx.loaded.term = row.term
      /\ tx.stale \in BOOLEAN
  BY <1>1, TermsTyped DEF Ahead, Sessions, Transaction
<1> QED
  BY <1>1, <1>2, TermsTyped DEF Written

\* every step keeps what is on its way within one term of the row
LEMMA AheadStep ==
    ASSUME Inv, Sessions, Ahead, [Next]_vars
    PROVE  Ahead'
<1> USE TermsTyped DEF Inv
<1>2. CASE Looks \/ Updates \/ Create
  <2>1. /\ tx'.term = tx.term /\ tx'.loaded = tx.loaded /\ tx'.stale = tx.stale
        /\ tx.pc # "idle" /\ UNCHANGED <<row, ops, held>>
    BY <1>2, CallKeeps
  <2>2. flying' \in SUBSET (flying \cup {<<tx.name, tx.term>>})
    BY <1>2 DEF Looks, GetByUuid, GetByName, GetPolicy, LookAgain, ReadBack, Updates, SetLimit,
                SetIdentity, Converge, Update, Create, CreateUncertain
  <2>3. tx.term \in 1 .. row.term + 1
    BY <2>1 DEF Ahead
  <2>4. \A f \in flying' : f[2] \in 1 .. row.term + 1
    BY <2>2, <2>3 DEF Ahead
  <2> QED
    BY <2>1, <2>4 DEF Ahead
<1>3. CASE Begins
  <2>1. PICK k \in Keys, loaded \in Row, stale \in BOOLEAN :
              /\ Begin(k, loaded, stale)
              /\ IF stale THEN held.key = k /\ loaded = held.row /\ BeginHeld(k)
                 ELSE loaded = row /\ UNCHANGED <<held, seen>>
    BY <1>3, BeginsAre
  <2>2. /\ tx'.term = (IF ops[k].status = "none" THEN loaded.term + 1 ELSE loaded.term)
        /\ tx'.loaded = loaded /\ tx'.stale = stale /\ UNCHANGED <<row, ops, flying>>
    BY <2>1, Begun
  <2>3. /\ loaded.term \in Nat /\ loaded.term <= row.term
        /\ ops[k].status # "none" => loaded.term # 0
        /\ stale => ops[k].status # "none"
    <3>1. CASE stale
      <4>1. held # NotHeld /\ held.key = k /\ loaded = held.row
        BY <2>1, <3>1 DEF BeginHeld
      <4> QED
        BY <4>1 DEF Ahead, Typed
    <3>2. CASE ~stale
      BY <2>1, <3>2 DEF Ahead, Typed, Row
    <3> QED
      BY <3>1, <3>2
  <2>4. held' \in {held, NotHeld}
    BY <2>1 DEF BeginHeld
  <2> QED
    BY <2>2, <2>3, <2>4 DEF Ahead
<1>4. CASE Commit
  <2>1. /\ tx'.pc = "idle" /\ UNCHANGED <<flying, held>>
        /\ row'.term \in Nat /\ row'.term >= row.term /\ row'.term # 0
    BY <1>4, TermStored DEF Commit, Idle
  <2>3. held # NotHeld => held.key \in Keys
    BY DEF Typed
  <2>2. \A k \in Keys : ops[k].status # "none" => ops'[k].status # "none"
    BY <1>4 DEF Commit, Typed
  <2> QED
    BY <2>1, <2>2, <2>3 DEF Ahead
<1>5. CASE RollBack
  BY <1>5 DEF RollBack, Ahead, Idle
<1>6. CASE Land \/ Vanish \/ Remove \/ Foreign \/ SyncAsk \/ SyncStore \/ LetGo \/ UNCHANGED vars
  <2>1. /\ UNCHANGED <<tx, ops>> /\ row'.term = row.term /\ flying' \in SUBSET flying
        /\ held' \in {held, NotHeld}
    BY <1>6 DEF Land, Vanish, Remove, Foreign, SyncAsk, SyncStore, LetGo, vars, Row
  <2> QED
    BY <2>1 DEF Ahead
<1>7. CASE \E k \in Keys : Hold(k)
  <2>1. PICK k \in Keys : Hold(k)
    BY <1>7
  <2>2. held' = [key |-> k, row |-> row] /\ UNCHANGED <<row, ops, tx, flying>> /\ ops[k].status # "none"
    BY <2>1 DEF Hold
  <2>3. row.term \in 1 .. row.term
    BY <2>2 DEF Ahead
  <2> QED
    BY <2>2, <2>3 DEF Ahead
<1>8. CASE Postpones
  <2>1. PICK k \in Keys : Unavailable(k)
    BY <1>8 DEF Postpones
  <2>2. /\ row'.term = row.term + 1 /\ UNCHANGED <<held, tx, flying>> /\ tx.pc = "idle"
        /\ ops' = [ops EXCEPT ![k].status = "waiting"]
    BY <2>1 DEF Unavailable, Row
  <2>3. \A j \in Keys : ops[j].status # "none" => ops'[j].status # "none"
    BY <2>2 DEF Typed
  <2> QED
    BY <2>2, <2>3 DEF Ahead, Typed
<1> QED
  BY <1>2, <1>3, <1>4, <1>5, <1>6, <1>7, <1>8 DEF Next, Looks, Updates, Begins, Looked, Postpones

\* a step that looks finds a user who is there and may be linked, by the name of the transaction or
\* by the link it goes by, and ends with one who may be linked
LEMMA LooksFind ==
    ASSUME Inv, Looks
    PROVE  \/ /\ tx'.user = tx.user
              /\ tx'.pc \in Held => tx'.pc = "done" /\ tx.loaded.uuid \in {NoUser, tx.user}
           \/ /\ tx'.user \in There /\ tx'.pc # "done"
              /\ tx.loaded.uuid \in {NoUser, tx'.user}
              /\ users[tx'.user].name = tx.name \/ tx'.user = tx.loaded.uuid
<1> USE DEF Held
<1>1. tx \in Transaction
  BY DEF Inv, Typed
<1>2. CASE \E pc \in {"get by name", "get policy", "failed"} : Goto(pc)
  BY <1>1, <1>2 DEF Goto, Transaction
<1>3. \A u, b : Found(u, b) => tx'.user = u /\ tx'.pc # "done"
  BY <1>1 DEF Found, Transaction
<1>4. CASE \E u \in Asked(tx.loaded.uuid) : FoundLinked(u)
  BY <1>3, <1>4 DEF Asked, FoundLinked
<1>5. CASE \E u \in Called(tx.name) : OwnerIsValid(u) /\ Found(u, tx.marked)
  BY <1>3, <1>5 DEF Called, OwnerIsValid
<1>6. CASE tx' = [tx EXCEPT !.pc = "create", !.marked = TRUE]
  BY <1>1, <1>6 DEF Transaction
<1>7. CASE \E u \in Called(tx.name) :
            /\ OwnerIsValid(u)
            /\ tx' = [tx EXCEPT !.pc = IF tx.conflict THEN "set limit" ELSE "converge",
                               !.user = u, !.created = ~tx.conflict, !.marked = ~tx.conflict]
  <2>1. PICK u \in Called(tx.name) :
            /\ OwnerIsValid(u)
            /\ tx' = [tx EXCEPT !.pc = IF tx.conflict THEN "set limit" ELSE "converge",
                               !.user = u, !.created = ~tx.conflict, !.marked = ~tx.conflict]
    BY <1>7
  <2>2. tx'.user = u /\ tx'.pc # "done"
    BY <1>1, <2>1 DEF Transaction
  <2> QED
    BY <2>1, <2>2 DEF OwnerIsValid, Called
<1>8. CASE Goto("done") /\ OwnerIsValid(tx.user)
  BY <1>1, <1>8 DEF Goto, Transaction, OwnerIsValid
<1>9. CASE GetByUuid
  BY <1>2, <1>4, <1>9 DEF GetByUuid, Fails
<1>10. CASE GetByName
  BY <1>2, <1>5, <1>10 DEF GetByName, Fails
<1>11. CASE GetPolicy
  BY <1>2, <1>6, <1>11 DEF GetPolicy, Fails
<1>12. CASE LookAgain
  BY <1>2, <1>7, <1>12 DEF LookAgain, Fails
<1>13. CASE ReadBack
  BY <1>2, <1>8, <1>13 DEF ReadBack, Fails
<1> QED
  BY <1>9, <1>10, <1>11, <1>12, <1>13 DEF Looks

\* an update gives the term it is given
LEMMA PatchedTerm ==
    ASSUME users \in Seq(PanelUser), tx.user \in DOMAIN users, NEW d, NEW l
    PROVE  Patched(d, l)[tx.user].term = d
BY PatchedUsers

\* an update is of the transaction's user, and leaves him his term or gives him the open one
LEMMA UpdatesGive ==
    ASSUME Inv, Updates
    PROVE  /\ tx.user \in DOMAIN users /\ tx.pc \in Held /\ tx'.user = tx.user /\ tx'.pc # "done"
           /\ users'[tx.user].term \in {users[tx.user].term, tx.term}
<1>1. tx \in Transaction /\ users \in Seq(PanelUser)
  BY DEF Inv, Typed
<1>2. tx.user \in DOMAIN users /\ tx.pc \in Held
  BY DEF Inv, Owned, Own, Updates, SetLimit, SetIdentity, Converge, Update, Held
<1>3. tx'.user = tx.user /\ tx'.pc # "done"
  <2>1. \E pc \in {"set identity", "read", "verify", "failed"} : Goto(pc)
    BY DEF Updates, SetLimit, SetIdentity, Converge, Update, Fails
  <2> QED
    BY <1>1, <2>1 DEF Goto, Transaction
<1>4. \/ UNCHANGED users
      \/ users' = Patched(users[tx.user].term, tx.loaded.limit)
      \/ users' = Patched(tx.term, users[tx.user].limit)
      \/ users' = Patched(tx.term, PolicyLimit)
  BY DEF Updates, SetLimit, SetIdentity, Converge, Update
<1>5. \A d, l : users' = Patched(d, l) => users'[tx.user].term = d
  BY <1>1, <1>2, PatchedTerm
<1> QED
  BY <1>2, <1>3, <1>4, <1>5

\* a creation ends with a new user of the transaction's name, or with none
LEMMA CreateGives ==
    ASSUME Inv, Create
    PROVE  /\ tx.user = NoUser
           /\ \/ tx'.user = NoUser /\ tx'.pc \notin Held
              \/ /\ tx'.user = Len(users) + 1 /\ tx'.pc # "done" /\ Called(tx.name) = {}
                 /\ users' = Append(users, Made(tx.name, tx.term))
                 /\ users'[tx'.user] = Made(tx.name, tx.term)
<1>1. tx \in Transaction /\ users \in Seq(PanelUser)
  BY DEF Inv, Typed
<1>2. tx.user = NoUser
  BY DEF Create, Inv, SetUp, Searching
<1>3. CASE /\ users' = Created(tx.name, tx.term) /\ Called(tx.name) = {}
           /\ tx' = [tx EXCEPT !.pc = "converge", !.user = Len(users) + 1, !.created = TRUE]
  <2>1. tx'.user = Len(users) + 1 /\ tx'.pc = "converge"
    BY <1>1, <1>3 DEF Transaction
  <2>2. users' = Append(users, Made(tx.name, tx.term))
    BY <1>3 DEF Created
  <2>3. users'[tx'.user] = Made(tx.name, tx.term)
    BY <1>1, <2>1, <2>2
  <2> QED
    BY <1>2, <1>3, <2>1, <2>2, <2>3
<1>4. CASE \/ \E pc \in {"look again", "failed"} : Goto(pc)
           \/ tx' = [tx EXCEPT !.pc = "look again", !.conflict = TRUE]
  BY <1>1, <1>2, <1>4 DEF Goto, Transaction, Held
<1> QED
  BY <1>3, <1>4 DEF Create, CreateUncertain, Fails

\* every step links no user but the one a transaction takes for linked, if there is one
LEMMA LinkedStep ==
    ASSUME Inv, Sessions, Linked, [Next]_vars
    PROVE  Linked'
<1> USE TermsTyped DEF Inv, NoUser, NoName
<1>1. Lasting
  BY UsersLast
<1>2. /\ tx.pc \in Held => tx.user # NoUser /\ tx.user \in DOMAIN users
      /\ \A u \in DOMAIN users : users[u].name # NoName
  BY DEF Owned, Own, Named
<1>3. CASE Looks \/ Updates \/ Create
  <2>1. /\ UNCHANGED <<row, held, sync>>
        /\ tx'.loaded = tx.loaded /\ tx'.term = tx.term
    BY <1>3, CallKeeps
  <2>2. CASE Looks
    <3>1. UNCHANGED users
      BY <2>2 DEF Looks, GetByUuid, GetByName, GetPolicy, LookAgain, ReadBack
    <3>2. CASE tx'.user = tx.user /\ tx'.pc \notin Held
      BY <2>1, <3>1, <3>2 DEF Linked, Held
    <3>3. CASE tx'.user = tx.user /\ tx'.pc = "done" /\ tx.loaded.uuid \in {NoUser, tx.user}
      BY <2>1, <3>1, <3>3 DEF Linked
    <3>4. CASE tx'.user \in There /\ tx'.pc # "done" /\ tx.loaded.uuid \in {NoUser, tx'.user}
      BY <2>1, <3>1, <3>4 DEF Linked
    <3> QED
      BY <2>2, <3>2, <3>3, <3>4, LooksFind
  <2>3. CASE Updates
    BY <2>1, <2>3, UpdatesGive DEF Linked
  <2>4. CASE Create
    <3>1. CASE tx'.user = NoUser /\ tx'.pc \notin Held
      BY <2>1, <3>1 DEF Linked, Held
    <3>2. CASE /\ tx'.user = Len(users) + 1 /\ tx'.pc # "done"
               /\ users'[tx'.user] = Made(tx.name, tx.term)
      <4>1. users'[tx'.user].term = tx'.term
        BY <2>1, <3>2 DEF Made
      <4> QED
        BY <2>1, <3>2, <4>1 DEF Linked
    <3> QED
      BY <2>4, <3>1, <3>2, CreateGives
  <2> QED
    BY <1>3, <2>2, <2>3, <2>4
<1>4. CASE Begins
  <2>1. PICK k \in Keys, loaded \in Row, stale \in BOOLEAN :
              /\ Begin(k, loaded, stale)
              /\ IF stale THEN held.key = k /\ loaded = held.row /\ BeginHeld(k)
                 ELSE loaded = row /\ UNCHANGED <<held, seen>>
    BY <1>4, BeginsAre
  <2>2. tx'.pc \in {"get by uuid", "get by name"} /\ UNCHANGED <<row, sync>>
    BY <2>1, Begun
  <2>3. held' \in {held, NotHeld} /\ NotHeld.row.uuid = NoUser
    BY <2>1 DEF BeginHeld, NotHeld, NoRow
  <2> QED
    BY <2>2, <2>3 DEF Linked, Held
<1>5. CASE Commit
  <2>1. row'.name # NoName /\ tx'.pc = "idle" /\ UNCHANGED held
    BY <1>5, NameStored DEF Commit, Idle
  <2> QED
    BY <2>1 DEF Linked, Held
<1>6. CASE RollBack
  BY <1>6 DEF RollBack, Linked, Held, Idle
<1>7. CASE Land \/ Vanish \/ Remove \/ Foreign \/ Looked \/ Postpones \/ UNCHANGED vars
  <2>1. /\ row'.name = row.name /\ row'.uuid = row.uuid /\ UNCHANGED <<tx, sync>>
        /\ held' \in {held, NotHeld} \/ held'.row = row
    BY <1>7 DEF Land, Vanish, Remove, Foreign, Looked, LetGo, Hold, Postpones, Unavailable, vars, Row
  <2>2. ~Updates /\ NotHeld.row.uuid = NoUser
    BY <2>1, UpdateMoves DEF NotHeld, NoRow
  <2> QED
    BY <1>1, <1>2, <2>1, <2>2 DEF Linked, Lasting
<1>8. CASE SyncAsk
  <2>1. PICK u \in Identified : sync' = [user |-> u, limit |-> users[u].limit, loaded |-> row.uuid]
    BY <1>8 DEF SyncAsk
  <2>2. /\ u \in DOMAIN users /\ users[u].name = row.name /\ sync'.user = u
        /\ UNCHANGED <<row, held, tx, users>>
    BY <1>8, <2>1 DEF Identified, SyncAsk, Asked, Called, There
  <2> QED
    BY <1>2, <2>2 DEF Linked
<1>9. CASE SyncStore
  <2>1. /\ row'.uuid \in {sync.user, row.uuid} /\ row'.name = row.name /\ sync'.user = NoUser
        /\ UNCHANGED <<held, tx, users>>
    BY <1>9 DEF SyncStore, Row, NotSyncing, Written
  <2> QED
    BY <2>1 DEF Linked
<1> QED
  BY <1>3, <1>4, <1>5, <1>6, <1>7, <1>8, <1>9 DEF Next, Looks, Updates, Begins, Looked, Postpones

\* every step keeps to the row's name, unless it gives a second one
LEMMA OneNameStep ==
    ASSUME Inv, Sessions, Alone, Linked, OneName, [Next]_vars
    PROVE  OneName'
<1> USE TermsTyped DEF Inv, NoUser, NoName
<1>1. Lasting
  BY UsersLast
<1>2. /\ row.uuid # NoUser => row.uuid \in DOMAIN users
      /\ sync.user # NoUser => sync.user \in DOMAIN users
      /\ held.row.uuid # NoUser => held.row.uuid \in DOMAIN users
      /\ tx.loaded.uuid # NoUser => tx.loaded.uuid \in DOMAIN users
      /\ tx.user # NoUser => tx.user \in DOMAIN users
      /\ \A u \in DOMAIN users : users[u].name # NoName
  BY DEF Owned, Own, Named
<1>3. CASE Looks \/ Updates \/ Create
  <2>1. /\ UNCHANGED <<row, held, sync, seen>>
        /\ tx'.loaded = tx.loaded /\ tx'.name = tx.name /\ tx.pc # "idle" /\ tx'.pc # "idle"
    BY <1>3, CallKeeps
  <2>2. CASE tx'.user = tx.user
    BY <1>1, <1>2, <2>1, <2>2 DEF OneName, Lasting
  <2>3. ASSUME ~seen.renamed,
               users'[tx'.user].name = tx.name,
               row.uuid # NoUser /\ users'[row.uuid].there => row.uuid = tx'.user
        PROVE  OneName'
    BY <1>1, <1>2, <2>1, <2>3 DEF OneName, Lasting
  <2>4. CASE Looks /\ tx'.user # tx.user
    <3>1. UNCHANGED users
      BY <2>4 DEF Looks, GetByUuid, GetByName, GetPolicy, LookAgain, ReadBack
    <3>2. /\ tx'.user \in There
          /\ users[tx'.user].name = tx.name \/ tx'.user = tx.loaded.uuid
      BY <2>4, LooksFind
    <3>3. CASE ~seen.renamed
      <4>1. tx'.user \in DOMAIN users /\ tx'.user # NoUser
        BY <3>2 DEF There, Typed
      <4>2. users[tx'.user].name = tx.name
        BY <1>2, <2>1, <3>2, <3>3, <4>1 DEF OneName, Sessions
      <4>3. row.uuid # NoUser /\ users[row.uuid].there => row.uuid = tx'.user
        <5>1. ASSUME row.uuid # NoUser, users[row.uuid].there PROVE row.uuid = tx'.user
          <6>1. row.uuid \in There /\ users[row.uuid].name = row.name /\ row.name # NoName
            BY <1>2, <3>3, <5>1 DEF OneName, There
          <6>2. users[row.uuid].name = users[tx'.user].name
            BY <2>1, <3>3, <4>2, <6>1 DEF OneName
          <6> QED
            BY <3>2, <6>1, <6>2 DEF Alone
        <5> QED
          BY <5>1
      <4> QED
        BY <2>3, <3>1, <3>3, <4>2, <4>3
    <3> QED
      BY <2>1, <3>3 DEF OneName
  <2>5. CASE Updates
    BY <2>2, <2>5, UpdatesGive
  <2>6. CASE Create /\ tx'.user # tx.user
    <3>1. /\ Called(tx.name) = {} /\ users'[tx'.user].name = tx.name
      BY <2>6, CreateGives DEF Made
    <3>2. CASE ~seen.renamed
      <4>1. row.uuid # NoUser => ~users'[row.uuid].there
        BY <1>1, <1>2, <2>1, <3>1, <3>2 DEF OneName, Called, There, Lasting
      <4> QED
        BY <2>3, <3>1, <3>2, <4>1
    <3> QED
      BY <2>1, <3>2 DEF OneName
  <2> QED
    BY <1>3, <2>2, <2>4, <2>5, <2>6
<1>4. CASE Begins
  <2>1. PICK k \in Keys, loaded \in Row, stale \in BOOLEAN :
              /\ Begin(k, loaded, stale)
              /\ IF stale THEN held.key = k /\ loaded = held.row /\ BeginHeld(k)
                 ELSE loaded = row /\ UNCHANGED <<held, seen>>
    BY <1>4, BeginsAre
  <2>2. /\ tx'.user = NoUser /\ tx'.name = NameToUse(loaded) /\ tx'.loaded = loaded
        /\ UNCHANGED <<row, users, sync>>
    BY <2>1, Begun
  <2>3. held' \in {held, NotHeld} /\ NotHeld.row.uuid = NoUser
    BY <2>1 DEF BeginHeld, NotHeld, NoRow
  <2>4. seen'.renamed = (seen.renamed \/ (stale /\ loaded.name = 0 /\ row.name # 0))
    BY <2>1 DEF BeginHeld, Typed
  <2>5. loaded \in {row, held.row} /\ loaded.name \in {0, row.name}
    BY <2>1 DEF Sessions
  <2>6. row.name # 0 /\ ~seen'.renamed => NameToUse(loaded) = row.name
    BY <2>1, <2>4, <2>5 DEF NameToUse
  <2> QED
    BY <2>2, <2>3, <2>4, <2>5, <2>6 DEF OneName
<1>5. CASE Commit
  <2>1. /\ tx' = Idle /\ UNCHANGED <<held, sync, users, seen>> /\ row'.name = tx.name /\ tx.pc # "idle"
        /\ row'.uuid \in {tx.user, row.uuid}
    BY <1>5, NameStored, RowStored DEF Commit, Written
  <2>2. tx'.user = NoUser /\ tx'.loaded.uuid = NoUser /\ tx'.pc = "idle"
    BY <2>1 DEF Idle, NoRow
  <2>3. CASE ~seen.renamed
    <3>1. /\ row.uuid # NoUser => users[row.uuid].name = tx.name
          /\ sync.user # NoUser => users[sync.user].name = tx.name
      BY <1>2, <2>1, <2>3 DEF OneName
    <3> QED
      BY <2>1, <2>2, <2>3, <3>1 DEF OneName
  <2> QED
    BY <2>1, <2>3 DEF OneName
<1>6. CASE RollBack
  <2>1. /\ tx' = Idle /\ UNCHANGED <<row, held, sync, users>> /\ seen'.renamed = seen.renamed
    BY <1>6 DEF RollBack, Typed
  <2> QED
    BY <2>1 DEF OneName, Idle, NoRow
<1>7. CASE Land \/ Vanish \/ Remove \/ Foreign \/ Looked \/ Postpones \/ UNCHANGED vars
  <2>1. /\ row'.name = row.name /\ row'.uuid = row.uuid /\ UNCHANGED <<tx, sync>>
        /\ held' \in {held, NotHeld} \/ held'.row = row
        /\ seen'.renamed = seen.renamed
    <3>1. CASE Remove
      BY <3>1 DEF Remove, Typed
    <3>2. CASE Looked
      BY <3>2 DEF Looked, LetGo, Hold
    <3>3. CASE Postpones
      BY <3>3 DEF Postpones, Unavailable, Typed, Row
    <3> QED
      BY <1>7, <3>1, <3>2, <3>3 DEF Land, Vanish, Foreign, vars
  <2>2. NotHeld.row.uuid = NoUser
    BY DEF NotHeld, NoRow
  <2> QED
    BY <1>1, <1>2, <2>1, <2>2 DEF OneName, Lasting
<1>8. CASE SyncAsk
  <2>1. PICK u \in Identified : sync' = [user |-> u, limit |-> users[u].limit, loaded |-> row.uuid]
    BY <1>8 DEF SyncAsk
  <2>2. users[u].name = row.name /\ sync'.user = u /\ UNCHANGED <<row, held, tx, users, seen>>
    BY <1>8, <2>1 DEF Identified, SyncAsk
  <2> QED
    BY <2>2 DEF OneName
<1>9. CASE SyncStore
  <2>1. /\ row'.uuid \in {sync.user, row.uuid} /\ row'.name = row.name /\ sync'.user = NoUser
        /\ UNCHANGED <<held, tx, users, seen>> /\ tx.pc = "idle"
    BY <1>9 DEF SyncStore, Row, NotSyncing, Written
  <2>2. tx.user = NoUser
    BY <2>1 DEF Named, Idle
  <2> QED
    BY <2>1, <2>2 DEF OneName
<1> QED
  BY <1>3, <1>4, <1>5, <1>6, <1>7, <1>8, <1>9 DEF Next, Looks, Updates, Begins, Looked, Postpones

\* the account's own users
Owns == {u \in DOMAIN users : users[u].mine}

\* a step that leaves the own users, their expiry and their presence is not seen
LEMMA AccountKept ==
    ASSUME Owns' = Owns,
           \A u \in Owns : users'[u].term = users[u].term /\ users'[u].there = users[u].there
    PROVE  UNCHANGED Account
BY DEF Account, Owns

\* a user the panel makes is one more of the account's own, with a term that is not ahead
LEMMA MadeIsMade ==
    ASSUME Typed, NEW n \in Nat, NEW d \in 1 .. row.term + 1, users' = Created(n, d),
           UNCHANGED <<row.term, row.uuid, Status, Open, Kept, seen.renamed>>
    PROVE  UNCHANGED Account \/ \E u \in DOMAIN Account' : Promise!Make(u)
<1> DEFINE new == Len(users) + 1
<1>1. users \in Seq(PanelUser) /\ d \in Nat
  BY DEF Typed
<1>2. CASE Called(n) # {}
  <2>1. UNCHANGED users
    BY <1>2 DEF Created
  <2> QED
    BY <2>1 DEF Account
<1>3. CASE Called(n) = {}
  <2>1. users' = Append(users, Made(n, d))
    BY <1>3 DEF Created
  <2>2. /\ DOMAIN users' = DOMAIN users \cup {new} /\ new \notin DOMAIN users
        /\ \A u \in DOMAIN users : users'[u] = users[u]
        /\ users'[new] = Made(n, d)
    BY <1>1, <2>1
  <2>3. users'[new].mine /\ users'[new].term = d /\ users'[new].there
    BY <2>2 DEF Made
  <2>4. Owns' = Owns \cup {new} /\ new \notin Owns
    BY <2>2, <2>3 DEF Owns
  <2>5. Account = [u \in Owns |-> [term |-> users[u].term, there |-> users[u].there]]
    BY DEF Account, Owns
  <2>6. Account' = [u \in Owns' |-> [term |-> users'[u].term, there |-> users'[u].there]]
    BY DEF Account, Owns
  <2>7. \A v \in Owns : Account[v] = [term |-> users'[v].term, there |-> users'[v].there]
    BY <2>2, <2>5 DEF Owns
  <2>8. Account' = [v \in DOMAIN Account \cup {new} |->
                       IF v = new THEN [term |-> d, there |-> TRUE] ELSE Account[v]]
    BY <2>3, <2>4, <2>5, <2>6, <2>7
  <2>9. Promise!Make(new)
    BY <2>4, <2>5, <2>8 DEF Promise!Make
  <2> QED
    BY <2>4, <2>6, <2>9
<1> QED
  BY <1>2, <1>3

\* an update that is given a term gives it to the transaction's user alone
LEMMA PatchIsSeen ==
    ASSUME Typed, tx.user \in Owns, NEW d, NEW l, users' = Patched(d, l)
    PROVE  /\ Account' = [Account EXCEPT ![tx.user].term = d]
           /\ d = users[tx.user].term => UNCHANGED Account
<1>1. users \in Seq(PanelUser)
  BY DEF Typed
<1>2. /\ DOMAIN users' = DOMAIN users
      /\ \A u \in DOMAIN users :
            /\ users'[u].mine = users[u].mine
            /\ users'[u].there = users[u].there
            /\ users'[u].term = IF u = tx.user THEN d ELSE users[u].term
  BY <1>1, PatchedUsers DEF Owns
<1>3. Owns' = Owns
  BY <1>2 DEF Owns
<1>4. Account = [u \in Owns |-> [term |-> users[u].term, there |-> users[u].there]]
  BY DEF Account, Owns
<1>5. Account' = [u \in Owns |-> [term |-> users'[u].term, there |-> users'[u].there]]
  BY <1>3 DEF Account, Owns
<1>6. \A u \in Owns : Account'[u] = [term |-> IF u = tx.user THEN d ELSE users[u].term,
                                     there |-> users[u].there]
  BY <1>2, <1>5 DEF Owns
<1>7. [Account EXCEPT ![tx.user].term = d] =
         [u \in Owns |-> [term |-> IF u = tx.user THEN d ELSE users[u].term,
                          there |-> users[u].there]]
  BY <1>4
<1>8. d = users[tx.user].term => \A u \in Owns : Account'[u] = Account[u]
  BY <1>4, <1>6
<1>9. Account' = [Account EXCEPT ![tx.user].term = d]
  BY <1>5, <1>6, <1>7
<1>10. d = users[tx.user].term => UNCHANGED Account
  BY <1>4, <1>5, <1>8
<1> QED
  BY <1>9, <1>10

\* unless a second name was given, the transaction's user is the linked one, if that is there
LEMMA MayBeLinked ==
    ASSUME Inv, OneName, tx.user # NoUser
    PROVE  Promise!MayLink(tx.user)
BY DEF Promise!MayLink, Promise!Alive, Account, OneName, Inv, Typed, NoUser

\* an update delivers the open term, or is not seen
LEMMA UpdatesDeliver ==
    ASSUME Inv, Linked, OneName, Ahead, Updates
    PROVE  [Promise!Next]_(Promise!vars)
<1>1. tx.user \in Owns /\ tx.pc \in Held /\ tx.pc # "done"
  BY DEF Inv, Owned, Own, Owns, Updates, SetLimit, SetIdentity, Converge, Update, Held
<1>2. UNCHANGED <<row.term, row.uuid, Status, Open, Kept, seen.renamed>>
  BY CallKeeps DEF Inv, Status, Open, Kept
<1>3. tx.key \in Keys /\ tx.pc # "idle"
  BY <1>1 DEF Inv, Typed, Held
<1>4. CASE UNCHANGED users
  BY <1>2, <1>4 DEF Account, Promise!vars
<1>5. CASE tx.user \in There /\ \E l : users' = Patched(tx.term, l)
  <2>1. Account' = [Account EXCEPT ![tx.user].term = tx.term]
    BY <1>1, <1>5, PatchIsSeen DEF Inv
  <2>2. /\ tx.user \in DOMAIN Account
        /\ Account[tx.user] = [term |-> users[tx.user].term, there |-> TRUE]
    <3>1. users[tx.user].there = TRUE
      BY <1>1, <1>5 DEF There, Owns, Inv, Typed, PanelUser
    <3> QED
      BY <1>1, <3>1 DEF Account, Owns
  <2>3. CASE tx.loaded.uuid \in {NoUser, tx.user}
    <3>1. Open # Promise!Nothing /\ Open.term = tx.term /\ Open.link = tx.loaded.uuid
      BY <1>3 DEF Open, Promise!Nothing, Ahead
    <3>2. Promise!MayLink(tx.user)
      BY <1>1, MayBeLinked DEF Inv, Owned
    <3>3. Promise!Deliver(tx.user)
      BY <1>2, <2>1, <2>2, <2>3, <3>1, <3>2 DEF Promise!Deliver, Promise!Alive, Promise!NoUser, NoUser
    <3> QED
      BY <2>2, <3>3 DEF Promise!Next
  <2>4. CASE tx.loaded.uuid \notin {NoUser, tx.user}
    <3>1. users[tx.user].term = tx.term
      BY <1>1, <2>4 DEF Linked
    <3>2. UNCHANGED Account
      BY <1>1, <1>5, <3>1, PatchIsSeen DEF Inv
    <3> QED
      BY <1>2, <3>2 DEF Promise!vars
  <2> QED
    BY <2>3, <2>4
<1>6. CASE \E l : users' = Patched(users[tx.user].term, l)
  <2>1. UNCHANGED Account
    BY <1>1, <1>6, PatchIsSeen DEF Inv
  <2> QED
    BY <1>2, <2>1 DEF Promise!vars
<1> QED
  BY <1>4, <1>5, <1>6 DEF Updates, SetLimit, SetIdentity, Converge, Update

\* an operation begins for its term, or by what the worker has seen
LEMMA BeginDelivers ==
    ASSUME Inv, Linked, Ahead, Begins
    PROVE  Promise!Next
<1>1. PICK k \in Keys, loaded \in Row, stale \in BOOLEAN :
            /\ Begin(k, loaded, stale)
            /\ IF stale THEN held.key = k /\ loaded = held.row /\ BeginHeld(k)
               ELSE loaded = row /\ UNCHANGED <<held, seen>>
  BY BeginsAre DEF Inv
<1>2. Open = Promise!Nothing /\ Status[k] = ops[k].status /\ ops[k].status # "completed"
  BY <1>1 DEF Begin, MayRun, Inv, Named, Idle, NoRow, NoUser, Open, Status, Promise!Nothing, Promise!NoUser
<1>3. /\ tx'.key = k /\ tx'.loaded = loaded /\ UNCHANGED <<row, ops, users>>
      /\ tx'.term = IF ops[k].status = "none" THEN loaded.term + 1 ELSE loaded.term
  BY <1>1, Begun DEF Inv
<1>4. Open' = [key |-> k, term |-> IF ops[k].status = "none" THEN loaded.term + 1 ELSE loaded.term,
               link |-> loaded.uuid]
  BY <1>3 DEF Open
<1>5. UNCHANGED <<row, Status, Account>>
  BY <1>3 DEF Status, Account
<1>6. CASE ~stale
  <2>1. UNCHANGED <<Kept, seen>> /\ loaded = row
    BY <1>1, <1>6 DEF Kept
  <2>2. Promise!Begin(k)
    BY <1>2, <1>4, <1>5, <2>1 DEF Promise!Begin
  <2> QED
    BY <2>2 DEF Promise!Next
<1>7. CASE stale
  <2>1. held # NotHeld /\ held.key = k /\ loaded = held.row /\ held' = NotHeld
    BY <1>1, <1>7 DEF BeginHeld
  <2>2. Open' = Kept
    BY <1>4, <2>1 DEF Kept, Ahead
  <2>3. Kept' = Promise!Nothing
    BY <2>1 DEF Kept, NotHeld, NoRow, NoUser, Promise!Nothing, Promise!NoUser
  <2>4. seen'.renamed \in {seen.renamed, seen.renamed \/ held.row.uuid = NoUser}
    <3>1. seen'.renamed = (seen.renamed \/ (held.row.name = NoName /\ row.name # NoName))
      BY <1>1, <1>7 DEF BeginHeld, Inv, Typed
    <3>2. held.row.name = NoName => held.row.uuid = NoUser
      BY DEF Linked
    <3>3. seen.renamed \in BOOLEAN
      BY DEF Inv, Typed
    <3> QED
      BY <3>1, <3>2, <3>3
  <2>5. Promise!BeginKept(k)
    BY <1>2, <1>5, <2>1, <2>2, <2>3, <2>4 DEF Promise!BeginKept, Kept, NoUser, Promise!NoUser
  <2> QED
    BY <2>5 DEF Promise!Next
<1> QED
  BY <1>6, <1>7

\* the worker looks, or looks away, and an order waits
LEMMA WorkerDelivers ==
    ASSUME Inv, Looked \/ Postpones
    PROVE  [Promise!Next]_(Promise!vars)
<1>1. CASE LetGo
  <2>1. Kept' = Promise!Nothing /\ UNCHANGED <<row, Status, Open, Account, seen>>
    BY <1>1 DEF LetGo, Kept, NotHeld, NoRow, NoUser, Promise!Nothing, Promise!NoUser, Status, Open, Account
  <2> QED
    BY <2>1 DEF Promise!Forget, Promise!Next
<1>2. CASE \E k \in Keys : Hold(k)
  <2>1. PICK k \in Keys : Hold(k)
    BY <1>2
  <2>2. Kept = Promise!Nothing /\ Kept' = [key |-> k, term |-> row.term, link |-> row.uuid]
    BY <2>1 DEF Hold, Kept, NotHeld, NoRow, NoUser, Promise!Nothing, Promise!NoUser
  <2>3. UNCHANGED <<row, Status, Open, Account, seen>> /\ Status[k] \in {"waiting", "failed"}
    BY <2>1 DEF Hold, Status, Open, Account
  <2>4. Promise!Look(k)
    BY <2>2, <2>3 DEF Promise!Look
  <2> QED
    BY <2>4 DEF Promise!Next
<1>3. CASE Postpones
  <2>1. PICK k \in Keys : Unavailable(k)
    BY <1>3 DEF Postpones
  <2>2. /\ row'.term = row.term + 1 /\ row'.uuid = row.uuid
        /\ UNCHANGED <<Open, Kept, Account, seen>>
    BY <2>1 DEF Unavailable, Inv, Typed, Row, Open, Kept, Account
  <2>3. Open = Promise!Nothing
    BY <2>1 DEF Unavailable, Inv, Named, Idle, NoRow, NoUser, Open, Promise!Nothing, Promise!NoUser
  <2>4. Status[k] = "none" /\ Status' = [Status EXCEPT ![k] = "waiting"]
    <3>1. ops[k].status = "none" /\ \A j \in Keys : ops'[j].status = IF j = k THEN "waiting" ELSE ops[j].status
      BY <2>1 DEF Unavailable, Inv, Typed
    <3> QED
      BY <3>1 DEF Status
  <2>5. Promise!Postpone(k)
    BY <2>2, <2>3, <2>4 DEF Promise!Postpone
  <2> QED
    BY <2>5 DEF Promise!Next
<1> QED
  BY <1>1, <1>2, <1>3 DEF Looked

\* a commit completes what is delivered, or fails
LEMMA CommitDelivers ==
    ASSUME Inv, Sessions, Linked, OneName, Ahead, Commit
    PROVE  [Promise!Next]_(Promise!vars)
<1> DEFINE done == tx.pc = "done"
           result == IF done THEN "completed" ELSE "failed"
<1>1. tx.key \in Keys /\ tx.pc # "idle" /\ tx.term # 0
  BY DEF Commit, Inv, Typed, Ahead
<1>2. Open # Promise!Nothing /\ Open.key = tx.key /\ Open.term = tx.term /\ Open.link = tx.loaded.uuid
  BY <1>1 DEF Open, Promise!Nothing
<1>3. Open' = Promise!Nothing
  BY DEF Commit, Idle, NoRow, NoUser, Open, Promise!Nothing, Promise!NoUser
<1>4. /\ row'.term = (IF tx.term > row.term THEN tx.term ELSE row.term)
      /\ row'.uuid = (IF done THEN Written(tx.user, tx.loaded.uuid, row.uuid) ELSE row.uuid)
      /\ UNCHANGED <<Account, Kept, seen>>
  BY TermStored, RowStored DEF Commit, Inv, Account, Kept
<1>5. Status' = [Status EXCEPT ![tx.key] = result]
  <2>1. ops' = [ops EXCEPT ![tx.key] = [status |-> result, marked |-> MarkAfter(done)]]
    BY DEF Commit
  <2>2. \A k \in Keys : ops'[k].status = IF k = tx.key THEN result ELSE ops[k].status
    BY <1>1, <2>1 DEF Inv, Typed
  <2> QED
    BY <2>2 DEF Status
<1>6. Promise!Store(result)
  BY <1>2, <1>3, <1>4, <1>5 DEF Promise!Store
<1>7. CASE done
  <2>1. users[tx.user].term = tx.term /\ tx.user \in Owns /\ tx.user # NoUser
    BY <1>7 DEF Inv, SetUp, Owned, Own, Owns, Held
  <2>2. tx.user \in DOMAIN Account /\ Account[tx.user].term = tx.term
    BY <2>1 DEF Account, Owns
  <2>3. tx.loaded.uuid \in {NoUser, tx.user}
    BY <1>7 DEF Linked
  <2>4. Promise!MayLink(tx.user)
    BY <2>1, MayBeLinked
  <2>5. Promise!Complete(tx.user)
    BY <1>2, <1>4, <1>6, <1>7, <2>2, <2>3, <2>4
       DEF Promise!Complete, Promise!NoUser, NoUser, Written
  <2> QED
    BY <2>2, <2>5 DEF Promise!Next
<1>8. CASE ~done
  <2>1. Promise!Fail
    BY <1>4, <1>6, <1>8 DEF Promise!Fail
  <2> QED
    BY <2>1 DEF Promise!Next
<1> QED
  BY <1>7, <1>8

\* a deletion is one of the account's own, or is not seen
LEMMA RemoveDelivers ==
    ASSUME Inv, Remove
    PROVE  [Promise!Next]_(Promise!vars)
<1>1. PICK u \in There : users' = [users EXCEPT ![u].there = FALSE]
  BY DEF Remove
<1>2. UNCHANGED <<row, Status, Open, Kept, seen.renamed>>
  BY DEF Remove, Status, Open, Kept, Inv, Typed
<1>3. u \in DOMAIN users /\ users[u].there /\ users \in Seq(PanelUser)
  BY DEF There, Inv, Typed
<1>4. /\ DOMAIN users' = DOMAIN users
      /\ \A v \in DOMAIN users :
            /\ users'[v].mine = users[v].mine /\ users'[v].term = users[v].term
            /\ users'[v].there = IF v = u THEN FALSE ELSE users[v].there
  BY <1>1, <1>3 DEF PanelUser
<1>5. Owns' = Owns
  BY <1>4 DEF Owns
<1>6. CASE u \in Owns
  <2>1. Account = [v \in Owns |-> [term |-> users[v].term, there |-> users[v].there]]
    BY DEF Account, Owns
  <2>2. Account' = [v \in Owns |-> [term |-> users'[v].term, there |-> users'[v].there]]
    BY <1>5 DEF Account, Owns
  <2>3. \A v \in Owns : Account'[v] = [term |-> users[v].term,
                                       there |-> IF v = u THEN FALSE ELSE users[v].there]
    BY <1>4, <2>2 DEF Owns
  <2>4. Account[u].term = users[u].term
    BY <1>6, <2>1
  <2>5. Account' = [Account EXCEPT ![u] = [term |-> Account[u].term, there |-> FALSE]]
    BY <2>1, <2>2, <2>3, <2>4
  <2>6. u \in DOMAIN Account /\ Account[u].there
    BY <1>3, <1>6, <2>1
  <2>7. Promise!Remove(u)
    BY <1>2, <2>5, <2>6 DEF Promise!Remove, Promise!Alive
  <2> QED
    BY <2>6, <2>7 DEF Promise!Next
<1>7. CASE u \notin Owns
  <2>1. UNCHANGED Account
    BY <1>4, <1>5, <1>7, AccountKept DEF Owns
  <2> QED
    BY <1>2, <2>1 DEF Promise!vars
<1> QED
  BY <1>6, <1>7

\* a synchronisation takes the link from no one who is there for one who is there, unless a second
\* name was given
LEMMA SyncDelivers ==
    ASSUME Inv, Alone, OneName, SyncStore
    PROVE  [Promise!Next]_(Promise!vars)
<1> DEFINE u == sync.user
<1>1. /\ row'.uuid \in {u, row.uuid} /\ row'.term = row.term /\ tx = Idle
      /\ UNCHANGED <<Status, Open, Kept, Account, seen>>
  BY DEF SyncStore, Inv, Typed, Row, Named, Status, Open, Kept, Account, Written
<1>2. Own(u) /\ u # NoUser
  BY DEF SyncStore, Inv, Owned
<1>3. u \in DOMAIN Account
  BY <1>2 DEF Account, Own
<1>4. Promise!Alive(u) => Promise!MayLink(u)
  <2> SUFFICES ASSUME Promise!Alive(row.uuid), Promise!Alive(u), ~seen.renamed PROVE u = row.uuid
    BY DEF Promise!MayLink
  <2>1. row.uuid \in There /\ u \in There /\ row.uuid # NoUser
    BY DEF Promise!Alive, Account, There, Inv, Typed, NoUser
  <2>2. users[row.uuid].name = row.name /\ users[u].name = row.name
    BY <1>2, <2>1 DEF OneName
  <2> QED
    BY <2>1, <2>2 DEF Alone
<1>5. Open = Promise!Nothing
  BY <1>1 DEF Idle, NoRow, NoUser, Open, Promise!Nothing, Promise!NoUser
<1>6. CASE row'.uuid = u
  <2>1. Promise!Adopt(u)
    BY <1>1, <1>3, <1>4, <1>5, <1>6 DEF Promise!Adopt
  <2> QED
    BY <1>3, <2>1 DEF Promise!Next
<1>7. CASE row'.uuid = row.uuid
  BY <1>1, <1>7 DEF Promise!vars
<1> QED
  BY <1>1, <1>6, <1>7

\* every step is one of the promise, or is not seen
LEMMA NextDelivers ==
    ASSUME Inv, Sessions, Alone, Linked, OneName, Ahead, [Next]_vars
    PROVE  [Promise!Next]_(Promise!vars)
<1>1. CASE Looks
  <2>1. /\ UNCHANGED <<row, ops, held, users, seen>>
        /\ tx'.key = tx.key /\ tx'.term = tx.term /\ tx'.loaded = tx.loaded
    BY <1>1, CallKeeps DEF Inv, Looks, GetByUuid, GetByName, GetPolicy, LookAgain, ReadBack
  <2> QED
    BY <2>1 DEF Status, Open, Kept, Account, Promise!vars
<1>2. CASE Create
  <2>1. /\ UNCHANGED <<row, Status, Open, Kept, seen>> /\ tx.pc # "idle"
    BY <1>2, CallKeeps DEF Inv, Status, Open, Kept
  <2>2. tx.name \in Nat /\ tx.term \in 1 .. row.term + 1
    BY <2>1, TermsTyped DEF Transaction, Ahead
  <2>3. users' = users \/ users' = Created(tx.name, tx.term)
    BY <1>2 DEF Create, CreateUncertain
  <2>4. CASE users' = users
    BY <2>1, <2>4 DEF Account, Promise!vars
  <2>5. CASE users' = Created(tx.name, tx.term)
    BY <2>1, <2>2, <2>5, MadeIsMade DEF Inv, Promise!vars, Promise!Next
  <2> QED
    BY <2>3, <2>4, <2>5
<1>3. CASE Land
  <2>1. PICK f \in flying : users' = Created(f[1], f[2])
    BY <1>3 DEF Land
  <2>2. f[1] \in Nat /\ f[2] \in 1 .. row.term + 1 /\ UNCHANGED <<row, Status, Open, Kept, seen>>
    BY <1>3 DEF Inv, Typed, Ahead, Land, Status, Open, Kept
  <2> QED
    BY <2>1, <2>2, MadeIsMade DEF Inv, Promise!vars, Promise!Next
<1>4. CASE Begins
  BY <1>4, BeginDelivers
<1>5. CASE RollBack
  <2>1. tx.term # 0 /\ UNCHANGED <<row, Status, Kept, Account, seen.renamed>>
    BY <1>5 DEF RollBack, Inv, Typed, Ahead, Status, Kept, Account
  <2>2. Open # Promise!Nothing /\ Open' = Promise!Nothing
    BY <1>5, <2>1 DEF RollBack, Idle, NoRow, NoUser, Open, Promise!Nothing, Promise!NoUser
  <2> QED
    BY <2>1, <2>2 DEF Promise!Abort, Promise!Next
<1>6. CASE Foreign
  <2> DEFINE x == [Made(row.name, 0) EXCEPT !.mine = FALSE]
  <2>1. ~x.mine /\ users' = Append(users, x) /\ users \in Seq(PanelUser)
    BY <1>6 DEF Foreign, Made, Inv, Typed
  <2> HIDE DEF x
  <2>2. /\ DOMAIN users' = DOMAIN users \cup {Len(users) + 1}
        /\ users'[Len(users) + 1] = x
        /\ \A u \in DOMAIN users : users'[u] = users[u]
    BY <2>1
  <2>3. Owns' = Owns
    BY <2>1, <2>2 DEF Owns
  <2>4. UNCHANGED Account
    BY <2>2, <2>3, AccountKept DEF Owns
  <2> QED
    BY <1>6, <2>4 DEF Foreign, Status, Open, Kept, Promise!vars
<1>7. CASE Vanish \/ SyncAsk \/ UNCHANGED vars
  BY <1>7 DEF Vanish, SyncAsk, vars, Status, Open, Kept, Account, Promise!vars
<1> QED
  BY <1>1, <1>2, <1>3, <1>4, <1>5, <1>6, <1>7, UpdatesDeliver, CommitDelivers, RemoveDelivers, SyncDelivers,
     WorkerDelivers
     DEF Next, Looks, Updates, Begins, Looked, Postpones

\* What provisioning promises it keeps, for every set of operations and every number of failed calls,
\* lost answers, late creations and stale retries: a completed operation has its term on the panel,
\* nobody's term moves between operations, the row loses no term and the panel is one term ahead at
\* most, and no user who is there loses the link to another who is there, unless a retry has given
\* the account a second name.
THEOREM Delivers == Spec => ImplementsDelivery
<1>1. Init => Promise!Init /\ Sessions /\ Alone /\ Linked /\ OneName /\ Ahead
  <2> SUFFICES ASSUME Init PROVE Promise!Init /\ Sessions /\ Alone /\ Linked /\ OneName /\ Ahead
    OBVIOUS
  <2> USE DEF Init, Idle, NoRow, NotHeld, NotSyncing, NoUser, NoName
  <2>1. Promise!Init
    BY DEF Promise!Init, Promise!NoUser, Promise!Nothing, Status, Open, Kept, Account
  <2>2. Sessions /\ Alone
    BY DEF Sessions, Alone, There
  <2>3. Linked /\ OneName
    BY DEF Linked, OneName, Held
  <2>4. Ahead
    BY DEF Ahead
  <2> QED
    BY <2>1, <2>2, <2>3, <2>4
<1>2. Inv /\ Sessions /\ [Next]_vars => Sessions'
  BY SessionsStep
<1>3. Inv /\ Sessions /\ Alone /\ [Next]_vars => Alone'
  BY AloneStep
<1>4. Inv /\ Sessions /\ Linked /\ [Next]_vars => Linked'
  BY LinkedStep
<1>5. Inv /\ Sessions /\ Alone /\ Linked /\ OneName /\ [Next]_vars => OneName'
  BY OneNameStep
<1>6. Inv /\ Sessions /\ Ahead /\ [Next]_vars => Ahead'
  BY AheadStep
<1>7. Inv /\ Sessions /\ Alone /\ Linked /\ OneName /\ Ahead /\ [Next]_vars => [Promise!Next]_(Promise!vars)
  BY NextDelivers
<1> QED
  BY <1>1, <1>2, <1>3, <1>4, <1>5, <1>6, <1>7, AlwaysInv, PTL DEF Spec, ImplementsDelivery, Promise!Spec
=============================================================================
