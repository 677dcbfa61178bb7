------------------------------ MODULE Renewal ------------------------------
(***************************************************************************)
(* The term of one subscriptions row: the trial, paid orders, promo codes, *)
(* the channel reward and the administrator move its expiry, and each of   *)
(* them pushes the row to the panel; the worker retries what failed,       *)
(* switches off what has ended and announces it; other tasks remind users  *)
(* of their trial and copy the panel's state back.  The rows of different  *)
(* users never meet, so there is one user here.                            *)
(*                                                                         *)
(* A handler is one transaction, and holds the row's lock throughout: it   *)
(* is one step.  The tasks that look at rows first and lock them later,    *)
(* and those that do not lock at all, are taken apart there.  Payments,    *)
(* prices and orders are the matter of OrderPayments, the calls of one     *)
(* push that of Provisioning.                                              *)
(***************************************************************************)
EXTENDS Integers, Sequences, SequencesExt, FiniteSets

CONSTANTS
    Orders,      \* subscription orders of the user
    OrderDays,   \* duration_days_snapshot + bonus_days of each
    Promos,      \* redemptions of promo codes for days
    Rewards,     \* rewards for joining the channel
    Grants,      \* grants of the administrator
    BonusDays, TrialDays, GrantDays,
    RetryLimit,  \* five attempts in the code
    Early, Late, \* a notice goes out three days and one day before the end
    MaxTime,     \* bound on the clock, in days
    MaxGiven,    \* bound on orders, redemptions, rewards, grants and trials together
    Budget,      \* bound on failures, crashes, toggles, syncs and outages together
    FirstSetups, \* what the process may be configured with at first
    None         \* order_id IS NULL

\* all is set, REMNAWAVE_INTERNAL_SQUAD_UUID is not, or there is no client of the panel
Setups == {"complete", "noSquad", "noClient"}

ASSUME RenewalAssumption ==
    /\ OrderDays \in [Orders -> Nat \ {0}]
    /\ Promos \cap Rewards = {} /\ Grants \cap (Promos \cup Rewards) = {}
    /\ {BonusDays, TrialDays, GrantDays, RetryLimit} \subseteq Nat \ {0}
    /\ Late \in Nat /\ Early \in Nat /\ Late <= Early
    /\ MaxTime \in Nat /\ MaxGiven \in Nat /\ Budget \in Nat
    /\ None \notin Orders /\ FirstSetups \subseteq Setups

Sources == {"none", "trial", "paid", "promo", "admin"} \* "none": there is no row
Statuses == {"pending", "active", "expired", "disabled", "activation_failed"}
ProvStatuses == {"not_started", "pending", "active", "failed", "disabled"}
Notices == {"active", "3d", "1d", "expired", "connection"}
ExpiryNotices == {"3d", "1d", "expired"}
\* "barred": trial_disabled; "checked": inside TrialService.activate
TrialStates == {"unused", "barred", "checked", "used"}
Bonuses == Promos \cup Rewards \* each has its row: unique per code and use, or per campaign

\* the worker's loop
Stages == <<"payments", "retry", "notify", "disable", "expiry">>

NoUser == [on |-> FALSE, until |-> 0]

VARIABLES
    now,      \* the day
    setup,    \* what the process is configured with
    row,      \* the subscriptions row
    panel,    \* the user on the panel, or NoUser
    done,     \* keys of the completed provisioning_operations
    failed,   \* keys of the failed ones, the last updated at the end
    paid,     \* orders that are paid and were extended at least once
    served,   \* orders that are completed
    used,     \* bonuses that have their row, and grants that were given
    trial,    \* one of TrialStates
    worker,   \* the stage of the worker's loop, whether it has selected the row, and, of the
              \* row that _retry_paid_orders holds, the columns its retry reads or may leave alone
    reminder, \* the kind of reminder the row was selected for, or "none"; a batch is short
    sync,     \* a synchronisation that has loaded the row, or NoSync
    spent,    \* of Budget
    seen      \* history, for the properties only

vars == <<now, setup, row, panel, done, failed, paid, served, used, trial, worker,
          reminder, sync, spent, seen>>

tasks == <<worker, reminder, sync>>
claims == <<paid, served, used, trial>>
ops == <<done, failed>>

NoSync == [stage |-> "none", prov |-> "active", remote |-> "none", got |-> NoUser]
NotHeld == [order |-> None, status |-> "pending", until |-> 0, attempts |-> 0, remote |-> "none"]
Resting == [stage |-> 1, selected |-> FALSE, held |-> NotHeld]

Exists == row.source # "none"
Waits == row.status \in {"pending", "activation_failed"}
Later(a, b) == IF a > b THEN a ELSE b

Given == Cardinality(paid) + Cardinality(used) + IF trial \in {"checked", "used"} THEN 1 ELSE 0

Spend(n) == spent + n <= Budget /\ spent' = spent + n

-----------------------------------------------------------------------------
\* Pushing the row to the panel.  Every result a push may have is a record of what it
\* leaves behind; "what" tells them apart.

\* (seeded fault: the expiry is left out)
LimitsPushed(r) == [panel EXCEPT !.on = TRUE]

\* the status and the expiry go out in the last update, or with the creation of the user
Pushed(r) == [on |-> TRUE, until |-> r.until]

Result(r, p, what) == [row |-> r, panel |-> p, done |-> done, failed |-> failed, what |-> what]

\* attempts count up to the limit they are compared with
OneMore(n) == IF n < RetryLimit THEN n + 1 ELSE RetryLimit

\* a column is written when its value differs from the loaded one
Copied(column, value, loaded) == IF value # loaded THEN value ELSE column

Activated(r) == [r EXCEPT !.status = "active", !.prov = "active", !.waits = FALSE]
\* (seeded fault: the status of the provisioning is not written)
StillPending(r) == [r EXCEPT !.status = "activation_failed", !.waits = TRUE]

NotActivated(r) == [r EXCEPT !.status = "activation_failed", !.prov = "failed", !.waits = TRUE]
Tried(r) == [r EXCEPT !.attempts = OneMore(@)]
SavedRemote(r) == [Activated(Tried(r)) EXCEPT !.linked = TRUE, !.remote = "ACTIVE"]

\* the keys but this one, which is there once at most
Without(keys, key) ==
    IF \E i \in DOMAIN keys : keys[i] = key
    THEN RemoveAt(keys, CHOOSE i \in DOMAIN keys : keys[i] = key)
    ELSE keys

\* (seeded fault: the operation is not taken from the failed ones)
CompletedButFailed(r, key) ==
    [Result(SavedRemote(r), Pushed(r), "pushed") EXCEPT !.done = @ \cup {key}]

Completed(r, key) ==
    [Result(SavedRemote(r), Pushed(r), "pushed") EXCEPT !.done = @ \cup {key}, !.failed = Without(@, key)]

\* a call may fail before or after the last update
Failed(r, key) ==
    {[Result(NotActivated(Tried(r)), p, "failed") EXCEPT !.failed = Append(Without(@, key), key)] :
        p \in {panel, Pushed(r)}}

\* RemnawaveProvisioningService.provision
Provisioned(r, key) ==
    IF setup = "noSquad" THEN {Result(NotActivated(r), panel, "unset")}
    ELSE IF key \in done THEN {Result(Activated(r), panel, "old key")}
    ELSE {Completed(r, key)} \cup Failed(r, key)

Unavailable(r) == {Result([r EXCEPT !.status = "activation_failed"], panel, "unavailable")}

\* through the adapter, which raises when anything is missing
Served(r, key) == IF setup = "complete" THEN Provisioned(r, key) ELSE Unavailable(Tried(r))

\* the key of an operation that was not given one
OwnKey(r) ==
    IF r.order # None THEN <<"order", r.order>>
    ELSE IF r.source = "admin" THEN <<"admin", r.until>> ELSE <<r.source>>

-----------------------------------------------------------------------------
\* History.

\* days the user was promised, each promise once
Owe(h, days) == [h EXCEPT !.owed = Later(@, now) + days, !.sent = {}, !.kept = {}]

\* the term is moved once more for a promise that was kept before: its notices begin again
MovedAgain(h) == [h EXCEPT !.sent = {}, !.kept = {}]

Noted(h, out) ==
    [h EXCEPT
        !.slips = CASE out.what = "pushed" -> {}
                    [] out.what = "old key" -> @ \cup {"old key"}
                    [] out.what \in {"stale", "stale failure"} -> @ \cup {"stale retry"}
                    [] OTHER -> @,
        !.hidden = CASE out.what \in {"pushed", "stale"} ->
                            out.row.status \in {"pending", "activation_failed"}
                     [] out.what = "unavailable" -> TRUE
                     [] OTHER -> @]

\* the transaction commits
Commit(out, h) ==
    /\ row' = out.row
    /\ panel' = out.panel
    /\ done' = out.done
    /\ failed' = out.failed
    /\ seen' = Noted(h, out)
    /\ Spend(IF out.what \in {"failed", "stale failure"} THEN 1 ELSE 0)

\* it has reached a user of the panel and is rolled back: by a crash, a lost connection
\* to the database, or a later step of the handler.  A user it has created is found again
\* under the name an earlier attempt has stored; without one he is nobody's (Provisioning).
Lost(out) ==
    /\ panel = NoUser => row.prov # "not_started"
    /\ out.panel # panel
    /\ Spend(1)
    /\ panel' = out.panel
    /\ seen' = [seen EXCEPT !.slips = @ \cup {"rolled back"}]
    /\ UNCHANGED <<row, ops>>

RollBack(out) == Lost(out) /\ UNCHANGED <<now, setup, claims, tasks>>

-----------------------------------------------------------------------------
\* What moves the expiry.

NewRow(source, days) ==
    [source |-> source, status |-> "pending", prov |-> "not_started", until |-> now + days,
     started |-> now, order |-> None, attempts |-> 0, waits |-> FALSE,
     linked |-> FALSE, remote |-> "none", noted |-> {}]

\* (seeded fault: the new term starts today)
LongerFromNow(r, days) ==
    [r EXCEPT !.until = now + days, !.status = "pending", !.noted = @ \ ExpiryNotices]

Longer(r, days) ==
    [r EXCEPT !.until = Later(@, now) + days,
              !.started = IF r.until <= now THEN now ELSE @,
              !.status = "pending",
              !.noted = @ \ ExpiryNotices]

Extension(o) ==
    LET r == IF Exists THEN Longer(row, OrderDays[o])
                       ELSE NewRow("paid", OrderDays[o])
    IN  [r EXCEPT !.source = "paid", !.order = o, !.noted = @ \ {"active"}]

\* the first confirmation, or purchase, of the order writes the users row, which
\* TrialService.activate has locked; later ones find the payment credited
OrderMayRun(o) == o \notin paid => trial # "checked"

\* extend_from_paid_order, as long as the order is not completed: from a confirmation, a
\* purchase, or the worker when the row it looked for was not the order's, and it holds none
RenewByOrder(o) ==
    /\ o \notin served
    /\ o \notin paid => Given < MaxGiven
    /\ OrderMayRun(o)
    /\ LET known == Exists /\ setup = "complete" /\ <<"order", o>> \in done
           same == Exists /\ row.order = o
           r == IF same THEN row ELSE Extension(o)
           outs == IF known THEN {Result(row, panel, "known")} ELSE Served(r, OwnKey(r))
           h == IF o \notin paid THEN Owe(seen, OrderDays[o])
                ELSE IF known \/ same THEN seen ELSE MovedAgain(seen)
       IN  \E out \in outs :
               \/ /\ Commit(out, h)
                  /\ paid' = paid \cup {o}
                  /\ served' = IF out.row.status = "active" THEN served \cup {o} ELSE served
                  /\ UNCHANGED <<now, setup, used, trial, tasks>>
               \/ RollBack(out)

\* extend_with_bonus_days: only a channel reward makes a row
BonusTerm ==
    LET wasActive == row.status = "active" /\ row.until > now
    IN  IF ~Exists THEN NewRow("promo", BonusDays)
        ELSE [Longer(row, BonusDays) EXCEPT
                 !.waits = FALSE, !.noted = IF wasActive THEN @ ELSE @ \ {"active"}]

BonusKey(b) == <<"promo", b>>

\* the row of the bonus is inserted, and the term is pushed
RedeemBonus(b) ==
    \E out \in Served(BonusTerm, BonusKey(b)) :
        \/ /\ Commit(out, Owe(seen, BonusDays))
           /\ used' = used \cup {b}
           /\ UNCHANGED <<now, setup, paid, served, trial, tasks>>
        \/ RollBack(out)

\* The code is locked, and its limits hold: a use of it is left.  The columns compared with
\* them may be read before the lock: what a code allows is not this module's matter.
Redeemable(b) == b \notin used /\ Given < MaxGiven /\ Exists

\* a code for days, sent as a message; the users row is not locked
RedeemPromo(b) == Redeemable(b) /\ RedeemBonus(b)

\* ChannelRewardService.grant locks the users row; once for each campaign
Rewardable(b) == trial # "checked" /\ b \notin used /\ Given < MaxGiven

\* the membership was confirmed by Telegram before
ClaimReward(b) == Rewardable(b) /\ RedeemBonus(b)

\* what TrialService.activate looks at before it inserts the activation
TrialPermitted == trial = "unused" /\ row.source # "paid" /\ paid = {}

\* the button "activate trial" up to that insert; a refusal changes nothing
CheckTrial ==
    /\ TrialPermitted /\ Given < MaxGiven
    /\ trial' = "checked"
    /\ UNCHANGED <<now, setup, row, panel, ops, paid, served, used, tasks, spent, seen>>

\* register_trial keeps the days of a promo, and replaces any others
TrialTerm ==
    IF row.source = "promo" /\ row.until > now THEN row.until + TrialDays ELSE now + TrialDays

TrialRow ==
    IF ~Exists THEN NewRow("trial", TrialDays)
    ELSE [row EXCEPT !.source = "trial", !.status = "pending", !.started = now,
                     !.until = TrialTerm, !.order = None,
                     !.noted = @ \ (ExpiryNotices \cup {"connection"})]

RegisterTrial ==
    /\ trial = "checked"
    /\ \* The days of a promo's row are kept, and owed further.  Of any other row none are:
       \* with an administrator's days go those a promo has added to them.
       LET h == IF row.source = "promo" THEN Owe(seen, TrialDays)
                ELSE Owe([seen EXCEPT !.owed = now], TrialDays)
       IN  \E out \in Served(TrialRow, OwnKey(TrialRow)) :
               \/ /\ Commit(out, h)
                  /\ trial' = "used"
                  /\ UNCHANGED <<now, setup, paid, served, used, tasks>>
               \/ RollBack(out)

\* /trial_off and /trial_on, which lock the users row
BarTrial ==
    /\ Spend(1)
    /\ \/ trial = "unused" /\ trial' = "barred"
       \/ trial = "barred" /\ trial' = "unused"
    /\ UNCHANGED <<now, setup, row, panel, ops, paid, served, used, tasks, seen>>

\* /grant_vpn: the row keeps its order, its status and the notices of its expiry
Grant(g) ==
    /\ g \notin used /\ Given < MaxGiven
    /\ trial # "checked"
    /\ LET r == IF ~Exists THEN NewRow("admin", GrantDays)
                ELSE [row EXCEPT !.until = Later(@, now) + GrantDays, !.source = "admin",
                                 !.noted = @ \ {"active"}]
           outs == IF setup = "noClient" THEN Unavailable(r)
                                         ELSE Provisioned(r, <<"admin", r.until>>)
       IN  \E out \in outs :
               \/ /\ Commit(out, [Owe(seen, GrantDays) EXCEPT !.kept = row.noted \cap {"expired"}])
                  /\ used' = used \cup {g}
                  /\ UNCHANGED <<now, setup, paid, served, trial, tasks>>
               \/ RollBack(out)

-----------------------------------------------------------------------------
\* The administrator.

\* the actions "enable" and "disable" of the panel
Switched(on) == [panel EXCEPT !.on = on]

\* the row is found by a join, so that the users row is locked with it
Toggles == row.linked /\ setup # "noClient" /\ trial # "checked"

\* /rw_enable: the row is not pushed
Enable ==
    /\ Toggles
    /\ Spend(1)
    /\ panel' = Switched(TRUE)
    /\ row' = [row EXCEPT !.status = "active", !.prov = "active", !.remote = "ACTIVE"]
    /\ seen' = [seen EXCEPT !.slips = @ \cup {"by hand"}]
    /\ UNCHANGED <<now, setup, ops, claims, tasks>>

\* /rw_disable
Disable ==
    /\ Toggles
    /\ Spend(1)
    /\ panel' = Switched(FALSE)
    /\ row' = [row EXCEPT !.status = "disabled", !.prov = "disabled", !.remote = "DISABLED"]
    /\ UNCHANGED <<now, setup, ops, claims, tasks, seen>>

\* the button "retry failed"
RetryFailed ==
    /\ row.prov = "failed"
    /\ row' = [row EXCEPT !.prov = "pending", !.attempts = 0, !.waits = FALSE]
    /\ UNCHANGED <<now, setup, panel, ops, claims, tasks, spent, seen>>

-----------------------------------------------------------------------------
\* The worker: a stage selects the row without its lock, locks it later, and does not look
\* again at what it selected it for.

NextStage == [Resting EXCEPT !.stage = IF worker.stage = Len(Stages) THEN 1 ELSE worker.stage + 1]

At(stage) == Stages[worker.stage] = stage

\* (seeded fault: the notice is sent whether it was noted or not)
NoticeAgain(kind) == TRUE

NotSentYet(kind) == kind \notin row.noted

\* a paid order that is not completed, and has the row; "continue" skips the others
PaymentDue ==
    /\ row.order # None /\ row.order \notin served
    /\ Waits => row.attempts < RetryLimit /\ ~row.waits

\* (seeded fault: rows that failed are not selected)
FirstTryDue == setup # "noClient" /\ row.status = "pending" /\ row.attempts < RetryLimit

RetryDue ==
    setup # "noClient" /\ Exists /\ Waits /\ row.attempts < RetryLimit /\ ~row.waits

\* (seeded fault: only purchases are announced)
NotifyDueIfBought == row.status = "active" /\ row.prov = "active" /\ row.order # None

NotifyDue == row.status = "active" /\ row.prov = "active" /\ NotSentYet("active")

DisableDue ==
    /\ Exists /\ row.until <= now
    /\ row.status # "expired" \/ (row.linked /\ row.remote # "DISABLED")

ExpiryDue ==
    /\ Exists /\ row.source # "trial" /\ row.status \in {"active", "expired"}
    /\ row.until <= now + Early

Due(stage) ==
    CASE stage = "payments" -> PaymentDue
      [] stage = "retry" -> RetryDue
      [] stage = "notify" -> NotifyDue
      [] stage = "disable" -> DisableDue
      [] stage = "expiry" -> ExpiryDue

Columns == [order |-> row.order, status |-> row.status, until |-> row.until,
            attempts |-> row.attempts, remote |-> row.remote]

Select ==
    /\ ~worker.selected
    /\ worker' = IF ~Due(Stages[worker.stage]) THEN NextStage
                 ELSE [worker EXCEPT !.selected = TRUE,
                                     !.held = IF At("payments") THEN Columns ELSE @]
    /\ UNCHANGED <<now, setup, row, panel, ops, claims, reminder, sync, spent, seen>>

Working(stage) == At(stage) /\ worker.selected /\ worker' = NextStage

\* extend_from_paid_order with the row the session holds: locking it does not read it again.
\* The held term is pushed, and a column is written when the retry changes the held one; the
\* status of the provisioning is, since it was set and flushed in between.
HeldTried(status) ==
    [row EXCEPT !.status = Copied(@, status, worker.held.status),
                !.attempts = OneMore(worker.held.attempts)]

HeldActivated(waits) ==
    [HeldTried("active") EXCEPT !.prov = "active", !.waits = waits, !.linked = TRUE,
                                !.remote = Copied(@, "ACTIVE", worker.held.remote)]

HeldFailed == [HeldTried("activation_failed") EXCEPT !.prov = "failed", !.waits = TRUE]

HeldIsCurrent == worker.held.until = row.until

HeldPushes(key) ==
    {[Result(HeldActivated(waits), Pushed(worker.held), IF HeldIsCurrent THEN "pushed" ELSE "stale")
        EXCEPT !.done = @ \cup {key}, !.failed = Without(@, key)] : waits \in {FALSE, row.waits}}

HeldFailures(key) ==
    {[Result(HeldFailed, p, IF p = panel \/ HeldIsCurrent THEN "failed" ELSE "stale failure")
        EXCEPT !.failed = Append(Without(@, key), key)] : p \in {panel, Pushed(worker.held)}}

HeldServed(key) ==
    IF setup # "complete" THEN {Result(HeldTried("activation_failed"), panel, "unavailable")}
    ELSE IF key \in done THEN {Result(row, panel, "known")}
    ELSE HeldPushes(key) \cup HeldFailures(key)

\* _retry_paid_orders, for the order whose row it holds; a round meets one such row of a user
RetryPaid ==
    /\ Working("payments")
    /\ LET o == worker.held.order
       IN  \E out \in HeldServed(<<"order", o>>) :
               \/ /\ Commit(out, seen)
                  /\ served' = IF \/ out.what \in {"pushed", "stale"}
                                  \/ out.what = "known" /\ worker.held.status = "active"
                               THEN served \cup {o} ELSE served
               \/ Lost(out) /\ UNCHANGED served
    /\ UNCHANGED <<now, setup, paid, used, trial, reminder, sync>>

\* next_retry_at has come
RetryComesDue ==
    /\ row.waits
    /\ row' = [row EXCEPT !.waits = FALSE]
    /\ UNCHANGED <<now, setup, panel, ops, claims, tasks, spent, seen>>

\* with the key of the operation that failed last
RetryKey == IF failed # <<>> THEN Last(failed) ELSE OwnKey(row)

RetryActivation ==
    /\ Working("retry")
    /\ \E out \in Provisioned(row, RetryKey) :
           \/ /\ Commit(out, seen)
              /\ served' = IF out.row.status = "active" /\ row.order \in paid
                           THEN served \cup {row.order} ELSE served
           \/ Lost(out) /\ UNCHANGED served
    /\ UNCHANGED <<now, setup, paid, used, trial, reminder, sync>>

\* the panel refuses, and the row is left for the next round
DisableFails ==
    /\ Working("disable")
    /\ row.linked /\ setup # "noClient"
    /\ Spend(1)
    /\ UNCHANGED <<now, setup, row, panel, ops, claims, reminder, sync, seen>>

SwitchedOff(h) == [h EXCEPT !.slips = IF row.until > now THEN @ \cup {"renewed"} ELSE @]

\* (seeded fault: the panel is not called)
DisableExpiredHere ==
    /\ Working("disable")
    /\ row' = [row EXCEPT !.status = "expired", !.prov = "disabled"]
    /\ UNCHANGED <<panel, seen, now, setup, ops, claims, reminder, sync, spent>>

DisableExpired ==
    /\ Working("disable")
    /\ IF row.linked /\ setup # "noClient"
       THEN /\ panel' = Switched(FALSE)
            /\ row' = [row EXCEPT !.status = "expired", !.prov = "disabled", !.remote = "DISABLED"]
            /\ seen' = SwitchedOff(seen)
       ELSE /\ row' = [row EXCEPT !.status = "expired", !.prov = "disabled"]
            /\ UNCHANGED <<panel, seen>>
    /\ UNCHANGED <<now, setup, ops, claims, reminder, sync, spent>>

\* Sending.  A message that went out and was not noted goes out again.
Send(kind, stored) ==
    /\ seen' = [seen EXCEPT !.sent = IF stored THEN @ \cup {kind} ELSE @,
                            !.repeated = @ \/ kind \in seen.sent]
    /\ row' = IF stored THEN [row EXCEPT !.noted = @ \cup {kind}] ELSE row
    /\ Spend(IF stored THEN 0 ELSE 1)

ExpiryKind ==
    IF row.until <= now THEN "expired" ELSE IF row.until <= now + Late THEN "1d" ELSE "3d"

\* _send_expiry_notifications, under the lock
AnnounceExpiry ==
    /\ Working("expiry")
    /\ \/ NotSentYet(ExpiryKind) /\ \E stored \in BOOLEAN : Send(ExpiryKind, stored)
       \/ ~NotSentYet(ExpiryKind) /\ UNCHANGED <<row, spent, seen>>
       \/ NotSentYet(ExpiryKind) /\ Spend(1) /\ UNCHANGED <<row, seen>>
    /\ UNCHANGED <<now, setup, panel, ops, claims, reminder, sync>>

\* deliver_activation_notification, under the lock
Deliver ==
    IF row.status = "active" /\ row.prov = "active" /\ NotSentYet("active")
    THEN \/ \E stored \in BOOLEAN : Send("active", stored)
         \/ Spend(1) /\ UNCHANGED <<row, seen>>
    ELSE UNCHANGED <<row, spent, seen>>

\* by a handler, when it has activated the row, in a transaction of its own
NotifyActivation ==
    /\ row.status = "active"
    /\ Deliver
    /\ UNCHANGED <<now, setup, panel, ops, claims, tasks>>

\* by the worker
NotifyPending ==
    /\ Working("notify")
    /\ Deliver
    /\ UNCHANGED <<now, setup, panel, ops, claims, reminder, sync>>

-----------------------------------------------------------------------------
\* The reminders of a trial, a task of their own: selected, locked and looked at again.

Kinds == {"3d", "connection", "expired"}

StillDue(kind) ==
    /\ row.source = "trial"
    /\ NotSentYet(kind)
    /\ CASE kind = "3d" -> row.status = "active" /\ now < row.until /\ row.until <= now + Early
         [] kind = "connection" ->
                /\ row.status = "active" /\ row.prov = "active" /\ row.linked
                /\ row.started + 2 <= now /\ row.until > now + Early
         [] kind = "expired" -> row.status = "expired" /\ row.until <= now

SelectReminder(kind) ==
    /\ reminder = "none"
    /\ kind = "connection" => setup # "noClient"
    /\ StillDue(kind)
    /\ reminder' = kind
    /\ UNCHANGED <<now, setup, row, panel, ops, claims, worker, sync, spent, seen>>

Remind ==
    /\ reminder # "none"
    /\ reminder' = "none"
    /\ IF StillDue(reminder)
       THEN \/ \E stored \in BOOLEAN : Send(reminder, stored)
            \* the user has blocked the bot, or, asked to connect, is connected already
            \/ /\ row' = [row EXCEPT !.noted = @ \cup {reminder}]
               /\ seen' = [seen EXCEPT !.sent = @ \cup {reminder}]
               /\ UNCHANGED spent
            \/ Spend(1) /\ UNCHANGED <<row, seen>>
       ELSE UNCHANGED <<row, spent, seen>>
    /\ UNCHANGED <<now, setup, panel, ops, claims, worker, sync>>

-----------------------------------------------------------------------------
\* RemnawaveSyncService.sync_one, by the user's screen or the administrator: the row is
\* loaded without a lock, the panel is asked, and the columns that differ from the loaded
\* ones are written.

SyncLoad ==
    /\ sync = NoSync
    /\ Exists /\ setup # "noClient"
    /\ Spend(1)
    /\ sync' = [stage |-> "loaded", prov |-> row.prov,
                remote |-> row.remote, got |-> NoUser]
    /\ UNCHANGED <<now, setup, row, panel, ops, claims, worker, reminder, seen>>

SyncAsk ==
    /\ sync.stage = "loaded"
    /\ sync' = IF panel = NoUser THEN NoSync ELSE [sync EXCEPT !.stage = "asked", !.got = panel]
    /\ UNCHANGED <<now, setup, row, panel, ops, claims, worker, reminder, spent, seen>>

SyncStore ==
    /\ sync.stage = "asked"
    /\ LET remote == IF sync.got.on THEN "ACTIVE" ELSE "DISABLED"
           r == [row EXCEPT !.linked = TRUE,
                            !.remote = Copied(@, remote, sync.remote),
                            !.prov = Copied(@, "active", sync.prov)]
       IN  /\ row' = r
           /\ seen' = [seen EXCEPT !.hidden = @ \/ (Waits /\ r.prov = "active")]
    /\ sync' = NoSync
    /\ UNCHANGED <<now, setup, panel, ops, claims, worker, reminder, spent>>

-----------------------------------------------------------------------------
Tick ==
    /\ now < MaxTime
    /\ now' = now + 1
    /\ UNCHANGED <<setup, row, panel, ops, claims, tasks, spent, seen>>

\* the process is stopped and started: main builds the panel's client from the settings, and
\* goes on without it when they are incomplete, and starts the worker and the reminders, which
\* it stops when the polling ends
Restart ==
    /\ Spend(1)
    /\ setup' \in Setups
    /\ worker' = Resting /\ reminder' = "none" /\ sync' = NoSync
    /\ trial' = IF trial = "checked" THEN "unused" ELSE trial
    /\ UNCHANGED <<now, row, panel, ops, paid, served, used, seen>>

\* it is started again with complete settings
Configure ==
    /\ setup # "complete"
    /\ setup' = "complete"
    /\ worker' = Resting /\ reminder' = "none" /\ sync' = NoSync
    /\ trial' = IF trial = "checked" THEN "unused" ELSE trial
    /\ UNCHANGED <<now, row, panel, ops, paid, served, used, spent, seen>>

Init ==
    /\ now = 0
    /\ setup \in FirstSetups
    /\ row = [NewRow("none", 0) EXCEPT !.until = 0]
    /\ panel = NoUser
    /\ done = {} /\ failed = <<>>
    /\ paid = {} /\ served = {} /\ used = {} /\ trial = "unused"
    /\ worker = Resting /\ reminder = "none" /\ sync = NoSync
    /\ spent = 0
    /\ seen = [owed |-> 0, slips |-> {},
               hidden |-> FALSE, sent |-> {}, kept |-> {}, repeated |-> FALSE]

Next ==
    \/ \E o \in Orders : RenewByOrder(o)
    \/ \E b \in Promos : RedeemPromo(b)
    \/ \E b \in Rewards : ClaimReward(b)
    \/ CheckTrial \/ RegisterTrial \/ BarTrial
    \/ \E g \in Grants : Grant(g)
    \/ Enable \/ Disable \/ RetryFailed
    \/ Select \/ RetryPaid \/ RetryComesDue \/ RetryActivation \/ DisableFails \/ DisableExpired
    \/ AnnounceExpiry \/ NotifyActivation \/ NotifyPending
    \/ \E kind \in Kinds : SelectReminder(kind)
    \/ Remind
    \/ SyncLoad \/ SyncAsk \/ SyncStore
    \/ Tick \/ Restart \/ Configure

Spec == Init /\ [][Next]_vars

\* The worker and the reminders run for ever, days pass, a retry comes due, and an outage ends.
Fairness ==
    /\ WF_vars(Select)
    /\ WF_vars(RetryPaid \/ RetryActivation \/ NotifyPending \/ DisableFails \/ DisableExpired \/ AnnounceExpiry)
    /\ WF_vars(RetryComesDue)
    /\ WF_vars(\E kind \in Kinds : SelectReminder(kind)) /\ WF_vars(Remind)
    /\ WF_vars(Tick)
    /\ WF_vars(Configure)

FairSpec == Spec /\ Fairness

-----------------------------------------------------------------------------
\* Every column keeps to its values; an operation is not completed and failed at once.
TypeOK ==
    /\ now \in 0..MaxTime /\ setup \in Setups /\ spent \in 0..Budget
    /\ row.source \in Sources /\ row.status \in Statuses /\ row.prov \in ProvStatuses
    /\ row.until \in Nat /\ row.started \in Nat
    /\ row.order \in Orders \cup {None}
    /\ row.attempts \in 0..RetryLimit
    /\ row.noted \subseteq Notices
    /\ panel \in [on : BOOLEAN, until : Nat]
    /\ done \cap ToSet(failed) = {}
    /\ served \subseteq paid /\ paid \subseteq Orders /\ used \subseteq Bonuses \cup Grants
    /\ trial \in TrialStates
    /\ worker.stage \in DOMAIN Stages /\ worker.held.until \in Nat
    /\ reminder \in Kinds \cup {"none"}

\* A row that reads active and has not ended is served by the panel, until its end at least:
\* whichever of the handlers moved the term, whichever attempt went through, and whatever the
\* worker, a synchronisation or a failed push did in between.  The code breaks this in five
\* ways only: the retry that finds the completed operation of an older term (provision returns
\* without a push), /rw_enable, a renewal the worker switches off after it selected the row,
\* the retry of an order that pushes the term it held from before the row was prolonged, and a
\* transaction rolled back after its push.  A later push of the row repairs all of them.
ActiveIsServed ==
    row.status = "active" /\ row.until > now /\ seen.slips = {} =>
        panel.on /\ panel.until >= row.until

\* Days are added up: the row never ends before the sum of what the user was given, each order,
\* redemption, grant and trial counted once and from the day it came.  Only register_trial
\* may shorten the term, when the row's days do not come from a promo.
NoDaysLost == row.until >= seen.owed

\* A row whose activation failed is taken by the worker or found by the administrator's button
\* "retry failed", which looks at provisioning_status.  The exceptions, where it is not
\* "failed": a synchronisation writes active over it; so does the retry of an order that
\* held an active row, and leaves the status of a later failure; a handler without a panel
\* does not write it.
FailedIsWithinReach ==
    Exists /\ Waits =>
        row.attempts < RetryLimit \/ row.prov = "failed" \/ seen.hidden

\* A notice that was noted is not sent again within the same term, by the handlers, the worker
\* and the reminders together, which share the columns.
ToldOnce == ~seen.repeated

\* A row that has ended is cut off on the panel, or renewed.  A rolled back push may have switched
\* on a user whose row says DISABLED, and nothing looks at him again.
ExpiredIsCut ==
    Exists /\ row.until <= now /\ row.linked ~>
        row.until > now \/ ~panel.on \/ "rolled back" \in seen.slips

\* A failed activation that has attempts left is tried again until it succeeds, is given up, or
\* the row ends.
FailedIsRetried ==
    Exists /\ Waits /\ row.attempts < RetryLimit ~> ~Waits \/ row.attempts = RetryLimit

\* The user is told of every activation, whichever of the handlers or the worker did it and
\* whether its message went out or not, unless the row ends, is switched off, or is failed by
\* the retry of an order that held it from before, and writes the provisioning only; and of
\* the end of every term, by the worker or, for a trial, by the reminders, unless he renews
\* or the notice of an earlier end was kept by /grant_vpn.
UserIsTold ==
    /\ row.status = "active" /\ row.prov = "active" /\ "active" \notin row.noted ~>
           "active" \in row.noted \/ row.status # "active" \/ row.prov # "active"
    /\ Exists /\ row.until <= now ~>
           row.until > now \/ "expired" \in seen.sent \/ "expired" \in seen.kept

\* VIOLATED by the code: "access was switched off after the end of the paid term", says the notice;
\* the worker expires and switches off a row that was renewed after it was selected.
RenewedIsNotCut == row.status = "expired" => row.until <= now
=============================================================================
