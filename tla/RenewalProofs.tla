---------------------------- MODULE RenewalProofs ----------------------------
(***************************************************************************)
(* What holds of Renewal for every set of orders, codes, rewards and       *)
(* grants, every number of days and every number of failures.              *)
(***************************************************************************)
EXTENDS Renewal, SequenceTheorems, TLAPS

-----------------------------------------------------------------------------
(* The inductive invariant *)

Remotes == {"none", "ACTIVE", "DISABLED"}
Slips == {"old key", "by hand", "renewed", "rolled back", "stale retry"}
Stage == {"none", "loaded", "asked"}

Row == [source : Sources, status : Statuses, prov : ProvStatuses, until : Nat, started : Nat,
        order : Orders \cup {None}, attempts : 0..RetryLimit, waits : BOOLEAN,
        linked : BOOLEAN, remote : Remotes, noted : SUBSET Notices]

Panel == [on : BOOLEAN, until : Nat]

History == [owed : Nat, slips : SUBSET Slips, hidden : BOOLEAN, sent : SUBSET Notices,
            kept : SUBSET Notices, repeated : BOOLEAN]

OrderKey(o) == <<"order", o>>

Keys ==
    {OrderKey(o) : o \in Orders} \cup {BonusKey(b) : b \in Bonuses}
        \cup {<<"admin", n>> : n \in Nat} \cup {<<s>> : s \in Sources}

Held == [order : Orders \cup {None}, status : Statuses, until : Nat, attempts : 0..RetryLimit,
         remote : Remotes]

Workers == [stage : 1..5, selected : BOOLEAN, held : Held]

\* the worker retries the payments of paid orders
HoldsPaid == worker.stage = 1 /\ worker.selected => worker.held.order \in paid

\* what each variable is
Typed ==
    /\ now \in 0..MaxTime /\ setup \in Setups /\ spent \in 0..Budget
    /\ row \in Row /\ panel \in Panel
    /\ done \subseteq Keys /\ failed \in Seq(Keys)
    /\ paid \subseteq Orders /\ served \subseteq paid /\ used \subseteq Bonuses \cup Grants
    /\ trial \in TrialStates
    /\ worker \in Workers /\ HoldsPaid
    /\ reminder \in Kinds \cup {"none"}
    /\ sync \in [stage : Stage, prov : ProvStatuses, remote : Remotes, got : Panel]
    /\ seen \in History

\* no key is there twice
Distinct(keys) == \A i, j \in DOMAIN keys : keys[i] = keys[j] => i = j

\* an operation has one row, with one status
OnceEach(d, f) == Distinct(f) /\ \A i \in DOMAIN f : f[i] \notin d

\* the keys of orders are those of paid ones
KeysArePaid(d, f, orders) ==
    \A o \in Orders : OrderKey(o) \in d \/ (\E i \in DOMAIN f : f[i] = OrderKey(o)) => o \in orders

\* what the row and the operations refer to was paid, and without a row there is nothing
Known ==
    /\ OnceEach(done, failed)
    /\ KeysArePaid(done, failed, paid)
    /\ row.order # None => row.order \in paid
    /\ ~Exists => row.until = 0 /\ row.order = None

Promises ==
    /\ ActiveIsServed
    /\ NoDaysLost
    /\ FailedIsWithinReach

Inv == Typed /\ Known /\ Promises

-----------------------------------------------------------------------------
(* Keys *)

\* the operations without one, which was there once at most
LEMMA WithoutKey ==
    ASSUME NEW S, NEW keys \in Seq(S), NEW key
    PROVE  /\ Without(keys, key) \in Seq(S)
           /\ \A i \in DOMAIN Without(keys, key) :
                \E j \in DOMAIN keys : Without(keys, key)[i] = keys[j]
           /\ Distinct(keys) => /\ Distinct(Without(keys, key))
                                /\ \A i \in DOMAIN Without(keys, key) : Without(keys, key)[i] # key
<1>1. CASE ~\E i \in DOMAIN keys : keys[i] = key
  BY <1>1 DEF Without
<1>2. CASE \E i \in DOMAIN keys : keys[i] = key
  <2> DEFINE p == CHOOSE i \in DOMAIN keys : keys[i] = key
             front == SubSeq(keys, 1, p - 1)
             rest == SubSeq(keys, p + 1, Len(keys))
  <2>1. p \in 1 .. Len(keys) /\ keys[p] = key /\ DOMAIN keys = 1 .. Len(keys) /\ Len(keys) \in Nat
    BY <1>2
  <2>2. Without(keys, key) = front \o rest
    BY <1>2 DEF Without, RemoveAt
  <2> HIDE DEF p
  <2>3. \A i \in 1 .. Len(keys) : keys[i] \in S
    OBVIOUS
  <2>4. /\ front \in Seq(S) /\ Len(front) = p - 1
        /\ \A i \in 1 .. p - 1 : front[i] = keys[i]
    <3>1. \A i \in 1 .. p - 1 : keys[i] \in S
      BY <2>1, <2>3
    <3>2. /\ front \in Seq(S)
          /\ Len(front) = IF 1 <= p - 1 THEN (p - 1) - 1 + 1 ELSE 0
          /\ \A i \in 1 .. (p - 1) - 1 + 1 : front[i] = keys[1 + i - 1]
      BY <2>1, <3>1, SubSeqProperties
    <3> HIDE DEF front
    <3> QED
      BY <2>1, <3>2
  <2>5. /\ rest \in Seq(S) /\ Len(rest) = Len(keys) - p
        /\ \A i \in 1 .. Len(keys) - p : rest[i] = keys[p + i]
    <3>1. \A i \in p + 1 .. Len(keys) : keys[i] \in S
      BY <2>1, <2>3
    <3>2. /\ rest \in Seq(S)
          /\ Len(rest) = IF p + 1 <= Len(keys) THEN Len(keys) - (p + 1) + 1 ELSE 0
          /\ \A i \in 1 .. Len(keys) - (p + 1) + 1 : rest[i] = keys[(p + 1) + i - 1]
      BY <2>1, <3>1, SubSeqProperties
    <3> HIDE DEF rest
    <3>3. Len(rest) = Len(keys) - p
      <4>0. p \in Int /\ Len(keys) \in Int /\ p <= Len(keys)
        BY <2>1
      <4>1. CASE p + 1 <= Len(keys)
        <5>1. Len(keys) - (p + 1) + 1 = Len(keys) - p
          BY <4>0
        <5> QED
          BY <3>2, <4>1, <5>1
      <4>2. CASE ~(p + 1 <= Len(keys))
        <5>1. 0 = Len(keys) - p
          BY <4>0, <4>2
        <5> QED
          BY <3>2, <4>2, <5>1
      <4> QED
        BY <4>1, <4>2
    <3>4. ASSUME NEW i \in 1 .. Len(keys) - p
          PROVE  rest[i] = keys[p + i]
      <4>1. i \in 1 .. Len(keys) - (p + 1) + 1 /\ (p + 1) + i - 1 = p + i
        BY <2>1
      <4> QED
        BY <3>2, <4>1
    <3> QED
      BY <3>2, <3>3, <3>4
  <2> DEFINE w == front \o rest
             at(i) == IF i < p THEN i ELSE i + 1
  <2> HIDE DEF front, rest
  <2>6. /\ w \in Seq(S) /\ Len(w) = Len(keys) - 1
        /\ \A i \in 1 .. Len(keys) - 1 : w[i] = keys[at(i)]
    <3>1. /\ w \in Seq(S) /\ Len(w) = Len(front) + Len(rest)
          /\ \A i \in 1 .. Len(front) + Len(rest) :
               w[i] = IF i <= Len(front) THEN front[i] ELSE rest[i - Len(front)]
      BY <2>4, <2>5, ConcatProperties
    <3> HIDE DEF w
    <3>2. Len(front) + Len(rest) = Len(keys) - 1
      BY <2>1, <2>4, <2>5
    <3>3. ASSUME NEW i \in 1 .. Len(keys) - 1
          PROVE  w[i] = keys[at(i)]
      <4>1. w[i] = IF i <= p - 1 THEN front[i] ELSE rest[i - (p - 1)]
        BY <2>4, <3>1, <3>2
      <4>2. CASE i < p
        <5>1. i \in 1 .. p - 1 /\ i <= p - 1
          BY <2>1, <4>2
        <5> QED
          BY <2>4, <4>1, <4>2, <5>1
      <4>3. CASE ~(i < p)
        <5>1. /\ i - (p - 1) \in 1 .. Len(keys) - p
              /\ ~(i <= p - 1)
              /\ p + (i - (p - 1)) = i + 1
          BY <2>1, <4>3
        <5>2. rest[i - (p - 1)] = keys[p + (i - (p - 1))]
          BY <2>5, <5>1
        <5> QED
          BY <4>1, <4>3, <5>1, <5>2
      <4> QED
        BY <4>2, <4>3
    <3> QED
      BY <3>1, <3>2, <3>3
  <2> HIDE DEF w
  <2>7. DOMAIN w = 1 .. Len(keys) - 1
    BY <2>6
  <2>8. \A i \in DOMAIN w : at(i) \in DOMAIN keys /\ at(i) # p
    BY <2>1, <2>7
  <2>9. \A i, j \in DOMAIN w : at(i) = at(j) => i = j
    BY <2>1, <2>7
  <2> HIDE DEF at
  <2>10. ASSUME Distinct(keys)
         PROVE  Distinct(w) /\ \A i \in DOMAIN w : w[i] # key
    BY <2>1, <2>6, <2>7, <2>8, <2>9, <2>10 DEF Distinct
  <2> QED
    BY <2>2, <2>6, <2>7, <2>8, <2>10 DEF w
<1> QED
  BY <1>1, <1>2

\* keys of different kinds are different
LEMMA KeysDiffer ==
    ASSUME NEW o, NEW x
    PROVE  /\ OrderKey(o) = OrderKey(x) => o = x
           /\ OrderKey(o) # BonusKey(x)
           /\ OrderKey(o) # <<"admin", x>>
           /\ OrderKey(o) # <<x>>
BY DEF OrderKey, BonusKey

\* the key of an operation that was not given one
LEMMA OwnKeyIsKey ==
    ASSUME NEW r \in Row
    PROVE  /\ OwnKey(r) \in Keys
           /\ r.order # None => OwnKey(r) = OrderKey(r.order)
           /\ \A o \in Orders : OwnKey(r) = OrderKey(o) => r.order = o
<1>1. r.order \in Orders \cup {None} /\ r.until \in Nat /\ r.source \in Sources
  BY DEF Row
<1>2. \/ r.order \in Orders /\ OwnKey(r) = OrderKey(r.order)
      \/ r.order = None /\ OwnKey(r) = <<"admin", r.until>>
      \/ r.order = None /\ OwnKey(r) = <<r.source>>
  BY <1>1, RenewalAssumption DEF OwnKey, OrderKey
<1>3. OwnKey(r) \in Keys
  BY <1>1, <1>2 DEF Keys
<1> QED
  BY <1>1, <1>2, <1>3, KeysDiffer, RenewalAssumption

-----------------------------------------------------------------------------
(* What a push leaves behind *)

\* the operations after it: one more, completed or failed, and each once
OperationsFit(d, f, key) ==
    /\ d \subseteq done \cup {key} /\ f \in Seq(Keys)
    /\ \A i \in DOMAIN f : f[i] = key \/ \E j \in DOMAIN failed : f[i] = failed[j]
    /\ OnceEach(d, f)

\* the row after it: the term, the order and the source are those it was called with
RowFits(q, r) ==
    /\ q \in Row
    /\ q.until = r.until /\ q.order = r.order /\ q.source = r.source

\* what it leaves behind
Fits(out, r, key) ==
    /\ RowFits(out.row, r)
    /\ out.panel \in Panel
    /\ OperationsFit(out.done, out.failed, key)
    /\ \/ out.what = "pushed" /\ out.row.status = "active" /\ out.panel = Pushed(r)
       \/ out.what = "old key" /\ out.row.status = "active"
       \/ out.what \in {"failed", "unset"} /\ out.row.status = "activation_failed" /\ out.row.prov = "failed"
       \/ out.what = "unavailable" /\ out.row.status = "activation_failed"

\* the row after a push that went through, failed, or was not tried
LEMMA RowsFit ==
    ASSUME NEW r \in Row
    PROVE  /\ RowFits(Activated(r), r) /\ Activated(r).status = "active"
           /\ RowFits(SavedRemote(r), r) /\ SavedRemote(r).status = "active"
           /\ \A q \in {r, Tried(r)} :
                /\ RowFits(NotActivated(q), r)
                /\ NotActivated(q).status = "activation_failed" /\ NotActivated(q).prov = "failed"
                /\ RowFits(q, r)
<1>1. RetryLimit \in Nat
  BY RenewalAssumption
<1>2. RowFits(Tried(r), r)
  BY <1>1 DEF Tried, OneMore, RowFits, Row
<1>3. ASSUME NEW q \in Row
      PROVE  /\ RowFits(Activated(q), q) /\ Activated(q).status = "active"
             /\ RowFits(NotActivated(q), q)
             /\ NotActivated(q).status = "activation_failed" /\ NotActivated(q).prov = "failed"
  BY DEF Activated, NotActivated, RowFits, Row, Statuses, ProvStatuses, Remotes
<1>4. RowFits(SavedRemote(r), r) /\ SavedRemote(r).status = "active"
  <2>1. Tried(r) \in Row /\ Activated(Tried(r)) \in Row
    BY <1>2, <1>3 DEF RowFits
  <2> DEFINE a == Activated(Tried(r))
  <2>2. RowFits(a, Tried(r)) /\ a.status = "active" /\ a \in Row
    BY <1>3, <2>1
  <2>3. SavedRemote(r) = [a EXCEPT !.linked = TRUE, !.remote = "ACTIVE"]
    BY DEF SavedRemote
  <2> HIDE DEF a
  <2>4. RowFits(SavedRemote(r), a) /\ SavedRemote(r).status = a.status
    BY <2>2, <2>3 DEF RowFits, Row, Remotes
  <2> QED
    BY <1>2, <2>2, <2>4 DEF RowFits
<1>5. Tried(r) \in Row
  BY <1>2 DEF RowFits
<1>6. RowFits(r, r) /\ r \in Row
  BY DEF RowFits
<1>7. ASSUME NEW q \in {r, Tried(r)}, NEW x, RowFits(x, q)
      PROVE  RowFits(x, r)
  BY <1>2, <1>6, <1>7 DEF RowFits
<1>8. RowFits(Activated(r), r) /\ Activated(r).status = "active"
  BY <1>3
<1>9. ASSUME NEW q \in {r, Tried(r)}
      PROVE  /\ RowFits(NotActivated(q), r)
             /\ NotActivated(q).status = "activation_failed" /\ NotActivated(q).prov = "failed"
             /\ RowFits(q, r)
  <2>1. q \in Row
    BY <1>5, <1>6
  <2> QED
    BY <1>2, <1>3, <1>6, <1>7, <2>1
<1> QED
  BY <1>4, <1>8, <1>9

\* the operations after a push with a new key
LEMMA OperationsFitOnce ==
    ASSUME Typed, OnceEach(done, failed), NEW key \in Keys
    PROVE  /\ OperationsFit(done, failed, key)
           /\ OperationsFit(done \cup {key}, Without(failed, key), key)
           /\ key \notin done => OperationsFit(done, Append(Without(failed, key), key), key)
<1> DEFINE f == Without(failed, key)
           g == Append(f, key)
<1>1. failed \in Seq(Keys) /\ done \subseteq Keys /\ Distinct(failed)
  BY DEF Typed, OnceEach
<1>2. /\ f \in Seq(Keys)
      /\ \A i \in DOMAIN f : \E j \in DOMAIN failed : f[i] = failed[j]
      /\ Distinct(f)
      /\ \A i \in DOMAIN f : f[i] # key
  BY <1>1, WithoutKey
<1>3. OperationsFit(done, failed, key)
  BY <1>1 DEF OperationsFit, OnceEach
<1> HIDE DEF f
<1>4. \A i \in DOMAIN f : f[i] \notin done
  BY <1>2 DEF OnceEach
<1>5. OperationsFit(done \cup {key}, f, key)
  BY <1>2, <1>4 DEF OperationsFit, OnceEach
<1>6. ASSUME key \notin done
      PROVE  OperationsFit(done, g, key)
  <2>1. /\ g \in Seq(Keys) /\ Len(g) = Len(f) + 1
        /\ \A i \in 1 .. Len(f) : g[i] = f[i]
        /\ g[Len(f) + 1] = key
    BY <1>2, AppendProperties
  <2>2. Len(f) \in Nat /\ DOMAIN f = 1 .. Len(f) /\ DOMAIN g = 1 .. Len(f) + 1
    BY <1>2, <2>1
  <2> HIDE DEF g
  <2>3. \A i \in DOMAIN g : i \in DOMAIN f \/ i = Len(f) + 1
    BY <2>2
  <2>4. \A i \in DOMAIN g : \/ i \in DOMAIN f /\ g[i] = f[i]
                            \/ i = Len(f) + 1 /\ g[i] = key
    BY <2>1, <2>2, <2>3
  <2>5. Distinct(g)
    BY <1>2, <2>4 DEF Distinct
  <2>6. \A i \in DOMAIN g : g[i] \notin done
    BY <1>4, <1>6, <2>4
  <2>7. \A i \in DOMAIN g : g[i] = key \/ \E j \in DOMAIN failed : g[i] = failed[j]
    BY <1>2, <2>4
  <2> QED
    BY <2>1, <2>5, <2>6, <2>7 DEF OperationsFit, OnceEach
<1> QED
  BY <1>3, <1>5, <1>6 DEF f

\* whatever becomes of a push
LEMMA PushFits ==
    ASSUME Typed, OnceEach(done, failed), NEW r \in Row, NEW key \in Keys,
           NEW out \in Provisioned(r, key) \cup Served(r, key) \cup Unavailable(r)
    PROVE  Fits(out, r, key)
<1>1. panel \in Panel /\ Pushed(r) \in Panel
  BY DEF Typed, Panel, Pushed, Row
<1> DEFINE Done(d, f) == OperationsFit(d, f, key)
<1>2. /\ Done(done, failed)
      /\ Done(done \cup {key}, Without(failed, key))
      /\ key \notin done => Done(done, Append(Without(failed, key), key))
  BY OperationsFitOnce
<1>3. ASSUME NEW q \in {r, Tried(r)}, out \in Unavailable(q)
      PROVE  Fits(out, r, key)
  <2>1. out = Result([q EXCEPT !.status = "activation_failed"], panel, "unavailable")
    BY <1>3 DEF Unavailable
  <2>2. /\ out.row = [q EXCEPT !.status = "activation_failed"]
        /\ out.panel = panel /\ out.done = done /\ out.failed = failed
        /\ out.what = "unavailable"
    BY <2>1 DEF Result
  <2>3. RowFits(out.row, r) /\ out.row.status = "activation_failed"
    <3>1. RowFits(q, r)
      BY RowsFit
    <3> QED
      BY <2>2, <3>1 DEF RowFits, Row, Statuses
  <2> QED
    BY <1>1, <1>2, <2>2, <2>3 DEF Fits
<1>4. ASSUME out \in Provisioned(r, key)
      PROVE  Fits(out, r, key)
  <2>1. CASE out = Result(NotActivated(r), panel, "unset")
    <3>1. /\ out.row = NotActivated(r)
          /\ out.panel = panel /\ out.done = done /\ out.failed = failed
          /\ out.what = "unset"
      BY <2>1 DEF Result
    <3> QED
      BY <1>1, <1>2, <3>1, RowsFit DEF Fits
  <2>2. CASE out = Result(Activated(r), panel, "old key")
    <3>1. /\ out.row = Activated(r)
          /\ out.panel = panel /\ out.done = done /\ out.failed = failed
          /\ out.what = "old key"
      BY <2>2 DEF Result
    <3> QED
      BY <1>1, <1>2, <3>1, RowsFit DEF Fits
  <2>3. CASE out = Completed(r, key)
    <3>1. /\ out.row = SavedRemote(r)
          /\ out.panel = Pushed(r)
          /\ out.done = done \cup {key} /\ out.failed = Without(failed, key)
          /\ out.what = "pushed"
      BY <2>3 DEF Completed, Result
    <3> QED
      BY <1>1, <1>2, <3>1, RowsFit DEF Fits
  <2>4. CASE key \notin done /\ out \in Failed(r, key)
    <3>1. PICK p \in {panel, Pushed(r)} :
            out = [Result(NotActivated(Tried(r)), p, "failed")
                      EXCEPT !.failed = Append(Without(@, key), key)]
      BY <2>4 DEF Failed
    <3>2. /\ out.row = NotActivated(Tried(r))
          /\ out.panel = p
          /\ out.done = done /\ out.failed = Append(Without(failed, key), key)
          /\ out.what = "failed"
      BY <3>1 DEF Result
    <3> QED
      BY <1>1, <1>2, <2>4, <3>2, RowsFit DEF Fits
  <2> QED
    BY <1>4, <2>1, <2>2, <2>3, <2>4 DEF Provisioned
<1> QED
  BY <1>3, <1>4 DEF Served

-----------------------------------------------------------------------------
(* Rows, histories and steps *)

\* what the steps that move the row leave alone, or set to values of their own
Aside ==
    /\ setup \in Setups /\ used \subseteq Bonuses \cup Grants
    /\ paid \subseteq Orders /\ served \subseteq paid
    /\ trial \in TrialStates
    /\ worker \in Workers /\ HoldsPaid
    /\ reminder \in Kinds \cup {"none"}
    /\ sync \in [stage : Stage, prov : ProvStatuses, remote : Remotes, got : Panel]

\* a new row
LEMMA NewRowIsRow ==
    ASSUME Typed, NEW source \in Sources, NEW days \in Nat
    PROVE  /\ NewRow(source, days) \in Row
           /\ NewRow(source, days).until = now + days
           /\ NewRow(source, days).order = None
           /\ NewRow(source, days).source = source
<1>1. now \in Nat /\ now + days \in Nat /\ 0 \in 0..RetryLimit
  BY RenewalAssumption DEF Typed
<1> QED
  BY <1>1 DEF NewRow, Row, Statuses, ProvStatuses, Remotes, Notices

\* a longer one
LEMMA LongerIsRow ==
    ASSUME Typed, NEW r \in Row, NEW days \in Nat
    PROVE  /\ Longer(r, days) \in Row
           /\ Longer(r, days).until = Later(r.until, now) + days
           /\ Longer(r, days).order = r.order
           /\ Longer(r, days).source = r.source
<1>1. now \in Nat /\ r.until \in Nat /\ Later(r.until, now) + days \in Nat
  BY DEF Typed, Later, Row
<1> QED
  BY <1>1 DEF Longer, Row, Statuses

\* a promise adds its days
LEMMA OweIsHistory ==
    ASSUME Typed, NEW h \in History, NEW days \in Nat
    PROVE  /\ Owe(h, days) \in History
           /\ Owe(h, days).owed = Later(h.owed, now) + days
<1>1. now \in Nat /\ h.owed \in Nat /\ Later(h.owed, now) + days \in Nat
  BY DEF Typed, Later, History
<1> QED
  BY <1>1 DEF Owe, History

\* what the history notes of a push
LEMMA NotedIsHistory ==
    ASSUME NEW h \in History, NEW out
    PROVE  /\ Noted(h, out) \in History
           /\ Noted(h, out).owed = h.owed
           /\ out.what \in {"old key", "stale", "stale failure"} => Noted(h, out).slips # {}
           /\ out.what = "unavailable" => Noted(h, out).hidden
           /\ out.what = "known" => Noted(h, out).slips = h.slips /\ Noted(h, out).hidden = h.hidden
           /\ out.what \in {"failed", "unavailable"} => Noted(h, out).slips = h.slips
           /\ out.what \in {"pushed", "stale"} =>
                Noted(h, out).hidden = (out.row.status \in {"pending", "activation_failed"})
<1> DEFINE slips == CASE out.what = "pushed" -> {}
                    [] out.what = "old key" -> h.slips \cup {"old key"}
                    [] out.what \in {"stale", "stale failure"} -> h.slips \cup {"stale retry"}
                    [] OTHER -> h.slips
           hidden == CASE out.what \in {"pushed", "stale"} ->
                              out.row.status \in {"pending", "activation_failed"}
                     [] out.what = "unavailable" -> TRUE
                     [] OTHER -> h.hidden
<1>1. /\ slips \in SUBSET Slips
      /\ out.what \in {"old key", "stale", "stale failure"} => slips # {}
      /\ out.what \in {"known", "failed", "unavailable"} => slips = h.slips
  BY DEF History, Slips
<1>2. /\ hidden \in BOOLEAN
      /\ out.what = "unavailable" => hidden
      /\ out.what = "known" => hidden = h.hidden
      /\ out.what \in {"pushed", "stale"} =>
           hidden = (out.row.status \in {"pending", "activation_failed"})
  <2>1. CASE out.what \in {"pushed", "stale"}
    <3> DEFINE waits == out.row.status \in {"pending", "activation_failed"}
    <3>1. waits \in BOOLEAN
      OBVIOUS
    <3>2. out.what \notin {"unavailable", "known"}
      BY <2>1
    <3> HIDE DEF waits
    <3>3. hidden = waits
      BY <2>1 DEF waits
    <3> HIDE DEF hidden
    <3> QED
      BY <3>1, <3>2, <3>3 DEF waits
  <2>2. CASE out.what = "unavailable"
    BY <2>2
  <2>3. CASE out.what \notin {"pushed", "stale", "unavailable"}
    <3>1. hidden = h.hidden
      BY <2>3
    <3> HIDE DEF hidden
    <3> QED
      BY <2>3, <3>1 DEF History
  <2> QED
    BY <2>1, <2>2, <2>3
<1>3. Noted(h, out) = [h EXCEPT !.slips = slips, !.hidden = hidden]
  BY DEF Noted
<1> HIDE DEF slips, hidden
<1> QED
  BY <1>1, <1>2, <1>3 DEF History

\* a step that moves neither the term nor the operations
LEMMA RowStep ==
    ASSUME Inv, Aside', RowFits(row', row), panel' \in Panel, UNCHANGED ops,
           now' \in 0..MaxTime, now' >= now, spent' \in 0..Budget,
           seen' \in History, seen'.owed = seen.owed, paid \subseteq paid',
           ActiveIsServed', FailedIsWithinReach'
    PROVE  Inv'
<1>1. Typed'
  BY DEF Inv, Typed, Aside, RowFits, ops
<1>2. Known'
  <2>1. OnceEach(done, failed)'
    BY DEF Inv, Known, OnceEach, Distinct, ops
  <2>2. KeysArePaid(done, failed, paid)'
    BY DEF Inv, Known, KeysArePaid, ops
  <2>3. /\ row'.until = row.until /\ row'.order = row.order /\ row'.source = row.source
    BY DEF RowFits
  <2> QED
    BY <2>1, <2>2, <2>3 DEF Inv, Known, Exists
<1>3. NoDaysLost'
  BY DEF Inv, Promises, NoDaysLost, RowFits
<1> QED
  BY <1>1, <1>2, <1>3 DEF Inv, Promises, Aside

\* a step that moves neither the row nor the panel
LEMMA PlainStep ==
    ASSUME Inv, Aside', UNCHANGED <<row, panel, ops, seen>>, paid \subseteq paid',
           now' \in 0..MaxTime, now' >= now, spent' \in 0..Budget
    PROVE  Inv'
<1>1. RowFits(row', row) /\ panel' \in Panel /\ seen' \in History
  BY DEF Inv, Typed, RowFits
<1>2. now \in Int /\ now' \in Int /\ row.until \in Int
  BY DEF Inv, Typed, Row
<1>3. ActiveIsServed'
  BY <1>2 DEF Inv, Promises, ActiveIsServed
<1>4. FailedIsWithinReach'
  BY DEF Inv, Promises, FailedIsWithinReach, Exists, Waits
<1> QED
  BY <1>1, <1>3, <1>4, RowStep

\* the budget
LEMMA SpendIsWithin ==
    ASSUME Typed, NEW n \in Nat, Spend(n)
    PROVE  spent' \in 0..Budget
BY RenewalAssumption DEF Typed, Spend

\* a transaction that commits, whatever it pushed
LEMMA CommitAny ==
    ASSUME Inv, Aside', NEW r \in Row, NEW key \in Keys, NEW h \in History, NEW out,
           RowFits(out.row, r), out.panel \in Panel, OperationsFit(out.done, out.failed, key),
           Commit(out, h), ActiveIsServed', FailedIsWithinReach',
           r.until >= h.owed, now' = now, paid \subseteq paid',
           r.order # None => r.order \in paid',
           \A o \in Orders : key = OrderKey(o) => o \in paid',
           r.source = "none" => r.until = 0 /\ r.order = None
    PROVE  Inv'
<1>1. /\ row' = out.row /\ panel' = out.panel /\ done' = out.done /\ failed' = out.failed
      /\ seen' = Noted(h, out)
      /\ spent' \in 0..Budget
  BY SpendIsWithin DEF Commit, Inv
<1>2. /\ RowFits(row', r) /\ panel' \in Panel
      /\ seen' \in History /\ seen'.owed = h.owed
  BY <1>1, NotedIsHistory
<1>3. OperationsFit(done', failed', key)
  BY <1>1
<1>4. done' \subseteq Keys /\ failed' \in Seq(Keys)
  BY <1>3 DEF OperationsFit, Inv, Typed
<1>5. Typed'
  BY <1>1, <1>2, <1>4 DEF Inv, Typed, Aside, RowFits
<1>6. Known'
  <2>1. OnceEach(done', failed')
    BY <1>3 DEF OperationsFit
  <2>2. ASSUME NEW o \in Orders, OrderKey(o) \in done' \/ \E i \in DOMAIN failed' : failed'[i] = OrderKey(o)
        PROVE  o \in paid'
    <3>1. \/ OrderKey(o) \in done \/ OrderKey(o) = key
          \/ \E i \in DOMAIN failed : failed[i] = OrderKey(o)
      BY <1>3, <2>2 DEF OperationsFit
    <3> QED
      BY <3>1 DEF Inv, Known, KeysArePaid
  <2>3. KeysArePaid(done', failed', paid')
    BY <2>2 DEF KeysArePaid
  <2> QED
    BY <1>2, <2>1, <2>3 DEF Known, Exists, RowFits, OnceEach, Distinct, KeysArePaid
<1>7. NoDaysLost'
  BY <1>2 DEF NoDaysLost, RowFits
<1> QED
  BY <1>5, <1>6, <1>7 DEF Inv, Promises, Aside

\* one that pushed the row
LEMMA CommitStep ==
    ASSUME Inv, Aside', NEW r \in Row, NEW key \in Keys, NEW h \in History, NEW out,
           Fits(out, r, key), Commit(out, h),
           r.until >= h.owed, now' = now, paid \subseteq paid',
           r.order # None => r.order \in paid',
           \A o \in Orders : key = OrderKey(o) => o \in paid',
           r.source = "none" => r.until = 0 /\ r.order = None
    PROVE  Inv'
<1>1. /\ row' = out.row /\ panel' = out.panel /\ seen' = Noted(h, out)
  BY DEF Commit
<1>2. RowFits(out.row, r) /\ out.panel \in Panel /\ OperationsFit(out.done, out.failed, key)
  BY DEF Fits
<1>3. ActiveIsServed' /\ FailedIsWithinReach'
  <2>1. CASE out.what = "pushed" /\ out.row.status = "active" /\ out.panel = Pushed(r)
    <3>1. panel'.on = TRUE /\ panel'.until = r.until /\ row'.until = r.until /\ row'.status = "active"
      BY <1>1, <1>2, <2>1 DEF Pushed, RowFits
    <3>2. r.until \in Nat
      BY DEF Row
    <3> QED
      BY <3>1, <3>2 DEF ActiveIsServed, FailedIsWithinReach, Waits
  <2>2. CASE out.what = "old key" /\ out.row.status = "active"
    <3>1. seen'.slips # {} /\ row'.status = "active"
      BY <1>1, <2>2, NotedIsHistory
    <3> QED
      BY <3>1 DEF ActiveIsServed, FailedIsWithinReach, Waits
  <2>3. CASE out.row.status = "activation_failed" /\ out.row.prov = "failed"
    BY <1>1, <2>3 DEF ActiveIsServed, FailedIsWithinReach, Waits
  <2>4. CASE out.what = "unavailable" /\ out.row.status = "activation_failed"
    <3>1. seen'.hidden /\ row'.status = "activation_failed"
      BY <1>1, <2>4, NotedIsHistory
    <3> QED
      BY <3>1 DEF ActiveIsServed, FailedIsWithinReach, Waits
  <2> QED
    BY <2>1, <2>2, <2>3, <2>4 DEF Fits
<1> QED
  BY <1>2, <1>3, CommitAny

\* one that is rolled back, but for its push
LEMMA LostStep ==
    ASSUME Inv, Aside', NEW out, out.panel \in Panel, Lost(out), UNCHANGED <<now, paid>>
    PROVE  Inv'
<1>1. /\ panel' \in Panel
      /\ seen' = [seen EXCEPT !.slips = @ \cup {"rolled back"}]
      /\ spent' \in 0..Budget
      /\ UNCHANGED <<row, ops>>
  BY SpendIsWithin DEF Lost, Inv
<1>2. seen' \in History /\ seen'.owed = seen.owed /\ seen'.slips # {} /\ seen'.hidden = seen.hidden
  BY <1>1 DEF Inv, Typed, History, Slips
<1>3. RowFits(row', row) /\ now' \in 0..MaxTime /\ now' >= now /\ paid \subseteq paid'
  <2>1. now \in 0..MaxTime /\ MaxTime \in Nat /\ row \in Row
    BY RenewalAssumption DEF Inv, Typed
  <2>2. now' = now /\ paid' = paid /\ row' = row
    BY <1>1
  <2>3. now' \in 0..MaxTime /\ now' >= now
    BY <2>1, <2>2
  <2> QED
    BY <2>1, <2>2, <2>3 DEF RowFits
<1>4. ActiveIsServed'
  BY <1>2 DEF ActiveIsServed
<1>5. FailedIsWithinReach'
  BY <1>1, <1>2 DEF Inv, Promises, FailedIsWithinReach, Exists, Waits
<1> QED
  BY <1>1, <1>2, <1>3, <1>4, <1>5, RowStep

LEMMA RollBackStep ==
    ASSUME Inv, NEW r, NEW key, NEW out, Fits(out, r, key), RollBack(out)
    PROVE  Inv'
<1>1. Lost(out) /\ UNCHANGED <<now, setup, claims, tasks>>
  BY DEF RollBack
<1>2. Aside'
  BY <1>1 DEF Inv, Typed, Promises, Aside, HoldsPaid, claims, tasks
<1> QED
  BY <1>1, <1>2, LostStep DEF Fits, claims

-----------------------------------------------------------------------------
(* What moves the expiry *)

\* the order's own days
LEMMA ExtensionIsRow ==
    ASSUME Inv, NEW o \in Orders
    PROVE  /\ Extension(o) \in Row /\ Extension(o).order = o /\ Extension(o).source = "paid"
           /\ Extension(o).until >= row.until
           /\ Extension(o).until >= Owe(seen, OrderDays[o]).owed
<1>1. OrderDays[o] \in Nat /\ row \in Row /\ seen \in History /\ now \in Nat
  BY RenewalAssumption DEF Inv, Typed
<1>2. row.until \in Nat /\ seen.owed \in Nat /\ row.until >= seen.owed
  BY <1>1 DEF Row, History, Inv, Promises, NoDaysLost
<1>3. Owe(seen, OrderDays[o]).owed = Later(seen.owed, now) + OrderDays[o]
  BY <1>1, OweIsHistory DEF Inv
<1> DEFINE r == IF Exists THEN Longer(row, OrderDays[o]) ELSE NewRow("paid", OrderDays[o])
<1>4. r \in Row /\ r.until >= row.until /\ r.until >= Later(seen.owed, now) + OrderDays[o]
  <2>1. CASE Exists
    <3>1. r \in Row /\ r.until = Later(row.until, now) + OrderDays[o]
      BY <1>1, <2>1, LongerIsRow DEF Inv
    <3> QED
      BY <1>1, <1>2, <3>1 DEF Later
  <2>2. CASE ~Exists
    <3>1. "paid" \in Sources
      BY DEF Sources
    <3>2. r \in Row /\ r.until = now + OrderDays[o]
      BY <1>1, <2>2, <3>1, NewRowIsRow DEF Inv
    <3>3. row.until = 0
      BY <2>2 DEF Inv, Known
    <3> QED
      BY <1>1, <1>2, <3>2, <3>3 DEF Later
  <2> QED
    BY <2>1, <2>2
<1>5. Extension(o) = [r EXCEPT !.source = "paid", !.order = o, !.noted = @ \ {"active"}]
  BY DEF Extension
<1> HIDE DEF r
<1>6. /\ Extension(o) \in Row /\ Extension(o).order = o /\ Extension(o).source = "paid"
      /\ Extension(o).until = r.until
  BY <1>4, <1>5 DEF Row, Sources
<1> QED
  BY <1>3, <1>4, <1>6

\* a term that is moved once more keeps what was promised
LEMMA MovedAgainForgets ==
    ASSUME seen \in History
    PROVE  /\ MovedAgain(seen) \in History
           /\ MovedAgain(seen).owed = seen.owed
           /\ MovedAgain(seen).repeated = seen.repeated
           /\ MovedAgain(seen).sent = {}
BY DEF MovedAgain, History

LEMMA RenewStep ==
    ASSUME Inv, NEW o \in Orders, RenewByOrder(o)
    PROVE  Inv'
<1> DEFINE known == Exists /\ setup = "complete" /\ <<"order", o>> \in done
           r == IF Exists /\ row.order = o THEN row ELSE Extension(o)
           h == IF o \notin paid THEN Owe(seen, OrderDays[o])
                ELSE IF known \/ (Exists /\ row.order = o) THEN seen ELSE MovedAgain(seen)
           outs == IF known THEN {Result(row, panel, "known")} ELSE Served(r, OwnKey(r))
           Kept(out) == /\ Commit(out, h)
                        /\ paid' = paid \cup {o}
                        /\ served' = IF out.row.status = "active" THEN served \cup {o} ELSE served
                        /\ UNCHANGED <<now, setup, used, trial, tasks>>
<1>1. /\ o \notin paid => trial # "checked"
      /\ \E out \in outs : Kept(out) \/ RollBack(out)
  BY DEF RenewByOrder, OrderMayRun
<1>2. PICK out \in outs : Kept(out) \/ RollBack(out)
  BY <1>1
<1>3. /\ row \in Row /\ seen \in History /\ panel \in Panel
      /\ row.until \in Nat /\ seen.owed \in Nat /\ row.until >= seen.owed
      /\ paid \subseteq Orders /\ served \subseteq paid
      /\ row.order # None => row.order \in paid
      /\ now \in 0..MaxTime /\ MaxTime \in Nat
  BY RenewalAssumption DEF Inv, Typed, Known, Promises, NoDaysLost, Row, History
<1>4. o # None
  BY RenewalAssumption
<1>5. r \in Row /\ r.order = o /\ r.source # "none"
  <2>1. CASE Exists /\ row.order = o
    BY <1>3, <2>1 DEF Exists
  <2>2. CASE ~(Exists /\ row.order = o)
    BY <2>2, ExtensionIsRow
  <2> QED
    BY <2>1, <2>2
<1>6. h \in History /\ r.until >= h.owed
  <2>1. CASE o \in paid
    <3>1. r.until >= row.until
      BY <1>3, ExtensionIsRow
    <3>2. r.until \in Nat
      BY <1>5 DEF Row
    <3>3. h \in History /\ h.owed = seen.owed
      BY <1>3, <2>1, MovedAgainForgets
    <3> QED
      BY <1>3, <3>1, <3>2, <3>3
  <2>2. CASE o \notin paid
    <3>1. ~(Exists /\ row.order = o)
      BY <1>3, <1>4, <2>2
    <3>2. OrderDays[o] \in Nat
      BY RenewalAssumption
    <3>3. Owe(seen, OrderDays[o]) \in History
      BY <1>3, <3>2, OweIsHistory DEF Inv
    <3> QED
      BY <2>2, <3>1, <3>3, ExtensionIsRow
  <2> QED
    BY <2>1, <2>2
<1>7. OwnKey(r) \in Keys /\ OwnKey(r) = OrderKey(o)
  BY <1>4, <1>5, OwnKeyIsKey
<1>8. ASSUME Kept(out)
      PROVE  Aside' /\ now' = now /\ paid \subseteq paid' /\ o \in paid'
  <2>1. /\ paid' = paid \cup {o} /\ served' \subseteq served \cup {o}
        /\ UNCHANGED <<now, setup, used, trial, tasks>>
    BY <1>8
  <2>2. HoldsPaid'
    BY <2>1 DEF Inv, Typed, HoldsPaid, tasks
  <2> QED
    BY <1>3, <2>1, <2>2 DEF Inv, Typed, Aside, tasks
<1>9. CASE known
  <2>1. out = Result(row, panel, "known")
    BY <1>2, <1>9
  <2>2. /\ out.row = row /\ out.panel = panel /\ out.done = done /\ out.failed = failed
        /\ out.what = "known"
    BY <2>1 DEF Result
  <2>3. o \in paid
    BY <1>9 DEF Inv, Known, KeysArePaid, OrderKey
  <2>4. Kept(out)
    BY <1>2, <2>2 DEF RollBack, Lost
  <2>5. /\ row' = row /\ panel' = panel /\ UNCHANGED ops
        /\ seen' = Noted(seen, out) /\ spent' \in 0..Budget
    BY <1>9, <2>2, <2>3, <2>4, SpendIsWithin DEF Commit, ops, Inv
  <2>6. /\ seen' \in History /\ seen'.owed = seen.owed
        /\ seen'.slips = seen.slips /\ seen'.hidden = seen.hidden
    BY <1>3, <2>2, <2>5, NotedIsHistory
  <2>7. ActiveIsServed'
    BY <1>8, <2>4, <2>5, <2>6 DEF Inv, Promises, ActiveIsServed
  <2>8. FailedIsWithinReach'
    BY <2>5, <2>6 DEF Inv, Promises, FailedIsWithinReach, Exists, Waits
  <2>9. RowFits(row', row) /\ panel' \in Panel
    BY <1>3, <2>5 DEF RowFits
  <2>10. now' \in 0..MaxTime /\ now' >= now
    BY <1>3, <1>8, <2>4
  <2> QED
    BY <1>8, <2>4, <2>5, <2>6, <2>7, <2>8, <2>9, <2>10, RowStep
<1>10. CASE ~known
  <2>1. out \in Served(r, OwnKey(r))
    BY <1>2, <1>10
  <2> HIDE DEF r
  <2>2. Fits(out, r, OwnKey(r))
    BY <1>5, <1>7, <2>1, PushFits DEF Inv, Known
  <2>3. CASE RollBack(out)
    BY <2>2, <2>3, RollBackStep
  <2>4. CASE Kept(out)
    <3>1. Commit(out, h)
      BY <2>4
    <3>2. Aside' /\ now' = now /\ paid \subseteq paid' /\ o \in paid'
      BY <1>8, <2>4
    <3> HIDE DEF h
    <3>3. \A x \in Orders : OwnKey(r) = OrderKey(x) => x \in paid'
      BY <1>5, <3>2, OwnKeyIsKey
    <3> QED
      BY <1>5, <1>6, <1>7, <2>2, <3>1, <3>2, <3>3, CommitStep
  <2> QED
    BY <1>2, <2>3, <2>4
<1> QED
  BY <1>9, <1>10

\* bonus_days on top of what there is
LEMMA BonusTermIsRow ==
    ASSUME Inv
    PROVE  /\ BonusTerm \in Row /\ BonusTerm.source # "none"
           /\ BonusTerm.order # None => BonusTerm.order \in paid
           /\ BonusTerm.until >= Owe(seen, BonusDays).owed
<1>1. BonusDays \in Nat /\ row \in Row /\ seen \in History /\ now \in Nat
  BY RenewalAssumption DEF Inv, Typed
<1>2. row.until \in Nat /\ seen.owed \in Nat /\ row.until >= seen.owed
  BY <1>1 DEF Row, History, Inv, Promises, NoDaysLost
<1>3. Owe(seen, BonusDays).owed = Later(seen.owed, now) + BonusDays
  BY <1>1, OweIsHistory DEF Inv
<1>4. CASE Exists
  <2> DEFINE r == Longer(row, BonusDays)
  <2>1. /\ r \in Row /\ r.until = Later(row.until, now) + BonusDays
        /\ r.order = row.order /\ r.source = row.source
    BY <1>1, LongerIsRow DEF Inv
  <2>2. PICK n \in SUBSET Notices : BonusTerm = [r EXCEPT !.waits = FALSE, !.noted = n]
    <3>1. r.noted \subseteq Notices
      BY <2>1 DEF Row
    <3> HIDE DEF r
    <3>2. BonusTerm = [r EXCEPT !.waits = FALSE,
                                !.noted = IF row.status = "active" /\ row.until > now
                                          THEN @ ELSE @ \ {"active"}]
      BY <1>4 DEF BonusTerm, r
    <3> QED
      BY <3>1, <3>2
  <2> HIDE DEF r
  <2>3. /\ BonusTerm \in Row /\ BonusTerm.until = r.until
        /\ BonusTerm.order = r.order /\ BonusTerm.source = r.source
    BY <2>1, <2>2 DEF Row
  <2> QED
    BY <1>1, <1>2, <1>3, <1>4, <2>1, <2>3 DEF Later, Exists, Inv, Known
<1>5. CASE ~Exists
  <2>1. "promo" \in Sources
    BY DEF Sources
  <2>2. BonusTerm = NewRow("promo", BonusDays)
    BY <1>5 DEF BonusTerm
  <2>3. row.until = 0
    BY <1>5 DEF Inv, Known
  <2>4. /\ BonusTerm \in Row /\ BonusTerm.until = now + BonusDays
        /\ BonusTerm.order = None /\ BonusTerm.source = "promo"
    BY <1>1, <2>1, <2>2, NewRowIsRow DEF Inv
  <2> QED
    BY <1>1, <1>2, <1>3, <2>3, <2>4 DEF Later
<1> QED
  BY <1>4, <1>5

LEMMA BonusStep ==
    ASSUME Inv, NEW b \in Bonuses, RedeemBonus(b)
    PROVE  Inv'
<1>1. PICK out \in Served(BonusTerm, BonusKey(b)) :
        \/ /\ Commit(out, Owe(seen, BonusDays))
           /\ used' = used \cup {b}
           /\ UNCHANGED <<now, setup, paid, served, trial, tasks>>
        \/ RollBack(out)
  BY DEF RedeemBonus
<1>2. BonusKey(b) \in Keys /\ \A o \in Orders : BonusKey(b) # OrderKey(o)
  BY KeysDiffer DEF Keys
<1>3. Fits(out, BonusTerm, BonusKey(b))
  BY <1>1, <1>2, BonusTermIsRow, PushFits DEF Inv, Known
<1>4. CASE RollBack(out)
  BY <1>3, <1>4, RollBackStep
<1>5. CASE /\ Commit(out, Owe(seen, BonusDays))
           /\ used' = used \cup {b}
           /\ UNCHANGED <<now, setup, paid, served, trial, tasks>>
  <2>1. Aside' /\ now' = now /\ paid' = paid
    BY <1>5 DEF Inv, Typed, Promises, HoldsPaid, Aside, tasks
  <2>2. Owe(seen, BonusDays) \in History
    BY RenewalAssumption, OweIsHistory DEF Inv, Typed
  <2> QED
    BY <1>2, <1>3, <1>5, <2>1, <2>2, BonusTermIsRow, CommitStep
<1> QED
  BY <1>1, <1>4, <1>5

\* the trial's days, with those of a promo or instead of what there is
LEMMA TrialRowIsRow ==
    ASSUME Inv
    PROVE  /\ TrialRow \in Row /\ TrialRow.source = "trial" /\ TrialRow.order = None
           /\ row.source = "promo" => TrialRow.until >= Owe(seen, TrialDays).owed
           /\ TrialRow.until >= Owe([seen EXCEPT !.owed = now], TrialDays).owed
<1>1. TrialDays \in Nat /\ row \in Row /\ seen \in History /\ now \in Nat
  BY RenewalAssumption DEF Inv, Typed
<1>2. row.until \in Nat /\ seen.owed \in Nat /\ row.until >= seen.owed
  BY <1>1 DEF Row, History, Inv, Promises, NoDaysLost
<1>3. Owe(seen, TrialDays).owed = Later(seen.owed, now) + TrialDays
  BY <1>1, OweIsHistory DEF Inv
<1>4. Owe([seen EXCEPT !.owed = now], TrialDays).owed = now + TrialDays
  <2> DEFINE h == [seen EXCEPT !.owed = now]
  <2>1. h \in History /\ h.owed = now
    BY <1>1 DEF History
  <2> HIDE DEF h
  <2>2. Owe(h, TrialDays).owed = Later(h.owed, now) + TrialDays
    BY <1>1, <2>1, OweIsHistory DEF Inv
  <2>3. Owe(h, TrialDays).owed = now + TrialDays
    BY <1>1, <2>1, <2>2 DEF Later
  <2> QED
    BY <2>3 DEF h
<1>5. CASE Exists
  <2>1. /\ TrialTerm \in Nat /\ TrialTerm >= now + TrialDays
        /\ row.source = "promo" => TrialTerm >= Later(seen.owed, now) + TrialDays
    BY <1>1, <1>2 DEF TrialTerm, Later
  <2>2. TrialRow = [row EXCEPT !.source = "trial", !.status = "pending", !.started = now,
                               !.until = TrialTerm, !.order = None,
                               !.noted = @ \ (ExpiryNotices \cup {"connection"})]
    BY <1>5 DEF TrialRow
  <2>3. TrialRow \in Row /\ TrialRow.source = "trial" /\ TrialRow.order = None /\ TrialRow.until = TrialTerm
    BY <1>1, <2>1, <2>2 DEF Row, Sources, Statuses
  <2> QED
    BY <1>3, <1>4, <2>1, <2>3
<1>6. CASE ~Exists
  <2>1. "trial" \in Sources
    BY DEF Sources
  <2>2. TrialRow = NewRow("trial", TrialDays)
    BY <1>6 DEF TrialRow
  <2>3. row.source # "promo"
    BY <1>6 DEF Exists
  <2>4. /\ TrialRow \in Row /\ TrialRow.until = now + TrialDays
        /\ TrialRow.order = None /\ TrialRow.source = "trial"
    BY <1>1, <2>1, <2>2, NewRowIsRow DEF Inv
  <2> QED
    BY <1>1, <1>4, <2>3, <2>4
<1> QED
  BY <1>5, <1>6

LEMMA RegisterTrialStep ==
    ASSUME Inv, RegisterTrial
    PROVE  Inv'
<1> DEFINE h == IF row.source = "promo" THEN Owe(seen, TrialDays)
                ELSE Owe([seen EXCEPT !.owed = now], TrialDays)
           Kept(out) == /\ Commit(out, h)
                        /\ trial' = "used"
                        /\ UNCHANGED <<now, setup, paid, served, used, tasks>>
<1>1. PICK out \in Served(TrialRow, OwnKey(TrialRow)) : Kept(out) \/ RollBack(out)
  BY DEF RegisterTrial
<1>2. OwnKey(TrialRow) \in Keys /\ \A o \in Orders : OwnKey(TrialRow) # OrderKey(o)
  BY TrialRowIsRow, OwnKeyIsKey, RenewalAssumption
<1>3. Fits(out, TrialRow, OwnKey(TrialRow))
  BY <1>1, <1>2, TrialRowIsRow, PushFits DEF Inv, Known
<1>4. CASE RollBack(out)
  BY <1>3, <1>4, RollBackStep
<1>5. CASE Kept(out)
  <2>1. Aside' /\ now' = now /\ paid' = paid
    BY <1>5 DEF Inv, Typed, Promises, HoldsPaid, Aside, tasks, TrialStates
  <2>2. h \in History
    <3>1. seen \in History /\ [seen EXCEPT !.owed = now] \in History
      BY DEF Inv, Typed, History
    <3> QED
      BY <3>1, RenewalAssumption, OweIsHistory DEF Inv
  <2>3. TrialRow.until >= h.owed
    BY TrialRowIsRow
  <2>4. Commit(out, h)
    BY <1>5
  <2> HIDE DEF h
  <2> QED
    BY <1>2, <1>3, <2>1, <2>2, <2>3, <2>4, TrialRowIsRow, CommitStep
<1> QED
  BY <1>1, <1>4, <1>5

\* the administrator's days
LEMMA GrantStep ==
    ASSUME Inv, NEW g \in Grants, Grant(g)
    PROVE  Inv'
<1> DEFINE r == IF ~Exists THEN NewRow("admin", GrantDays)
                ELSE [row EXCEPT !.until = Later(@, now) + GrantDays, !.source = "admin",
                                 !.noted = @ \ {"active"}]
           key == <<"admin", r.until>>
           h == [Owe(seen, GrantDays) EXCEPT !.kept = row.noted \cap {"expired"}]
           Kept(out) == /\ Commit(out, h)
                        /\ used' = used \cup {g}
                        /\ UNCHANGED <<now, setup, paid, served, trial, tasks>>
<1>1. PICK out \in IF setup = "noClient" THEN Unavailable(r) ELSE Provisioned(r, key) :
        Kept(out) \/ RollBack(out)
  BY DEF Grant
<1>2. GrantDays \in Nat /\ row \in Row /\ seen \in History /\ now \in Nat
  BY RenewalAssumption DEF Inv, Typed
<1>3. row.until \in Nat /\ seen.owed \in Nat /\ row.until >= seen.owed
  BY <1>2 DEF Row, History, Inv, Promises, NoDaysLost
<1>4. h \in History /\ h.owed = Later(seen.owed, now) + GrantDays
  <2> DEFINE n == row.noted \cap {"expired"}
  <2>1. /\ Owe(seen, GrantDays) \in History
        /\ Owe(seen, GrantDays).owed = Later(seen.owed, now) + GrantDays
    BY <1>2, OweIsHistory DEF Inv
  <2>2. n \in SUBSET Notices
    BY <1>2 DEF Row
  <2> HIDE DEF n
  <2>3. h = [Owe(seen, GrantDays) EXCEPT !.kept = n]
    BY DEF n
  <2> HIDE DEF h
  <2> QED
    BY <2>1, <2>2, <2>3 DEF History
<1>5. /\ r \in Row /\ r.source = "admin"
      /\ r.order # None => r.order \in paid
      /\ r.until >= h.owed
  <2>1. CASE Exists
    <3>1. Later(row.until, now) + GrantDays \in Nat
      BY <1>2, <1>3 DEF Later
    <3>2. /\ r \in Row /\ r.source = "admin" /\ r.order = row.order
          /\ r.until = Later(row.until, now) + GrantDays
      BY <1>2, <2>1, <3>1 DEF Row, Sources
    <3> HIDE DEF r, h
    <3> QED
      BY <1>2, <1>3, <1>4, <3>2 DEF Later, Inv, Known
  <2>2. CASE ~Exists
    <3>1. "admin" \in Sources /\ row.until = 0
      BY <2>2 DEF Sources, Inv, Known
    <3>2. /\ r \in Row /\ r.source = "admin" /\ r.order = None
          /\ r.until = now + GrantDays
      BY <1>2, <2>2, <3>1, NewRowIsRow DEF Inv
    <3> HIDE DEF r, h
    <3> QED
      BY <1>2, <1>3, <1>4, <3>1, <3>2 DEF Later
  <2> QED
    BY <2>1, <2>2
<1>6. key \in Keys /\ \A o \in Orders : key # OrderKey(o)
  BY <1>5, KeysDiffer DEF Keys, Row
<1> HIDE DEF r, key, h
<1>7. Fits(out, r, key)
  BY <1>1, <1>5, <1>6, PushFits DEF Inv, Known
<1>8. CASE RollBack(out)
  BY <1>7, <1>8, RollBackStep
<1>9. CASE Kept(out)
  <2>1. Aside' /\ now' = now /\ paid' = paid
    BY <1>9 DEF Inv, Typed, Promises, HoldsPaid, Aside, tasks
  <2> QED
    BY <1>4, <1>5, <1>6, <1>7, <1>9, <2>1, CommitStep
<1> QED
  BY <1>1, <1>8, <1>9

\* the key the worker retries with
LEMMA RetryKeyIsKey ==
    ASSUME Inv
    PROVE  RetryKey \in Keys /\ \A o \in Orders : RetryKey = OrderKey(o) => o \in paid
<1>1. row \in Row
  BY DEF Inv, Typed
<1>2. CASE failed = <<>>
  <2>1. RetryKey = OwnKey(row)
    BY <1>2 DEF RetryKey
  <2>2. row.order # None => row.order \in paid
    BY DEF Inv, Known
  <2> QED
    BY <1>1, <2>1, <2>2, OwnKeyIsKey, RenewalAssumption
<1>3. CASE failed # <<>>
  <2>1. failed \in Seq(Keys)
    BY DEF Inv, Typed
  <2>2. Len(failed) \in DOMAIN failed
    BY <1>3, <2>1, EmptySeq
  <2>3. RetryKey = failed[Len(failed)]
    BY <1>3 DEF RetryKey, Last
  <2> QED
    BY <2>1, <2>2, <2>3 DEF Inv, Known, KeysArePaid
<1> QED
  BY <1>2, <1>3

\* the worker's next stage
LEMMA RestingIsWorker == Resting \in Workers /\ Resting.selected = FALSE
<1>1. NotHeld \in Held
  BY RenewalAssumption DEF NotHeld, Held, Statuses, Remotes
<1> QED
  BY <1>1 DEF Resting, Workers

LEMMA NextStageIsWorker ==
    ASSUME Inv
    PROVE  /\ Resting \in Workers /\ Resting.selected = FALSE
           /\ NextStage \in Workers /\ NextStage.selected = FALSE
<1>2. Resting \in Workers /\ Resting.selected = FALSE
  BY RestingIsWorker
<1>3. worker.stage \in 1..5 /\ Len(Stages) = 5
  BY DEF Inv, Typed, Workers, Stages
<1>4. \E n \in 1..5 : NextStage = [Resting EXCEPT !.stage = n]
  BY <1>3 DEF NextStage
<1> QED
  BY <1>2, <1>4 DEF Workers

\* the worker's retry
LEMMA RetryStep ==
    ASSUME Inv, RetryActivation
    PROVE  Inv'
<1>1. PICK out \in Provisioned(row, RetryKey) :
        \/ /\ Commit(out, seen)
           /\ served' = IF out.row.status = "active" /\ row.order \in paid
                        THEN served \cup {row.order} ELSE served
        \/ Lost(out) /\ UNCHANGED served
  BY DEF RetryActivation
<1>2. /\ worker' = NextStage
      /\ UNCHANGED <<now, setup, paid, used, trial, reminder, sync>>
  BY DEF RetryActivation, Working
<1>3. row \in Row /\ seen \in History /\ row.until >= seen.owed
  BY DEF Inv, Typed, Promises, NoDaysLost
<1>4. RetryKey \in Keys /\ \A o \in Orders : RetryKey = OrderKey(o) => o \in paid
  BY RetryKeyIsKey
<1>5. Fits(out, row, RetryKey)
  BY <1>1, <1>3, <1>4, PushFits DEF Inv, Known
<1>6. Aside'
  <2>1. served' \subseteq paid
    BY <1>1 DEF Inv, Typed
  <2> QED
    BY <1>2, <2>1, NextStageIsWorker DEF Inv, Typed, Aside, HoldsPaid
<1>7. row.source = "none" => row.until = 0 /\ row.order = None
  BY DEF Inv, Known, Exists
<1>8. row.order # None => row.order \in paid
  BY DEF Inv, Known
<1>9. CASE Lost(out)
  BY <1>2, <1>5, <1>6, <1>9, LostStep DEF Fits
<1>10. CASE Commit(out, seen)
  BY <1>2, <1>3, <1>4, <1>5, <1>6, <1>7, <1>8, <1>10, CommitStep
<1> QED
  BY <1>1, <1>9, <1>10

-----------------------------------------------------------------------------
(* The retry of a paid order, with the row it holds *)

\* the order is a paid one
LEMMA PaidIsHeld ==
    ASSUME Inv, RetryPaid
    PROVE  /\ worker.held \in Held
           /\ worker.held.order \in paid /\ worker.held.order \in Orders
           /\ OrderKey(worker.held.order) \in Keys
<1>1. worker \in Workers /\ HoldsPaid /\ paid \subseteq Orders
  BY DEF Inv, Typed
<1>2. worker.selected /\ Stages[worker.stage] = "payments" /\ worker.stage \in 1..5
  BY <1>1 DEF RetryPaid, Working, At, Workers
<1>3. worker.stage = 1
  BY <1>2 DEF Stages
<1>4. worker.held.order \in paid
  BY <1>1, <1>2, <1>3 DEF HoldsPaid
<1>5. worker.held.order \in Orders
  BY <1>1, <1>4
<1>6. OrderKey(worker.held.order) \in Keys
  BY <1>5 DEF Keys
<1> QED
  BY <1>1, <1>4, <1>5, <1>6 DEF Workers

\* what it writes
LEMMA HeldRows ==
    ASSUME row \in Row, worker.held \in Held
    PROVE  /\ \A waits \in {FALSE, row.waits} :
                LET q == HeldActivated(waits)
                IN  /\ RowFits(q, row) /\ q.noted = row.noted /\ q.prov = "active"
                    /\ q.status \in {row.status, "active"}
           /\ RowFits(HeldFailed, row) /\ HeldFailed.noted = row.noted
           /\ HeldFailed.prov = "failed" /\ HeldFailed.status \in {row.status, "activation_failed"}
           /\ LET q == HeldTried("activation_failed")
              IN  /\ RowFits(q, row) /\ q.noted = row.noted
                  /\ q.status \in {row.status, "activation_failed"}
<1>1. ASSUME NEW status \in Statuses
      PROVE  /\ RowFits(HeldTried(status), row) /\ HeldTried(status).noted = row.noted
             /\ HeldTried(status).status \in {row.status, status}
  <2> DEFINE to == Copied(row.status, status, worker.held.status)
             tries == OneMore(worker.held.attempts)
  <2>1. to \in {row.status, status} /\ to \in Statuses
    BY DEF Copied, Row
  <2>2. tries \in 0..RetryLimit
    BY RenewalAssumption DEF OneMore, Held
  <2>3. HeldTried(status) = [row EXCEPT !.status = to, !.attempts = tries]
    BY DEF HeldTried
  <2> HIDE DEF to, tries
  <2> QED
    BY <2>1, <2>2, <2>3 DEF RowFits, Row
<1>2. "active" \in Statuses /\ "activation_failed" \in Statuses
  BY DEF Statuses
<1>3. ASSUME NEW waits \in {FALSE, row.waits}
      PROVE  /\ RowFits(HeldActivated(waits), row) /\ HeldActivated(waits).noted = row.noted
             /\ HeldActivated(waits).prov = "active"
             /\ HeldActivated(waits).status \in {row.status, "active"}
  <2> DEFINE q == HeldTried("active")
             to == Copied(q.remote, "ACTIVE", worker.held.remote)
  <2>1. /\ RowFits(q, row) /\ q \in Row /\ q.noted = row.noted
        /\ q.status \in {row.status, "active"}
    BY <1>1, <1>2 DEF RowFits
  <2>2. to \in Remotes /\ waits \in BOOLEAN
    BY <2>1 DEF Copied, Row, Remotes
  <2>3. HeldActivated(waits) = [q EXCEPT !.prov = "active", !.waits = waits, !.linked = TRUE, !.remote = to]
    BY DEF HeldActivated
  <2> HIDE DEF q, to
  <2> QED
    BY <2>1, <2>2, <2>3 DEF RowFits, Row, ProvStatuses
<1>4. /\ RowFits(HeldFailed, row) /\ HeldFailed.noted = row.noted
      /\ HeldFailed.prov = "failed" /\ HeldFailed.status \in {row.status, "activation_failed"}
  <2> DEFINE q == HeldTried("activation_failed")
  <2>1. /\ RowFits(q, row) /\ q \in Row /\ q.noted = row.noted
        /\ q.status \in {row.status, "activation_failed"}
    BY <1>1, <1>2 DEF RowFits
  <2>2. HeldFailed = [q EXCEPT !.prov = "failed", !.waits = TRUE]
    BY DEF HeldFailed
  <2> HIDE DEF q
  <2> QED
    BY <2>1, <2>2 DEF RowFits, Row, ProvStatuses
<1> QED
  BY <1>1, <1>2, <1>3, <1>4

\* what it leaves behind: the panel at the row's term, or the slip that names it
HeldOutcome(out) ==
    \/ out.what = "pushed" /\ out.panel = Pushed(row) /\ out.row.prov = "active"
    \/ out.what = "stale" /\ out.row.prov = "active"
    \/ out.what = "stale failure" /\ out.row.prov = "failed"
    \/ /\ out.what = "failed" /\ out.panel \in {panel, Pushed(row)} /\ out.row.prov = "failed"
       /\ out.row.status \in {row.status, "activation_failed"}
    \/ /\ out.what = "unavailable" /\ out.panel = panel
       /\ out.row.status \in {row.status, "activation_failed"}
    \/ out.what = "known" /\ out.panel = panel /\ out.row = row

LEMMA HeldFits ==
    ASSUME Inv, worker.held \in Held, NEW key \in Keys, NEW out \in HeldServed(key)
    PROVE  /\ RowFits(out.row, row) /\ out.row.noted = row.noted
           /\ out.row.status \in {row.status, "active", "activation_failed"}
           /\ out.panel \in Panel
           /\ OperationsFit(out.done, out.failed, key)
           /\ HeldOutcome(out)
<1>1. /\ row \in Row /\ panel \in Panel /\ Typed /\ OnceEach(done, failed)
      /\ Pushed(worker.held) \in Panel
  BY DEF Inv, Typed, Known, Pushed, Panel, Held
<1>2. HeldIsCurrent => Pushed(worker.held) = Pushed(row)
  BY DEF HeldIsCurrent, Pushed
<1>3. RowFits(row, row)
  BY <1>1 DEF RowFits
<1>4. /\ OperationsFit(done, failed, key)
      /\ OperationsFit(done \cup {key}, Without(failed, key), key)
      /\ key \notin done => OperationsFit(done, Append(Without(failed, key), key), key)
  BY <1>1, OperationsFitOnce
<1>5. CASE out = Result(HeldTried("activation_failed"), panel, "unavailable")
  <2>1. /\ out.row = HeldTried("activation_failed") /\ out.panel = panel /\ out.what = "unavailable"
        /\ out.done = done /\ out.failed = failed
    BY <1>5 DEF Result
  <2> QED
    BY <1>1, <1>4, <2>1, HeldRows DEF HeldOutcome
<1>6. CASE out = Result(row, panel, "known")
  <2>1. /\ out.row = row /\ out.panel = panel /\ out.what = "known"
        /\ out.done = done /\ out.failed = failed
    BY <1>6 DEF Result
  <2> QED
    BY <1>1, <1>3, <1>4, <2>1 DEF HeldOutcome
<1>7. CASE out \in HeldPushes(key)
  <2> DEFINE what == IF HeldIsCurrent THEN "pushed" ELSE "stale"
  <2>1. PICK waits \in {FALSE, row.waits} :
          out = [Result(HeldActivated(waits), Pushed(worker.held), what)
                   EXCEPT !.done = @ \cup {key}, !.failed = Without(@, key)]
    BY <1>7 DEF HeldPushes
  <2>2. /\ out.row = HeldActivated(waits) /\ out.panel = Pushed(worker.held) /\ out.what = what
        /\ out.done = done \cup {key} /\ out.failed = Without(failed, key)
    BY <2>1 DEF Result
  <2>3. HeldOutcome(out)
    BY <1>1, <1>2, <2>2, HeldRows DEF HeldOutcome
  <2> QED
    BY <1>1, <1>4, <2>2, <2>3, HeldRows
<1>8. CASE key \notin done /\ out \in HeldFailures(key)
  <2> DEFINE what(p) == IF p = panel \/ HeldIsCurrent THEN "failed" ELSE "stale failure"
  <2>1. PICK p \in {panel, Pushed(worker.held)} :
          out = [Result(HeldFailed, p, what(p))
                   EXCEPT !.failed = Append(Without(@, key), key)]
    BY <1>8 DEF HeldFailures
  <2>2. /\ out.row = HeldFailed /\ out.panel = p /\ out.what = what(p)
        /\ out.done = done /\ out.failed = Append(Without(failed, key), key)
    BY <2>1 DEF Result
  <2>3. HeldOutcome(out)
    BY <1>1, <1>2, <2>1, <2>2, HeldRows DEF HeldOutcome
  <2> QED
    BY <1>1, <1>4, <1>8, <2>1, <2>2, <2>3, HeldRows
<1> QED
  BY <1>5, <1>6, <1>7, <1>8 DEF HeldServed

LEMMA RetryPaidStep ==
    ASSUME Inv, RetryPaid
    PROVE  Inv'
<1> DEFINE o == worker.held.order
<1>1. PICK out \in HeldServed(OrderKey(o)) :
        \/ /\ Commit(out, seen)
           /\ served' \in {served, served \cup {o}}
        \/ Lost(out) /\ UNCHANGED served
  BY DEF RetryPaid, OrderKey
<1>2. /\ worker' = NextStage
      /\ UNCHANGED <<now, setup, paid, used, trial, reminder, sync>>
  BY DEF RetryPaid, Working
<1>3. worker.held \in Held /\ o \in paid /\ o \in Orders /\ OrderKey(o) \in Keys
  BY PaidIsHeld
<1>4. /\ RowFits(out.row, row) /\ out.panel \in Panel
      /\ OperationsFit(out.done, out.failed, OrderKey(o))
      /\ HeldOutcome(out)
  BY <1>1, <1>3, HeldFits
<1>5. Aside'
  <2>1. served' \subseteq paid
    BY <1>1, <1>3 DEF Inv, Typed
  <2> QED
    BY <1>2, <2>1, NextStageIsWorker DEF Inv, Typed, Aside, HoldsPaid
<1>6. CASE Lost(out)
  BY <1>2, <1>4, <1>5, <1>6, LostStep
<1>7. CASE Commit(out, seen)
  <2>1. /\ row \in Row /\ seen \in History /\ row.until >= seen.owed
        /\ row.source = "none" => row.until = 0 /\ row.order = None
        /\ row.order # None => row.order \in paid
    BY DEF Inv, Typed, Known, Exists, Promises, NoDaysLost
  <2>2. row' = out.row /\ panel' = out.panel /\ seen' = Noted(seen, out) /\ now' = now
    BY <1>2, <1>7 DEF Commit
  <2>3. row'.until = row.until /\ row'.source = row.source /\ row.until \in Nat
    BY <1>4, <2>1, <2>2 DEF RowFits, Row
  <2>4. ActiveIsServed'
    <3>1. CASE out.what \in {"stale", "stale failure"}
      <4>1. seen'.slips # {}
        BY <2>1, <2>2, <3>1, NotedIsHistory
      <4> QED
        BY <4>1 DEF ActiveIsServed
    <3>2. CASE out.panel = Pushed(row)
      <4>1. panel'.on = TRUE /\ panel'.until = row.until
        BY <2>2, <3>2 DEF Pushed
      <4> QED
        BY <2>3, <4>1 DEF ActiveIsServed
    <3>3. CASE /\ out.what \in {"failed", "unavailable", "known"} /\ out.panel = panel
               /\ out.row.status \in {row.status, "activation_failed"}
      <4>1. seen'.slips = seen.slips
        BY <2>1, <2>2, <3>3, NotedIsHistory
      <4> QED
        BY <2>2, <2>3, <3>3, <4>1 DEF Inv, Promises, ActiveIsServed
    <3> QED
      BY <1>4, <3>1, <3>2, <3>3 DEF HeldOutcome
  <2>5. FailedIsWithinReach'
    <3>1. CASE out.what \in {"pushed", "stale"}
      <4>1. seen'.hidden = (row'.status \in {"pending", "activation_failed"})
        BY <2>1, <2>2, <3>1, NotedIsHistory
      <4> QED
        BY <4>1 DEF FailedIsWithinReach, Waits
    <3>2. CASE out.row.prov = "failed"
      BY <2>2, <3>2 DEF FailedIsWithinReach
    <3>3. CASE out.what = "unavailable"
      <4>1. seen'.hidden
        BY <2>1, <2>2, <3>3, NotedIsHistory
      <4> QED
        BY <4>1 DEF FailedIsWithinReach
    <3>4. CASE out.what = "known" /\ out.row = row
      <4>1. seen'.hidden = seen.hidden
        BY <2>1, <2>2, <3>4, NotedIsHistory
      <4> QED
        BY <2>2, <3>4, <4>1 DEF Inv, Promises, FailedIsWithinReach, Exists, Waits
    <3> QED
      BY <1>4, <3>1, <3>2, <3>3, <3>4 DEF HeldOutcome
  <2>6. \A x \in Orders : OrderKey(o) = OrderKey(x) => x \in paid'
    BY <1>2, <1>3, KeysDiffer
  <2>7. paid' = paid
    BY <1>2
  <2> QED
    BY <1>3, <1>4, <1>5, <1>7, <2>1, <2>2, <2>4, <2>5, <2>6, <2>7, CommitAny
<1> QED
  BY <1>1, <1>6, <1>7

-----------------------------------------------------------------------------
(* The other steps *)

\* a row that keeps what the promises are about, or that is left as it is
Quiet(q, h) ==
    /\ RowFits(q, row) /\ q.status = row.status /\ q.prov = row.prov /\ q.attempts = row.attempts
    /\ h \in History /\ h.owed = seen.owed /\ h.slips = seen.slips /\ h.hidden = seen.hidden

LEMMA NothingIsQuiet ==
    ASSUME Typed
    PROVE  Quiet(row, seen)
BY DEF Typed, Quiet, RowFits

LEMMA QuietStep ==
    ASSUME Inv, Aside', Quiet(row', seen'), UNCHANGED <<now, panel, ops, paid>>,
           spent' \in 0..Budget
    PROVE  Inv'
<1>1. now \in 0..MaxTime /\ panel \in Panel
  BY DEF Inv, Typed
<1>2. now' \in 0..MaxTime /\ now' >= now /\ panel' \in Panel /\ paid \subseteq paid' /\ UNCHANGED ops
  BY <1>1
<1>3. RowFits(row', row) /\ seen' \in History /\ seen'.owed = seen.owed
  BY DEF Quiet
<1>4. row'.until = row.until /\ row'.source = row.source
  BY <1>3 DEF RowFits
<1>5. ActiveIsServed'
  BY <1>4 DEF Inv, Promises, ActiveIsServed, Quiet
<1>6. FailedIsWithinReach'
  BY <1>4 DEF Inv, Promises, FailedIsWithinReach, Exists, Waits, Quiet
<1> QED
  BY <1>2, <1>3, <1>5, <1>6, RowStep

\* a notice, noted or not
LEMMA SendIsQuiet ==
    ASSUME Typed, NEW kind \in Notices, NEW stored \in BOOLEAN, Send(kind, stored)
    PROVE  Quiet(row', seen') /\ spent' \in 0..Budget
<1>1. spent' \in 0..Budget
  BY SpendIsWithin DEF Send
<1>2. /\ seen' \in History /\ seen'.owed = seen.owed
      /\ seen'.slips = seen.slips /\ seen'.hidden = seen.hidden
  <2>1. PICK s \in SUBSET Notices, again \in BOOLEAN :
          seen' = [seen EXCEPT !.sent = s, !.repeated = again]
    <3> DEFINE s == IF stored THEN seen.sent \cup {kind} ELSE seen.sent
               again == seen.repeated \/ kind \in seen.sent
    <3>1. s \in SUBSET Notices /\ again \in BOOLEAN
      BY DEF Typed, History
    <3>2. seen' = [seen EXCEPT !.sent = s, !.repeated = again]
      BY DEF Send
    <3> HIDE DEF s, again
    <3> QED
      BY <3>1, <3>2
  <2> QED
    BY <2>1 DEF Typed, History
<1>3. /\ RowFits(row', row) /\ row'.status = row.status /\ row'.prov = row.prov
      /\ row'.attempts = row.attempts
  BY DEF Send, Typed, RowFits, Row
<1> QED
  BY <1>1, <1>2, <1>3 DEF Quiet

\* /rw_enable, /rw_disable and the button "retry failed"
LEMMA ByHandStep ==
    ASSUME Inv, Enable \/ Disable \/ RetryFailed
    PROVE  Inv'
<1>1. /\ row \in Row /\ panel \in Panel /\ seen \in History /\ spent \in 0..Budget
      /\ now \in 0..MaxTime
  BY DEF Inv, Typed
<1>2. Aside' /\ UNCHANGED ops /\ paid \subseteq paid' /\ now' = now /\ now' >= now /\ now' \in 0..MaxTime
  <2>1. UNCHANGED <<now, setup, ops, claims, tasks>>
    BY DEF Enable, Disable, RetryFailed
  <2>2. Aside'
    BY <2>1 DEF Inv, Typed, Promises, HoldsPaid, Aside, tasks, claims
  <2>3. now' = now /\ paid' = paid
    BY <2>1 DEF claims
  <2> QED
    BY <1>1, <2>1, <2>2, <2>3
<1>3. CASE Enable
  <2>1. row' = [row EXCEPT !.status = "active", !.prov = "active", !.remote = "ACTIVE"]
    BY <1>3 DEF Enable
  <2>2. RowFits(row', row) /\ row'.status = "active"
    BY <1>1, <2>1 DEF RowFits, Row, Statuses, ProvStatuses, Remotes
  <2>3. seen' = [seen EXCEPT !.slips = @ \cup {"by hand"}]
    BY <1>3 DEF Enable
  <2>4. seen' \in History /\ seen'.owed = seen.owed /\ seen'.slips # {}
    BY <1>1, <2>3 DEF History, Slips
  <2>5. panel' \in Panel
    BY <1>1, <1>3 DEF Enable, Switched, Panel
  <2>6. spent' \in 0..Budget
    BY <1>3, SpendIsWithin DEF Enable, Inv
  <2>7. ActiveIsServed' /\ FailedIsWithinReach'
    BY <2>2, <2>4 DEF ActiveIsServed, FailedIsWithinReach, Waits
  <2> QED
    BY <1>2, <2>2, <2>4, <2>5, <2>6, <2>7, RowStep
<1>4. CASE Disable
  <2>1. row' = [row EXCEPT !.status = "disabled", !.prov = "disabled", !.remote = "DISABLED"]
    BY <1>4 DEF Disable
  <2>2. RowFits(row', row) /\ row'.status = "disabled"
    BY <1>1, <2>1 DEF RowFits, Row, Statuses, ProvStatuses, Remotes
  <2>3. seen' \in History /\ seen'.owed = seen.owed
    BY <1>1, <1>4 DEF Disable
  <2>4. panel' \in Panel
    BY <1>1, <1>4 DEF Disable, Switched, Panel
  <2>5. spent' \in 0..Budget
    BY <1>4, SpendIsWithin DEF Disable, Inv
  <2>6. ActiveIsServed' /\ FailedIsWithinReach'
    BY <2>2 DEF ActiveIsServed, FailedIsWithinReach, Waits
  <2> QED
    BY <1>2, <2>2, <2>3, <2>4, <2>5, <2>6, RowStep
<1>5. CASE RetryFailed
  <2>1. /\ row' = [row EXCEPT !.prov = "pending", !.attempts = 0, !.waits = FALSE]
        /\ UNCHANGED <<panel, spent, seen>>
    BY <1>5 DEF RetryFailed
  <2>2. RetryLimit \in Nat /\ RetryLimit > 0 /\ 0 \in 0..RetryLimit
    BY RenewalAssumption
  <2>3. RowFits(row', row) /\ row'.status = row.status /\ row'.attempts = 0
    BY <1>1, <2>1, <2>2 DEF RowFits, Row, ProvStatuses
  <2>4. ActiveIsServed'
    <3>1. row'.until = row.until
      BY <2>3 DEF RowFits
    <3> QED
      BY <1>2, <2>1, <2>3, <3>1 DEF Inv, Promises, ActiveIsServed
  <2>5. FailedIsWithinReach'
    BY <2>2, <2>3 DEF FailedIsWithinReach
  <2> QED
    BY <1>1, <1>2, <2>1, <2>3, <2>4, <2>5, RowStep
<1> QED
  BY <1>3, <1>4, <1>5

\* the worker switches a row off
LEMMA DisableStep ==
    ASSUME Inv, DisableExpired
    PROVE  Inv'
<1>1. /\ row \in Row /\ panel \in Panel /\ seen \in History /\ spent \in 0..Budget
      /\ now \in 0..MaxTime
  BY DEF Inv, Typed
<1>2. worker' = NextStage /\ UNCHANGED <<now, setup, ops, claims, reminder, sync, spent>>
  BY DEF DisableExpired, Working
<1>3. Aside' /\ now' \in 0..MaxTime /\ now' >= now /\ paid \subseteq paid'
  <2>2. Aside'
    BY <1>2, NextStageIsWorker DEF Inv, Typed, HoldsPaid, Aside, claims
  <2>3. now' = now /\ paid' = paid
    BY <1>2 DEF claims
  <2> QED
    BY <1>1, <2>2, <2>3
<1>4. RowFits(row', row) /\ row'.status = "expired"
  <2>1. \/ row' = [row EXCEPT !.status = "expired", !.prov = "disabled", !.remote = "DISABLED"]
        \/ row' = [row EXCEPT !.status = "expired", !.prov = "disabled"]
    BY DEF DisableExpired
  <2> QED
    BY <1>1, <2>1 DEF RowFits, Row, Statuses, ProvStatuses, Remotes
<1>5. panel' \in Panel
  BY <1>1 DEF DisableExpired, Switched, Panel
<1>6. seen' \in History /\ seen'.owed = seen.owed
  <2>1. seen' = seen \/ \E slips \in {seen.slips, seen.slips \cup {"renewed"}} :
                          seen' = [seen EXCEPT !.slips = slips]
    BY DEF DisableExpired, SwitchedOff
  <2>2. seen.slips \cup {"renewed"} \in SUBSET Slips /\ seen.slips \in SUBSET Slips
    BY <1>1 DEF History, Slips
  <2> QED
    BY <1>1, <2>1, <2>2 DEF History
<1>7. ActiveIsServed' /\ FailedIsWithinReach'
  BY <1>4 DEF ActiveIsServed, FailedIsWithinReach, Waits
<1> QED
  BY <1>1, <1>2, <1>3, <1>4, <1>5, <1>6, <1>7, RowStep

\* a synchronisation writes what it has seen
LEMMA SyncStoreStep ==
    ASSUME Inv, SyncStore
    PROVE  Inv'
<1>1. /\ row \in Row /\ panel \in Panel /\ seen \in History /\ spent \in 0..Budget
      /\ now \in 0..MaxTime
  BY DEF Inv, Typed
<1>2. sync' = NoSync /\ UNCHANGED <<now, setup, panel, ops, claims, worker, reminder, spent>>
  BY DEF SyncStore
<1>3. Aside' /\ now' \in 0..MaxTime /\ now' >= now /\ paid \subseteq paid'
  <2>1. NoSync \in [stage : Stage, prov : ProvStatuses, remote : Remotes, got : Panel]
    BY DEF NoSync, NoUser, Stage, ProvStatuses, Remotes, Panel
  <2>2. Aside'
    BY <1>2, <2>1 DEF Inv, Typed, Promises, HoldsPaid, Aside, claims
  <2>3. now' = now /\ paid' = paid
    BY <1>2 DEF claims
  <2> QED
    BY <1>1, <2>2, <2>3
<1>4. PICK remote \in Remotes, p \in {"active", row.prov} :
        row' = [row EXCEPT !.linked = TRUE, !.remote = remote, !.prov = p]
  <2> DEFINE remote == IF sync.got.on THEN "ACTIVE" ELSE "DISABLED"
             to == Copied(row.remote, remote, sync.remote)
             p == Copied(row.prov, "active", sync.prov)
  <2>1. to \in Remotes /\ p \in {"active", row.prov}
    BY <1>1 DEF Copied, Remotes, Row
  <2>2. row' = [row EXCEPT !.linked = TRUE, !.remote = to, !.prov = p]
    BY DEF SyncStore
  <2> HIDE DEF to, p
  <2> QED
    BY <2>1, <2>2
<1>5. seen' = [seen EXCEPT !.hidden = @ \/ (Waits /\ row'.prov = "active")]
  BY DEF SyncStore
<1>6. /\ RowFits(row', row) /\ row'.status = row.status /\ row'.prov = p
      /\ row'.attempts = row.attempts
  BY <1>1, <1>4 DEF RowFits, Row, ProvStatuses, Remotes
<1> DEFINE hidden == seen.hidden \/ (Waits /\ row'.prov = "active")
<1>7. hidden \in BOOLEAN /\ seen' = [seen EXCEPT !.hidden = hidden]
  BY <1>1, <1>5 DEF History
<1> HIDE DEF hidden
<1>8. /\ seen' \in History /\ seen'.owed = seen.owed /\ seen'.slips = seen.slips
      /\ seen'.hidden = hidden
  BY <1>1, <1>7 DEF History
<1>9. ActiveIsServed'
  <2>1. row'.until = row.until
    BY <1>6 DEF RowFits
  <2> QED
    BY <1>2, <1>6, <1>8, <2>1 DEF Inv, Promises, ActiveIsServed
<1>10. FailedIsWithinReach'
  <2>1. row'.source = row.source
    BY <1>6 DEF RowFits
  <2> QED
    BY <1>4, <1>6, <1>8, <2>1 DEF Inv, Promises, FailedIsWithinReach, Exists, Waits, hidden
<1>11. panel' \in Panel /\ spent' \in 0..Budget /\ UNCHANGED ops
  BY <1>1, <1>2
<1> QED
  BY <1>3, <1>6, <1>8, <1>9, <1>10, <1>11, RowStep

\* the steps that leave the term, the panel and the operations alone
LEMMA QuietSteps ==
    ASSUME Inv,
           \/ Select \/ RetryComesDue \/ DisableFails
           \/ AnnounceExpiry \/ NotifyActivation \/ NotifyPending \/ Remind
    PROVE  Inv'
<1>1. /\ Typed /\ row \in Row /\ spent \in 0..Budget
      /\ Quiet(row, seen)
  BY NothingIsQuiet DEF Inv, Typed
<1>2. /\ worker' \in Workers /\ reminder' \in Kinds \cup {"none"}
      /\ worker'.stage = 1 /\ worker'.selected => worker'.held.order \in paid
  <2> DEFINE held == IF At("payments") THEN Columns ELSE worker.held
             selecting == [worker EXCEPT !.selected = TRUE, !.held = held]
  <2>1. /\ worker \in Workers /\ worker.held \in Held
        /\ worker.stage = 1 /\ worker.selected => worker.held.order \in paid
    BY DEF Inv, Typed, Workers, HoldsPaid
  <2>2. held \in Held
    <3>1. Columns \in Held
      BY <1>1 DEF Columns, Held, Row
    <3> QED
      BY <2>1, <3>1
  <2>3. ASSUME Due(Stages[worker.stage]), worker.stage = 1
        PROVE  held.order \in paid
    <3>1. At("payments") /\ PaymentDue
      BY <2>3 DEF At, Stages, Due
    <3>2. held.order = row.order /\ row.order # None
      BY <3>1 DEF Columns, PaymentDue
    <3> QED
      BY <3>2 DEF Inv, Known
  <2>4. worker' \in {worker, NextStage} \/ (Due(Stages[worker.stage]) /\ worker' = selecting)
    BY DEF Select, RetryComesDue, DisableFails, AnnounceExpiry, NotifyActivation, NotifyPending,
           Remind, Working, tasks
  <2>5. reminder' \in {reminder, "none"}
    BY DEF Select, RetryComesDue, DisableFails, AnnounceExpiry, NotifyActivation, NotifyPending,
           Remind, tasks
  <2> HIDE DEF held
  <2>6. selecting \in Workers /\ selecting.stage = worker.stage /\ selecting.held = held
    BY <2>1, <2>2 DEF Workers
  <2> HIDE DEF selecting
  <2> QED
    BY <2>1, <2>3, <2>4, <2>5, <2>6, NextStageIsWorker DEF Inv, Typed
<1>3. UNCHANGED <<now, setup, panel, ops, claims, sync>>
  BY DEF Select, RetryComesDue, DisableFails, AnnounceExpiry, NotifyActivation, NotifyPending,
         Remind, tasks
<1>4. Aside' /\ UNCHANGED <<now, panel, ops, paid>>
  <2>1. HoldsPaid'
    BY <1>2, <1>3 DEF HoldsPaid, claims
  <2> QED
    BY <1>2, <1>3, <2>1 DEF Inv, Typed, Aside, claims
<1>5. Quiet(row', seen') /\ spent' \in 0..Budget
  <2>1. CASE Select
    BY <1>1, <2>1 DEF Select
  <2>2. CASE RetryComesDue
    <3>1. row' = [row EXCEPT !.waits = FALSE] /\ seen' = seen /\ spent' = spent
      BY <2>2 DEF RetryComesDue
    <3>2. RowFits(row', row) /\ row'.status = row.status /\ row'.prov = row.prov /\ row'.attempts = row.attempts
      BY <1>1, <3>1 DEF RowFits, Row
    <3> QED
      BY <1>1, <3>1, <3>2 DEF Quiet
  <2>3. CASE DisableFails
    BY <1>1, <2>3, SpendIsWithin DEF DisableFails
  <2>4. CASE AnnounceExpiry
    <3>1. ExpiryKind \in Notices
      BY DEF ExpiryKind, Notices
    <3>2. \/ \E stored \in BOOLEAN : Send(ExpiryKind, stored)
          \/ UNCHANGED <<row, spent, seen>>
          \/ Spend(1) /\ UNCHANGED <<row, seen>>
      BY <2>4 DEF AnnounceExpiry
    <3> QED
      BY <1>1, <3>1, <3>2, SendIsQuiet, SpendIsWithin
  <2>5. CASE NotifyActivation \/ NotifyPending
    <3>1. "active" \in Notices
      BY DEF Notices
    <3>2. \/ \E stored \in BOOLEAN : Send("active", stored)
          \/ UNCHANGED <<row, spent, seen>>
          \/ Spend(1) /\ UNCHANGED <<row, seen>>
      BY <2>5 DEF NotifyActivation, NotifyPending, Deliver
    <3> QED
      BY <1>1, <3>1, <3>2, SendIsQuiet, SpendIsWithin
  <2>6. CASE Remind
    <3>1. reminder \in Notices
      BY <2>6 DEF Remind, Inv, Typed, Kinds, Notices
    <3>2. CASE \E stored \in BOOLEAN : Send(reminder, stored)
      BY <1>1, <3>1, <3>2, SendIsQuiet
    <3>3. CASE UNCHANGED <<row, spent, seen>> \/ (Spend(1) /\ UNCHANGED <<row, seen>>)
      BY <1>1, <3>3, SpendIsWithin
    <3>4. CASE /\ row' = [row EXCEPT !.noted = @ \cup {reminder}]
               /\ seen' = [seen EXCEPT !.sent = @ \cup {reminder}]
               /\ UNCHANGED spent
      <4>1. RowFits(row', row) /\ row'.status = row.status /\ row'.prov = row.prov /\ row'.attempts = row.attempts
        BY <1>1, <3>1, <3>4 DEF RowFits, Row
      <4>2. seen \in History
        BY DEF Inv, Typed
      <4>3. /\ seen' \in History /\ seen'.owed = seen.owed
            /\ seen'.slips = seen.slips /\ seen'.hidden = seen.hidden
        BY <3>1, <3>4, <4>2 DEF History
      <4> QED
        BY <1>1, <3>4, <4>1, <4>3 DEF Quiet
    <3> QED
      BY <2>6, <3>2, <3>3, <3>4 DEF Remind
  <2> QED
    BY <2>1, <2>2, <2>3, <2>4, <2>5, <2>6
<1> QED
  BY <1>4, <1>5, QuietStep

\* those that leave the row alone, too
LEMMA PlainSteps ==
    ASSUME Inv,
           \/ CheckTrial \/ BarTrial \/ (\E kind \in Kinds : SelectReminder(kind))
           \/ SyncLoad \/ SyncAsk \/ Tick \/ Restart \/ Configure
    PROVE  Inv'
<1>1. /\ Typed /\ spent \in 0..Budget /\ now \in 0..MaxTime /\ MaxTime \in Nat
      /\ row \in Row /\ panel \in Panel
  BY RenewalAssumption DEF Inv, Typed
<1>2. UNCHANGED <<row, panel, ops, paid, served, used, seen>>
  BY DEF CheckTrial, BarTrial, SelectReminder, SyncLoad, SyncAsk, Tick, Restart, Configure, claims
<1>3. now' \in 0..MaxTime /\ now' >= now
  <2>1. now' = now \/ (now < MaxTime /\ now' = now + 1)
    BY DEF CheckTrial, BarTrial, SelectReminder, SyncLoad, SyncAsk, Tick, Restart, Configure
  <2> QED
    BY <1>1, <2>1
<1>4. spent' \in 0..Budget
  <2>1. spent' = spent \/ Spend(1)
    BY DEF CheckTrial, BarTrial, SelectReminder, SyncLoad, SyncAsk, Tick, Restart, Configure
  <2> QED
    BY <1>1, <2>1, SpendIsWithin
<1>5. setup' \in Setups
  BY DEF CheckTrial, BarTrial, SelectReminder, SyncLoad, SyncAsk, Tick, Restart, Configure,
         Inv, Typed, Setups
<1>6. trial' \in TrialStates
  BY <1>2 DEF CheckTrial, TrialPermitted, BarTrial, SelectReminder, SyncLoad, SyncAsk, Tick, Restart, Configure,
         Inv, Typed, Promises, HoldsPaid, TrialStates, claims
<1>7. worker' \in Workers /\ HoldsPaid' /\ reminder' \in Kinds \cup {"none"}
  <2>1. worker' \in {worker, Resting} /\ (reminder' \in {reminder, "none"} \/ reminder' \in Kinds)
    BY DEF CheckTrial, BarTrial, SelectReminder, SyncLoad, SyncAsk, Tick, Restart, Configure, tasks
  <2> QED
    BY <1>2, <2>1, NextStageIsWorker DEF Inv, Typed, HoldsPaid
<1>8. sync' \in [stage : Stage, prov : ProvStatuses, remote : Remotes, got : Panel]
  <2> DEFINE Syncs == [stage : Stage, prov : ProvStatuses, remote : Remotes, got : Panel]
  <2>1. NoUser \in Panel
    BY DEF NoUser, Panel
  <2>2. NoSync \in Syncs
    BY <2>1 DEF NoSync, Stage, ProvStatuses, Remotes
  <2>3. sync \in Syncs
    BY DEF Inv, Typed
  <2>4. [stage |-> "loaded", prov |-> row.prov, remote |-> row.remote, got |-> NoUser] \in Syncs
    BY <1>1, <2>1 DEF Stage, Row
  <2>5. [sync EXCEPT !.stage = "asked", !.got = panel] \in Syncs
    BY <1>1, <2>3 DEF Stage
  <2> HIDE DEF Syncs
  <2>6. sync' \in {sync, NoSync, [stage |-> "loaded", prov |-> row.prov, remote |-> row.remote, got |-> NoUser],
                   [sync EXCEPT !.stage = "asked", !.got = panel]}
    BY DEF CheckTrial, BarTrial, SelectReminder, SyncLoad, SyncAsk, Tick, Restart, Configure, tasks
  <2>7. sync' \in Syncs
    BY <2>2, <2>3, <2>4, <2>5, <2>6
  <2> QED
    BY <2>7 DEF Syncs
<1>9. Aside'
  BY <1>2, <1>5, <1>6, <1>7, <1>8 DEF Inv, Typed, Aside
<1>10. UNCHANGED <<row, panel, ops, seen>> /\ paid \subseteq paid'
  BY <1>2
<1> QED
  BY <1>3, <1>4, <1>9, <1>10, PlainStep

-----------------------------------------------------------------------------
(* Notices *)

\* what was sent within the term is noted in the row
Told ==
    /\ seen.sent \subseteq row.noted
    /\ ~seen.repeated

\* a push leaves the notices alone
LEMMA PushKeepsNoted ==
    ASSUME Typed, NEW r \in Row, NEW key,
           NEW out \in Provisioned(r, key) \cup Served(r, key) \cup Unavailable(r)
    PROVE  out.row.noted = r.noted
<1>1. ASSUME NEW q \in Row
      PROVE  /\ Activated(q).noted = q.noted /\ Activated(q) \in Row
             /\ NotActivated(q).noted = q.noted
             /\ Tried(q).noted = q.noted /\ Tried(q) \in Row
             /\ [q EXCEPT !.linked = TRUE, !.remote = "ACTIVE"].noted = q.noted
  <2>1. Tried(q) \in Row /\ Activated(q) \in Row
    BY RowsFit, RenewalAssumption DEF RowFits, Tried, OneMore, Row
  <2> QED
    BY <2>1 DEF Activated, NotActivated, Tried, Row
<1>2. SavedRemote(r).noted = r.noted
  <2>1. Tried(r).noted = r.noted /\ Tried(r) \in Row
    BY <1>1
  <2> DEFINE a == Activated(Tried(r))
  <2>2. a.noted = r.noted /\ a \in Row
    BY <1>1, <2>1
  <2>3. SavedRemote(r) = [a EXCEPT !.linked = TRUE, !.remote = "ACTIVE"]
    BY DEF SavedRemote
  <2> HIDE DEF a
  <2> QED
    BY <2>2, <2>3 DEF Row
<1>3. /\ NotActivated(r).noted = r.noted /\ Activated(r).noted = r.noted
      /\ Tried(r).noted = r.noted
  BY <1>1
<1>4. NotActivated(Tried(r)).noted = r.noted
  BY <1>1
<1>5. ASSUME NEW q \in Row, q.noted = r.noted, out \in Unavailable(q)
      PROVE  out.row.noted = r.noted
  <2>1. out.row = [q EXCEPT !.status = "activation_failed"]
    BY <1>5 DEF Unavailable, Result
  <2> QED
    BY <1>5, <2>1 DEF Row
<1>6. ASSUME out \in Provisioned(r, key)
      PROVE  out.row.noted = r.noted
  <2>1. out.row \in {NotActivated(r), Activated(r), SavedRemote(r), NotActivated(Tried(r))}
    <3>1. CASE out \in {Result(NotActivated(r), panel, "unset"), Result(Activated(r), panel, "old key")}
      <4>1. ASSUME NEW q, NEW what
            PROVE  Result(q, panel, what).row = q
        BY DEF Result
      <4> QED
        BY <3>1, <4>1
    <3>2. CASE out = Completed(r, key)
      BY <3>2 DEF Completed, Result
    <3>3. CASE out \in Failed(r, key)
      <4>1. PICK p \in {panel, Pushed(r)} :
              out = [Result(NotActivated(Tried(r)), p, "failed")
                        EXCEPT !.failed = Append(Without(@, key), key)]
        BY <3>3 DEF Failed
      <4> QED
        BY <4>1 DEF Result
    <3> QED
      BY <1>6, <3>1, <3>2, <3>3 DEF Provisioned
  <2> QED
    BY <1>2, <1>3, <1>4, <2>1
<1>7. Tried(r) \in Row
  BY <1>1
<1> QED
  BY <1>3, <1>5, <1>6, <1>7 DEF Served

\* a transaction that commits
LEMMA CommitTold ==
    ASSUME NEW r, NEW h \in History, NEW out,
           out.row.noted = r.noted, Commit(out, h),
           h.sent \subseteq r.noted, ~h.repeated
    PROVE  Told'
<1>1. row' = out.row /\ seen' = Noted(h, out)
  BY DEF Commit
<1>2. Noted(h, out).sent = h.sent /\ Noted(h, out).repeated = h.repeated
  BY DEF Noted, History
<1> QED
  BY <1>1, <1>2 DEF Told

\* a promise begins a new term
LEMMA OweForgets ==
    ASSUME NEW h \in History, NEW days
    PROVE  Owe(h, days).sent = {} /\ Owe(h, days).repeated = h.repeated
BY DEF Owe, History

\* a step that leaves the notices alone
LEMMA SameTold ==
    ASSUME Told, row'.noted = row.noted,
           seen'.sent = seen.sent, seen'.repeated = seen.repeated
    PROVE  Told'
BY DEF Told

LEMMA RollBackTold ==
    ASSUME Typed, Told, NEW out, Lost(out)
    PROVE  Told'
<1>1. row' = row /\ seen' = [seen EXCEPT !.slips = @ \cup {"rolled back"}]
  BY DEF Lost
<1>2. seen'.sent = seen.sent /\ seen'.repeated = seen.repeated
  BY <1>1 DEF Typed, History
<1> QED
  BY <1>1, <1>2, SameTold

\* a retry leaves the notices alone
LEMMA PushTold ==
    ASSUME Typed, Told, NEW out, out.row.noted = row.noted, Commit(out, seen)
    PROVE  Told'
<1>1. row' = out.row /\ seen' = Noted(seen, out)
  BY DEF Commit
<1>2. seen'.sent = seen.sent /\ seen'.repeated = seen.repeated
  BY <1>1 DEF Noted, Typed, History
<1> QED
  BY <1>1, <1>2, SameTold

\* a notice that was not noted was not sent
LEMMA SendTold ==
    ASSUME Typed, Told, NEW kind, NEW stored \in BOOLEAN, Send(kind, stored), NotSentYet(kind)
    PROVE  Told'
<1>1. kind \notin seen.sent
  BY DEF Told, NotSentYet
<1>2. /\ seen'.sent = IF stored THEN seen.sent \cup {kind} ELSE seen.sent
      /\ seen'.repeated = (seen.repeated \/ kind \in seen.sent)
  BY DEF Send, Typed, History
<1>3. ~seen'.repeated
  BY <1>1, <1>2 DEF Told
<1>4. row'.noted = IF stored THEN row.noted \cup {kind} ELSE row.noted
  BY DEF Send, Typed, Row
<1> QED
  BY <1>2, <1>3, <1>4 DEF Told

LEMMA RenewTold ==
    ASSUME Inv, Told, NEW o \in Orders, RenewByOrder(o)
    PROVE  Told'
<1> DEFINE known == Exists /\ setup = "complete" /\ <<"order", o>> \in done
           r == IF Exists /\ row.order = o THEN row ELSE Extension(o)
           h == IF o \notin paid THEN Owe(seen, OrderDays[o])
                ELSE IF known \/ (Exists /\ row.order = o) THEN seen ELSE MovedAgain(seen)
           outs == IF known THEN {Result(row, panel, "known")} ELSE Served(r, OwnKey(r))
<1>1. PICK out \in outs : Commit(out, h) \/ RollBack(out)
  BY DEF RenewByOrder
<1>2. row \in Row /\ seen \in History /\ Typed
  BY DEF Inv, Typed
<1>3. CASE RollBack(out)
  BY <1>2, <1>3, RollBackTold DEF RollBack
<1>4. CASE Commit(out, h) /\ known
  <2>1. o \in paid
    BY <1>4 DEF Inv, Known, KeysArePaid, OrderKey
  <2>2. out = Result(row, panel, "known")
    BY <1>1, <1>4
  <2>3. row' = row /\ seen' = Noted(seen, out)
    BY <1>4, <2>1, <2>2 DEF Commit, Result
  <2>4. Noted(seen, out).sent = seen.sent /\ Noted(seen, out).repeated = seen.repeated
    BY <1>2 DEF Noted, History
  <2> QED
    BY <2>3, <2>4, SameTold
<1>5. CASE Commit(out, h) /\ ~known
  <2>1. r \in Row /\ r.order = o /\ r.source # "none"
    <3>1. CASE Exists /\ row.order = o
      BY <1>2, <3>1 DEF Exists
    <3>2. CASE ~(Exists /\ row.order = o)
      BY <3>2, ExtensionIsRow
    <3> QED
      BY <3>1, <3>2
  <2>2. h \in History /\ h.sent \subseteq r.noted /\ ~h.repeated
    <3>1. CASE o \in paid /\ Exists /\ row.order = o
      BY <1>2, <3>1 DEF Told
    <3>3. CASE o \in paid /\ ~(Exists /\ row.order = o)
      <4>1. h = MovedAgain(seen)
        BY <1>5, <3>3
      <4> HIDE DEF h, r
      <4> QED
        BY <1>2, <4>1, MovedAgainForgets DEF Told
    <3>2. CASE o \notin paid
      <4>1. OrderDays[o] \in Nat
        BY RenewalAssumption
      <4>2. h = Owe(seen, OrderDays[o])
        BY <3>2
      <4> DEFINE owing == Owe(seen, OrderDays[o])
      <4>3. owing \in History /\ owing.sent = {} /\ owing.repeated = seen.repeated
        BY <1>2, <4>1, OweIsHistory, OweForgets
      <4> HIDE DEF owing, r
      <4>4. owing.sent \subseteq r.noted /\ ~owing.repeated
        BY <4>3 DEF Told
      <4> QED
        BY <4>2, <4>3, <4>4 DEF owing
    <3> QED
      BY <3>1, <3>2, <3>3
  <2>4. out \in Served(r, OwnKey(r)) /\ Commit(out, h)
    BY <1>1, <1>5
  <2> HIDE DEF r, h
  <2>6. out.row.noted = r.noted
    BY <1>2, <2>1, <2>4, PushKeepsNoted
  <2> QED
    BY <2>2, <2>4, <2>6, CommitTold
<1> QED
  BY <1>1, <1>3, <1>4, <1>5

LEMMA BonusTold ==
    ASSUME Inv, Told, NEW b \in Bonuses, RedeemBonus(b)
    PROVE  Told'
<1>1. PICK out \in Served(BonusTerm, BonusKey(b)) :
        Commit(out, Owe(seen, BonusDays)) \/ RollBack(out)
  BY DEF RedeemBonus
<1>2. Typed
  BY DEF Inv
<1>3. out.row.noted = BonusTerm.noted
  BY <1>1, <1>2, BonusTermIsRow, PushKeepsNoted
<1>4. CASE RollBack(out)
  BY <1>2, <1>4, RollBackTold DEF RollBack
<1>5. CASE Commit(out, Owe(seen, BonusDays))
  <2> DEFINE h == Owe(seen, BonusDays)
  <2>1. h \in History /\ h.sent = {} /\ h.repeated = seen.repeated
    BY <1>2, RenewalAssumption, OweIsHistory, OweForgets DEF Inv, Typed
  <2>4. Commit(out, h)
    BY <1>5
  <2> HIDE DEF h
  <2>5. h.sent \subseteq BonusTerm.noted /\ ~h.repeated
    BY <2>1 DEF Told
  <2> QED
    BY <1>3, <2>1, <2>4, <2>5, CommitTold
<1> QED
  BY <1>1, <1>4, <1>5

LEMMA TrialTold ==
    ASSUME Inv, Told, RegisterTrial
    PROVE  Told'
<1> DEFINE h == IF row.source = "promo" THEN Owe(seen, TrialDays)
                ELSE Owe([seen EXCEPT !.owed = now], TrialDays)
<1>1. PICK out \in Served(TrialRow, OwnKey(TrialRow)) :
        Commit(out, h) \/ RollBack(out)
  BY DEF RegisterTrial
<1>2. Typed
  BY DEF Inv
<1>3. out.row.noted = TrialRow.noted
  BY <1>1, <1>2, TrialRowIsRow, PushKeepsNoted
<1>4. CASE RollBack(out)
  BY <1>2, <1>4, RollBackTold DEF RollBack
<1>5. CASE Commit(out, h)
  <2>2. h \in History /\ h.sent = {} /\ h.repeated = seen.repeated
    <3> DEFINE g == [seen EXCEPT !.owed = now]
    <3>1. seen \in History /\ g \in History /\ g.repeated = seen.repeated /\ TrialDays \in Nat
      <4>1. now \in Nat /\ TrialDays \in Nat /\ seen \in History
        BY RenewalAssumption DEF Inv, Typed
      <4> QED
        BY <4>1 DEF History
    <3>2. h = Owe(seen, TrialDays) \/ h = Owe(g, TrialDays)
      OBVIOUS
    <3> HIDE DEF g, h
    <3> QED
      BY <1>2, <3>1, <3>2, OweIsHistory, OweForgets
  <2>3. Commit(out, h)
    BY <1>5
  <2> HIDE DEF h
  <2>4. h.sent \subseteq TrialRow.noted /\ ~h.repeated
    BY <2>2 DEF Told
  <2> QED
    BY <1>3, <2>2, <2>3, <2>4, CommitTold
<1> QED
  BY <1>1, <1>4, <1>5

LEMMA GrantTold ==
    ASSUME Inv, Told, NEW g \in Grants, Grant(g)
    PROVE  Told'
<1> DEFINE r == IF ~Exists THEN NewRow("admin", GrantDays)
                ELSE [row EXCEPT !.until = Later(@, now) + GrantDays, !.source = "admin",
                                 !.noted = @ \ {"active"}]
           key == <<"admin", r.until>>
           h == [Owe(seen, GrantDays) EXCEPT !.kept = row.noted \cap {"expired"}]
<1>1. PICK out \in IF setup = "noClient" THEN Unavailable(r) ELSE Provisioned(r, key) :
        Commit(out, h) \/ RollBack(out)
  BY DEF Grant
<1>2. GrantDays \in Nat /\ row \in Row /\ seen \in History /\ now \in Nat /\ Typed
  BY RenewalAssumption DEF Inv, Typed
<1>3. h \in History /\ h.sent = {} /\ h.repeated = seen.repeated
  <2> DEFINE n == row.noted \cap {"expired"}
             owing == Owe(seen, GrantDays)
  <2>1. owing \in History /\ owing.sent = {} /\ owing.repeated = seen.repeated
    BY <1>2, OweIsHistory, OweForgets
  <2>2. n \in SUBSET Notices
    BY <1>2 DEF Row
  <2>3. h = [owing EXCEPT !.kept = n]
    OBVIOUS
  <2> HIDE DEF n, owing, h
  <2> QED
    BY <2>1, <2>2, <2>3 DEF History
<1>4. r \in Row
  <2>1. CASE Exists
    <3>1. Later(row.until, now) + GrantDays \in Nat
      BY <1>2 DEF Later, Row
    <3> QED
      BY <1>2, <2>1, <3>1 DEF Row, Sources
  <2>2. CASE ~Exists
    <3>1. "admin" \in Sources
      BY DEF Sources
    <3> QED
      BY <1>2, <2>2, <3>1, NewRowIsRow
  <2> QED
    BY <2>1, <2>2
<1> HIDE DEF r, key, h
<1>6. out.row.noted = r.noted
  BY <1>1, <1>2, <1>4, PushKeepsNoted
<1>7. CASE RollBack(out)
  BY <1>2, <1>7, RollBackTold DEF RollBack
<1>8. CASE Commit(out, h)
  <2>1. h.sent \subseteq r.noted /\ ~h.repeated
    BY <1>3 DEF Told
  <2> QED
    BY <1>3, <1>6, <1>8, <2>1, CommitTold
<1> QED
  BY <1>1, <1>7, <1>8

LEMMA NextTold ==
    ASSUME Inv, Told, [Next]_vars
    PROVE  Told'
<1>1. /\ Typed /\ row \in Row /\ seen \in History
  BY DEF Inv, Typed
<1>2. CASE UNCHANGED vars
  BY <1>2, SameTold DEF vars
<1>3. CASE Next
  <2>1. CASE \E o \in Orders : RenewByOrder(o)
    BY <2>1, RenewTold
  <2>2. CASE \E b \in Promos : RedeemPromo(b)
    BY <2>2, BonusTold DEF RedeemPromo, Bonuses
  <2>3. CASE \E b \in Rewards : ClaimReward(b)
    BY <2>3, BonusTold DEF ClaimReward, Bonuses
  <2>4. CASE RegisterTrial
    BY <2>4, TrialTold
  <2>5. CASE \E g \in Grants : Grant(g)
    BY <2>5, GrantTold
  <2>6. CASE Enable \/ Disable \/ RetryFailed \/ RetryComesDue \/ DisableExpired
    <3>2. row'.noted = row.noted
      BY <1>1, <2>6 DEF Enable, Disable, RetryFailed, RetryComesDue, DisableExpired, Row
    <3>3. seen'.sent = seen.sent /\ seen'.repeated = seen.repeated
      BY <1>1, <2>6 DEF Enable, Disable, RetryFailed, RetryComesDue, DisableExpired, SwitchedOff, History
    <3> QED
      BY <3>2, <3>3, SameTold
  <2>7. CASE RetryActivation
    <3>1. PICK out \in Provisioned(row, RetryKey) : Commit(out, seen) \/ Lost(out)
      BY <2>7 DEF RetryActivation
    <3>2. out.row.noted = row.noted
      BY <1>1, <3>1, PushKeepsNoted
    <3> QED
      BY <1>1, <3>1, <3>2, PushTold, RollBackTold
  <2>12. CASE RetryPaid
    <3>1. PICK out \in HeldServed(OrderKey(worker.held.order)) : Commit(out, seen) \/ Lost(out)
      BY <2>12 DEF RetryPaid, OrderKey
    <3>2. out.row.noted = row.noted
      BY <2>12, <3>1, PaidIsHeld, HeldFits
    <3> QED
      BY <1>1, <3>1, <3>2, PushTold, RollBackTold
  <2>8. CASE SyncStore
    <3>1. row'.noted = row.noted
      BY <1>1, <2>8 DEF SyncStore, Row
    <3>2. seen'.sent = seen.sent /\ seen'.repeated = seen.repeated
      BY <1>1, <2>8 DEF SyncStore, History
    <3> QED
      BY <3>1, <3>2, SameTold
  <2>9. CASE AnnounceExpiry \/ NotifyActivation \/ NotifyPending
    <3>2. \/ UNCHANGED <<row, seen>>
          \/ \E kind \in {ExpiryKind, "active"}, stored \in BOOLEAN :
               NotSentYet(kind) /\ Send(kind, stored)
      BY <2>9 DEF AnnounceExpiry, NotifyActivation, NotifyPending, Deliver
    <3> QED
      BY <1>1, <3>2, SendTold, SameTold
  <2>10. CASE Remind
    <3>2. \/ UNCHANGED <<row, seen>>
          \/ \E stored \in BOOLEAN : NotSentYet(reminder) /\ Send(reminder, stored)
          \/ /\ row' = [row EXCEPT !.noted = @ \cup {reminder}]
             /\ seen' = [seen EXCEPT !.sent = @ \cup {reminder}]
      BY <2>10 DEF Remind, StillDue
    <3>3. CASE /\ row' = [row EXCEPT !.noted = @ \cup {reminder}]
               /\ seen' = [seen EXCEPT !.sent = @ \cup {reminder}]
      <4>1. row'.noted = row.noted \cup {reminder}
        BY <1>1, <3>3 DEF Row
      <4>2. seen'.sent = seen.sent \cup {reminder} /\ seen'.repeated = seen.repeated
        BY <1>1, <3>3 DEF History
      <4> QED
        BY <4>1, <4>2 DEF Told
    <3> QED
      BY <1>1, <3>2, <3>3, SendTold, SameTold
  <2>11. CASE \/ CheckTrial \/ BarTrial \/ (\E kind \in Kinds : SelectReminder(kind))
              \/ Select \/ DisableFails \/ SyncLoad \/ SyncAsk \/ Tick \/ Restart \/ Configure
    <3>1. UNCHANGED <<row, seen>>
      BY <2>11 DEF CheckTrial, BarTrial, SelectReminder, Select, DisableFails, SyncLoad, SyncAsk,
                   Tick, Restart, Configure
    <3> QED
      BY <3>1, SameTold
  <2> QED
    BY <1>3, <2>1, <2>2, <2>3, <2>4, <2>5, <2>6, <2>7, <2>8, <2>9, <2>10, <2>11, <2>12 DEF Next
<1> QED
  BY <1>2, <1>3

-----------------------------------------------------------------------------
(* Terms that are cut *)

\* the step leaves an expired row at its term, or it is the worker's, at a row it has
\* selected, whose term goes on
CutByTheWorker ==
    row'.status = "expired" /\ row'.until > now' =>
        \/ row.status = "expired" /\ row.until = row'.until
        \/ At("disable") /\ worker.selected /\ row.until > now

\* Whatever moves a term takes the row out of "expired", with a push that goes through, fails
\* or is not tried: only the worker, at a row it selected before its renewal, writes
\* "expired" on a row that has not ended.
CutByTheWorkerOnly == [][CutByTheWorker]_vars

\* a push never leaves the row expired
LEMMA PushReopens ==
    ASSUME Typed, NEW r \in Row, NEW key,
           NEW out \in Provisioned(r, key) \cup Served(r, key) \cup Unavailable(r)
    PROVE  out.row.status # "expired"
<1>1. Tried(r) \in Row
  BY RowsFit DEF RowFits
<1>2. /\ Activated(r).status = "active" /\ SavedRemote(r).status = "active"
      /\ NotActivated(r).status = "activation_failed"
      /\ NotActivated(Tried(r)).status = "activation_failed"
  BY RowsFit
<1>3. ASSUME NEW q \in Row, out \in Unavailable(q)
      PROVE  out.row.status # "expired"
  <2>1. out.row = [q EXCEPT !.status = "activation_failed"]
    BY <1>3 DEF Unavailable, Result
  <2> QED
    BY <2>1 DEF Row
<1>4. ASSUME out \in Provisioned(r, key)
      PROVE  out.row \in {NotActivated(r), Activated(r), SavedRemote(r), NotActivated(Tried(r))}
  <2>1. CASE out \in {Result(NotActivated(r), panel, "unset"), Result(Activated(r), panel, "old key")}
    <3>1. ASSUME NEW q, NEW what
          PROVE  Result(q, panel, what).row = q
      BY DEF Result
    <3> QED
      BY <2>1, <3>1
  <2>2. CASE out = Completed(r, key)
    BY <2>2 DEF Completed, Result
  <2>3. CASE out \in Failed(r, key)
    <3>1. PICK p \in {panel, Pushed(r)} :
            out = [Result(NotActivated(Tried(r)), p, "failed")
                      EXCEPT !.failed = Append(Without(@, key), key)]
      BY <2>3 DEF Failed
    <3> QED
      BY <3>1 DEF Result
  <2> QED
    BY <1>4, <2>1, <2>2, <2>3 DEF Provisioned
<1> QED
  BY <1>1, <1>2, <1>3, <1>4 DEF Served

\* every step keeps to it
LEMMA NextCuts == Inv /\ [Next]_vars => [CutByTheWorker]_vars
<1> SUFFICES ASSUME Inv, Next PROVE CutByTheWorker
  OBVIOUS
<1>0. /\ Typed /\ row \in Row /\ now \in Nat /\ GrantDays \in Nat
  BY RenewalAssumption DEF Inv, Typed
<1> DEFINE Stays == row'.status = row.status /\ row'.until = row.until
<1>1. row'.status # "expired" => CutByTheWorker
  BY DEF CutByTheWorker
<1>2. Stays => CutByTheWorker
  BY DEF CutByTheWorker
<1>3. row' = row => CutByTheWorker
  BY DEF CutByTheWorker
<1>4. ASSUME NEW r \in Row, NEW key, NEW h,
             NEW out \in Provisioned(r, key) \cup Served(r, key) \cup Unavailable(r),
             Commit(out, h) \/ Lost(out)
      PROVE  CutByTheWorker
  BY <1>0, <1>1, <1>3, <1>4, PushReopens DEF Commit, Lost
<1>5. ASSUME NEW o \in Orders, RenewByOrder(o)
      PROVE  CutByTheWorker
  <2> DEFINE known == Exists /\ setup = "complete" /\ <<"order", o>> \in done
             r == IF Exists /\ row.order = o THEN row ELSE Extension(o)
             outs == IF known THEN {Result(row, panel, "known")} ELSE Served(r, OwnKey(r))
  <2>1. PICK out \in outs : (\E h : Commit(out, h)) \/ Lost(out)
    BY <1>5 DEF RenewByOrder, RollBack
  <2>2. CASE known
    <3>1. out.row = row
      BY <2>1, <2>2 DEF Result
    <3> QED
      BY <1>3, <2>1, <3>1 DEF Commit, Lost
  <2>3. CASE ~known
    <3>1. r \in Row
      BY <1>0, ExtensionIsRow DEF Inv
    <3>2. out \in Served(r, OwnKey(r))
      BY <2>1, <2>3
    <3> HIDE DEF r
    <3> QED
      BY <1>4, <2>1, <3>1, <3>2
  <2> QED
    BY <2>2, <2>3
<1>6. ASSUME NEW b \in Bonuses, RedeemBonus(b)
      PROVE  CutByTheWorker
  <2>1. BonusTerm \in Row
    BY BonusTermIsRow DEF Inv
  <2> QED
    BY <1>4, <1>6, <2>1 DEF RedeemBonus, RollBack
<1>7. CASE RegisterTrial
  <2>1. TrialRow \in Row
    BY <1>0, TrialRowIsRow
  <2>2. PICK out \in Served(TrialRow, OwnKey(TrialRow)) :
          (\E h : Commit(out, h)) \/ Lost(out)
    BY <1>7 DEF RegisterTrial, RollBack
  <2> QED
    BY <1>4, <2>1, <2>2
<1>8. ASSUME NEW g \in Grants, Grant(g)
      PROVE  CutByTheWorker
  <2> DEFINE r == IF ~Exists THEN NewRow("admin", GrantDays)
                  ELSE [row EXCEPT !.until = Later(@, now) + GrantDays, !.source = "admin",
                                   !.noted = @ \ {"active"}]
  <2>1. PICK out \in Provisioned(r, <<"admin", r.until>>) \cup Unavailable(r) :
          (\E h : Commit(out, h)) \/ Lost(out)
    BY <1>8 DEF Grant, RollBack
  <2>2. r \in Row
    <3>1. CASE Exists
      <4>1. Later(row.until, now) + GrantDays \in Nat
        BY <1>0 DEF Later, Row
      <4> QED
        BY <1>0, <3>1, <4>1 DEF Row, Sources
    <3>2. CASE ~Exists
      BY <1>0, <3>2, NewRowIsRow DEF Sources
    <3> QED
      BY <3>1, <3>2
  <2> HIDE DEF r
  <2> QED
    BY <1>4, <2>1, <2>2
<1>9. CASE RetryActivation
  BY <1>0, <1>4, <1>9 DEF RetryActivation
<1>15. CASE RetryPaid
  <2>1. PICK out \in HeldServed(OrderKey(worker.held.order)) : Commit(out, seen) \/ Lost(out)
    BY <1>15 DEF RetryPaid, OrderKey
  <2>2. /\ out.row.status \in {row.status, "active", "activation_failed"}
        /\ out.row.until = row.until
    BY <1>15, <2>1, PaidIsHeld, HeldFits DEF RowFits
  <2> QED
    BY <1>1, <1>2, <1>3, <2>1, <2>2 DEF Commit, Lost
<1>10. CASE DisableExpired
  <2>1. row'.until = row.until /\ now' = now
    BY <1>0, <1>10 DEF DisableExpired, Row
  <2> QED
    BY <1>10, <2>1 DEF DisableExpired, Working, CutByTheWorker
<1>11. CASE Enable \/ Disable
  <2>1. row'.status # "expired"
    BY <1>0, <1>11 DEF Enable, Disable, Row
  <2> QED
    BY <1>1, <2>1
<1>12. CASE RetryFailed \/ RetryComesDue \/ SyncStore
  <2>1. Stays
    BY <1>0, <1>12 DEF RetryFailed, RetryComesDue, SyncStore, Row
  <2> QED
    BY <1>2, <2>1
<1>13. CASE AnnounceExpiry \/ NotifyActivation \/ NotifyPending \/ Remind
  <2>1. row' = row \/ \E noted : row' = [row EXCEPT !.noted = noted]
    BY <1>13 DEF AnnounceExpiry, NotifyActivation, NotifyPending, Remind, Deliver, Send
  <2>2. Stays
    BY <1>0, <2>1 DEF Row
  <2> QED
    BY <1>2, <2>2
<1>14. CASE \/ CheckTrial \/ BarTrial \/ (\E kind \in Kinds : SelectReminder(kind))
            \/ Select \/ DisableFails \/ SyncLoad \/ SyncAsk \/ Tick \/ Restart \/ Configure
  <2>1. row' = row
    BY <1>14 DEF CheckTrial, BarTrial, SelectReminder, Select, DisableFails, SyncLoad, SyncAsk,
                 Tick, Restart, Configure
  <2> QED
    BY <1>3, <2>1
<1> QED
  BY <1>5, <1>6, <1>7, <1>8, <1>9, <1>10, <1>11, <1>12, <1>13, <1>14, <1>15
     DEF Next, RedeemPromo, ClaimReward, Bonuses

-----------------------------------------------------------------------------
(* Theorems *)

LEMMA InitInv == Init => Inv
<1> SUFFICES ASSUME Init PROVE Inv
  OBVIOUS
<1>1. now = 0 /\ MaxTime \in Nat /\ Budget \in Nat /\ 0 \in 0..MaxTime /\ 0 \in 0..Budget /\ 0 \in 0..RetryLimit
  BY RenewalAssumption DEF Init
<1>2. row = [source |-> "none", status |-> "pending", prov |-> "not_started", until |-> 0,
             started |-> 0, order |-> None, attempts |-> 0, waits |-> FALSE,
             linked |-> FALSE, remote |-> "none", noted |-> {}]
  BY <1>1 DEF Init, NewRow
<1>3. row \in Row
  BY <1>1, <1>2 DEF Row, Sources, Statuses, ProvStatuses, Remotes, Notices
<1>4. panel \in Panel /\ sync \in [stage : Stage, prov : ProvStatuses, remote : Remotes, got : Panel]
  BY DEF Init, NoSync, NoUser, Stage, ProvStatuses, Remotes, Panel
<1>5. seen \in History /\ seen.owed = 0
  BY DEF Init, History, Slips, Notices
<1>6. /\ done = {} /\ failed \in Seq(Keys) /\ DOMAIN failed = {}
  BY EmptySeq DEF Init
<1>7. Typed
  <2>1. worker \in Workers /\ HoldsPaid
    BY RestingIsWorker DEF Init, HoldsPaid
  <2> QED
    BY <1>1, <1>3, <1>4, <1>5, <1>6, <2>1, RenewalAssumption DEF Init, Typed, TrialStates
<1>8. Known
  BY <1>2, <1>6 DEF Known, OnceEach, Distinct, KeysArePaid, Exists
<1>9. Promises
  <2>1. ActiveIsServed /\ FailedIsWithinReach
    BY <1>2 DEF ActiveIsServed, FailedIsWithinReach, Exists
  <2>2. NoDaysLost
    BY <1>2, <1>5 DEF NoDaysLost
  <2> QED
    BY <2>1, <2>2 DEF Promises
<1> QED
  BY <1>7, <1>8, <1>9 DEF Inv

LEMMA NextInv == Inv /\ [Next]_vars => Inv'
<1> SUFFICES ASSUME Inv, [Next]_vars PROVE Inv'
  OBVIOUS
<1>1. CASE UNCHANGED vars
  <2>1. Aside' /\ UNCHANGED <<row, panel, ops, seen>> /\ paid \subseteq paid'
        /\ now' = now /\ spent' = spent
    BY <1>1 DEF vars, Inv, Typed, Promises, HoldsPaid, Aside, ops
  <2>2. now' \in 0..MaxTime /\ now' >= now /\ spent' \in 0..Budget
    BY <2>1 DEF Inv, Typed
  <2> QED
    BY <2>1, <2>2, PlainStep
<1>2. CASE Next
  <2>1. CASE \E o \in Orders : RenewByOrder(o)
    BY <2>1, RenewStep
  <2>2. CASE \E b \in Promos : RedeemPromo(b)
    BY <2>2, BonusStep DEF RedeemPromo, Bonuses
  <2>3. CASE \E b \in Rewards : ClaimReward(b)
    BY <2>3, BonusStep DEF ClaimReward, Bonuses
  <2>4. CASE RegisterTrial
    BY <2>4, RegisterTrialStep
  <2>5. CASE \E g \in Grants : Grant(g)
    BY <2>5, GrantStep
  <2>6. CASE Enable \/ Disable \/ RetryFailed
    BY <2>6, ByHandStep
  <2>7. CASE RetryActivation
    BY <2>7, RetryStep
  <2>12. CASE RetryPaid
    BY <2>12, RetryPaidStep
  <2>8. CASE DisableExpired
    BY <2>8, DisableStep
  <2>9. CASE SyncStore
    BY <2>9, SyncStoreStep
  <2>10. CASE \/ Select \/ RetryComesDue \/ DisableFails
              \/ AnnounceExpiry \/ NotifyActivation \/ NotifyPending \/ Remind
    BY <2>10, QuietSteps
  <2>11. CASE \/ CheckTrial \/ BarTrial \/ (\E kind \in Kinds : SelectReminder(kind))
              \/ SyncLoad \/ SyncAsk \/ Tick \/ Restart \/ Configure
    BY <2>11, PlainSteps
  <2> QED
    BY <1>2, <2>1, <2>2, <2>3, <2>4, <2>5, <2>6, <2>7, <2>8, <2>9, <2>10, <2>11, <2>12 DEF Next
<1> QED
  BY <1>1, <1>2

\* The invariant holds of every behaviour.
THEOREM AlwaysInv == Spec => []Inv
<1>1. Init => Inv
  BY InitInv
<1>2. Inv /\ [Next]_vars => Inv'
  BY NextInv
<1> QED
  BY <1>1, <1>2, PTL DEF Spec

\* Every column keeps to its values, and no operation is completed and failed at once.
THEOREM TypeCorrect == Spec => []TypeOK
<1>1. Inv => TypeOK
  <2> SUFFICES ASSUME Inv PROVE TypeOK
    OBVIOUS
  <2>1. DOMAIN Stages = 1..5
    BY DEF Stages
  <2>2. done \cap ToSet(failed) = {}
    BY DEF ToSet, Inv, Known, OnceEach
  <2>3. Typed
    BY DEF Inv
  <2> QED
    BY <2>1, <2>2, <2>3 DEF TypeOK, Typed, Row, Panel, Workers, Held
<1> QED
  BY <1>1, AlwaysInv, PTL

\* A row that reads active and has not ended is served by the panel until its end at least,
\* whatever the handlers, the worker and the synchronisation did, but for the five ways out.
THEOREM ActiveServed == Spec => []ActiveIsServed
<1>1. Inv => ActiveIsServed
  BY DEF Inv, Promises
<1> QED
  BY <1>1, AlwaysInv, PTL

\* No order, redemption, grant or trial takes away days the user was given before.
THEOREM DaysAddUp == Spec => []NoDaysLost
<1>1. Inv => NoDaysLost
  BY DEF Inv, Promises
<1> QED
  BY <1>1, AlwaysInv, PTL

\* A failed activation is with the worker or within the administrator's reach.
THEOREM FailureIsFound == Spec => []FailedIsWithinReach
<1>1. Inv => FailedIsWithinReach
  BY DEF Inv, Promises
<1> QED
  BY <1>1, AlwaysInv, PTL

\* No notice that was noted is sent again within its term, whichever handler, worker or
\* reminder sends it and however often the term is moved.
THEOREM NoticesAreToldOnce == Spec => []ToldOnce
<1>1. Init => Told
  BY DEF Init, Told
<1>2. Inv /\ Told /\ [Next]_vars => Told'
  BY NextTold
<1>3. Told => ToldOnce
  BY DEF Told, ToldOnce
<1> QED
  BY <1>1, <1>2, <1>3, AlwaysInv, PTL DEF Spec

\* A renewed row is switched off by the worker only, which selected it before it was renewed
\* and does not look again; and whatever renews a row takes it out of "expired".
THEOREM OnlyTheWorkerCuts == Spec => CutByTheWorkerOnly
BY NextCuts, AlwaysInv, PTL DEF Spec, CutByTheWorkerOnly
=============================================================================
