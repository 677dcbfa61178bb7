---------------------------- MODULE SupportProofs ----------------------------
(***************************************************************************)
(* What holds of Support for every number of users, handlers, topics and   *)
(* failures.  The first layer of the invariant holds with or without the   *)
(* lock of a user; the second is what the lock is for, as long as it does  *)
(* not expire under a handler.                                             *)
(***************************************************************************)
EXTENDS Support, SequenceTheorems, TLAPS

-----------------------------------------------------------------------------
(* The inductive invariant *)

Topic == [user : Users, open : BOOLEAN, card : BOOLEAN, content : BOOLEAN]

\* what each variable is
Typed ==
    /\ case \in [Users -> [mode : {"none", "waiting", "active"}, topic : 0 .. MaxTopics,
                           card : BOOLEAN]]
    /\ legacy \in [Users -> BOOLEAN]
    /\ owner \in [TopicIds -> Users \cup {None}]
    /\ lock \in [Users -> Tasks \cup {None, Crashed}]
    /\ topics \in Seq(Topic) /\ Len(topics) <= MaxTopics
    /\ notices \subseteq DOMAIN topics
    /\ tasks \in [Tasks -> Task]
    /\ spent \in 0 .. MaxSpent
    /\ seen \in [Users -> [expired : BOOLEAN, lost : BOOLEAN]]

\* what a handler is about to do, perhaps once it has the lock
Aim(k) == IF tasks[k].pc = "lock" THEN tasks[k].next ELSE tasks[k].pc

\* topic t was opened for user u
Of(t, u) == t \in DOMAIN topics /\ topics[t].user = u

Sending == {"card", "post", "mark", "copy", "complete"}
Clearing == {"clear", "clear closed", "delete"}
WithoutTopic == {"idle", "restore", "restore enter", "begin", "enter", "check", "find", "create"}

\* a handler works on a topic of its user; it clears only what is closed, and writes to a topic
\* that is mapped or closed
TaskOwn(k) ==
    LET u == tasks[k].user
        t == tasks[k].topic
    IN
    /\ IF tasks[k].pc = "idle" THEN tasks[k] = Idle ELSE u \in Users
    /\ tasks[k].pc = "lock" => tasks[k].next \in {"begin", "check", "recheck", "clear", "clear closed"}
    /\ tasks[k].pc \in {"restore", "restore enter"} => legacy[u]
    /\ Aim(k) \notin WithoutTopic => Of(t, u)
    /\ Aim(k) \in Clearing => ~topics[t].open
    /\ Aim(k) \in Sending => (topics[t].open => owner[t] = u)

\* everything that refers to a topic refers to one of the same user
Belongs ==
    /\ \A u \in Users : case[u].topic # NoTopic => Of(case[u].topic, u)
    /\ \A t \in TopicIds : owner[t] # None => Of(t, owner[t])
    /\ \A t \in notices : ~topics[t].open
    /\ \A k \in Tasks : TaskOwn(k)
    /\ Answerable

\* the lock of the user has not expired under a handler
Safe(u) == u \in Users /\ ~seen[u].expired

\* a handler inside its block has the lock, and what it has read still holds
TaskLock(k) ==
    LET u == tasks[k].user
        t == tasks[k].topic
    IN
    Safe(u) =>
        /\ tasks[k].pc \in Locked => lock[u] = k
        /\ tasks[k].pc \in {"create", "bind"} => case[u].topic = NoTopic
        /\ tasks[k].pc \in Sending \cup {"map"} => case[u].topic = t
        /\ tasks[k].pc \in Sending \cup {"find", "map", "create", "bind"} => case[u].mode # "none"
        /\ tasks[k].pc \in Sending \ {"card", "post"} => topics[t].card
        /\ tasks[k].pc = "enter" => case[u].mode # "active"
        /\ tasks[k].pc = "delete" => case[u].topic = t

\* a lock is that of a handler inside its block
HoldersWork ==
    \A u \in Users : lock[u] \in Tasks => tasks[lock[u]].user = u /\ tasks[lock[u]].pc \in Locked

\* the card that Redis knows of is in the topic
CardIsThere ==
    \A u \in Users : Safe(u) /\ case[u].topic # NoTopic /\ case[u].card =>
        topics[case[u].topic].card

Apart ==
    /\ HoldersWork
    /\ \A k \in Tasks : TaskLock(k)
    /\ MappedBothWays
    /\ CardFirst
    /\ CardIsThere

-----------------------------------------------------------------------------
(* Handlers and topics *)

\* a handler has read something in Redis: it goes on, waits for the lock, or ends
Looks(k) ==
    \/ Check(k) \/ LookForCard(k) \/ Recheck(k) \/ BeginCase(k) \/ ClearCase(k)
    \/ ClearClosed(k) \/ Restore(k)

\* where it goes
Onward(k, pc) ==
    /\ Goto(k, pc)
    /\ \/ tasks[k].pc = "check" /\ pc = "find"
       \/ tasks[k].pc = "card" /\ pc \in {"post", "copy"}
       \/ tasks[k].pc = "recheck" /\ pc = "shut"
       \/ tasks[k].pc = "begin" /\ pc = "enter"
       \/ tasks[k].pc \in {"clear", "clear closed"} /\ pc = "delete"
       \/ tasks[k].pc = "restore" /\ pc = "restore enter"

\* and what it has read
HasRead(k, pc) ==
    LET u == tasks[k].user
        t == tasks[k].topic
    IN
    /\ pc = "find" => case[u].mode # "none"
    /\ pc = "copy" => case[u].card
    /\ pc = "enter" => case[u].mode # "active"
    /\ pc = "delete" => case[u].topic = t

LEMMA LooksOnward ==
    ASSUME NEW k \in Tasks, Looks(k)
    PROVE  /\ UNCHANGED <<case, legacy, owner, topics, notices, spent, seen>>
           /\ tasks[k].pc # "idle" /\ tasks[k].pc # "lock"
           /\ \/ End(k)
              \/ Queue(k, "check") /\ tasks[k].pc = "restore" /\ lock' = lock
              \/ \E pc \in Places \ {"idle", "lock"} :
                    Onward(k, pc) /\ HasRead(k, pc) /\ lock' = lock
<1>1. /\ "find" \in Places /\ "post" \in Places /\ "copy" \in Places /\ "shut" \in Places
      /\ "enter" \in Places /\ "delete" \in Places /\ "restore enter" \in Places
  BY DEF Places, Locked
<1>2. CASE Check(k)
  BY <1>1, <1>2 DEF Check, IsOpen, Onward, HasRead
<1>3. CASE LookForCard(k)
  BY <1>1, <1>3 DEF LookForCard, NeedsCard, Onward, HasRead
<1>4. CASE Recheck(k)
  BY <1>1, <1>4 DEF Recheck, Onward, HasRead
<1>5. CASE BeginCase(k)
  BY <1>1, <1>5 DEF BeginCase, Onward, HasRead
<1>6. CASE ClearCase(k)
  BY <1>1, <1>6 DEF ClearCase, IsExpected, Onward, HasRead
<1>7. CASE ClearClosed(k)
  BY <1>1, <1>7 DEF ClearClosed, IsExpected, Onward, HasRead
<1>8. CASE Restore(k)
  BY <1>1, <1>8 DEF Restore, Onward, HasRead
<1> QED
  BY <1>2, <1>3, <1>4, <1>5, <1>6, <1>7, <1>8 DEF Looks

\* a handler goes on, and the others have not moved
Becomes(k, r) ==
    /\ tasks' \in [Tasks -> Task]
    /\ tasks'[k] = r
    /\ \A j \in Tasks \ {k} : tasks'[j] = tasks[j]

\* any record of a handler may take the place of another
LEMMA TaskSet ==
    ASSUME Typed, NEW k \in Tasks, NEW r \in Task, tasks' = [tasks EXCEPT ![k] = r]
    PROVE  Becomes(k, r)
BY DEF Typed, Becomes

\* a handler goes to its next place
LEMMA Gone ==
    ASSUME Typed, NEW k \in Tasks, NEW pc \in Places, Goto(k, pc)
    PROVE  Becomes(k, [tasks[k] EXCEPT !.pc = pc])
<1>1. tasks[k] \in Task
  BY DEF Typed
<1>2. [tasks[k] EXCEPT !.pc = pc] \in Task
  BY <1>1 DEF Task
<1> QED
  BY <1>2, TaskSet DEF Goto

\* a handler waits for the lock
LEMMA Queued ==
    ASSUME Typed, NEW k \in Tasks, NEW next \in Places, Queue(k, next)
    PROVE  Becomes(k, [tasks[k] EXCEPT !.pc = "lock", !.next = next])
<1>1. tasks[k] \in Task /\ "lock" \in Places
  BY DEF Typed, Places
<1>2. [tasks[k] EXCEPT !.pc = "lock", !.next = next] \in Task
  BY <1>1 DEF Task
<1> QED
  BY <1>2, TaskSet DEF Queue

\* the slot of a handler is free again, and so is its lock
LEMMA EndsIdle ==
    ASSUME Typed, NEW k \in Tasks, End(k)
    PROVE  /\ Becomes(k, Idle)
           /\ lock' \in [Users -> Tasks \cup {None, Crashed}]
           /\ \A u \in Users : lock'[u] = IF lock[u] = k THEN None ELSE lock[u]
<1>1. Idle \in Task
  <2>1. "idle" \in Places /\ NoTopic \in 0 .. MaxTopics
    BY SupportAssumption DEF Places, NoTopic
  <2> QED
    BY <2>1 DEF Idle, Task
<1>2. Becomes(k, Idle)
  BY <1>1, TaskSet DEF End
<1> QED
  BY <1>2 DEF End, Released, Typed

\* a failure is counted
LEMMA Spent ==
    ASSUME Typed, Spend
    PROVE  spent' \in 0 .. MaxSpent
<1>1. spent \in 0 .. MaxSpent /\ MaxSpent \in Nat
  BY SupportAssumption DEF Typed
<1> QED
  BY <1>1 DEF Spend

\* topics come, close and get cards, and never change their user
Grows ==
    /\ topics' \in Seq(Topic) /\ Len(topics') <= MaxTopics
    /\ \A t \in DOMAIN topics :
         /\ t \in DOMAIN topics'
         /\ topics'[t].user = topics[t].user
         /\ topics'[t].open => topics[t].open
         /\ topics[t].card => topics'[t].card

\* an open topic that is mapped stays so
Keeps ==
    \A t \in DOMAIN topics : topics'[t].open /\ owner[t] = topics[t].user => owner'[t] = owner[t]

\* topics that are left as they are
LEMMA SameTopics ==
    ASSUME Typed, topics' = topics
    PROVE  Grows
BY DEF Typed, Grows

\* one topic that is closed, or gets its card or a message
LEMMA TopicSet ==
    ASSUME Typed, NEW t \in DOMAIN topics, NEW r \in Topic,
           r.user = topics[t].user, r.open => topics[t].open, topics[t].card => r.card,
           topics' = [topics EXCEPT ![t] = r]
    PROVE  /\ Grows
           /\ DOMAIN topics' = DOMAIN topics
           /\ topics'[t] = r
           /\ \A i \in DOMAIN topics \ {t} : topics'[i] = topics[i]
<1>1. topics \in Seq(Topic) /\ DOMAIN topics = 1 .. Len(topics) /\ Len(topics) <= MaxTopics
  BY DEF Typed
<1>2. /\ topics' \in Seq(Topic)
      /\ Len(topics') = Len(topics)
      /\ \A i \in 1 .. Len(topics) : topics'[i] = IF i = t THEN r ELSE topics[i]
  BY <1>1, ExceptSeq, Zenon
<1>3. DOMAIN topics' = 1 .. Len(topics')
  BY <1>2
<1> QED
  BY <1>1, <1>2, <1>3 DEF Grows

\* the fields of a topic that is closed, or written to
LEMMA TopicFields ==
    ASSUME Typed, NEW t \in DOMAIN topics
    PROVE  /\ topics[t] \in Topic
           /\ [topics[t] EXCEPT !.open = FALSE] \in Topic
           /\ [topics[t] EXCEPT !.card = TRUE] \in Topic
           /\ [topics[t] EXCEPT !.content = TRUE] \in Topic
<1>1. topics[t] \in Topic
  BY DEF Typed
<1> QED
  BY <1>1 DEF Topic

\* the user of a topic
LEMMA TopicUser ==
    ASSUME Typed, NEW t \in DOMAIN topics
    PROVE  topics[t].user \in Users
BY TopicFields DEF Topic

\* topics that are opened are appended, open and empty
LEMMA TopicsOpened ==
    ASSUME Typed, NEW u \in Users, NEW n \in 0 .. 2, Admitted(n), topics' = Opened(u, n)
    PROVE  /\ Grows
           /\ DOMAIN topics' = 1 .. (Len(topics) + n)
           /\ \A t \in DOMAIN topics : topics'[t] = topics[t]
           /\ \A t \in DOMAIN topics' \ DOMAIN topics : topics'[t].user = u /\ ~topics'[t].content
<1> DEFINE new == [user |-> u, open |-> TRUE, card |-> FALSE, content |-> FALSE]
           added == [i \in 1 .. n |-> new]
<1>1. topics \in Seq(Topic) /\ DOMAIN topics = 1 .. Len(topics) /\ Len(topics) \in Nat
  BY DEF Typed
<1>2. new \in Topic
  BY DEF Topic
<1>3. added \in Seq(Topic) /\ Len(added) = n /\ \A i \in 1 .. n : added[i] = new
  <2> HIDE DEF new
  <2> QED
    BY <1>2
<1>4. topics' = topics \o added
  BY DEF Opened
<1> HIDE DEF added
<1>5. /\ topics' \in Seq(Topic)
      /\ Len(topics') = Len(topics) + n
      /\ \A i \in 1 .. Len(topics) + n :
           topics'[i] = IF i <= Len(topics) THEN topics[i] ELSE added[i - Len(topics)]
  BY <1>1, <1>3, <1>4, ConcatProperties
<1>6. DOMAIN topics' = 1 .. (Len(topics) + n)
  BY <1>5
<1>7. \A t \in DOMAIN topics : topics'[t] = topics[t] /\ t \in DOMAIN topics'
  BY <1>1, <1>5, <1>6
<1>8. \A t \in DOMAIN topics' \ DOMAIN topics : topics'[t] = new
  BY <1>1, <1>3, <1>5, <1>6
<1>9. Len(topics') <= MaxTopics
  BY <1>5 DEF Admitted
<1> QED
  BY <1>5, <1>6, <1>7, <1>8, <1>9 DEF Grows

-----------------------------------------------------------------------------
(* The first layer *)

\* topic t will be that of user u
OfThen(t, u) == t \in DOMAIN topics' /\ topics'[t].user = u

\* what is left alone belongs together as before, and what is new must
LEMMA BelongsStep ==
    ASSUME Typed, Belongs, Grows, Keeps, legacy' = legacy,
           \A k \in Tasks : tasks'[k] = tasks[k] \/ TaskOwn(k)',
           \A u \in Users : \/ case'[u].topic \in {case[u].topic, NoTopic}
                           \/ OfThen(case'[u].topic, u),
           \A t \in TopicIds : owner'[t] \in {owner[t], None} \/ OfThen(t, owner'[t]),
           \A t \in notices' : t \in notices \/ ~topics'[t].open,
           \A t \in DOMAIN topics' : topics'[t].open /\ topics'[t].content =>
               \/ t \in DOMAIN topics /\ topics[t].content
               \/ owner'[t] = topics'[t].user
    PROVE  Belongs'
<1>1. \A t \in DOMAIN topics : \A u : Of(t, u) => OfThen(t, u)
  BY DEF Grows, Of, OfThen
<1>2. \A u \in Users : case'[u].topic # NoTopic => OfThen(case'[u].topic, u)
  BY <1>1 DEF Belongs, Of
<1>3. \A t \in TopicIds : owner'[t] # None => OfThen(t, owner'[t])
  BY <1>1 DEF Belongs, Of
<1>4. \A t \in notices' : ~topics'[t].open
  BY DEF Belongs, Grows, Typed
<1>5. ASSUME NEW k \in Tasks
      PROVE  TaskOwn(k)'
  <2>1. CASE tasks'[k] = tasks[k]
    <3> DEFINE u == tasks[k].user
               t == tasks[k].topic
    <3>1. TaskOwn(k)
      BY DEF Belongs
    <3>2. Aim(k)' = Aim(k)
      BY <2>1 DEF Aim
    <3>3. Aim(k) \notin WithoutTopic => Of(t, u) /\ OfThen(t, u)
      BY <1>1, <3>1 DEF TaskOwn, Of
    <3>4. Aim(k) \in Clearing => ~topics'[t].open
      BY <3>1, <3>3 DEF TaskOwn, Of, Grows, Clearing, WithoutTopic
    <3>5. Aim(k) \in Sending /\ topics'[t].open => owner'[t] = u
      <4>1. Aim(k) \in Sending => Aim(k) \notin WithoutTopic
        BY DEF Sending, WithoutTopic
      <4> SUFFICES ASSUME Aim(k) \in Sending, topics'[t].open
                   PROVE  owner'[t] = u
        OBVIOUS
      <4>2. t \in DOMAIN topics /\ topics[t].user = u /\ topics[t].open
        BY <3>3, <4>1 DEF Of, Grows
      <4>3. owner[t] = u
        BY <3>1, <4>2 DEF TaskOwn
      <4> QED
        BY <4>2, <4>3 DEF Keeps
    <3> QED
      BY <2>1, <3>1, <3>2, <3>3, <3>4, <3>5 DEF TaskOwn, Of, OfThen
  <2> QED
    BY <2>1
<1>6. Answerable'
  BY DEF Belongs, Answerable, RepliesTo, Grows, Keeps
<1> QED
  BY <1>2, <1>3, <1>4, <1>5, <1>6 DEF Belongs, Of, OfThen

\* a free slot refers to nothing
LEMMA IdleIsOwn ==
    ASSUME NEW k \in Tasks, tasks'[k] = Idle
    PROVE  TaskOwn(k)'
BY DEF TaskOwn, Idle, Aim, WithoutTopic, Clearing, Sending

\* a step that changes no topic and no reference to one
LEMMA QuietBelongs ==
    ASSUME Typed, Belongs, topics' = topics, owner' = owner, legacy' = legacy,
           \A u \in Users : case'[u].topic = case[u].topic,
           notices' \subseteq notices,
           \A k \in Tasks : tasks'[k] = tasks[k] \/ TaskOwn(k)'
    PROVE  Belongs'
<1>1. Grows /\ Keeps
  BY SameTopics DEF Keeps
<1>2. \A t \in DOMAIN topics' : topics'[t].open /\ topics'[t].content =>
        t \in DOMAIN topics /\ topics[t].content
  OBVIOUS
<1> QED
  BY <1>1, <1>2, BelongsStep

\* the handlers that have not moved, and the one that has
LEMMA MovedTasks ==
    ASSUME NEW k \in Tasks, NEW r, Becomes(k, r), TaskOwn(k)'
    PROVE  \A j \in Tasks : tasks'[j] = tasks[j] \/ TaskOwn(j)'
BY DEF Becomes

\* a handler comes: a message, the start, a button
LEMMA ComeStep ==
    ASSUME Typed, Belongs, NEW k \in Tasks,
           \/ \E u \in Users : Begin(k, u) \/ Write(k, u)
           \/ \E t \in DOMAIN topics : PressClose(k, t) \/ Notified(k, t)
    PROVE  Typed' /\ Belongs'
<1>1. /\ UNCHANGED <<case, legacy, owner, lock, topics, spent>>
      /\ notices' \subseteq notices
  BY DEF Begin, Write, PressClose, Notified
<1>2. seen' \in [Users -> [expired : BOOLEAN, lost : BOOLEAN]]
  <2>1. \A t \in DOMAIN topics : topics[t] \in Topic
    BY DEF Typed
  <2>2. seen \in [Users -> [expired : BOOLEAN, lost : BOOLEAN]]
    BY DEF Typed
  <2>3. CASE seen' = seen
    BY <2>2, <2>3
  <2>4. CASE seen' # seen
    <3>1. PICK t \in DOMAIN topics : seen' = [seen EXCEPT ![topics[t].user].lost = TRUE]
      BY <2>4 DEF Begin, Write, PressClose, Notified
    <3>2. topics[t].user \in Users
      BY <2>1 DEF Topic
    <3> QED
      BY <2>2, <3>1, <3>2
  <2> QED
    BY <2>3, <2>4
<1>3. \/ tasks' = tasks
      \/ \E r \in Task : /\ tasks' = [tasks EXCEPT ![k] = r]
                         /\ r.user \in Users
                         /\ \/ r.pc = "restore" /\ legacy[r.user]
                            \/ /\ r.pc = "lock"
                               /\ \/ r.next \in {"begin", "check"}
                                  \/ r.next = "recheck" /\ Of(r.topic, r.user)
                                  \/ /\ r.next = "clear closed"
                                     /\ Of(r.topic, r.user) /\ ~topics[r.topic].open
  <2>1. {"restore", "lock", "begin", "check", "recheck", "clear closed"} \subseteq Places
    BY DEF Places, Locked
  <2>2. NoTopic \in 0 .. MaxTopics
    BY SupportAssumption DEF NoTopic
  <2>3. CASE \E u \in Users : Begin(k, u)
    <3>1. PICK u \in Users : Begin(k, u)
      BY <2>3
    <3> DEFINE r == [Idle EXCEPT !.pc = "lock", !.next = "begin", !.user = u]
    <3>2. tasks' = [tasks EXCEPT ![k] = r]
      BY <3>1 DEF Begin
    <3>3. Idle \in [pc : {"idle"}, next : {"idle"}, user : {None}, topic : {NoTopic}]
      BY DEF Idle
    <3>4. r \in Task /\ r.pc = "lock" /\ r.next = "begin" /\ r.user = u
      BY <2>1, <2>2, <3>3 DEF Task
    <3> QED
      BY <3>2, <3>4
  <2>4. CASE \E u \in Users : Write(k, u)
    <3>1. PICK u \in Users : Write(k, u)
      BY <2>4
    <3>2. PICK pc \in {"lock", "restore"} :
            /\ pc = "restore" => legacy[u]
            /\ tasks' = [tasks EXCEPT ![k] = [pc |-> pc, next |-> "check", user |-> u,
                                              topic |-> NoTopic]]
      BY <3>1 DEF Write, Idle
    <3> DEFINE r == [pc |-> pc, next |-> "check", user |-> u, topic |-> NoTopic]
    <3>3. r \in Task
      BY <2>1, <2>2 DEF Task
    <3> QED
      BY <3>2, <3>3
  <2>5. CASE \E t \in DOMAIN topics : PressClose(k, t)
    <3>1. PICK t \in DOMAIN topics : PressClose(k, t)
      BY <2>5
    <3> DEFINE r == [pc |-> "lock", next |-> "recheck", user |-> owner[t], topic |-> t]
    <3>2. t \in TopicIds /\ t \in 0 .. MaxTopics
      BY SupportAssumption DEF Typed, TopicIds
    <3>3. Of(t, owner[t]) /\ owner[t] \in Users
      BY <3>1, <3>2 DEF Belongs, PressClose, Typed
    <3>4. r \in Task
      BY <2>1, <3>2, <3>3 DEF Task
    <3> QED
      BY <3>1, <3>3, <3>4 DEF PressClose
  <2>6. CASE \E t \in DOMAIN topics : Notified(k, t)
    <3>1. PICK t \in DOMAIN topics : Notified(k, t)
      BY <2>6
    <3> DEFINE r == [pc |-> "lock", next |-> "clear closed", user |-> owner[t], topic |-> t]
    <3>2. t \in TopicIds /\ t \in 0 .. MaxTopics
      BY SupportAssumption DEF Typed, TopicIds
    <3>3. ~topics[t].open
      BY <3>1 DEF Belongs, Notified
    <3>4. CASE owner[t] = None
      BY <3>1, <3>4 DEF Notified
    <3>5. CASE owner[t] # None
      <4>1. Of(t, owner[t]) /\ owner[t] \in Users
        BY <3>2, <3>5 DEF Belongs, Typed
      <4>2. r \in Task
        BY <2>1, <3>2, <4>1 DEF Task
      <4> QED
        BY <3>1, <3>3, <3>5, <4>1, <4>2 DEF Notified
    <3> QED
      BY <3>4, <3>5
  <2> QED
    BY <2>3, <2>4, <2>5, <2>6
<1>4. tasks' \in [Tasks -> Task] /\ \A j \in Tasks : tasks'[j] = tasks[j] \/ TaskOwn(j)'
  <2>1. CASE tasks' = tasks
    BY <2>1 DEF Typed
  <2>2. CASE tasks' # tasks
    <3>1. PICK r \in Task :
            /\ tasks' = [tasks EXCEPT ![k] = r]
            /\ r.user \in Users
            /\ \/ r.pc = "restore" /\ legacy[r.user]
               \/ /\ r.pc = "lock"
                  /\ \/ r.next \in {"begin", "check"}
                     \/ r.next = "recheck" /\ Of(r.topic, r.user)
                     \/ /\ r.next = "clear closed"
                        /\ Of(r.topic, r.user) /\ ~topics[r.topic].open
      BY <1>3, <2>2
    <3>2. Becomes(k, r)
      BY <3>1, TaskSet
    <3>3. TaskOwn(k)'
      BY <1>1, <3>1, <3>2
         DEF Becomes, TaskOwn, Aim, Of, Idle, WithoutTopic, Clearing, Sending
    <3> QED
      BY <3>2, <3>3, MovedTasks DEF Becomes
  <2> QED
    BY <2>1, <2>2
<1>5. Typed'
  BY <1>1, <1>2, <1>4 DEF Typed
<1>6. Belongs'
  BY <1>1, <1>4, QuietBelongs
<1> QED
  BY <1>5, <1>6

\* a handler gets its lock, gives it up, looks at Redis, or fails
LEMMA LookStep ==
    ASSUME Typed, Belongs, NEW k \in Tasks,
           Acquire(k) \/ GiveUp(k) \/ Fault(k) \/ Looks(k) \/ Find(k)
    PROVE  Typed' /\ Belongs'
<1>1. UNCHANGED <<case, legacy, owner, topics, notices>>
  BY LooksOnward DEF Acquire, GiveUp, Fault, Find
<1>2. TaskOwn(k) /\ tasks[k] \in Task
  BY DEF Typed, Belongs
<1>3. spent' \in 0 .. MaxSpent
  <2>1. spent' = spent \/ Spend
    BY LooksOnward DEF Acquire, GiveUp, Fault, Find
  <2> QED
    BY <2>1, Spent DEF Typed
<1>4. seen' \in [Users -> [expired : BOOLEAN, lost : BOOLEAN]]
  <2>1. seen \in [Users -> [expired : BOOLEAN, lost : BOOLEAN]]
    BY DEF Typed
  <2>2. seen' = seen \/ seen' = [seen EXCEPT ![tasks[k].user].lost = TRUE]
    BY LooksOnward DEF Acquire, GiveUp, Fault, Find
  <2> QED
    BY <2>1, <2>2
<1>5. CASE End(k)
  <2>1. /\ Becomes(k, Idle)
        /\ lock' \in [Users -> Tasks \cup {None, Crashed}]
    BY <1>5, EndsIdle
  <2>2. TaskOwn(k)'
    BY <2>1, IdleIsOwn DEF Becomes
  <2>3. Belongs'
    BY <1>1, <2>1, <2>2, MovedTasks, QuietBelongs
  <2> QED
    BY <1>1, <1>3, <1>4, <2>1, <2>3 DEF Typed, Becomes
<1>6. CASE Acquire(k)
  <2>1. tasks[k].pc = "lock" /\ tasks[k].next \in {"begin", "check", "recheck", "clear", "clear closed"}
    BY <1>2, <1>6 DEF Acquire, TaskOwn
  <2>2. Becomes(k, [tasks[k] EXCEPT !.pc = tasks[k].next])
    <3>1. tasks[k].next \in Places
      BY <1>2 DEF Task
    <3> QED
      BY <1>6, <3>1, Gone DEF Acquire
  <2>3. /\ tasks'[k].pc = tasks[k].next
        /\ tasks'[k].user = tasks[k].user
        /\ tasks'[k].topic = tasks[k].topic
    BY <1>2, <2>2 DEF Becomes, Task
  <2>4. TaskOwn(k)'
    BY <1>1, <1>2, <2>1, <2>3
       DEF TaskOwn, Aim, Of, WithoutTopic, Clearing, Sending
  <2>5. lock' \in [Users -> Tasks \cup {None, Crashed}]
    BY <1>6 DEF Acquire, Typed
  <2>6. Belongs'
    BY <1>1, <2>2, <2>4, MovedTasks, QuietBelongs
  <2> QED
    BY <1>1, <1>3, <1>4, <2>2, <2>5, <2>6 DEF Typed, Becomes
<1>7. CASE Find(k)
  <2> DEFINE t == case[tasks[k].user].topic
             pc == IF t = NoTopic THEN "create" ELSE "map"
             r == [tasks[k] EXCEPT !.topic = t, !.pc = pc]
  <2>1. /\ tasks[k].pc = "find"
        /\ lock' = lock
        /\ tasks' = [tasks EXCEPT ![k].topic = t, ![k].pc = pc]
    BY <1>7 DEF Find
  <2>2. tasks[k].user \in Users
    BY <1>2, <2>1 DEF TaskOwn
  <2>3. t \in 0 .. MaxTopics /\ pc \in Places
    BY <2>2 DEF Typed, Places, Locked
  <2>4. r \in Task
    BY <1>2, <2>3 DEF Task
  <2>5. tasks' = [tasks EXCEPT ![k] = r]
    <3>1. tasks \in [Tasks -> Task]
      BY DEF Typed
    <3> HIDE DEF t, pc
    <3> QED
      BY <1>2, <2>1, <3>1
  <2>6. Becomes(k, r)
    BY <2>4, <2>5, TaskSet
  <2>7. /\ tasks'[k].pc = pc
        /\ tasks'[k].user = tasks[k].user
        /\ tasks'[k].topic = t
    BY <1>2, <2>6 DEF Becomes, Task
  <2>8. t # NoTopic => Of(t, tasks[k].user)
    BY <2>2 DEF Belongs
  <2> HIDE DEF r
  <2>9. TaskOwn(k)'
    BY <1>1, <2>2, <2>7, <2>8
       DEF TaskOwn, Aim, Of, WithoutTopic, Clearing, Sending
  <2>10. Belongs'
    BY <1>1, <2>6, <2>9, MovedTasks, QuietBelongs
  <2> QED
    BY <1>1, <1>3, <1>4, <2>1, <2>6, <2>10 DEF Typed, Becomes
<1>8. CASE \E pc \in Places \ {"idle", "lock"} : Onward(k, pc) /\ lock' = lock
  <2>1. PICK pc \in Places \ {"idle", "lock"} : Onward(k, pc) /\ lock' = lock
    BY <1>8
  <2>2. Becomes(k, [tasks[k] EXCEPT !.pc = pc])
    BY <2>1, Gone DEF Onward
  <2>3. /\ tasks'[k].pc = pc
        /\ tasks'[k].user = tasks[k].user
        /\ tasks'[k].topic = tasks[k].topic
    BY <1>2, <2>2 DEF Becomes, Task
  <2>4. TaskOwn(k)'
    BY <1>1, <1>2, <2>1, <2>3
       DEF Onward, TaskOwn, Aim, Of, WithoutTopic, Clearing, Sending
  <2>5. Belongs'
    BY <1>1, <2>2, <2>4, MovedTasks, QuietBelongs
  <2> QED
    BY <1>1, <1>3, <1>4, <2>1, <2>2, <2>5 DEF Typed, Becomes
<1>9. CASE Queue(k, "check") /\ tasks[k].pc = "restore" /\ lock' = lock
  <2>2. Becomes(k, [tasks[k] EXCEPT !.pc = "lock", !.next = "check"])
    BY <1>9, Queued DEF Places, Locked
  <2>3. tasks'[k].pc = "lock" /\ tasks'[k].next = "check" /\ tasks'[k].user = tasks[k].user
    BY <1>2, <2>2 DEF Becomes, Task
  <2>4. TaskOwn(k)'
    BY <1>2, <1>9, <2>3 DEF TaskOwn, Aim, WithoutTopic, Clearing, Sending
  <2>5. Belongs'
    BY <1>1, <2>2, <2>4, MovedTasks, QuietBelongs
  <2> QED
    BY <1>1, <1>3, <1>4, <1>9, <2>2, <2>5 DEF Typed, Becomes
<1> QED
  BY <1>5, <1>6, <1>7, <1>8, <1>9, LooksOnward DEF GiveUp, Fault

\* a lock runs out, or the bot is restarted
LEMMA StopStep ==
    ASSUME Typed, Belongs, Crash \/ \E u \in Users : LockExpires(u)
    PROVE  Typed' /\ Belongs'
<1>1. UNCHANGED <<case, legacy, owner, topics, notices>>
  BY DEF Crash, LockExpires
<1>2. seen \in [Users -> [expired : BOOLEAN, lost : BOOLEAN]]
  BY DEF Typed
<1>3. CASE Crash
  <2>1. /\ spent' \in 0 .. MaxSpent
        /\ tasks' = [k \in Tasks |-> Idle]
        /\ lock' = [u \in Users |-> IF lock[u] = None THEN None ELSE Crashed]
        /\ seen' = [u \in Users |-> [seen[u] EXCEPT
                      !.lost = @ \/ \E k \in Tasks : tasks[k].user = u]]
    BY <1>3, Spent DEF Crash
  <2>2. seen' \in [Users -> [expired : BOOLEAN, lost : BOOLEAN]]
    <3> SUFFICES ASSUME NEW u \in Users
                 PROVE  [seen[u] EXCEPT !.lost = @ \/ \E k \in Tasks : tasks[k].user = u]
                          \in [expired : BOOLEAN, lost : BOOLEAN]
      BY <2>1
    <3>1. seen[u] \in [expired : BOOLEAN, lost : BOOLEAN]
      BY <1>2
    <3>2. (seen[u].lost \/ \E k \in Tasks : tasks[k].user = u) \in BOOLEAN
      OBVIOUS
    <3> QED
      BY <3>1, <3>2
  <2>3. Idle \in Task
    <3>1. "idle" \in Places /\ NoTopic \in 0 .. MaxTopics
      BY SupportAssumption DEF Places, NoTopic
    <3> QED
      BY <3>1 DEF Idle, Task
  <2>4. \A k \in Tasks : TaskOwn(k)'
    BY <2>1, IdleIsOwn
  <2>5. Belongs'
    BY <1>1, <2>4, QuietBelongs
  <2> QED
    BY <1>1, <2>1, <2>2, <2>3, <2>5 DEF Typed
<1>4. ASSUME NEW u \in Users, LockExpires(u)
      PROVE  Typed' /\ Belongs'
  <2>1. spent' \in 0 .. MaxSpent
    BY <1>4, Spent DEF LockExpires, Typed
  <2>2. seen' \in [Users -> [expired : BOOLEAN, lost : BOOLEAN]]
    <3>1. CASE seen' = seen
      BY <1>2, <3>1
    <3>2. CASE seen' # seen
      <4>1. seen' = [seen EXCEPT ![u].expired = TRUE]
        BY <1>4, <3>2 DEF LockExpires
      <4> QED
        BY <1>2, <4>1
    <3> QED
      BY <3>1, <3>2
  <2>3. tasks' = tasks /\ lock' = [lock EXCEPT ![u] = None]
    BY <1>4 DEF LockExpires
  <2>4. Belongs'
    BY <1>1, <2>3, QuietBelongs
  <2> QED
    BY <1>1, <2>1, <2>2, <2>3, <2>4 DEF Typed
<1> QED
  BY <1>3, <1>4

\* a handler that goes on within its block keeps its user and its topic
LEMMA GoesOn ==
    ASSUME Typed, NEW k \in Tasks, NEW pc \in Places, Goto(k, pc)
    PROVE  /\ Becomes(k, [tasks[k] EXCEPT !.pc = pc])
           /\ tasks'[k].pc = pc
           /\ tasks'[k].user = tasks[k].user
           /\ tasks'[k].topic = tasks[k].topic
<1>1. Becomes(k, [tasks[k] EXCEPT !.pc = pc])
  BY Gone
<1>2. tasks[k] \in Task
  BY DEF Typed
<1> QED
  BY <1>1, <1>2 DEF Becomes, Task

\* the mode of a case, or the mark of its card
LEMMA ModeStep ==
    ASSUME Typed, Belongs, NEW k \in Tasks,
           Enter(k) \/ RestoreEnter(k) \/ MarkCard(k) \/ Complete(k)
    PROVE  Typed' /\ Belongs'
<1> DEFINE u == tasks[k].user
           Case == [mode : {"none", "waiting", "active"}, topic : 0 .. MaxTopics, card : BOOLEAN]
<1>1. UNCHANGED <<legacy, owner, topics, notices, spent, seen>>
  BY DEF Enter, RestoreEnter, MarkCard, Complete
<1>2. TaskOwn(k) /\ tasks[k] \in Task /\ case \in [Users -> Case]
  BY DEF Typed, Belongs
<1>3. u \in Users
  BY <1>2 DEF Enter, RestoreEnter, MarkCard, Complete, TaskOwn
<1>4. /\ case' \in [Users -> Case]
      /\ \A v \in Users : case'[v].topic = case[v].topic
  <2> HIDE DEF u
  <2>1. CASE case' = Begun(u)
    BY <1>2, <1>3, <2>1 DEF Begun
  <2>2. CASE case' = [case EXCEPT ![u].card = TRUE]
    BY <1>2, <1>3, <2>2
  <2>3. CASE case' = [case EXCEPT ![u].mode = "active"]
    BY <1>2, <1>3, <2>3
  <2> QED
    BY <2>1, <2>2, <2>3 DEF Enter, RestoreEnter, MarkCard, Complete, Completed, u
<1>5. CASE End(k)
  <2>1. Becomes(k, Idle) /\ lock' \in [Users -> Tasks \cup {None, Crashed}]
    BY <1>5, EndsIdle
  <2>2. TaskOwn(k)'
    BY <2>1, IdleIsOwn DEF Becomes
  <2>3. Belongs'
    BY <1>1, <1>4, <2>1, <2>2, MovedTasks, QuietBelongs
  <2> QED
    BY <1>1, <1>4, <2>1, <2>3 DEF Typed, Becomes
<1>6. CASE RestoreEnter(k)
  <2>1. /\ Becomes(k, [tasks[k] EXCEPT !.pc = "lock", !.next = "check"])
        /\ lock' = lock
    BY <1>6, Queued DEF RestoreEnter, Places, Locked
  <2>2. tasks'[k].pc = "lock" /\ tasks'[k].next = "check" /\ tasks'[k].user = u
    BY <1>2, <2>1 DEF Becomes, Task
  <2>3. TaskOwn(k)'
    BY <1>3, <2>2 DEF TaskOwn, Aim, WithoutTopic, Clearing, Sending
  <2>4. Belongs'
    BY <1>1, <1>4, <2>1, <2>3, MovedTasks, QuietBelongs
  <2> QED
    BY <1>1, <1>4, <2>1, <2>4 DEF Typed, Becomes
<1>7. CASE MarkCard(k)
  <2>1. Goto(k, "copy") /\ tasks[k].pc = "mark" /\ lock' = lock
    BY <1>7 DEF MarkCard
  <2>2. /\ Becomes(k, [tasks[k] EXCEPT !.pc = "copy"])
        /\ tasks'[k].pc = "copy"
        /\ tasks'[k].user = u
        /\ tasks'[k].topic = tasks[k].topic
    BY <2>1, GoesOn DEF Places, Locked
  <2>3. TaskOwn(k)'
    BY <1>1, <1>2, <1>3, <2>1, <2>2
       DEF TaskOwn, Aim, Of, WithoutTopic, Clearing, Sending
  <2>4. Belongs'
    BY <1>1, <1>4, <2>2, <2>3, MovedTasks, QuietBelongs
  <2> QED
    BY <1>1, <1>4, <2>1, <2>2, <2>4 DEF Typed, Becomes
<1> QED
  BY <1>5, <1>6, <1>7 DEF Enter, Complete

\* the topic of a case is mapped again
LEMMA MapStep ==
    ASSUME Typed, Belongs, NEW k \in Tasks, Map(k)
    PROVE  Typed' /\ Belongs'
<1> DEFINE u == tasks[k].user
           t == tasks[k].topic
<1>1. /\ UNCHANGED <<case, legacy, lock, topics, notices, spent, seen>>
      /\ tasks[k].pc = "map" /\ Goto(k, "card")
      /\ owner' = [owner EXCEPT ![t] = u]
  BY DEF Map
<1>2. TaskOwn(k) /\ tasks[k] \in Task
  BY DEF Typed, Belongs
<1>3. u \in Users /\ Of(t, u)
  BY <1>1, <1>2 DEF TaskOwn, Aim, WithoutTopic
<1>4. t \in TopicIds
  BY <1>3, SupportAssumption DEF Of, Typed, TopicIds
<1>5. /\ owner' \in [TopicIds -> Users \cup {None}]
      /\ owner'[t] = u
      /\ \A i \in TopicIds \ {t} : owner'[i] = owner[i]
  BY <1>1, <1>3, <1>4 DEF Typed
<1>6. /\ Becomes(k, [tasks[k] EXCEPT !.pc = "card"])
      /\ tasks'[k].pc = "card"
      /\ tasks'[k].user = u
      /\ tasks'[k].topic = t
  BY <1>1, GoesOn DEF Places, Locked
<1> HIDE DEF u, t
<1>7. TaskOwn(k)'
  BY <1>1, <1>3, <1>5, <1>6 DEF TaskOwn, Aim, Of, WithoutTopic, Clearing, Sending
<1>8. Grows
  BY <1>1, SameTopics
<1>9. Keeps
  <2>1. DOMAIN topics \subseteq TopicIds
    BY SupportAssumption DEF Typed, TopicIds
  <2> QED
    BY <1>3, <1>5, <2>1 DEF Keeps, Of
<1>10. Belongs'
  <2>1. \A j \in Tasks : tasks'[j] = tasks[j] \/ TaskOwn(j)'
    BY <1>6, <1>7, MovedTasks
  <2>2. \A i \in TopicIds : owner'[i] \in {owner[i], None} \/ OfThen(i, owner'[i])
    BY <1>1, <1>3, <1>5 DEF Of, OfThen
  <2> QED
    BY <1>1, <1>8, <1>9, <2>1, <2>2, BelongsStep
<1> QED
  BY <1>1, <1>5, <1>6, <1>10 DEF Typed, Becomes

\* the topic is bound to the case, or is to be closed again, bound or not
LEMMA BindStep ==
    ASSUME Typed, Belongs, NEW k \in Tasks, Bind(k)
    PROVE  Typed' /\ Belongs'
<1> DEFINE u == tasks[k].user
           t == tasks[k].topic
           Case == [mode : {"none", "waiting", "active"}, topic : 0 .. MaxTopics, card : BOOLEAN]
           done == case' = Bound(u, t) /\ owner' = Owned(u, t)
<1>1. /\ UNCHANGED <<legacy, lock, topics, notices, seen>>
      /\ tasks[k].pc = "bind"
      /\ \/ done /\ Goto(k, "card") /\ spent' = spent
         \/ (done \/ (case' = case /\ owner' = owner)) /\ Goto(k, "undo") /\ Spend
  BY DEF Bind
<1>2. TaskOwn(k) /\ tasks[k] \in Task /\ case \in [Users -> Case]
  BY DEF Typed, Belongs
<1>3. u \in Users /\ Of(t, u)
  BY <1>1, <1>2 DEF TaskOwn, Aim, WithoutTopic
<1>4. t \in TopicIds /\ t \in 0 .. MaxTopics
  BY <1>3, SupportAssumption DEF Of, Typed, TopicIds
<1> HIDE DEF u, t
<1>5. ASSUME done
      PROVE  /\ case' \in [Users -> Case]
             /\ case'[u].topic = t
             /\ \A v \in Users \ {u} : case'[v].topic = case[v].topic
             /\ owner' \in [TopicIds -> Users \cup {None}]
             /\ owner'[t] = u
             /\ \A i \in TopicIds \ {t} : owner'[i] = owner[i]
  BY <1>2, <1>3, <1>4, <1>5 DEF Bound, Owned, Typed
<1>6. /\ case' \in [Users -> Case]
      /\ owner' \in [TopicIds -> Users \cup {None}]
      /\ \A v \in Users : case'[v].topic = case[v].topic \/ OfThen(case'[v].topic, v)
      /\ \A i \in TopicIds : owner'[i] = owner[i] \/ (i = t /\ owner'[i] = u)
  <2>1. CASE done
    BY <1>1, <1>3, <1>5, <2>1 DEF Of, OfThen
  <2>2. CASE case' = case /\ owner' = owner
    BY <1>2, <2>2 DEF Typed
  <2> QED
    BY <1>1, <2>1, <2>2
<1>7. PICK pc \in {"card", "undo"} :
        Goto(k, pc) /\ (pc = "card" => done)
  BY <1>1
<1>8. /\ Becomes(k, [tasks[k] EXCEPT !.pc = pc])
      /\ tasks'[k].pc = pc
      /\ tasks'[k].user = u
      /\ tasks'[k].topic = t
  BY <1>7, GoesOn DEF Places, Locked, u, t
<1> HIDE DEF done
<1>9. TaskOwn(k)'
  BY <1>1, <1>3, <1>5, <1>7, <1>8 DEF TaskOwn, Aim, Of, WithoutTopic, Clearing, Sending
<1>10. Grows
  BY <1>1, SameTopics
<1>11. Keeps
  <2>1. DOMAIN topics \subseteq TopicIds
    BY SupportAssumption DEF Typed, TopicIds
  <2> QED
    BY <1>3, <1>6, <2>1 DEF Keeps, Of
<1>12. Belongs'
  <2>1. \A j \in Tasks : tasks'[j] = tasks[j] \/ TaskOwn(j)'
    BY <1>8, <1>9, MovedTasks
  <2>2. \A i \in TopicIds : owner'[i] \in {owner[i], None} \/ OfThen(i, owner'[i])
    BY <1>1, <1>3, <1>6 DEF Of, OfThen
  <2> QED
    BY <1>1, <1>6, <1>10, <1>11, <2>1, <2>2, BelongsStep
<1>13. spent' \in 0 .. MaxSpent
  BY <1>1, Spent DEF Typed
<1> QED
  BY <1>1, <1>6, <1>8, <1>12, <1>13 DEF Typed, Becomes

\* the case of a closed topic, and its mapping, are taken away
LEMMA ClearStep ==
    ASSUME Typed, Belongs, NEW k \in Tasks, Delete(k)
    PROVE  Typed' /\ Belongs'
<1> DEFINE u == tasks[k].user
           t == tasks[k].topic
           Case == [mode : {"none", "waiting", "active"}, topic : 0 .. MaxTopics, card : BOOLEAN]
<1>1. /\ UNCHANGED <<legacy, topics, notices, spent, seen>>
      /\ tasks[k].pc \in Clearing
      /\ End(k)
      /\ case' = [case EXCEPT ![u] = NoCase] /\ owner' = [owner EXCEPT ![t] = None]
  BY DEF Delete, Forgotten, Unmapped, Clearing
<1>2. TaskOwn(k) /\ tasks[k] \in Task /\ case \in [Users -> Case]
  BY DEF Typed, Belongs
<1>3. u \in Users /\ Of(t, u) /\ ~topics[t].open
  BY <1>1, <1>2 DEF TaskOwn, Aim, WithoutTopic, Clearing
<1>4. t \in TopicIds /\ DOMAIN topics \subseteq TopicIds
  BY <1>3, SupportAssumption DEF Of, Typed, TopicIds
<1>5. NoCase \in Case /\ NoCase.topic = NoTopic
  <2>1. NoTopic \in 0 .. MaxTopics
    BY SupportAssumption DEF NoTopic
  <2> QED
    BY <2>1 DEF NoCase
<1> HIDE DEF u, t
<1>6. /\ case' \in [Users -> Case]
      /\ owner' \in [TopicIds -> Users \cup {None}]
      /\ \A v \in Users : case'[v].topic \in {case[v].topic, NoTopic}
      /\ \A i \in TopicIds : owner'[i] = owner[i] \/ (i = t /\ owner'[i] = None)
  BY <1>1, <1>2, <1>3, <1>4, <1>5 DEF Typed
<1>7. Becomes(k, Idle) /\ lock' \in [Users -> Tasks \cup {None, Crashed}]
  BY <1>1, EndsIdle
<1>8. TaskOwn(k)'
  BY <1>7, IdleIsOwn DEF Becomes
<1>9. Grows
  BY <1>1, SameTopics
<1>10. Keeps
  BY <1>1, <1>3, <1>4, <1>6 DEF Keeps
<1>11. Belongs'
  <2>1. \A j \in Tasks : tasks'[j] = tasks[j] \/ TaskOwn(j)'
    BY <1>7, <1>8, MovedTasks
  <2> QED
    BY <1>1, <1>6, <1>9, <1>10, <2>1, BelongsStep
<1> QED
  BY <1>1, <1>6, <1>7, <1>11 DEF Typed, Becomes

\* handler k writes to topic t, which becomes r, and goes on, ends or finds it unavailable
SentAs(k, t, r, next) ==
    /\ \/ /\ topics' = [topics EXCEPT ![t] = r]
          /\ Goto(k, next) /\ UNCHANGED <<lock, spent>>
       \/ topics' \in {topics, [topics EXCEPT ![t] = r]} /\ End(k) /\ Spend
       \/ ~topics[t].open /\ Unavailable(k) /\ UNCHANGED <<topics, spent>>
    /\ UNCHANGED <<case, legacy, owner, notices, seen>>
    /\ \/ tasks[k].pc = "post" /\ r = [topics[t] EXCEPT !.card = TRUE] /\ next = "mark"
       \/ tasks[k].pc = "copy" /\ r = [topics[t] EXCEPT !.content = TRUE] /\ next = "complete"

\* the card and the message are written in the same way
LEMMA SentOne ==
    ASSUME NEW k \in Tasks, SendCard(k) \/ Copy(k)
    PROVE  \E r \in {[topics[tasks[k].topic] EXCEPT !.card = TRUE],
                     [topics[tasks[k].topic] EXCEPT !.content = TRUE]},
              next \in {"mark", "complete"} : SentAs(k, tasks[k].topic, r, next)
<1> DEFINE t == tasks[k].topic
           card == [topics[t] EXCEPT !.card = TRUE]
           content == [topics[t] EXCEPT !.content = TRUE]
<1>1. CASE SendCard(k)
  <2>1. Send(k, "post", "mark", [topics EXCEPT ![t] = card])
    BY <1>1 DEF SendCard, WithCard
  <2> QED
    BY <2>1 DEF Send, Refused, SentAs
<1>2. CASE Copy(k)
  <2>1. Send(k, "copy", "complete", [topics EXCEPT ![t] = content])
    BY <1>2 DEF Copy, WithContent
  <2> QED
    BY <2>1 DEF Send, Refused, SentAs
<1> QED
  BY <1>1, <1>2

\* a message to a topic that is mapped or closed
LEMMA SendStep ==
    ASSUME Typed, Belongs, NEW k \in Tasks, SendCard(k) \/ Copy(k)
    PROVE  Typed' /\ Belongs'
<1> DEFINE u == tasks[k].user
           t == tasks[k].topic
           card == [topics[t] EXCEPT !.card = TRUE]
           content == [topics[t] EXCEPT !.content = TRUE]
<1>1. TaskOwn(k) /\ tasks[k] \in Task
  BY DEF Typed, Belongs
<1>2. PICK r \in {card, content}, next \in {"mark", "complete"} : SentAs(k, t, r, next)
  BY SentOne
<1> USE DEF SentAs
<1>3. /\ u \in Users /\ Of(t, u)
      /\ topics[t].open => owner[t] = u
  BY <1>1, <1>2 DEF TaskOwn, Aim, WithoutTopic, Sending
<1>4. r \in Topic /\ r.user = u /\ r.open = topics[t].open /\ (topics[t].card => r.card)
  BY <1>3, TopicFields DEF Of, Topic
<1>5. DOMAIN topics \subseteq TopicIds /\ t \in DOMAIN topics
  BY <1>3, SupportAssumption DEF Of, Typed, TopicIds
<1> HIDE DEF u, t, card, content
<1>6. /\ Grows
      /\ DOMAIN topics' = DOMAIN topics
      /\ topics'[t].open = topics[t].open
      /\ topics'[t].user = u
      /\ \A i \in DOMAIN topics \ {t} : topics'[i] = topics[i]
  <2>1. CASE topics' = topics
    BY <1>3, <2>1, SameTopics DEF Of
  <2>2. CASE topics' = [topics EXCEPT ![t] = r]
    BY <1>3, <1>4, <1>5, <2>2, TopicSet DEF Of
  <2> QED
    BY <1>2, <2>1, <2>2
<1>7. Keeps
  BY <1>2, <1>5 DEF Keeps
<1>8. spent' \in 0 .. MaxSpent
  BY <1>2, Spent DEF Typed
<1>9. /\ tasks' \in [Tasks -> Task]
      /\ lock' \in [Users -> Tasks \cup {None, Crashed}]
      /\ \A j \in Tasks : tasks'[j] = tasks[j] \/ TaskOwn(j)'
  <2>1. CASE End(k)
    <3>1. Becomes(k, Idle) /\ lock' \in [Users -> Tasks \cup {None, Crashed}]
      BY <2>1, EndsIdle
    <3> QED
      BY <3>1, IdleIsOwn, MovedTasks DEF Becomes
  <2>2. CASE Goto(k, next) /\ lock' = lock
    <3>1. /\ Becomes(k, [tasks[k] EXCEPT !.pc = next])
          /\ tasks'[k].pc = next
          /\ tasks'[k].user = u
          /\ tasks'[k].topic = t
      BY <2>2, GoesOn DEF Places, Locked, u, t
    <3>2. TaskOwn(k)'
      BY <1>2, <1>3, <1>5, <1>6, <3>1 DEF TaskOwn, Aim, Of, WithoutTopic, Clearing, Sending
    <3> QED
      BY <2>2, <3>1, <3>2, MovedTasks DEF Becomes, Typed
  <2>3. CASE ~topics[t].open /\ Unavailable(k) /\ topics' = topics
    <3>1. Becomes(k, [tasks[k] EXCEPT !.pc = "lock", !.next = "clear"])
      BY <2>3, Queued DEF Unavailable, Places, Locked
    <3>2. /\ tasks'[k].pc = "lock"
          /\ tasks'[k].next = "clear"
          /\ tasks'[k].user = u
          /\ tasks'[k].topic = t
      BY <1>1, <3>1 DEF Becomes, Task, u, t
    <3>3. TaskOwn(k)'
      BY <1>3, <2>3, <3>2 DEF TaskOwn, Aim, Of, WithoutTopic, Clearing, Sending
    <3>4. lock' \in [Users -> Tasks \cup {None, Crashed}]
      BY <2>3 DEF Unavailable, Released, Typed
    <3> QED
      BY <3>1, <3>3, <3>4, MovedTasks DEF Becomes
  <2> QED
    BY <1>2, <2>1, <2>2, <2>3
<1>10. Belongs'
  <2>1. \A i \in DOMAIN topics' : topics'[i].open /\ topics'[i].content =>
            \/ i \in DOMAIN topics /\ topics[i].content
            \/ owner'[i] = topics'[i].user
    BY <1>2, <1>3, <1>6
  <2> QED
    BY <1>2, <1>6, <1>7, <1>9, <2>1, BelongsStep
<1> QED
  BY <1>2, <1>6, <1>8, <1>9, <1>10 DEF Typed, Grows

\* the loss of something of user u is noted, or not
LEMMA SeenLost ==
    ASSUME Typed, NEW u \in Users, seen' = seen \/ seen' = [seen EXCEPT ![u].lost = TRUE]
    PROVE  seen' \in [Users -> [expired : BOOLEAN, lost : BOOLEAN]]
<1>1. seen \in [Users -> [expired : BOOLEAN, lost : BOOLEAN]]
  BY DEF Typed
<1> QED
  BY <1>1

\* a topic is closed, or stays as it is
LEMMA Closes ==
    ASSUME Typed, NEW t \in DOMAIN topics,
           topics' = topics \/ topics' = [topics EXCEPT ![t].open = FALSE],
           owner' = owner
    PROVE  /\ Grows /\ Keeps
           /\ DOMAIN topics' = DOMAIN topics
           /\ topics' # topics => ~topics'[t].open
           /\ \A i \in DOMAIN topics : topics'[i].content = topics[i].content
           /\ \A i \in DOMAIN topics : topics'[i].card = topics[i].card
           /\ \A i \in DOMAIN topics \ {t} : topics'[i] = topics[i]
<1>1. CASE topics' = topics
  BY <1>1, SameTopics DEF Keeps
<1>2. CASE topics' # topics
  <2> DEFINE r == [topics[t] EXCEPT !.open = FALSE]
  <2>1. topics' = [topics EXCEPT ![t] = r]
    BY <1>2
  <2>2. topics[t] \in Topic /\ r \in Topic
    BY TopicFields
  <2>3. r.user = topics[t].user /\ ~r.open /\ r.card = topics[t].card
        /\ r.content = topics[t].content
    BY <2>2 DEF Topic
  <2> HIDE DEF r
  <2>4. /\ Grows
        /\ DOMAIN topics' = DOMAIN topics
        /\ topics'[t] = r
        /\ \A i \in DOMAIN topics \ {t} : topics'[i] = topics[i]
    BY <2>1, <2>2, <2>3, TopicSet
  <2> QED
    BY <2>3, <2>4 DEF Keeps
<1> QED
  BY <1>1, <1>2

\* handler k has n topics opened for u, and goes on with the last or ends
OpenedAs(k, u, n) ==
    /\ Admitted(n)
    /\ topics' = Opened(u, n)
    /\ \/ /\ n # 0 /\ lock' = lock
          /\ tasks' = [tasks EXCEPT ![k].topic = Len(topics) + n, ![k].pc = "bind"]
       \/ End(k)

\* the ways in which a request for a topic goes
LEMMA OpenedOne ==
    ASSUME NEW k \in Tasks, CreateTopic(k)
    PROVE  \E n \in 0 .. 2 : OpenedAs(k, tasks[k].user, n)
<1> DEFINE u == tasks[k].user
<1>1. CASE \E n \in 1 .. 2 :
             /\ Admitted(n)
             /\ topics' = Opened(u, n)
             /\ tasks' = [tasks EXCEPT ![k].topic = Len(topics) + n, ![k].pc = "bind"]
             /\ UNCHANGED lock
  <2>1. PICK n \in 1 .. 2 :
          /\ Admitted(n)
          /\ topics' = Opened(u, n)
          /\ tasks' = [tasks EXCEPT ![k].topic = Len(topics) + n, ![k].pc = "bind"]
          /\ UNCHANGED lock
    BY <1>1
  <2>2. n \in 0 .. 2 /\ n # 0
    OBVIOUS
  <2> QED
    BY <2>1, <2>2, Zenon DEF OpenedAs
<1>2. CASE \E n \in 0 .. 1 : Admitted(n) /\ topics' = Opened(u, n) /\ End(k)
  BY <1>2 DEF OpenedAs
<1> QED
  BY <1>1, <1>2 DEF CreateTopic

\* topics are opened for a user without one
LEMMA CreateStep ==
    ASSUME Typed, Belongs, NEW k \in Tasks, CreateTopic(k)
    PROVE  Typed' /\ Belongs'
<1> DEFINE u == tasks[k].user
<1>1. /\ UNCHANGED <<case, legacy, owner, notices, seen>>
      /\ tasks[k].pc = "create"
  BY DEF CreateTopic
<1>2. TaskOwn(k) /\ tasks[k] \in Task
  BY DEF Typed, Belongs
<1>3. u \in Users
  BY <1>1, <1>2 DEF TaskOwn
<1>4. spent' \in 0 .. MaxSpent
  BY Spent DEF CreateTopic, Typed
<1>5. PICK n \in 0 .. 2 : OpenedAs(k, u, n)
  BY OpenedOne
<1> USE DEF OpenedAs
<1>6. /\ Grows
      /\ DOMAIN topics' = 1 .. (Len(topics) + n)
      /\ \A t \in DOMAIN topics : topics'[t] = topics[t]
      /\ \A t \in DOMAIN topics' \ DOMAIN topics : topics'[t].user = u /\ ~topics'[t].content
  BY <1>3, <1>5, TopicsOpened
<1>7. Keeps
  BY <1>1 DEF Keeps
<1>8. /\ tasks' \in [Tasks -> Task]
      /\ lock' \in [Users -> Tasks \cup {None, Crashed}]
      /\ \A j \in Tasks : tasks'[j] = tasks[j] \/ TaskOwn(j)'
  <2>1. CASE End(k)
    <3>1. Becomes(k, Idle) /\ lock' \in [Users -> Tasks \cup {None, Crashed}]
      BY <2>1, EndsIdle
    <3> QED
      BY <3>1, IdleIsOwn, MovedTasks DEF Becomes
  <2>2. CASE ~End(k)
    <3> DEFINE t == Len(topics) + n
               r == [tasks[k] EXCEPT !.topic = t, !.pc = "bind"]
    <3>1. n # 0 /\ lock' = lock /\ tasks' = [tasks EXCEPT ![k].topic = t, ![k].pc = "bind"]
      BY <1>5, <2>2
    <3>2. Len(topics) \in Nat /\ DOMAIN topics = 1 .. Len(topics) /\ Len(topics) + n <= MaxTopics
      BY <1>5 DEF Typed, Admitted
    <3>3. t \in DOMAIN topics' \ DOMAIN topics /\ t \in 0 .. MaxTopics
      BY <1>6, <3>1, <3>2, SupportAssumption
    <3> HIDE DEF t
    <3>4. r \in Task /\ r.pc = "bind" /\ r.user = u /\ r.topic = t
      BY <1>2, <3>3 DEF Task, Places, Locked
    <3>5. tasks' = [tasks EXCEPT ![k] = r]
      <4>1. tasks \in [Tasks -> Task]
        BY DEF Typed
      <4> QED
        BY <1>2, <3>1, <4>1
    <3>6. Becomes(k, r)
      BY <3>4, <3>5, TaskSet
    <3> HIDE DEF r, u
    <3>7. TaskOwn(k)'
      BY <1>3, <1>6, <3>3, <3>4, <3>6
         DEF Becomes, TaskOwn, Aim, Of, WithoutTopic, Clearing, Sending
    <3> QED
      BY <3>1, <3>6, <3>7, MovedTasks DEF Becomes, Typed
  <2> QED
    BY <2>1, <2>2
<1> HIDE DEF u
<1>9. Belongs'
  <2>1. \A t \in DOMAIN topics' : topics'[t].open /\ topics'[t].content =>
            t \in DOMAIN topics /\ topics[t].content
    BY <1>6
  <2> QED
    BY <1>1, <1>6, <1>7, <1>8, <2>1, BelongsStep
<1> QED
  BY <1>1, <1>4, <1>6, <1>8, <1>9 DEF Typed, Grows

\* a topic is closed by the bot
LEMMA ShutStep ==
    ASSUME Typed, Belongs, NEW k \in Tasks, Undo(k) \/ Shut(k)
    PROVE  Typed' /\ Belongs'
<1> DEFINE u == tasks[k].user
           t == tasks[k].topic
<1>1. TaskOwn(k) /\ tasks[k] \in Task
  BY DEF Typed, Belongs
<1>2. /\ UNCHANGED <<case, legacy, owner, notices>>
      /\ topics' = topics \/ topics' = [topics EXCEPT ![t].open = FALSE]
      /\ seen' = seen \/ seen' = [seen EXCEPT ![u].lost = TRUE]
      /\ spent' = spent \/ Spend
      /\ tasks[k].pc \in {"undo", "shut"}
      /\ \/ End(k)
         \/ topics[t].open /\ topics' # topics /\ Goto(k, "clear") /\ lock' = lock
  <2>1. CASE Undo(k)
    BY <2>1 DEF Undo
  <2>2. CASE Shut(k)
    <3>1. CASE /\ ~Refused(t) /\ topics' = [topics EXCEPT ![t].open = FALSE]
               /\ Goto(k, "clear") /\ UNCHANGED <<lock, spent, seen>>
      <4>1. tasks[k].pc = "shut"
        BY <2>2 DEF Shut
      <4>2. Of(t, u)
        BY <1>1, <4>1 DEF TaskOwn, Aim, WithoutTopic
      <4>3. topics[t] \in Topic /\ topics[t].open
        BY <3>1, <4>2, TopicFields DEF Of, Refused
      <4>4. topics' # topics
        <5>1. topics'[t] = [topics[t] EXCEPT !.open = FALSE]
          BY <3>1, <4>2 DEF Of
        <5>2. ~topics'[t].open
          BY <4>3, <5>1 DEF Topic
        <5> QED
          BY <4>3, <5>2
      <4> QED
        BY <2>2, <3>1, <4>3, <4>4 DEF Shut
    <3>2. CASE /\ topics' \in {topics, [topics EXCEPT ![t].open = FALSE]} /\ End(k)
               /\ IF Refused(t) THEN UNCHANGED <<spent, seen>>
                  ELSE Spend /\ seen' = [seen EXCEPT ![u].lost = TRUE]
      BY <2>2, <3>2 DEF Shut
    <3> QED
      BY <2>2, <3>1, <3>2 DEF Shut
  <2> QED
    BY <2>1, <2>2
<1>3. u \in Users /\ Of(t, u)
  BY <1>1, <1>2 DEF TaskOwn, Aim, WithoutTopic
<1>4. /\ Grows /\ Keeps
      /\ DOMAIN topics' = DOMAIN topics
      /\ topics' # topics => ~topics'[t].open
      /\ \A i \in DOMAIN topics : topics'[i].content = topics[i].content
  BY <1>2, <1>3, Closes DEF Of
<1>5. /\ tasks' \in [Tasks -> Task]
      /\ lock' \in [Users -> Tasks \cup {None, Crashed}]
      /\ \A j \in Tasks : tasks'[j] = tasks[j] \/ TaskOwn(j)'
  <2>1. CASE End(k)
    <3>1. Becomes(k, Idle) /\ lock' \in [Users -> Tasks \cup {None, Crashed}]
      BY <2>1, EndsIdle
    <3> QED
      BY <3>1, IdleIsOwn, MovedTasks DEF Becomes
  <2>2. CASE Goto(k, "clear") /\ lock' = lock /\ topics' # topics
    <3>1. /\ Becomes(k, [tasks[k] EXCEPT !.pc = "clear"])
          /\ tasks'[k].pc = "clear"
          /\ tasks'[k].user = u
          /\ tasks'[k].topic = t
      BY <2>2, GoesOn DEF Places, Locked
    <3> HIDE DEF u, t
    <3>2. TaskOwn(k)'
      BY <1>3, <1>4, <2>2, <3>1 DEF TaskOwn, Aim, Of, Grows, WithoutTopic, Clearing, Sending
    <3> QED
      BY <2>2, <3>1, <3>2, MovedTasks DEF Becomes, Typed
  <2> QED
    BY <1>2, <2>1, <2>2
<1>6. seen' \in [Users -> [expired : BOOLEAN, lost : BOOLEAN]] /\ spent' \in 0 .. MaxSpent
  BY <1>2, <1>3, SeenLost, Spent DEF Typed
<1> HIDE DEF u, t
<1>7. Belongs'
  <2>1. \A i \in DOMAIN topics' : topics'[i].open /\ topics'[i].content =>
            i \in DOMAIN topics /\ topics[i].content
    BY <1>4
  <2> QED
    BY <1>2, <1>4, <1>5, <2>1, BelongsStep
<1> QED
  BY <1>2, <1>4, <1>5, <1>6, <1>7 DEF Typed, Grows

\* a topic is closed or deleted by hand
LEMMA HandStep ==
    ASSUME Typed, Belongs, NEW t \in DOMAIN topics, CloseByHand(t)
    PROVE  Typed' /\ Belongs'
<1>1. /\ UNCHANGED <<case, legacy, owner, lock, tasks>>
      /\ topics[t].open /\ topics' = [topics EXCEPT ![t].open = FALSE]
      /\ notices' \subseteq notices \cup {t}
      /\ seen' = seen \/ seen' = [seen EXCEPT ![topics[t].user].lost = TRUE]
  BY DEF CloseByHand
<1>2. topics[t] \in Topic /\ topics[t].user \in Users
  BY TopicFields DEF Topic
<1>3. /\ Grows /\ Keeps
      /\ DOMAIN topics' = DOMAIN topics
      /\ topics' # topics => ~topics'[t].open
      /\ \A i \in DOMAIN topics : topics'[i].content = topics[i].content
  BY <1>1, Closes
<1>4. ~topics'[t].open
  <2>1. topics'[t] = [topics[t] EXCEPT !.open = FALSE]
    BY <1>1
  <2> QED
    BY <1>2, <2>1 DEF Topic
<1>5. seen' \in [Users -> [expired : BOOLEAN, lost : BOOLEAN]]
  BY <1>1, <1>2, SeenLost
<1>6. spent' \in 0 .. MaxSpent
  BY Spent DEF CloseByHand
<1>7. Belongs'
  <2>1. \A i \in DOMAIN topics' : topics'[i].open /\ topics'[i].content =>
            i \in DOMAIN topics /\ topics[i].content
    BY <1>3
  <2>2. \A i \in notices' : i \in notices \/ ~topics'[i].open
    BY <1>1, <1>4
  <2> QED
    BY <1>1, <1>3, <2>1, <2>2, BelongsStep
<1> QED
  BY <1>1, <1>3, <1>5, <1>6, <1>7 DEF Typed, Grows

\* it holds at the start
LEMMA InitBelongs ==
    ASSUME Init
    PROVE  Typed /\ Belongs
<1>1. NoTopic \in 0 .. MaxTopics /\ "idle" \in Places /\ 0 \in 0 .. MaxSpent
  BY SupportAssumption DEF NoTopic, Places
<1>2. Idle \in Task
  BY <1>1 DEF Idle, Task
<1>3. NoCase \in [mode : {"none", "waiting", "active"}, topic : 0 .. MaxTopics, card : BOOLEAN]
      /\ NoCase.topic = NoTopic
  BY <1>1 DEF NoCase
<1>4. topics \in Seq(Topic) /\ Len(topics) = 0 /\ DOMAIN topics = {}
  BY DEF Init
<1>5. [expired |-> FALSE, lost |-> FALSE] \in [expired : BOOLEAN, lost : BOOLEAN]
  OBVIOUS
<1>6. Typed
  BY <1>1, <1>2, <1>3, <1>4, <1>5, SupportAssumption DEF Init, Typed
<1>7. \A k \in Tasks : TaskOwn(k)
  BY DEF Init, TaskOwn, Aim, Idle, WithoutTopic, Clearing, Sending
<1>8. \A u \in Users : case[u].topic = NoTopic
  BY <1>3 DEF Init
<1>9. Belongs
  BY <1>4, <1>7, <1>8 DEF Init, Belongs, Answerable
<1> QED
  BY <1>6, <1>9

\* every step keeps it
LEMMA NextBelongs ==
    ASSUME Typed, Belongs, [Next]_vars
    PROVE  Typed' /\ Belongs'
<1>1. CASE vars' = vars
  <2>1. /\ UNCHANGED <<case, legacy, owner, lock, topics, notices, tasks, spent, seen>>
    BY <1>1 DEF vars
  <2>2. Belongs'
    BY <2>1, QuietBelongs
  <2> QED
    BY <2>1, <2>2 DEF Typed
<1>2. ASSUME NEW k \in Tasks,
             \/ \E u \in Users : Begin(k, u) \/ Write(k, u)
             \/ \E t \in DOMAIN topics : PressClose(k, t) \/ Notified(k, t)
             \/ Step(k) \/ GiveUp(k) \/ Fault(k)
      PROVE  Typed' /\ Belongs'
  <2>1. CASE \/ \E u \in Users : Begin(k, u) \/ Write(k, u)
             \/ \E t \in DOMAIN topics : PressClose(k, t) \/ Notified(k, t)
    BY <2>1, ComeStep
  <2>2. CASE GiveUp(k) \/ Fault(k)
    BY <2>2, LookStep
  <2>3. CASE Step(k)
    <3>1. CASE Acquire(k) \/ Looks(k) \/ Find(k)
      BY <3>1, LookStep
    <3>2. CASE Enter(k) \/ RestoreEnter(k) \/ MarkCard(k) \/ Complete(k)
      BY <3>2, ModeStep
    <3>3. CASE Map(k) \/ CreateTopic(k) \/ Bind(k)
      BY <3>3, MapStep, CreateStep, BindStep
    <3>4. CASE SendCard(k) \/ Copy(k)
      BY <3>4, SendStep
    <3>5. CASE Undo(k) \/ Shut(k) \/ Delete(k)
      BY <3>5, ShutStep, ClearStep
    <3> QED
      BY <2>3, <3>1, <3>2, <3>3, <3>4, <3>5 DEF Step, Looks
  <2> QED
    BY <1>2, <2>1, <2>2, <2>3
<1>3. CASE Crash \/ \E u \in Users : LockExpires(u)
  BY <1>3, StopStep
<1>4. CASE \E t \in DOMAIN topics : CloseByHand(t)
  BY <1>4, HandStep
<1> QED
  BY <1>1, <1>2, <1>3, <1>4 DEF Next

\* With or without the lock: all that refers to a topic refers to one of the same user.
THEOREM AlwaysBelongs == Spec => [](Typed /\ Belongs)
<1>1. Init => Typed /\ Belongs
  BY InitBelongs
<1>2. (Typed /\ Belongs) /\ [Next]_vars => (Typed /\ Belongs)'
  BY NextBelongs
<1> QED
  BY <1>1, <1>2, PTL DEF Spec

\* A message in an open topic can be answered, though the lock of the user expired, requests
\* were repeated, steps failed or the bot was restarted (clear_case, bind_topic, the copy).
THEOREM Answered == Spec => []Answerable
<1>1. Typed /\ Belongs => Answerable
  BY DEF Belongs
<1> QED
  BY <1>1, AlwaysBelongs, PTL

\* the topic of a case leads back to its user
CaseMapped == \A u \in Users : case[u].topic # NoTopic => owner[case[u].topic] = u

\* what binds or deletes one of the two binds or deletes the other
LEMMA CaseMappedStep ==
    ASSUME Typed, Belongs, CaseMapped, [Next]_vars
    PROVE  CaseMapped'
<1> DEFINE Quiet == owner' = owner /\ \A u \in Users : case'[u].topic = case[u].topic
<1>1. Quiet => CaseMapped'
  BY DEF CaseMapped
<1>2. ASSUME NEW k \in Tasks, Map(k) \/ Bind(k) \/ Delete(k)
      PROVE  CaseMapped'
  <2> DEFINE u == tasks[k].user
             t == tasks[k].topic
  <2>1. TaskOwn(k)
    BY DEF Belongs
  <2>2. u \in Users /\ Of(t, u)
    BY <1>2, <2>1 DEF Map, Bind, Delete, TaskOwn, Aim, WithoutTopic
  <2>3. t \in TopicIds /\ DOMAIN topics \subseteq TopicIds
    BY <2>2, SupportAssumption DEF Of, Typed, TopicIds
  <2> HIDE DEF u, t
  <2>4. \A v \in Users \ {u} : case[v].topic # NoTopic => case[v].topic \in TopicIds \ {t}
    BY <2>2, <2>3 DEF Belongs, Of
  <2>5. CASE case' = case /\ owner' = [owner EXCEPT ![t] = u]
    BY <2>2, <2>3, <2>4, <2>5 DEF CaseMapped, Typed
  <2>6. CASE case' = [case EXCEPT ![u].topic = t, ![u].card = FALSE]
             /\ owner' = [owner EXCEPT ![t] = u]
    <3>1. \A v \in Users : case'[v].topic = IF v = u THEN t ELSE case[v].topic
      BY <2>2, <2>6 DEF Typed
    <3> QED
      BY <2>2, <2>3, <2>4, <2>6, <3>1 DEF CaseMapped, Typed
  <2>7. CASE case' = [case EXCEPT ![u] = NoCase] /\ owner' = [owner EXCEPT ![t] = None]
    <3>1. \A v \in Users : case'[v].topic = IF v = u THEN NoTopic ELSE case[v].topic
      BY <2>2, <2>7 DEF Typed, NoCase
    <3> QED
      BY <2>2, <2>3, <2>4, <2>7, <3>1 DEF CaseMapped, Typed
  <2> QED
    BY <1>1, <1>2, <2>5, <2>6, <2>7 DEF Map, Bind, Bound, Owned, Delete, Forgotten, Unmapped, u, t
<1>3. ASSUME NEW k \in Tasks, Enter(k) \/ RestoreEnter(k) \/ MarkCard(k) \/ Complete(k)
      PROVE  Quiet
  <2> DEFINE u == tasks[k].user
  <2>1. owner' = owner
    BY <1>3 DEF Enter, RestoreEnter, MarkCard, Complete
  <2>2. \/ case' = [case EXCEPT ![u].mode = "waiting"]
        \/ case' = [case EXCEPT ![u].mode = "active"]
        \/ case' = [case EXCEPT ![u].card = TRUE]
    BY <1>3 DEF Enter, RestoreEnter, MarkCard, Complete, Begun, Completed
  <2>3. TaskOwn(k)
    BY DEF Belongs
  <2>4. u \in Users
    BY <1>3, <2>3 DEF TaskOwn, Enter, RestoreEnter, MarkCard, Complete
  <2> HIDE DEF u
  <2>5. \A v \in Users : case'[v].topic = case[v].topic
    <3>1. case \in [Users -> [mode : {"none", "waiting", "active"}, topic : 0 .. MaxTopics,
                              card : BOOLEAN]]
      BY DEF Typed
    <3>2. CASE case' = [case EXCEPT ![u].mode = "waiting"]
      BY <2>4, <3>1, <3>2
    <3>3. CASE case' = [case EXCEPT ![u].mode = "active"]
      BY <2>4, <3>1, <3>3
    <3>4. CASE case' = [case EXCEPT ![u].card = TRUE]
      BY <2>4, <3>1, <3>4
    <3> QED
      BY <2>2, <3>2, <3>3, <3>4
  <2> QED
    BY <2>1, <2>5
<1>4. CASE UNCHANGED <<case, owner>>
  BY <1>1, <1>4
<1> HIDE DEF Quiet
<1> QED
  BY <1>1, <1>2, <1>3, <1>4
     DEF Next, vars, Step, Begin, Write, PressClose, Notified, GiveUp, Fault, LockExpires, Crash,
         CloseByHand, Restore, BeginCase, Acquire, Check, Find, CreateTopic, Undo, LookForCard,
         SendCard, Copy, Send, ClearCase, Recheck, Shut, ClearClosed

\* The topic of a case is mapped to its user, though the lock expires: to look at the mapping and
\* at the case one after the other, as the close button does, is as good as to look at once.
THEOREM CaseIsMapped == Spec => []CaseMapped
<1>1. Init => Typed /\ Belongs /\ CaseMapped
  BY InitBelongs DEF Init, CaseMapped, NoCase
<1>2. (Typed /\ Belongs /\ CaseMapped) /\ [Next]_vars => (Typed /\ Belongs /\ CaseMapped)'
  BY NextBelongs, CaseMappedStep
<1> QED
  BY <1>1, <1>2, PTL DEF Spec

-----------------------------------------------------------------------------
(* The second layer *)

\* a lock that expired under a handler stays in the history
Calm == \A u \in Users : ~seen'[u].expired => ~seen[u].expired

\* a case does not lose its topic or its mode, though it may be begun again
SameCase(u) ==
    case'[u].topic = case[u].topic /\ case'[u].mode \in {case[u].mode, "waiting"}

\* what is noted as lost has nothing to do with locks
LEMMA CalmLost ==
    ASSUME Typed, NEW u \in Users, seen' = seen \/ seen' = [seen EXCEPT ![u].lost = TRUE]
    PROVE  Calm
<1>1. seen \in [Users -> [expired : BOOLEAN, lost : BOOLEAN]]
  BY DEF Typed
<1> QED
  BY <1>1 DEF Calm

\* a handler inside its block whose user's case another one does not touch
LEMMA OthersApart ==
    ASSUME Typed, Belongs, Apart, Grows, Calm, NEW j \in Tasks, tasks'[j] = tasks[j],
           \A u \in Users : lock[u] = j => lock'[u] = j,
           \A u \in Users : Safe(u) /\ lock[u] = j => SameCase(u)
    PROVE  TaskLock(j)'
<1> DEFINE u == tasks[j].user
           t == tasks[j].topic
<1>1. TaskLock(j) /\ TaskOwn(j)
  BY DEF Apart, Belongs
<1>2. SUFFICES ASSUME Safe(u)', tasks[j].pc \in Locked
               PROVE  TaskLock(j)'
  BY DEF TaskLock, Sending, Locked
<1>3. Safe(u)
  BY <1>2 DEF Safe, Calm
<1>4. u \in Users /\ lock[u] = j /\ lock'[u] = j /\ SameCase(u)
  BY <1>1, <1>2, <1>3 DEF TaskLock, Safe
<1>5. tasks[j].pc \in Sending => t \in DOMAIN topics
  BY <1>1 DEF TaskOwn, Aim, Sending, WithoutTopic, Of
<1>6. tasks[j].pc \in Sending \ {"card", "post"} => topics'[t].card
  BY <1>1, <1>3, <1>5 DEF TaskLock, Grows
<1>7. tasks[j].pc \in {"create", "bind"} => case'[u].topic = NoTopic
  BY <1>1, <1>3, <1>4 DEF TaskLock, SameCase
<1>8. tasks[j].pc \in Sending \cup {"map"} => case'[u].topic = t
  BY <1>1, <1>3, <1>4 DEF TaskLock, SameCase
<1>9. tasks[j].pc \in Sending \cup {"find", "map", "create", "bind"} => case'[u].mode # "none"
  BY <1>1, <1>3, <1>4 DEF TaskLock, SameCase
<1>10. /\ tasks[j].pc = "enter" => case'[u].mode # "active"
       /\ tasks[j].pc = "delete" => case'[u].topic = t
  BY <1>1, <1>3, <1>4 DEF TaskLock, SameCase
<1> QED
  BY <1>4, <1>6, <1>7, <1>8, <1>9, <1>10 DEF TaskLock

\* two handlers are never inside the block of one user
LEMMA OnlyHolder ==
    ASSUME Apart, NEW k \in Tasks, NEW j \in Tasks, tasks[k].pc \in Locked,
           Safe(tasks[k].user), lock[tasks[k].user] = j
    PROVE  j = k
BY DEF Apart, TaskLock

\* cases of no other user, or none, are touched by what handler k does
Mild(k) == \A u \in Users : tasks[k].pc \notin Locked \/ tasks[k].user # u => SameCase(u)

\* a handler that comes, waits or ends has no lock, and the others keep theirs
LEMMA LeavesApart ==
    ASSUME Typed, Belongs, Apart, Grows, Calm, NEW k \in Tasks, Mild(k),
           \A j \in Tasks \ {k} : tasks'[j] = tasks[j],
           tasks'[k].pc \notin Locked,
           \A u \in Users : lock'[u] = IF lock[u] = k THEN None ELSE lock[u]
    PROVE  HoldersWork' /\ \A j \in Tasks : TaskLock(j)'
<1>1. HoldersWork
  BY DEF Apart
<1>2. None \notin Tasks
  BY SupportAssumption
<1>3. HoldersWork'
  BY <1>1, <1>2 DEF HoldersWork
<1>4. TaskLock(k)'
  BY DEF TaskLock, Sending, Locked
<1>5. ASSUME NEW j \in Tasks \ {k}
      PROVE  TaskLock(j)'
  <2>1. \A u \in Users : lock[u] = j => lock'[u] = j
    OBVIOUS
  <2>2. \A u \in Users : Safe(u) /\ lock[u] = j => SameCase(u)
    BY OnlyHolder DEF Mild
  <2> QED
    BY <2>1, <2>2, OthersApart
<1> QED
  BY <1>3, <1>4, <1>5

\* a handler goes on within its block
LEMMA StaysApart ==
    ASSUME Typed, Belongs, Apart, Grows, Calm, NEW k \in Tasks, Mild(k),
           \A j \in Tasks \ {k} : tasks'[j] = tasks[j],
           tasks'[k].pc \in Locked, tasks'[k].user = tasks[k].user,
           lock' = lock, TaskLock(k)'
    PROVE  HoldersWork' /\ \A j \in Tasks : TaskLock(j)'
<1>1. HoldersWork'
  BY DEF Apart, HoldersWork
<1>2. ASSUME NEW j \in Tasks \ {k}
      PROVE  TaskLock(j)'
  <2>1. \A u \in Users : Safe(u) /\ lock[u] = j => SameCase(u)
    BY OnlyHolder DEF Mild
  <2> QED
    BY <2>1, OthersApart
<1> QED
  BY <1>1, <1>2

\* cases and mappings that are left alone agree as before
LEMMA MappedKept ==
    ASSUME Apart, Calm, owner' = owner, \A u \in Users : case'[u].topic = case[u].topic
    PROVE  MappedBothWays'
BY DEF Apart, MappedBothWays, Calm

\* cards stay where they are; a message comes to a card, and a mark after it
LEMMA CardsKept ==
    ASSUME Typed, Belongs, Apart, Grows, Calm,
           \A u \in Users : Safe(u)' /\ case'[u].topic # NoTopic /\ case'[u].card =>
               \/ case'[u].topic = case[u].topic /\ case[u].card
               \/ topics'[case'[u].topic].card,
           \A t \in DOMAIN topics' : topics'[t].content =>
               \/ t \in DOMAIN topics /\ topics[t].content
               \/ topics'[t].card
               \/ seen'[topics'[t].user].expired
    PROVE  CardFirst' /\ CardIsThere'
<1>1. \A t \in DOMAIN topics : topics[t].user \in Users
  BY TopicUser
<1>2. CardFirst'
  BY <1>1 DEF Apart, CardFirst, Grows, Calm, Typed
<1>3. ASSUME NEW u \in Users, Safe(u)', case'[u].topic # NoTopic, case'[u].card
      PROVE  topics'[case'[u].topic].card
  <2>1. Safe(u)
    BY <1>3 DEF Safe, Calm
  <2>2. CASE case'[u].topic = case[u].topic /\ case[u].card
    <3>1. topics[case[u].topic].card /\ case[u].topic \in DOMAIN topics
      BY <1>3, <2>1, <2>2 DEF Apart, CardIsThere, Belongs, Of
    <3> QED
      BY <2>2, <3>1 DEF Grows
  <2> QED
    BY <1>3, <2>2
<1> QED
  BY <1>2, <1>3 DEF CardIsThere

\* a step that changes no case, mapping or topic
LEMMA QuietApart ==
    ASSUME Typed, Belongs, Apart, Calm, UNCHANGED <<case, owner, topics>>
    PROVE  /\ Grows /\ \A u \in Users : SameCase(u)
           /\ MappedBothWays' /\ CardFirst' /\ CardIsThere'
<1>1. Grows
  BY SameTopics
<1>2. MappedBothWays'
  BY MappedKept
<1>3. CardFirst' /\ CardIsThere'
  BY <1>1, CardsKept
<1> QED
  BY <1>1, <1>2, <1>3 DEF SameCase

\* a handler comes: it waits for the lock, or restores the mode
LEMMA ComeApart ==
    ASSUME Typed, Belongs, Apart, NEW k \in Tasks,
           \/ \E u \in Users : Begin(k, u) \/ Write(k, u)
           \/ \E t \in DOMAIN topics : PressClose(k, t) \/ Notified(k, t)
    PROVE  Apart'
<1>1. /\ UNCHANGED <<case, owner, topics, lock>>
      /\ tasks[k] = Idle
      /\ \A j \in Tasks \ {k} : tasks'[j] = tasks[j]
  BY DEF Begin, Write, PressClose, Notified, Typed
<1>2. Idle.pc = "idle" /\ {"idle", "lock", "restore"} \cap Locked = {}
  BY DEF Idle, Locked
<1>3. tasks'[k].pc \notin Locked
  <2>1. tasks'[k] = tasks[k] \/ tasks'[k].pc \in {"lock", "restore"}
    <3>1. ASSUME NEW u \in Users, Begin(k, u)
          PROVE  tasks'[k].pc = "lock"
      BY <3>1 DEF Begin, Idle, Typed
    <3>2. ASSUME NEW u \in Users, Write(k, u)
          PROVE  tasks'[k].pc \in {"lock", "restore"}
      <4>1. PICK pc \in {"lock", "restore"} :
              tasks' = [tasks EXCEPT ![k] = [pc |-> pc, next |-> "check", user |-> u,
                                             topic |-> NoTopic]]
        BY <3>2 DEF Write, Idle
      <4> QED
        BY <4>1 DEF Typed
    <3>3. ASSUME NEW t \in DOMAIN topics, PressClose(k, t)
          PROVE  tasks'[k].pc = "lock"
      BY <3>3 DEF PressClose, Typed
    <3>4. ASSUME NEW t \in DOMAIN topics, Notified(k, t)
          PROVE  tasks'[k] = tasks[k] \/ tasks'[k].pc = "lock"
      <4>1. CASE owner[t] = None
        BY <3>4, <4>1 DEF Notified
      <4>2. CASE owner[t] # None
        <5>1. tasks' = [tasks EXCEPT ![k] = [pc |-> "lock", next |-> "clear closed",
                                             user |-> owner[t], topic |-> t]]
          BY <3>4, <4>2 DEF Notified
        <5> QED
          BY <5>1 DEF Typed
      <4> QED
        BY <4>1, <4>2
    <3> QED
      BY <3>1, <3>2, <3>3, <3>4
  <2> QED
    BY <1>1, <1>2, <2>1
<1>4. \A u \in Users : lock'[u] = IF lock[u] = k THEN None ELSE lock[u]
  BY <1>1, <1>2 DEF Apart, HoldersWork
<1>5. Calm
  <2>1. CASE seen' = seen
    BY <2>1 DEF Calm
  <2>2. CASE seen' # seen
    <3>1. PICK t \in DOMAIN topics : seen' = [seen EXCEPT ![topics[t].user].lost = TRUE]
      BY <2>2 DEF Begin, Write, PressClose, Notified
    <3>2. topics[t].user \in Users
      BY TopicUser
    <3> QED
      BY <3>1, <3>2, CalmLost
  <2> QED
    BY <2>1, <2>2
<1>6. /\ Grows /\ \A u \in Users : SameCase(u)
      /\ MappedBothWays' /\ CardFirst' /\ CardIsThere'
  BY <1>1, <1>5, QuietApart
<1>7. HoldersWork' /\ \A j \in Tasks : TaskLock(j)'
  BY <1>1, <1>3, <1>4, <1>5, <1>6, LeavesApart DEF Mild
<1> QED
  BY <1>6, <1>7 DEF Apart

\* a handler that ends: no case but its user's was touched
LEMMA EndApart ==
    ASSUME Typed, Belongs, Apart, Grows, Calm, NEW k \in Tasks, Mild(k), End(k)
    PROVE  HoldersWork' /\ \A j \in Tasks : TaskLock(j)'
<1>1. /\ Becomes(k, Idle)
      /\ \A u \in Users : lock'[u] = IF lock[u] = k THEN None ELSE lock[u]
  BY EndsIdle
<1>2. tasks'[k].pc \notin Locked
  BY <1>1 DEF Becomes, Idle, Locked
<1> QED
  BY <1>1, <1>2, LeavesApart DEF Becomes

\* a handler gets its lock, gives it up, looks at Redis, or fails
LEMMA LookApart ==
    ASSUME Typed, Belongs, Apart, NEW k \in Tasks,
           Acquire(k) \/ GiveUp(k) \/ Fault(k) \/ Looks(k) \/ Find(k)
    PROVE  Apart'
<1> DEFINE u == tasks[k].user
           t == tasks[k].topic
<1>1. UNCHANGED <<case, owner, topics>>
  BY LooksOnward DEF Acquire, GiveUp, Fault, Find
<1>2. TaskOwn(k) /\ tasks[k] \in Task /\ TaskLock(k)
  BY DEF Typed, Belongs, Apart
<1>3. u \in Users
  BY <1>2, LooksOnward DEF TaskOwn, Acquire, GiveUp, Fault, Find
<1>4. Calm
  <2>1. seen' = seen \/ seen' = [seen EXCEPT ![u].lost = TRUE]
    BY LooksOnward DEF Acquire, GiveUp, Fault, Find
  <2> QED
    BY <1>3, <2>1, CalmLost
<1>5. /\ Grows /\ Mild(k)
      /\ MappedBothWays' /\ CardFirst' /\ CardIsThere'
  BY <1>1, <1>4, QuietApart DEF Mild
<1> SUFFICES HoldersWork' /\ \A j \in Tasks : TaskLock(j)'
  BY <1>5 DEF Apart
<1>6. CASE End(k)
  BY <1>4, <1>5, <1>6, EndApart
<1>7. CASE Acquire(k)
  <2>1. /\ tasks[k].pc = "lock" /\ lock[u] = None
        /\ lock' = [lock EXCEPT ![u] = k]
        /\ Goto(k, tasks[k].next)
    BY <1>7 DEF Acquire, IsFree
  <2>2. tasks[k].next \in {"begin", "check", "recheck", "clear", "clear closed"}
    BY <1>2, <2>1 DEF TaskOwn
  <2>3. tasks[k].next \in Places
    BY <1>2 DEF Task
  <2>4. /\ Becomes(k, [tasks[k] EXCEPT !.pc = tasks[k].next])
        /\ tasks'[k].pc = tasks[k].next
        /\ tasks'[k].user = u
    BY <2>1, <2>3, GoesOn
  <2> HIDE DEF u
  <2>5. /\ lock'[u] = k
        /\ \A v \in Users \ {u} : lock'[v] = lock[v]
    BY <1>3, <2>1 DEF Typed
  <2>6. tasks[k].next \in Locked /\ tasks[k].next \notin Sending \cup {"find", "map", "create", "bind", "enter", "delete"}
    BY <2>2 DEF Locked, Sending
  <2>7. TaskLock(k)'
    BY <2>4, <2>5, <2>6 DEF TaskLock
  <2>8. HoldersWork'
    <3>1. \A v \in Users : lock[v] # k
      BY <2>1 DEF Apart, HoldersWork, Locked
    <3>2. HoldersWork
      BY DEF Apart
    <3> QED
      <4>1. ASSUME NEW v \in Users \ {u}, lock'[v] \in Tasks
            PROVE  tasks'[lock'[v]].user = v /\ tasks'[lock'[v]].pc \in Locked
        <5>1. lock[v] \in Tasks \ {k} /\ lock'[v] = lock[v]
          BY <2>5, <3>1, <4>1
        <5>2. tasks'[lock[v]] = tasks[lock[v]]
          BY <2>4, <5>1 DEF Becomes
        <5> QED
          BY <3>2, <5>1, <5>2 DEF HoldersWork
      <4>2. tasks'[lock'[u]].user = u /\ tasks'[lock'[u]].pc \in Locked
        BY <2>4, <2>5, <2>6
      <4> QED
        BY <4>1, <4>2 DEF HoldersWork
  <2>9. ASSUME NEW j \in Tasks \ {k}
        PROVE  TaskLock(j)'
    <3>1. \A v \in Users : lock[v] = j => lock'[v] = j
      BY <1>3, <2>1, <2>5, SupportAssumption
    <3>2. \A v \in Users : SameCase(v)
      BY <1>1 DEF SameCase
    <3> QED
      BY <1>4, <1>5, <2>4, <3>1, <3>2, OthersApart DEF Becomes
  <2> QED
    BY <2>7, <2>8, <2>9
<1>8. CASE Find(k)
  <2>1. /\ tasks[k].pc = "find"
        /\ lock' = lock
        /\ tasks' = [tasks EXCEPT ![k].topic = case[u].topic,
                                  ![k].pc = IF case[u].topic = NoTopic THEN "create" ELSE "map"]
    BY <1>8 DEF Find
  <2>2. /\ \A j \in Tasks \ {k} : tasks'[j] = tasks[j]
        /\ tasks'[k].user = u
        /\ tasks'[k].topic = case[u].topic
        /\ tasks'[k].pc = IF case[u].topic = NoTopic THEN "create" ELSE "map"
    BY <1>2, <2>1 DEF Typed, Task
  <2> HIDE DEF u
  <2>3. tasks'[k].pc \in Locked /\ tasks[k].pc \in Locked
    BY <2>1, <2>2 DEF Locked
  <2>4. ~seen'[u].expired => lock'[u] = k /\ case[u].mode # "none"
    BY <1>2, <1>3, <1>4, <2>1, <2>3 DEF TaskLock, Safe, Calm, u
  <2>5. TaskLock(k)'
    BY <1>1, <2>1, <2>2, <2>4 DEF TaskLock, Safe, Sending
  <2> QED
    BY <1>4, <1>5, <2>1, <2>2, <2>3, <2>5, StaysApart DEF u
<1>9. CASE Looks(k) /\ \E pc \in Places \ {"idle", "lock"} :
                            Onward(k, pc) /\ HasRead(k, pc) /\ lock' = lock
  <2>1. PICK pc \in Places \ {"idle", "lock"} : Onward(k, pc) /\ HasRead(k, pc) /\ lock' = lock
    BY <1>9
  <2>2. /\ Becomes(k, [tasks[k] EXCEPT !.pc = pc])
        /\ tasks'[k].pc = pc
        /\ tasks'[k].user = u
        /\ tasks'[k].topic = t
    BY <2>1, GoesOn DEF Onward
  <2>3. CASE pc = "restore enter"
    <3>1. tasks'[k].pc \notin Locked /\ tasks[k].pc \notin Locked
      BY <2>1, <2>2, <2>3 DEF Onward, Locked
    <3>2. \A v \in Users : lock'[v] = IF lock[v] = k THEN None ELSE lock[v]
      BY <2>1, <3>1 DEF Apart, HoldersWork
    <3> QED
      BY <1>4, <1>5, <2>2, <3>1, <3>2, LeavesApart DEF Becomes
  <2>4. CASE pc # "restore enter"
    <3> HIDE DEF u, t
    <3>1. pc \in Locked /\ tasks[k].pc \in Locked
      BY <2>1, <2>4 DEF Onward, Locked
    <3>2. TaskLock(k)'
      <4>1. SUFFICES ASSUME ~seen'[u].expired
                     PROVE  TaskLock(k)'
        BY <2>2 DEF TaskLock, Safe
      <4>2. Safe(u)
        BY <1>3, <1>4, <4>1 DEF Safe, Calm
      <4>3. lock'[u] = k
        BY <1>2, <2>1, <3>1, <4>2 DEF TaskLock, u
      <4>4. pc \in Sending => case[u].topic = t /\ case[u].mode # "none"
        BY <1>2, <2>1, <4>2 DEF TaskLock, Onward, Sending, u, t
      <4>5. pc = "copy" => topics[t].card
        <5>1. pc = "copy" => t # NoTopic
          <6>1. pc = "copy" => Aim(k) \notin WithoutTopic
            BY <2>1 DEF Onward, Aim, WithoutTopic
          <6>2. pc = "copy" => t \in DOMAIN topics
            BY <1>2, <6>1 DEF TaskOwn, Of, t
          <6> QED
            BY <6>2 DEF Typed, NoTopic
        <5> QED
          BY <1>3, <2>1, <4>2, <4>4, <5>1 DEF Apart, CardIsThere, HasRead, Sending, u, t
      <4>6. /\ pc = "find" => case[u].mode # "none"
            /\ pc = "enter" => case[u].mode # "active"
            /\ pc = "delete" => case[u].topic = t
        BY <2>1 DEF HasRead, u, t
      <4>7. pc \notin {"map", "create", "bind", "mark", "complete", "card"}
        BY <2>1 DEF Onward
      <4> QED
        BY <1>1, <2>2, <4>3, <4>4, <4>5, <4>6, <4>7 DEF TaskLock, Sending
    <3> QED
      BY <1>4, <1>5, <2>1, <2>2, <3>1, <3>2, StaysApart DEF u, Becomes
  <2> QED
    BY <2>3, <2>4
<1>10. CASE Looks(k) /\ Queue(k, "check") /\ tasks[k].pc = "restore" /\ lock' = lock
  <2>1. Becomes(k, [tasks[k] EXCEPT !.pc = "lock", !.next = "check"])
    BY <1>10, Queued DEF Places, Locked
  <2>2. tasks'[k].pc \notin Locked /\ tasks[k].pc \notin Locked
    BY <1>2, <1>10, <2>1 DEF Becomes, Task, Locked
  <2>3. \A v \in Users : lock'[v] = IF lock[v] = k THEN None ELSE lock[v]
    BY <1>10, <2>2 DEF Apart, HoldersWork
  <2> QED
    BY <1>4, <1>5, <2>1, <2>2, <2>3, LeavesApart DEF Becomes
<1> QED
  BY <1>6, <1>7, <1>8, <1>9, <1>10, LooksOnward DEF GiveUp, Fault

\* what a handler inside its block may rely on, when it goes on as pc
LEMMA OnApart ==
    ASSUME Typed, Belongs, Apart, Grows, Calm, NEW k \in Tasks, Mild(k),
           NEW pc \in Locked, Goto(k, pc), lock' = lock, tasks[k].pc \in Locked,
           Safe(tasks[k].user) =>
               /\ pc \in {"create", "bind"} => case'[tasks[k].user].topic = NoTopic
               /\ pc \in Sending \cup {"map"} => case'[tasks[k].user].topic = tasks[k].topic
               /\ pc \in Sending \cup {"find", "map", "create", "bind"} =>
                      case'[tasks[k].user].mode # "none"
               /\ pc \in Sending \ {"card", "post"} => topics'[tasks[k].topic].card
               /\ pc = "enter" => case'[tasks[k].user].mode # "active"
               /\ pc = "delete" => case'[tasks[k].user].topic = tasks[k].topic
    PROVE  HoldersWork' /\ \A j \in Tasks : TaskLock(j)'
<1>1. pc \in Places
  BY DEF Places
<1>2. /\ Becomes(k, [tasks[k] EXCEPT !.pc = pc])
      /\ tasks'[k].pc = pc
      /\ tasks'[k].user = tasks[k].user
      /\ tasks'[k].topic = tasks[k].topic
  BY <1>1, GoesOn
<1>3. TaskLock(k)'
  <2>1. SUFFICES ASSUME tasks[k].user \in Users, ~seen'[tasks[k].user].expired
                 PROVE  TaskLock(k)'
    BY <1>2 DEF TaskLock, Safe
  <2>2. Safe(tasks[k].user)
    BY <2>1 DEF Safe, Calm
  <2>3. lock[tasks[k].user] = k
    BY <2>2 DEF Apart, TaskLock
  <2> QED
    BY <1>2, <2>2, <2>3 DEF TaskLock
<1> QED
  BY <1>2, <1>3, StaysApart DEF Becomes

\* the mode of a case, or the mark of its card
LEMMA ModeApart ==
    ASSUME Typed, Belongs, Apart, NEW k \in Tasks,
           Enter(k) \/ RestoreEnter(k) \/ MarkCard(k) \/ Complete(k)
    PROVE  Apart'
<1> DEFINE u == tasks[k].user
           t == tasks[k].topic
           Case == [mode : {"none", "waiting", "active"}, topic : 0 .. MaxTopics, card : BOOLEAN]
<1>1. UNCHANGED <<legacy, owner, topics, notices, spent, seen>>
  BY DEF Enter, RestoreEnter, MarkCard, Complete
<1>2. TaskOwn(k) /\ tasks[k] \in Task /\ TaskLock(k) /\ case \in [Users -> Case]
  BY DEF Typed, Belongs, Apart
<1>3. u \in Users
  BY <1>2 DEF Enter, RestoreEnter, MarkCard, Complete, TaskOwn
<1>4. /\ \A v \in Users : case'[v].topic = case[v].topic
      /\ \A v \in Users : v # u \/ ~Complete(k) => SameCase(v)
      /\ \A v \in Users : case'[v].card # case[v].card => MarkCard(k) /\ v = u
  <2> HIDE DEF u
  <2>1. CASE ~Complete(k) /\ case' = [case EXCEPT ![u].mode = "waiting"]
    BY <1>2, <1>3, <2>1 DEF SameCase
  <2>2. CASE MarkCard(k)
    <3>1. case' = [case EXCEPT ![u].card = TRUE]
      BY <2>2 DEF MarkCard, u
    <3> QED
      BY <1>2, <1>3, <2>2, <3>1 DEF SameCase
  <2>3. CASE Complete(k)
    <3>1. case' = [case EXCEPT ![u].mode = "active"]
      BY <2>3 DEF Complete, Completed, u
    <3> QED
      BY <1>2, <1>3, <2>3, <3>1 DEF SameCase
  <2> QED
    BY <2>1, <2>2, <2>3 DEF Enter, RestoreEnter, Begun, u
<1>5. Calm /\ Grows /\ Mild(k)
  <2>1. Complete(k) => tasks[k].pc \in Locked
    BY DEF Complete, Locked
  <2> QED
    BY <1>1, <1>4, <2>1, SameTopics DEF Calm, Mild
<1>6. MappedBothWays'
  BY <1>1, <1>4, <1>5, MappedKept
<1>7. CardFirst' /\ CardIsThere'
  <2>1. ASSUME NEW v \in Users, Safe(v)', case'[v].topic # NoTopic, case'[v].card
        PROVE  \/ case'[v].topic = case[v].topic /\ case[v].card
               \/ topics'[case'[v].topic].card
    <3>1. CASE case[v].card
      BY <1>4, <3>1
    <3>2. CASE ~case[v].card
      <4>1. tasks[k].pc = "mark" /\ v = u
        BY <1>4, <2>1, <3>2 DEF MarkCard
      <4>2. Safe(u)
        BY <1>1, <1>3, <2>1, <4>1 DEF Safe
      <4>3. case[u].topic = t /\ topics[t].card
        BY <1>2, <4>1, <4>2 DEF TaskLock, Sending
      <4> QED
        BY <1>1, <1>3, <1>4, <4>1, <4>3
    <3> QED
      BY <3>1, <3>2
  <2> QED
    BY <1>1, <1>5, <2>1, CardsKept
<1> SUFFICES HoldersWork' /\ \A j \in Tasks : TaskLock(j)'
  BY <1>6, <1>7 DEF Apart
<1>8. CASE End(k)
  BY <1>5, <1>8, EndApart
<1>9. CASE RestoreEnter(k)
  <2>1. /\ Becomes(k, [tasks[k] EXCEPT !.pc = "lock", !.next = "check"])
        /\ lock' = lock /\ tasks[k].pc = "restore enter"
    BY <1>9, Queued DEF RestoreEnter, Places, Locked
  <2>2. tasks'[k].pc = "lock" /\ \A j \in Tasks \ {k} : tasks'[j] = tasks[j]
    BY <1>2, <2>1 DEF Becomes, Task
  <2>3. \A v \in Users : lock'[v] = IF lock[v] = k THEN None ELSE lock[v]
    BY <2>1 DEF Apart, HoldersWork, Locked
  <2>4. tasks'[k].pc \notin Locked
    BY <2>2 DEF Locked
  <2> QED
    BY <1>5, <2>2, <2>3, <2>4, LeavesApart
<1>10. CASE MarkCard(k)
  <2>1. Goto(k, "copy") /\ tasks[k].pc = "mark" /\ lock' = lock
    BY <1>10 DEF MarkCard
  <2>2. "copy" \in Locked /\ tasks[k].pc \in Locked
    BY <2>1 DEF Locked
  <2>3. Safe(u) => case'[u].topic = t /\ case'[u].mode # "none" /\ topics'[t].card
    BY <1>1, <1>2, <1>3, <1>4, <1>10, <2>1 DEF TaskLock, Sending, SameCase, MarkCard, Complete
  <2> QED
    BY <1>5, <2>1, <2>2, <2>3, OnApart
<1> QED
  BY <1>8, <1>9, <1>10 DEF Enter, Complete

\* the topic of a case is mapped again
LEMMA MapApart ==
    ASSUME Typed, Belongs, Apart, NEW k \in Tasks, Map(k)
    PROVE  Apart'
<1> DEFINE u == tasks[k].user
           t == tasks[k].topic
<1>1. /\ UNCHANGED <<case, legacy, lock, topics, notices, spent, seen>>
      /\ tasks[k].pc = "map" /\ Goto(k, "card")
      /\ owner' = [owner EXCEPT ![t] = u]
  BY DEF Map
<1>2. TaskOwn(k) /\ tasks[k] \in Task /\ TaskLock(k)
  BY DEF Typed, Belongs, Apart
<1>3. u \in Users /\ Of(t, u)
  BY <1>1, <1>2 DEF TaskOwn, Aim, WithoutTopic
<1>4. t \in TopicIds /\ t # NoTopic
  BY <1>3, SupportAssumption DEF Of, Typed, TopicIds, NoTopic
<1>5. /\ owner'[t] = u
      /\ \A i \in TopicIds \ {t} : owner'[i] = owner[i]
  BY <1>1, <1>4 DEF Typed
<1>6. Calm /\ Grows /\ Mild(k)
  BY <1>1, SameTopics DEF Calm, Mild, SameCase
<1>7. CardFirst' /\ CardIsThere'
  BY <1>1, <1>6, CardsKept
<1>8. Safe(u) => case[u].topic = t /\ case[u].mode # "none"
  BY <1>1, <1>2 DEF TaskLock
<1> HIDE DEF u, t
<1>9. MappedBothWays'
  <2>1. SUFFICES ASSUME NEW v \in Users, ~seen[v].expired, NEW i \in TopicIds
                 PROVE  case[v].topic = i <=> owner'[i] = v
    BY <1>1 DEF MappedBothWays
  <2>2. case[v].topic = i <=> owner[i] = v
    BY <2>1 DEF Apart, MappedBothWays
  <2>3. i = t /\ case[v].topic = i => v = u
    BY <1>3, <1>4 DEF Belongs, Of
  <2> QED
    BY <1>5, <1>8, <2>1, <2>2, <2>3 DEF Safe
<1>10. HoldersWork' /\ \A j \in Tasks : TaskLock(j)'
  <2>1. "card" \in Locked /\ tasks[k].pc \in Locked
    BY <1>1 DEF Locked
  <2> QED
    BY <1>1, <1>6, <1>8, <2>1, OnApart DEF u, t
<1> QED
  BY <1>7, <1>9, <1>10 DEF Apart

\* the topic is bound to the case, or is to be closed again, bound or not
LEMMA BindApart ==
    ASSUME Typed, Belongs, Apart, NEW k \in Tasks, Bind(k)
    PROVE  Apart'
<1> DEFINE u == tasks[k].user
           t == tasks[k].topic
           Case == [mode : {"none", "waiting", "active"}, topic : 0 .. MaxTopics, card : BOOLEAN]
           done == case' = Bound(u, t) /\ owner' = Owned(u, t)
<1>1. /\ UNCHANGED <<legacy, lock, topics, notices, seen>>
      /\ tasks[k].pc = "bind"
      /\ \/ done /\ Goto(k, "card") /\ spent' = spent
         \/ (done \/ (case' = case /\ owner' = owner)) /\ Goto(k, "undo") /\ Spend
  BY DEF Bind
<1>2. TaskOwn(k) /\ tasks[k] \in Task /\ TaskLock(k) /\ case \in [Users -> Case]
  BY DEF Typed, Belongs, Apart
<1>3. u \in Users /\ Of(t, u)
  BY <1>1, <1>2 DEF TaskOwn, Aim, WithoutTopic
<1>4. t \in TopicIds /\ t # NoTopic
  BY <1>3, SupportAssumption DEF Of, Typed, TopicIds, NoTopic
<1>5. Safe(u) => case[u].topic = NoTopic /\ case[u].mode # "none"
  BY <1>1, <1>2 DEF TaskLock
<1> HIDE DEF u, t
<1>6. ASSUME done
      PROVE  /\ case'[u].topic = t /\ ~case'[u].card /\ case'[u].mode = case[u].mode
             /\ \A v \in Users \ {u} : case'[v] = case[v]
             /\ owner'[t] = u
             /\ \A i \in TopicIds \ {t} : owner'[i] = owner[i]
  BY <1>2, <1>3, <1>4, <1>6 DEF Bound, Owned, Typed
<1>7. tasks[k].pc \in Locked /\ {"card", "undo"} \subseteq Locked
  BY <1>1 DEF Locked
<1>8. Calm /\ Grows
  BY <1>1, SameTopics DEF Calm
<1>9. Mild(k)
  BY <1>1, <1>6, <1>7 DEF Mild, SameCase, u
<1>10. CardFirst' /\ CardIsThere'
  <2>1. \A v \in Users : case'[v].card => case'[v] = case[v]
    BY <1>1, <1>6
  <2> QED
    BY <1>1, <1>8, <2>1, CardsKept
<1>11. MappedBothWays'
  <2>1. SUFFICES ASSUME NEW v \in Users, ~seen[v].expired, NEW i \in TopicIds
                 PROVE  case'[v].topic = i <=> owner'[i] = v
    BY <1>1 DEF MappedBothWays
  <2>2. case[v].topic = i <=> owner[i] = v
    BY <2>1 DEF Apart, MappedBothWays
  <2>3. i = t /\ case[v].topic = i => v = u
    BY <1>3, <1>4 DEF Belongs, Of
  <2>4. i # NoTopic
    BY DEF TopicIds, NoTopic
  <2>5. CASE done
    <3>1. CASE v = u
      BY <1>5, <1>6, <2>1, <2>2, <2>4, <2>5, <3>1 DEF Safe
    <3>2. CASE v # u
      BY <1>6, <2>2, <2>3, <2>5, <3>2
    <3> QED
      BY <3>1, <3>2
  <2>6. CASE case' = case /\ owner' = owner
    BY <2>2, <2>6
  <2> QED
    BY <1>1, <2>5, <2>6
<1>12. PICK pc \in {"card", "undo"} : Goto(k, pc) /\ (pc = "card" => done)
  BY <1>1
<1>13. Safe(u) /\ pc = "card" => case'[u].topic = t /\ case'[u].mode # "none"
  BY <1>5, <1>6, <1>12
<1> HIDE DEF done
<1>14. HoldersWork' /\ \A j \in Tasks : TaskLock(j)'
  <2>1. /\ pc \in Locked /\ pc \notin {"enter", "delete"}
        /\ pc \in Sending \cup {"find", "map", "create", "bind"} => pc = "card"
    BY <1>7, <1>12 DEF Sending
  <2>2. Safe(u) =>
          /\ pc \in {"create", "bind"} => case'[u].topic = NoTopic
          /\ pc \in Sending \cup {"map"} => case'[u].topic = t
          /\ pc \in Sending \cup {"find", "map", "create", "bind"} => case'[u].mode # "none"
          /\ pc \in Sending \ {"card", "post"} => topics'[t].card
          /\ pc = "enter" => case'[u].mode # "active"
          /\ pc = "delete" => case'[u].topic = t
    BY <1>13, <2>1
  <2> QED
    BY <1>1, <1>7, <1>8, <1>9, <1>12, <2>1, <2>2, OnApart DEF u, t
<1> QED
  BY <1>10, <1>11, <1>14 DEF Apart

\* the case of a closed topic, and its mapping, are taken away
LEMMA ClearApart ==
    ASSUME Typed, Belongs, Apart, NEW k \in Tasks, Delete(k)
    PROVE  Apart'
<1> DEFINE u == tasks[k].user
           t == tasks[k].topic
           Case == [mode : {"none", "waiting", "active"}, topic : 0 .. MaxTopics, card : BOOLEAN]
<1>1. /\ UNCHANGED <<legacy, topics, notices, spent, seen>>
      /\ tasks[k].pc \in Clearing
      /\ End(k)
      /\ tasks[k].pc = "delete"
      /\ case' = [case EXCEPT ![u] = NoCase] /\ owner' = [owner EXCEPT ![t] = None]
  BY DEF Delete, Forgotten, Unmapped, Clearing
<1>2. TaskOwn(k) /\ TaskLock(k) /\ tasks[k] \in Task /\ case \in [Users -> Case]
  BY DEF Typed, Belongs, Apart
<1>3. u \in Users /\ Of(t, u)
  BY <1>1, <1>2 DEF TaskOwn, Aim, WithoutTopic, Clearing
<1>4. t \in TopicIds /\ t # NoTopic
  BY <1>3, SupportAssumption DEF Of, Typed, TopicIds, NoTopic
<1>5. tasks[k].pc \in Locked
  BY <1>1 DEF Clearing, Locked
<1>13. Safe(u) => case[u].topic = t
  BY <1>1, <1>2 DEF TaskLock
<1> HIDE DEF u, t
<1>6. /\ case'[u] = NoCase /\ owner'[t] = None
      /\ \A v \in Users \ {u} : case'[v] = case[v]
      /\ \A i \in TopicIds \ {t} : owner'[i] = owner[i]
  BY <1>1, <1>2, <1>3, <1>4 DEF Typed
<1>7. Calm /\ Grows
  BY <1>1, SameTopics DEF Calm
<1>8. Mild(k)
  BY <1>5, <1>6 DEF Mild, SameCase, u
<1>9. NoCase.topic = NoTopic
  BY DEF NoCase
<1>10. CardFirst' /\ CardIsThere'
  BY <1>1, <1>6, <1>7, <1>9, CardsKept
<1>11. MappedBothWays'
  <2>1. SUFFICES ASSUME NEW v \in Users, ~seen[v].expired, NEW i \in TopicIds
                 PROVE  case'[v].topic = i <=> owner'[i] = v
    BY <1>1 DEF MappedBothWays
  <2>2. case[v].topic = i <=> owner[i] = v
    BY <2>1 DEF Apart, MappedBothWays
  <2>3. i = t /\ case[v].topic = i => v = u
    BY <1>3, <1>4 DEF Belongs, Of
  <2>4. i # NoTopic /\ None \notin Users
    BY SupportAssumption DEF TopicIds, NoTopic
  <2>5. CASE v = u
    <3>1. case[u].topic = t
      BY <1>3, <1>13, <2>1, <2>5 DEF Safe
    <3> QED
      BY <1>6, <1>9, <2>2, <2>4, <2>5, <3>1
  <2>6. CASE v # u
    BY <1>6, <2>2, <2>3, <2>4, <2>6
  <2> QED
    BY <2>5, <2>6
<1>12. HoldersWork' /\ \A j \in Tasks : TaskLock(j)'
  BY <1>1, <1>7, <1>8, EndApart
<1> QED
  BY <1>10, <1>11, <1>12 DEF Apart

\* topics are opened for a user without one
LEMMA CreateApart ==
    ASSUME Typed, Belongs, Apart, NEW k \in Tasks, CreateTopic(k)
    PROVE  Apart'
<1> DEFINE u == tasks[k].user
<1>1. /\ UNCHANGED <<case, legacy, owner, notices, seen>>
      /\ tasks[k].pc = "create"
  BY DEF CreateTopic
<1>2. TaskOwn(k) /\ tasks[k] \in Task /\ TaskLock(k)
  BY DEF Typed, Belongs, Apart
<1>3. u \in Users
  BY <1>1, <1>2 DEF TaskOwn
<1>4. PICK n \in 0 .. 2 : OpenedAs(k, u, n)
  BY OpenedOne
<1> USE DEF OpenedAs
<1>5. /\ Grows
      /\ \A t \in DOMAIN topics : topics'[t] = topics[t]
      /\ \A t \in DOMAIN topics' \ DOMAIN topics : ~topics'[t].content
  BY <1>3, <1>4, TopicsOpened
<1>6. Calm /\ Mild(k)
  BY <1>1 DEF Calm, Mild, SameCase
<1>7. MappedBothWays'
  BY <1>1, <1>6, MappedKept
<1>8. CardFirst' /\ CardIsThere'
  BY <1>1, <1>5, <1>6, CardsKept
<1> SUFFICES HoldersWork' /\ \A j \in Tasks : TaskLock(j)'
  BY <1>7, <1>8 DEF Apart
<1>9. CASE End(k)
  BY <1>5, <1>6, <1>9, EndApart
<1>10. CASE ~End(k)
  <2>1. /\ lock' = lock
        /\ tasks' = [tasks EXCEPT ![k].topic = Len(topics) + n, ![k].pc = "bind"]
    BY <1>4, <1>10
  <2>2. /\ \A j \in Tasks \ {k} : tasks'[j] = tasks[j]
        /\ tasks'[k].user = u
        /\ tasks'[k].pc = "bind"
    BY <1>2, <2>1 DEF Typed, Task
  <2>3. tasks'[k].pc \in Locked /\ tasks[k].pc \in Locked
    BY <1>1, <2>2 DEF Locked
  <2>4. Safe(u) => lock[u] = k /\ case[u].topic = NoTopic /\ case[u].mode # "none"
    BY <1>1, <1>2, <2>3 DEF TaskLock
  <2> HIDE DEF u
  <2>5. TaskLock(k)'
    BY <1>1, <1>3, <2>1, <2>2, <2>4 DEF TaskLock, Safe, Sending
  <2> QED
    BY <1>5, <1>6, <2>1, <2>2, <2>3, <2>5, StaysApart DEF u
<1> QED
  BY <1>9, <1>10

\* a message to the topic: its card, or what the user wrote
LEMMA SendApart ==
    ASSUME Typed, Belongs, Apart, NEW k \in Tasks, SendCard(k) \/ Copy(k)
    PROVE  Apart'
<1> DEFINE u == tasks[k].user
           t == tasks[k].topic
           card == [topics[t] EXCEPT !.card = TRUE]
           content == [topics[t] EXCEPT !.content = TRUE]
<1>1. TaskOwn(k) /\ tasks[k] \in Task /\ TaskLock(k)
  BY DEF Typed, Belongs, Apart
<1>2. PICK r \in {card, content}, next \in {"mark", "complete"} : SentAs(k, t, r, next)
  BY SentOne
<1> USE DEF SentAs
<1>3. u \in Users /\ Of(t, u)
  BY <1>1, <1>2 DEF TaskOwn, Aim, WithoutTopic
<1>4. Safe(u) =>
        /\ lock[u] = k /\ case[u].topic = t /\ case[u].mode # "none"
        /\ tasks[k].pc = "copy" => topics[t].card
  BY <1>1, <1>2 DEF TaskLock, Sending, Locked
<1>5. /\ r \in Topic /\ r.user = u /\ r.open = topics[t].open /\ (topics[t].card => r.card)
      /\ Safe(u) => r.card
  BY <1>2, <1>3, <1>4, TopicFields DEF Of, Topic
<1> HIDE DEF u, t, card, content
<1>6. /\ Grows
      /\ topics' = topics \/ topics'[t] = r
      /\ \A i \in DOMAIN topics \ {t} : topics'[i] = topics[i]
      /\ DOMAIN topics' = DOMAIN topics
  <2>1. CASE topics' = topics
    BY <2>1, SameTopics
  <2>2. CASE topics' = [topics EXCEPT ![t] = r]
    BY <1>3, <1>5, <2>2, TopicSet DEF Of
  <2> QED
    BY <1>2, <2>1, <2>2
<1>7. Calm /\ Mild(k)
  BY <1>2 DEF Calm, Mild, SameCase
<1>8. MappedBothWays'
  BY <1>2, <1>7, MappedKept
<1>9. CardFirst' /\ CardIsThere'
  <2>1. ASSUME NEW i \in DOMAIN topics', topics'[i].content
        PROVE  \/ i \in DOMAIN topics /\ topics[i].content
               \/ topics'[i].card
               \/ seen'[topics'[i].user].expired
    BY <1>2, <1>3, <1>5, <1>6, <2>1 DEF Safe
  <2> QED
    BY <1>2, <1>6, <1>7, <2>1, CardsKept
<1> SUFFICES HoldersWork' /\ \A j \in Tasks : TaskLock(j)'
  BY <1>8, <1>9 DEF Apart
<1>10. CASE End(k)
  BY <1>6, <1>7, <1>10, EndApart
<1>11. CASE Goto(k, next) /\ lock' = lock /\ topics' = [topics EXCEPT ![t] = r]
  <2>1. next \in Locked /\ tasks[k].pc \in Locked /\ next \notin {"create", "bind"}
    BY <1>2 DEF Locked
  <2>2. topics'[t] = r
    BY <1>3, <1>11 DEF Of
  <2>3. Safe(u) => case'[u].topic = t /\ case'[u].mode # "none" /\ topics'[t].card
    BY <1>2, <1>4, <1>5, <2>2
  <2> QED
    BY <1>6, <1>7, <1>11, <2>1, <2>3, OnApart DEF u, t
<1>12. CASE ~topics[t].open /\ Unavailable(k) /\ topics' = topics
  <2>1. /\ Becomes(k, [tasks[k] EXCEPT !.pc = "lock", !.next = "clear"])
        /\ lock' = Released(k)
    BY <1>12, Queued DEF Unavailable, Places, Locked
  <2>2. tasks'[k].pc \notin Locked /\ \A j \in Tasks \ {k} : tasks'[j] = tasks[j]
    BY <1>1, <2>1 DEF Becomes, Task, Locked
  <2>3. \A v \in Users : lock'[v] = IF lock[v] = k THEN None ELSE lock[v]
    BY <2>1 DEF Released
  <2> QED
    BY <1>6, <1>7, <2>2, <2>3, LeavesApart
<1> QED
  BY <1>2, <1>10, <1>11, <1>12

\* a topic is closed by the bot
LEMMA ShutApart ==
    ASSUME Typed, Belongs, Apart, NEW k \in Tasks, Undo(k) \/ Shut(k)
    PROVE  Apart'
<1> DEFINE u == tasks[k].user
           t == tasks[k].topic
<1>1. TaskOwn(k) /\ tasks[k] \in Task
  BY DEF Typed, Belongs
<1>2. /\ UNCHANGED <<case, legacy, owner, notices>>
      /\ topics' = topics \/ topics' = [topics EXCEPT ![t].open = FALSE]
      /\ seen' = seen \/ seen' = [seen EXCEPT ![u].lost = TRUE]
      /\ tasks[k].pc \in {"undo", "shut"}
      /\ End(k) \/ (Goto(k, "clear") /\ lock' = lock)
  BY DEF Undo, Shut
<1>3. u \in Users /\ Of(t, u)
  BY <1>1, <1>2 DEF TaskOwn, Aim, WithoutTopic
<1>4. /\ Grows
      /\ DOMAIN topics' = DOMAIN topics
      /\ \A i \in DOMAIN topics : topics'[i].content = topics[i].content
  BY <1>2, <1>3, Closes DEF Of
<1>5. Calm /\ Mild(k)
  BY <1>2, <1>3, CalmLost DEF Mild, SameCase
<1>6. MappedBothWays'
  BY <1>2, <1>5, MappedKept
<1>7. CardFirst' /\ CardIsThere'
  BY <1>2, <1>4, <1>5, CardsKept
<1>8. CASE End(k)
  BY <1>4, <1>5, <1>6, <1>7, <1>8, EndApart DEF Apart
<1>9. CASE Goto(k, "clear") /\ lock' = lock
  <2>1. /\ "clear" \in Locked /\ tasks[k].pc \in Locked
        /\ "clear" \notin Sending \cup {"find", "map", "create", "bind", "enter", "delete"}
    BY <1>2 DEF Locked, Sending
  <2>2. HoldersWork' /\ \A j \in Tasks : TaskLock(j)'
    BY <1>4, <1>5, <1>9, <2>1, OnApart
  <2> QED
    BY <1>6, <1>7, <2>2 DEF Apart
<1> QED
  BY <1>2, <1>8, <1>9

\* a topic is closed by hand, a lock runs out, or the bot is restarted
LEMMA OutsideApart ==
    ASSUME Typed, Belongs, Apart,
           \/ \E t \in DOMAIN topics : CloseByHand(t)
           \/ \E u \in Users : LockExpires(u)
           \/ Crash
    PROVE  Apart'
<1>1. UNCHANGED <<case, owner>>
  BY DEF CloseByHand, LockExpires, Crash
<1>2. /\ None \notin Tasks /\ Crashed \notin Tasks
      /\ seen \in [Users -> [expired : BOOLEAN, lost : BOOLEAN]]
  BY SupportAssumption DEF Typed
<1>3. \A v \in Users : SameCase(v)
  BY <1>1 DEF SameCase
<1>4. ASSUME NEW t \in DOMAIN topics, CloseByHand(t)
      PROVE  Apart'
  <2>1. /\ lock' = lock /\ tasks' = tasks
        /\ topics' = [topics EXCEPT ![t].open = FALSE]
        /\ seen' = seen \/ seen' = [seen EXCEPT ![topics[t].user].lost = TRUE]
    BY <1>4 DEF CloseByHand
  <2>2. /\ Grows
        /\ DOMAIN topics' = DOMAIN topics
        /\ \A i \in DOMAIN topics : topics'[i].content = topics[i].content
    BY <1>1, <2>1, Closes
  <2>3. Calm
    BY <2>1, TopicUser, CalmLost
  <2>4. MappedBothWays' /\ CardFirst' /\ CardIsThere'
    BY <1>1, <2>2, <2>3, MappedKept, CardsKept
  <2>5. HoldersWork'
    BY <2>1 DEF Apart, HoldersWork
  <2>6. \A j \in Tasks : TaskLock(j)'
    BY <1>3, <2>1, <2>2, <2>3, OthersApart
  <2> QED
    BY <2>4, <2>5, <2>6 DEF Apart
<1>5. ASSUME NEW u \in Users, LockExpires(u)
      PROVE  Apart'
  <2>1. /\ topics' = topics /\ tasks' = tasks
        /\ \/ lock[u] = Crashed /\ seen' = seen
           \/ seen' = [seen EXCEPT ![u].expired = TRUE]
        /\ lock' = [lock EXCEPT ![u] = None]
    BY <1>5 DEF LockExpires
  <2>2. Calm
    BY <1>2, <2>1 DEF Calm
  <2>3. Grows /\ MappedBothWays' /\ CardFirst' /\ CardIsThere'
    BY <1>1, <2>1, <2>2, QuietApart
  <2>4. lock'[u] = None /\ \A v \in Users \ {u} : lock'[v] = lock[v]
    BY <2>1 DEF Typed
  <2>5. HoldersWork'
    BY <1>2, <2>1, <2>4 DEF Apart, HoldersWork
  <2>6. ASSUME NEW j \in Tasks
        PROVE  TaskLock(j)'
    <3>1. CASE \A v \in Users : lock[v] = j => lock'[v] = j
      BY <1>3, <2>1, <2>2, <2>3, <3>1, OthersApart
    <3>2. CASE lock[u] = j
      <4>1. seen'[u].expired /\ tasks[j].user = u
        BY <1>2, <2>1, <3>2 DEF Apart, HoldersWork
      <4> QED
        BY <2>1, <4>1 DEF TaskLock, Safe
    <3> QED
      BY <2>4, <3>1, <3>2
  <2> QED
    BY <2>3, <2>5, <2>6 DEF Apart
<1>6. CASE Crash
  <2>1. /\ topics' = topics
        /\ tasks' = [k \in Tasks |-> Idle]
        /\ lock' = [u \in Users |-> IF lock[u] = None THEN None ELSE Crashed]
        /\ seen' = [u \in Users |-> [seen[u] EXCEPT
                      !.lost = @ \/ \E k \in Tasks : tasks[k].user = u]]
    BY <1>6 DEF Crash
  <2>2. Calm
    <3> SUFFICES ASSUME NEW u \in Users
                 PROVE  seen'[u].expired = seen[u].expired
      BY DEF Calm
    <3>1. seen[u] \in [expired : BOOLEAN, lost : BOOLEAN]
      BY <1>2
    <3>2. seen'[u] = [seen[u] EXCEPT !.lost = @ \/ \E k \in Tasks : tasks[k].user = u]
      BY <2>1
    <3> QED
      BY <3>1, <3>2
  <2>3. MappedBothWays' /\ CardFirst' /\ CardIsThere'
    BY <1>1, <2>1, <2>2, QuietApart
  <2>4. HoldersWork'
    BY <1>2, <2>1 DEF HoldersWork
  <2>5. \A j \in Tasks : TaskLock(j)'
    BY <2>1 DEF TaskLock, Idle, Sending, Locked
  <2> QED
    BY <2>3, <2>4, <2>5 DEF Apart
<1> QED
  BY <1>4, <1>5, <1>6

\* it holds at the start
LEMMA InitApart ==
    ASSUME Init
    PROVE  Apart
<1>1. Idle.pc = "idle" /\ NoCase.topic = NoTopic
  BY DEF Idle, NoCase
<1>2. HoldersWork
  BY SupportAssumption DEF Init, HoldersWork
<1>3. \A k \in Tasks : TaskLock(k)
  BY <1>1 DEF Init, TaskLock, Sending, Locked
<1>4. MappedBothWays
  BY <1>1, SupportAssumption DEF Init, MappedBothWays, TopicIds, NoTopic
<1>5. CardFirst /\ CardIsThere
  BY <1>1 DEF Init, CardFirst, CardIsThere
<1> QED
  BY <1>2, <1>3, <1>4, <1>5 DEF Apart

\* every step keeps it
LEMMA NextApart ==
    ASSUME Typed, Belongs, Apart, [Next]_vars
    PROVE  Apart'
<1>1. CASE vars' = vars
  <2>1. UNCHANGED <<case, legacy, owner, lock, topics, notices, tasks, spent, seen>>
    BY <1>1 DEF vars
  <2>2. HoldersWork' /\ \A j \in Tasks : TaskLock(j)'
    BY <2>1 DEF Apart, HoldersWork, TaskLock, Safe
  <2>3. Calm
    BY <2>1 DEF Calm
  <2> QED
    BY <2>1, <2>2, <2>3, QuietApart DEF Apart
<1>2. ASSUME NEW k \in Tasks,
             \/ \E u \in Users : Begin(k, u) \/ Write(k, u)
             \/ \E t \in DOMAIN topics : PressClose(k, t) \/ Notified(k, t)
             \/ Step(k) \/ GiveUp(k) \/ Fault(k)
      PROVE  Apart'
  <2>1. CASE \/ \E u \in Users : Begin(k, u) \/ Write(k, u)
             \/ \E t \in DOMAIN topics : PressClose(k, t) \/ Notified(k, t)
    BY <2>1, ComeApart
  <2>2. CASE GiveUp(k) \/ Fault(k)
    BY <2>2, LookApart
  <2>3. CASE Step(k)
    <3>1. CASE Acquire(k) \/ Looks(k) \/ Find(k)
      BY <3>1, LookApart
    <3>2. CASE Enter(k) \/ RestoreEnter(k) \/ MarkCard(k) \/ Complete(k)
      BY <3>2, ModeApart
    <3>3. CASE Map(k) \/ CreateTopic(k) \/ Bind(k)
      BY <3>3, MapApart, CreateApart, BindApart
    <3>4. CASE SendCard(k) \/ Copy(k)
      BY <3>4, SendApart
    <3>5. CASE Undo(k) \/ Shut(k) \/ Delete(k)
      BY <3>5, ShutApart, ClearApart
    <3> QED
      BY <2>3, <3>1, <3>2, <3>3, <3>4, <3>5 DEF Step, Looks
  <2> QED
    BY <1>2, <2>1, <2>2, <2>3
<1>3. CASE \/ \E t \in DOMAIN topics : CloseByHand(t)
           \/ \E u \in Users : LockExpires(u)
           \/ Crash
  BY <1>3, OutsideApart
<1> QED
  BY <1>1, <1>2, <1>3 DEF Next

-----------------------------------------------------------------------------
(* What follows *)

\* Handlers that refer to topics of their user, and that the lock keeps apart until it expires.
THEOREM AlwaysInv == Spec => [](Typed /\ Belongs /\ Apart)
<1>1. Init => Typed /\ Belongs /\ Apart
  BY InitBelongs, InitApart
<1>2. (Typed /\ Belongs /\ Apart) /\ [Next]_vars => (Typed /\ Belongs /\ Apart)'
  BY NextBelongs, NextApart
<1> QED
  BY <1>1, <1>2, PTL DEF Spec

\* The shape of the state: topics are mapped to the users they were opened for, and a lock is
\* that of a handler inside its block.
THEOREM TypeCorrect == Spec => []TypeOK
<1>1. Typed /\ Belongs /\ Apart => TypeOK
  <2> SUFFICES ASSUME Typed, Belongs, Apart
               PROVE  TypeOK
    OBVIOUS
  <2>1. DOMAIN topics = 1 .. Len(topics) /\ Len(topics) \in 0 .. MaxTopics
    BY SupportAssumption DEF Typed
  <2>2. \A u \in Users : /\ case[u].mode \in {"none", "waiting", "active"}
                         /\ case[u].topic \in 0 .. Len(topics)
    BY <2>1 DEF Typed, Belongs, Of, NoTopic
  <2>3. \A t \in TopicIds : owner[t] # None => t \in DOMAIN topics /\ owner[t] = topics[t].user
    BY DEF Belongs, Of
  <2> QED
    BY <2>1, <2>2, <2>3 DEF Typed, Apart, HoldersWork, TypeOK
<1> QED
  BY <1>1, AlwaysInv, PTL

\* A user's case and the mapping of topics back to users agree (bind_topic, clear_case), unless
\* his lock expired under a handler.
THEOREM OneThread == Spec => []MappedBothWays
<1>1. Typed /\ Belongs /\ Apart => MappedBothWays
  BY DEF Apart
<1> QED
  BY <1>1, AlwaysInv, PTL

\* What a user wrote is never in a topic without his card (deliver_user_message sends the card
\* and marks it before the copy), unless his lock expired.
THEOREM CardComesFirst == Spec => []CardFirst
<1>1. Typed /\ Belongs /\ Apart => CardFirst
  BY DEF Apart
<1> QED
  BY <1>1, AlwaysInv, PTL

\* A message goes to the topic of a case that is still open (the mode is read again under the
\* lock), unless the lock expired.
THEOREM GoesToCase == Spec => DeliveredToCase
<1> DEFINE Delivered(k) ==
      LET u == tasks[k].user IN
      tasks[k].pc = "copy" /\ tasks'[k].pc = "complete" /\ ~seen[u].expired =>
          case[u].mode # "none" /\ case[u].topic = tasks[k].topic
<1>1. ASSUME Typed, Belongs, Apart, NEW k \in Tasks
      PROVE  Delivered(k)
  <2>1. TaskLock(k) /\ TaskOwn(k)
    BY <1>1 DEF Apart, Belongs
  <2> QED
    BY <2>1 DEF TaskLock, TaskOwn, Safe, Sending
<1>2. (Typed /\ Belongs /\ Apart) /\ [Next]_vars => [\A k \in Tasks : Delivered(k)]_vars
  BY <1>1
<1> QED
  BY <1>2, AlwaysInv, PTL DEF Spec, DeliveredToCase

\* A closed case is opened by the start of support and by nothing else (complete_delivery would
\* open it, but comes under the lock with the case still open), unless the lock expired or the
\* user has the mode of the old store.
THEOREM StaysClosed == Spec => ClosedStaysClosed
<1> DEFINE Reopened(u) ==
      case[u].mode = "none" /\ case'[u].mode # "none" =>
          \/ \E k \in Tasks : tasks[k].user = u /\ tasks[k].pc = "enter"
          \/ legacy[u] \/ seen[u].expired
<1>1. ASSUME Typed, Belongs, Apart, [Next]_vars, NEW u \in Users,
             case[u].mode = "none", case'[u].mode # "none"
      PROVE  \/ \E k \in Tasks : tasks[k].user = u /\ tasks[k].pc = "enter"
             \/ legacy[u] \/ seen[u].expired
  <2>1. case' # case
    BY <1>1
  <2>2. PICK k \in Tasks : Step(k)
    BY <1>1, <2>1
       DEF Next, vars, Begin, Write, PressClose, Notified, GiveUp, Fault, LockExpires,
           CloseByHand, Crash
  <2>3. TaskOwn(k) /\ TaskLock(k) /\ NoCase.mode = "none"
    BY <1>1 DEF Belongs, Apart, NoCase
  <2>4. CASE Enter(k) \/ RestoreEnter(k) \/ Complete(k)
    <3>1. u = tasks[k].user
      BY <1>1, <2>4 DEF Enter, RestoreEnter, Complete, Begun, Completed, Typed
    <3> QED
      BY <1>1, <2>3, <2>4, <3>1
         DEF Enter, RestoreEnter, Complete, TaskOwn, TaskLock, Safe, Sending
  <2>5. CASE MarkCard(k)
    BY <1>1, <2>5 DEF MarkCard, Typed
  <2>6. CASE Bind(k)
    <3>1. PICK v, t : case' = [case EXCEPT ![v].topic = t, ![v].card = FALSE]
      BY <2>1, <2>6 DEF Bind, Bound
    <3> QED
      BY <1>1, <3>1 DEF Typed
  <2>7. CASE Delete(k)
    BY <1>1, <2>3, <2>7 DEF Delete, Forgotten, Typed
  <2> QED
    BY <2>1, <2>2, <2>4, <2>5, <2>6, <2>7
       DEF Step, Acquire, Check, Find, Map, CreateTopic, Undo, LookForCard, SendCard, Copy, Send,
           Recheck, Shut, BeginCase, Restore, ClearCase, ClearClosed
<1>2. (Typed /\ Belongs /\ Apart) /\ [Next]_vars => [\A u \in Users : Reopened(u)]_vars
  BY <1>1
<1> QED
  BY <1>2, AlwaysInv, PTL DEF Spec, ClosedStaysClosed

-----------------------------------------------------------------------------
(* The conversation that is promised *)

\* who has confirmed a message has written it
Written == \A k \in Tasks : tasks[k].pc = "complete" => topics[tasks[k].topic].content

\* what is written in a topic stays
LEMMA ContentStays ==
    ASSUME Typed, Belongs, [Next]_vars, NEW t \in DOMAIN topics, topics[t].content
    PROVE  topics'[t].content
<1>1. CASE topics' = topics
  BY <1>1
<1>2. ASSUME NEW i \in DOMAIN topics, owner' = owner,
             topics' = topics \/ topics' = [topics EXCEPT ![i].open = FALSE]
      PROVE  topics'[t].content
  BY <1>2, Closes
<1>3. ASSUME NEW k \in Tasks, Undo(k) \/ Shut(k)
      PROVE  topics'[t].content
  <2>1. TaskOwn(k)
    BY DEF Belongs
  <2>2. /\ tasks[k].topic \in DOMAIN topics /\ owner' = owner
        /\ topics' = topics \/ topics' = [topics EXCEPT ![tasks[k].topic].open = FALSE]
    BY <1>3, <2>1 DEF Undo, Shut, TaskOwn, Aim, WithoutTopic, Of
  <2> QED
    BY <1>2, <2>2
<1>4. ASSUME NEW i \in DOMAIN topics, CloseByHand(i)
      PROVE  topics'[t].content
  BY <1>2, <1>4 DEF CloseByHand
<1>5. ASSUME NEW k \in Tasks, SendCard(k) \/ Copy(k)
      PROVE  topics'[t].content
  <2> DEFINE i == tasks[k].topic
             card == [topics[i] EXCEPT !.card = TRUE]
             content == [topics[i] EXCEPT !.content = TRUE]
  <2>1. PICK r \in {card, content}, next \in {"mark", "complete"} : SentAs(k, i, r, next)
    BY <1>5, SentOne
  <2>2. TaskOwn(k)
    BY DEF Belongs
  <2>3. i \in DOMAIN topics /\ topics[i].user \in Users
    BY <2>1, <2>2, TopicUser DEF SentAs, TaskOwn, Aim, WithoutTopic, Of
  <2>4. r \in Topic /\ r.user = topics[i].user /\ r.open = topics[i].open
        /\ (topics[i].card => r.card) /\ (topics[i].content => r.content)
    BY <2>1, <2>3, TopicFields DEF Topic
  <2>5. CASE topics' = [topics EXCEPT ![i] = r]
    <3>1. topics'[i] = r /\ \A j \in DOMAIN topics \ {i} : topics'[j] = topics[j]
      BY <2>3, <2>4, <2>5, TopicSet
    <3> QED
      BY <2>4, <3>1
  <2> QED
    BY <1>1, <2>1, <2>5 DEF SentAs
<1>6. ASSUME NEW k \in Tasks, CreateTopic(k)
      PROVE  topics'[t].content
  <2>1. PICK n \in 0 .. 2 : OpenedAs(k, tasks[k].user, n)
    BY <1>6, OpenedOne
  <2>2. TaskOwn(k)
    BY DEF Belongs
  <2>3. tasks[k].user \in Users
    BY <1>6, <2>2 DEF CreateTopic, TaskOwn
  <2>4. topics'[t] = topics[t]
    BY <2>1, <2>3, TopicsOpened DEF OpenedAs
  <2> QED
    BY <2>4
<1>7. CASE UNCHANGED vars
  BY <1>1, <1>7 DEF vars
<1> QED
  BY <1>1, <1>3, <1>4, <1>5, <1>6, <1>7
     DEF Next, Step, Begin, Write, PressClose, Notified, GiveUp, Fault, LockExpires, Crash,
         Restore, RestoreEnter, BeginCase, Enter, Acquire, Check, Find, Map, Bind, LookForCard,
         MarkCard, Complete, ClearCase, Recheck, ClearClosed, Delete

\* a handler that has a message to confirm had it before, or has just written it
LEMMA CompleteIsNew ==
    ASSUME Typed, Belongs, [Next]_vars, NEW k \in Tasks, tasks'[k].pc = "complete"
    PROVE  \/ tasks'[k] = tasks[k]
           \/ /\ tasks'[k].topic = tasks[k].topic
              /\ tasks[k].topic \in DOMAIN topics
              /\ topics' = WithContent(tasks[k].topic)
<1>1. /\ tasks \in [Tasks -> Task]
      /\ Idle.pc = "idle"
  BY DEF Typed, Idle
<1>2. CASE tasks' = tasks
  BY <1>2
<1>3. CASE Crash
  BY <1>1, <1>3 DEF Crash
<1>4. ASSUME NEW i \in Tasks, \/ \E u \in Users : Begin(i, u) \/ Write(i, u)
                              \/ \E t \in DOMAIN topics : PressClose(i, t) \/ Notified(i, t)
      PROVE  tasks'[k] = tasks[k]
  <2>1. CASE tasks' = tasks
    BY <2>1
  <2>2. PICK r : /\ tasks' = tasks \/ tasks' = [tasks EXCEPT ![i] = r]
                 /\ r.pc \in {"lock", "restore"}
    <3>1. CASE \E u \in Users : Begin(i, u)
      <4>1. PICK u \in Users : Begin(i, u)
        BY <3>1
      <4> DEFINE r == [Idle EXCEPT !.pc = "lock", !.next = "begin", !.user = u]
      <4>2. r.pc = "lock"
        BY DEF Idle
      <4>3. tasks' = [tasks EXCEPT ![i] = r]
        BY <4>1 DEF Begin
      <4> HIDE DEF r
      <4> QED
        BY <4>2, <4>3
    <3>2. CASE \E u \in Users : Write(i, u)
      <4>1. PICK u \in Users : Write(i, u)
        BY <3>2
      <4> DEFINE r(pc) == [Idle EXCEPT !.pc = pc, !.next = "check", !.user = u]
      <4>2. r("lock").pc = "lock" /\ r("restore").pc = "restore"
        BY DEF Idle
      <4>3. tasks' = [tasks EXCEPT ![i] = r("lock")] \/ tasks' = [tasks EXCEPT ![i] = r("restore")]
        BY <4>1 DEF Write
      <4> HIDE DEF r
      <4> QED
        BY <4>2, <4>3
    <3>3. CASE \E t \in DOMAIN topics : PressClose(i, t)
      <4>1. PICK t \in DOMAIN topics : PressClose(i, t)
        BY <3>3
      <4> DEFINE r == [pc |-> "lock", next |-> "recheck", user |-> owner[t], topic |-> t]
      <4>2. r.pc = "lock"
        OBVIOUS
      <4>3. tasks' = [tasks EXCEPT ![i] = r]
        BY <4>1 DEF PressClose
      <4> HIDE DEF r
      <4> QED
        BY <4>2, <4>3
    <3>4. CASE \E t \in DOMAIN topics : Notified(i, t)
      <4>1. PICK t \in DOMAIN topics : Notified(i, t)
        BY <3>4
      <4> DEFINE r == [pc |-> "lock", next |-> "clear closed", user |-> owner[t], topic |-> t]
      <4>2. r.pc = "lock"
        OBVIOUS
      <4>3. tasks' = tasks \/ tasks' = [tasks EXCEPT ![i] = r]
        BY <4>1 DEF Notified
      <4> HIDE DEF r
      <4> QED
        BY <4>2, <4>3
    <3> QED
      BY <1>4, <3>1, <3>2, <3>3, <3>4
  <2>3. CASE i = k
    BY <1>1, <2>2, <2>3
  <2>4. CASE i # k
    BY <1>1, <2>2, <2>4
  <2> QED
    BY <2>3, <2>4
<1>5. ASSUME NEW i \in Tasks, Step(i) \/ GiveUp(i) \/ Fault(i), i # k
      PROVE  tasks'[k] = tasks[k]
  BY <1>1, <1>5
     DEF Step, GiveUp, Fault, Restore, RestoreEnter, BeginCase, Enter, Acquire, Check, Find, Map,
         CreateTopic, Bind, Undo, LookForCard, SendCard, MarkCard, Copy, Complete, ClearCase,
         Recheck, Shut, ClearClosed, Delete,
         Goto, Queue, End, Send, Unavailable
<1>6. CASE Step(k) \/ GiveUp(k) \/ Fault(k)
  <2>1. TaskOwn(k)
    BY DEF Belongs
  <2>2. tasks[k] \in Task /\ ~End(k)
    BY <1>1 DEF End
  <2>3. ASSUME NEW pc, Goto(k, pc)
        PROVE  pc = "complete" /\ tasks'[k].topic = tasks[k].topic
    BY <1>1, <2>2, <2>3 DEF Goto, Task
  <2>4. ~Queue(k, "check") /\ ~Queue(k, "clear")
    BY <1>1, <2>2 DEF Queue, Task
  <2>5. Copy(k)
    <3>1. CASE Acquire(k)
      BY <2>1, <2>3, <3>1 DEF Acquire, TaskOwn, Clearing
    <3>2. CASE SendCard(k)
      BY <2>2, <2>3, <2>4, <3>2 DEF SendCard, Send, Unavailable
    <3>3. CASE CreateTopic(k)
      <4>1. PICK n : tasks' = [tasks EXCEPT ![k].topic = Len(topics) + n, ![k].pc = "bind"]
        BY <2>2, <3>3 DEF CreateTopic
      <4> QED
        BY <1>1, <2>2, <4>1 DEF Task
    <3>4. CASE Find(k)
      <4>1. PICK pc \in {"create", "map"} :
              \E t : tasks' = [tasks EXCEPT ![k].topic = t, ![k].pc = pc]
        BY <2>2, <3>4 DEF Find
      <4> QED
        BY <1>1, <2>2, <4>1 DEF Task
    <3>5. CASE Looks(k)
      <4>1. \A pc : ~Onward(k, pc)
        BY <2>3 DEF Onward
      <4> QED
        BY <2>2, <2>4, <3>5, <4>1, LooksOnward
    <3>6. CASE Map(k) \/ Bind(k) \/ MarkCard(k) \/ Shut(k) \/ RestoreEnter(k)
      <4>1. ~Goto(k, "card") /\ ~Goto(k, "copy") /\ ~Goto(k, "undo") /\ ~Goto(k, "clear")
        BY <2>3
      <4> QED
        BY <2>2, <2>4, <3>6, <4>1 DEF Map, Bind, MarkCard, Shut, RestoreEnter
    <3>7. CASE Enter(k) \/ Undo(k) \/ Complete(k) \/ Delete(k) \/ GiveUp(k) \/ Fault(k)
      BY <2>2, <3>7 DEF GiveUp, Fault, Enter, Undo, Complete, Delete
    <3> QED
      BY <1>6, <3>1, <3>2, <3>3, <3>4, <3>5, <3>6, <3>7 DEF Step, Looks
  <2>6. tasks[k].topic \in DOMAIN topics
    BY <2>1, <2>5 DEF Copy, Send, TaskOwn, Aim, WithoutTopic, Of
  <2>7. Goto(k, "complete") /\ topics' = WithContent(tasks[k].topic)
    BY <2>2, <2>4, <2>5 DEF Copy, Send, Unavailable
  <2> QED
    BY <2>3, <2>6, <2>7
<1>7. CASE UNCHANGED vars
  BY <1>2, <1>7 DEF vars
<1> QED
  BY <1>2, <1>3, <1>4, <1>5, <1>6, <1>7 DEF Next, LockExpires, CloseByHand

\* what was written and not yet confirmed is there
LEMMA WrittenStep ==
    ASSUME Typed, Belongs, Written, [Next]_vars
    PROVE  Written'
<1> SUFFICES ASSUME NEW k \in Tasks, tasks'[k].pc = "complete"
             PROVE  topics'[tasks'[k].topic].content
  BY DEF Written
<1>1. CASE tasks'[k] = tasks[k]
  <2>1. TaskOwn(k) /\ topics[tasks[k].topic].content
    BY <1>1 DEF Belongs, Written
  <2>2. tasks[k].topic \in DOMAIN topics
    BY <1>1, <2>1 DEF TaskOwn, Aim, WithoutTopic, Of
  <2> QED
    BY <1>1, <2>1, <2>2, ContentStays
<1>2. CASE tasks'[k] # tasks[k]
  <2> DEFINE t == tasks[k].topic
  <2>1. tasks'[k].topic = t /\ t \in DOMAIN topics /\ topics' = WithContent(t)
    BY <1>2, CompleteIsNew
  <2>2. topics[t] \in Topic
    BY <2>1, TopicFields
  <2> QED
    BY <2>1, <2>2 DEF WithContent, Topic, Typed
<1> QED
  BY <1>1, <1>2

\* who sees only cases, threads, topics and expired locks sees nothing happen
LEMMA NothingSeen ==
    ASSUME UNCHANGED <<case, owner, topics, legacy>>,
           \A u \in Users : seen'[u].expired = seen[u].expired
    PROVE  UNCHANGED Promise!vars
<1>1. Mode' = Mode /\ Thread' = Thread /\ Loose' = Loose /\ Old' = Old
  BY DEF Mode, Thread, Loose, Old
<1> QED
  BY <1>1 DEF Promise!vars

\* a user is as calm as his lock is safe
LEMMA CalmIsSafe ==
    ASSUME NEW u \in Users
    PROVE  /\ Promise!Calm(u) <=> Safe(u)
           /\ Mode[u] = case[u].mode /\ Thread[u] = case[u].topic
BY DEF Promise!Calm, Safe, Loose, Mode, Thread

\* a loss that is noted is not an expired lock
LEMMA LossSeen ==
    ASSUME Typed, seen' = seen \/ \E u : seen' = [seen EXCEPT ![u].lost = TRUE]
    PROVE  \A v \in Users : seen'[v].expired = seen[v].expired
<1>1. seen \in [Users -> [expired : BOOLEAN, lost : BOOLEAN]]
  BY DEF Typed
<1>2. CASE seen' = seen
  BY <1>2
<1>3. ASSUME NEW u, seen' = [seen EXCEPT ![u].lost = TRUE], NEW v \in Users
      PROVE  seen'[v].expired = seen[v].expired
  <2>1. CASE v = u
    BY <1>1, <1>3, <2>1
  <2>2. CASE v # u
    BY <1>1, <1>3, <2>2
  <2> QED
    BY <2>1, <2>2
<1> QED
  BY <1>2, <1>3

\* handlers that begin, look, wait or give up
LEMMA LooksConverse ==
    ASSUME Typed, Belongs, NEW k \in Tasks,
           \/ \E u \in Users : Begin(k, u) \/ Write(k, u)
           \/ \E t \in DOMAIN topics : PressClose(k, t) \/ Notified(k, t)
           \/ Acquire(k) \/ Looks(k) \/ Find(k) \/ GiveUp(k) \/ Fault(k)
    PROVE  UNCHANGED Promise!vars
<1>1. UNCHANGED <<case, owner, topics, legacy>>
  BY LooksOnward DEF Begin, Write, PressClose, Notified, Acquire, Find, GiveUp, Fault
<1>2. seen' = seen \/ \E u : seen' = [seen EXCEPT ![u].lost = TRUE]
  BY LooksOnward DEF Begin, Write, PressClose, Notified, Acquire, Find, GiveUp, Fault
<1>3. \A u \in Users : seen'[u].expired = seen[u].expired
  BY <1>2, LossSeen
<1> QED
  BY <1>1, <1>3, NothingSeen

\* the mode of a case: a case is begun, a card is marked, a message is confirmed
LEMMA ModeConverses ==
    ASSUME Typed, Belongs, Apart, Written, NEW k \in Tasks,
           Enter(k) \/ RestoreEnter(k) \/ MarkCard(k) \/ Complete(k)
    PROVE  [Promise!Next]_(Promise!vars)
<1> DEFINE u == tasks[k].user
           t == tasks[k].topic
<1>1. UNCHANGED <<owner, topics, seen, legacy>> /\ Loose' = Loose /\ Old' = Old
  BY DEF Enter, RestoreEnter, MarkCard, Complete, Loose, Old
<1>2. TaskOwn(k) /\ TaskLock(k)
  BY DEF Belongs, Apart
<1>3. u \in Users /\ Mode[u] = case[u].mode /\ Thread[u] = case[u].topic
      /\ (Promise!Calm(u) <=> Safe(u))
  BY <1>2, CalmIsSafe DEF Enter, RestoreEnter, MarkCard, Complete, TaskOwn
<1>4. case[u].mode \in {"none", "waiting", "active"}
  BY <1>3 DEF Typed
<1>5. ASSUME NEW m, case' = [case EXCEPT ![u].mode = m]
      PROVE  Mode' = [Mode EXCEPT ![u] = m] /\ Thread' = Thread
  BY <1>3, <1>5 DEF Mode, Thread, Typed
<1>6. CASE Enter(k) \/ RestoreEnter(k)
  <2>1. case' = [case EXCEPT ![u].mode = "waiting"]
    BY <1>6 DEF Enter, RestoreEnter, Begun
  <2>2. CASE case[u].mode = "none"
    <3>1. Promise!Ask(u)
      BY <1>1, <1>3, <1>5, <2>1, <2>2 DEF Promise!Ask
    <3> QED
      BY <1>1, <1>3, <3>1 DEF Promise!Next
  <2>3. CASE case[u].mode = "active"
    <3>1. Safe(u) => u \in Old
      BY <1>2, <1>3, <1>6, <2>3 DEF Enter, RestoreEnter, TaskOwn, TaskLock, Old
    <3>2. Promise!AskAgain(u)
      BY <1>1, <1>3, <1>5, <2>1, <2>3, <3>1 DEF Promise!AskAgain
    <3> QED
      BY <1>1, <1>3, <3>2 DEF Promise!Next
  <2>4. CASE case[u].mode = "waiting"
    <3>1. case' = case
      <4>1. case[u] = [case[u] EXCEPT !.mode = "waiting"]
        BY <1>3, <2>4 DEF Typed
      <4> QED
        BY <1>3, <2>1, <4>1 DEF Typed
    <3> QED
      BY <1>1, <3>1, NothingSeen
  <2> QED
    BY <1>4, <2>2, <2>3, <2>4
<1>7. CASE MarkCard(k)
  <2>1. case' = [case EXCEPT ![u].card = TRUE]
    BY <1>7 DEF MarkCard
  <2>2. Mode' = Mode /\ Thread' = Thread
    BY <1>3, <2>1 DEF Mode, Thread, Typed
  <2> QED
    BY <1>1, <2>2 DEF Promise!vars
<1>8. CASE Complete(k)
  <2>1. case' = [case EXCEPT ![u].mode = "active"] /\ tasks[k].pc = "complete"
    BY <1>8 DEF Complete, Completed
  <2>2. Of(t, u) /\ topics[t].content
    BY <1>2, <2>1 DEF TaskOwn, Aim, WithoutTopic, Written
  <2>3. t # NoTopic
    BY <2>2 DEF Of, Typed, NoTopic
  <2>4. CASE case[u].mode = "active"
    <3>1. case' = case
      BY <1>3, <2>1, <2>4 DEF Typed
    <3> QED
      BY <1>1, <3>1, NothingSeen
  <2>5. CASE case[u].mode # "active"
    <3>1. Safe(u) => case[u].mode = "waiting" /\ case[u].topic = t
      BY <1>2, <1>4, <2>1, <2>5 DEF TaskLock, Sending
    <3>2. Promise!Confirm(u)
      BY <1>1, <1>3, <1>5, <2>1, <2>2, <2>3, <3>1 DEF Promise!Confirm, Promise!NoTopic, NoTopic
    <3> QED
      BY <1>1, <1>3, <3>2 DEF Promise!Next
  <2> QED
    BY <2>4, <2>5
<1> QED
  BY <1>6, <1>7, <1>8

\* the topic of a case is mapped as it was, or mended
LEMMA MapConverses ==
    ASSUME Typed, Belongs, Apart, NEW k \in Tasks, Map(k)
    PROVE  [Promise!Next]_(Promise!vars)
<1> DEFINE u == tasks[k].user
           t == tasks[k].topic
<1>1. /\ UNCHANGED <<case, topics, seen, legacy>>
      /\ owner' = [owner EXCEPT ![t] = u]
      /\ tasks[k].pc = "map"
  BY DEF Map
<1>2. TaskOwn(k) /\ TaskLock(k)
  BY DEF Belongs, Apart
<1>3. u \in Users /\ Of(t, u)
  BY <1>1, <1>2 DEF TaskOwn, Aim, WithoutTopic
<1>4. t \in TopicIds /\ t \in DOMAIN topics
  BY <1>3, SupportAssumption DEF Of, Typed, TopicIds
<1>5. Mode' = Mode /\ Thread' = Thread /\ Loose' = Loose /\ Old' = Old
  BY <1>1 DEF Mode, Thread, Loose, Old
<1>6. CASE Safe(u)
  <2>1. case[u].topic = t
    BY <1>1, <1>2, <1>6 DEF TaskLock
  <2>2. owner[t] = u
    BY <1>4, <1>6, <2>1 DEF Apart, MappedBothWays, Safe
  <2>3. owner' = owner
    BY <1>1, <1>4, <2>2 DEF Typed
  <2> QED
    BY <1>1, <1>5, <2>3 DEF Promise!vars
<1>7. CASE ~Safe(u)
  <2>1. Promise!Mend(u, t)
    BY <1>1, <1>3, <1>5, <1>7, CalmIsSafe DEF Promise!Mend, Promise!Of, Of
  <2> QED
    BY <1>3, <1>4, <1>5, <2>1 DEF Promise!Next
<1> QED
  BY <1>6, <1>7

\* topics are opened for one who has asked and has none
LEMMA CreateConverses ==
    ASSUME Typed, Belongs, Apart, NEW k \in Tasks, CreateTopic(k)
    PROVE  [Promise!Next]_(Promise!vars)
<1> DEFINE u == tasks[k].user
<1>1. UNCHANGED <<case, owner, seen, legacy>> /\ tasks[k].pc = "create"
  BY DEF CreateTopic
<1>2. TaskOwn(k) /\ TaskLock(k)
  BY DEF Belongs, Apart
<1>3. u \in Users
  BY <1>1, <1>2 DEF TaskOwn
<1>4. PICK n \in 0 .. 2 : OpenedAs(k, u, n)
  BY OpenedOne
<1>5. Mode' = Mode /\ Thread' = Thread /\ Loose' = Loose /\ Old' = Old
  BY <1>1 DEF Mode, Thread, Loose, Old
<1>6. CASE n = 0
  <2>1. /\ topics' \in Seq(Topic) /\ DOMAIN topics' = 1 .. (Len(topics) + n)
        /\ \A t \in DOMAIN topics : topics'[t] = topics[t]
    BY <1>3, <1>4, TopicsOpened DEF OpenedAs, Grows
  <2>2. topics \in Seq(Topic) /\ Len(topics) \in Nat /\ DOMAIN topics = 1 .. Len(topics)
    BY DEF Typed
  <2>3. Len(topics') = Len(topics)
    BY <1>6, <2>1, <2>2
  <2>4. topics' = topics
    BY <2>1, <2>2, <2>3, SeqEqual
  <2> QED
    BY <1>1, <2>4, NothingSeen
<1>7. CASE n # 0
  <2>1. n \in 1 .. 2
    BY <1>7
  <2>2. Safe(u) => case[u].mode # "none" /\ case[u].topic = NoTopic
    BY <1>1, <1>2 DEF TaskLock
  <2>3. Promise!Open(u)
    BY <1>1, <1>3, <1>4, <1>5, <2>1, <2>2, CalmIsSafe
       DEF OpenedAs, Opened, Promise!Open, Promise!NoTopic, NoTopic
  <2> QED
    BY <1>3, <1>5, <2>3 DEF Promise!Next
<1> QED
  BY <1>6, <1>7

\* the topic becomes the thread of its user, in both directions
LEMMA BindConverses ==
    ASSUME Typed, Belongs, Apart, NEW k \in Tasks, Bind(k)
    PROVE  [Promise!Next]_(Promise!vars)
<1> DEFINE u == tasks[k].user
           t == tasks[k].topic
           done == case' = Bound(u, t) /\ owner' = Owned(u, t)
<1>1. /\ UNCHANGED <<topics, seen, legacy>> /\ tasks[k].pc = "bind"
      /\ done \/ UNCHANGED <<case, owner>>
  BY DEF Bind
<1>2. TaskOwn(k) /\ TaskLock(k)
  BY DEF Belongs, Apart
<1>3. u \in Users /\ Of(t, u)
  BY <1>1, <1>2 DEF TaskOwn, Aim, WithoutTopic
<1>4. t \in TopicIds /\ t \in DOMAIN topics /\ t # NoTopic
  BY <1>3, SupportAssumption DEF Of, Typed, TopicIds, NoTopic
<1>5. CASE UNCHANGED <<case, owner>>
  BY <1>1, <1>5, NothingSeen
<1>6. CASE done
  <2>1. /\ Mode' = Mode /\ Loose' = Loose /\ Old' = Old
        /\ Thread' = [Thread EXCEPT ![u] = t]
    <3>1. case' = [case EXCEPT ![u].topic = t, ![u].card = FALSE]
      BY <1>6 DEF Bound
    <3>2. \A v \in Users : /\ case'[v].mode = case[v].mode
                           /\ case'[v].topic = IF v = u THEN t ELSE case[v].topic
      BY <1>3, <3>1 DEF Typed
    <3> QED
      BY <1>1, <1>3, <3>2 DEF Mode, Thread, Loose, Old
  <2>2. Safe(u) => case[u].mode # "none" /\ case[u].topic = NoTopic
    BY <1>1, <1>2 DEF TaskLock
  <2>3. Safe(u) => owner[t] = None
    <3>1. owner[t] \in Users \cup {None} /\ (owner[t] # None => owner[t] = u)
      BY <1>3, <1>4 DEF Typed, Belongs, Of
    <3> QED
      BY <1>3, <1>4, <2>2, <3>1 DEF Apart, MappedBothWays, Safe
  <2>4. Promise!Bind(u, t)
    BY <1>1, <1>3, <1>6, <2>1, <2>2, <2>3, CalmIsSafe
       DEF Promise!Bind, Promise!Of, Promise!NoTopic, NoTopic, Of, Owned
  <2> QED
    BY <1>3, <1>4, <2>1, <2>4 DEF Promise!Next
<1> QED
  BY <1>1, <1>5, <1>6

\* his card, and what he wrote
LEMMA SendConverses ==
    ASSUME Typed, Belongs, Apart, NEW k \in Tasks, SendCard(k) \/ Copy(k)
    PROVE  [Promise!Next]_(Promise!vars)
<1> DEFINE u == tasks[k].user
           t == tasks[k].topic
<1>1. /\ UNCHANGED <<case, owner, seen, legacy>>
      /\ tasks[k].pc \in {"post", "copy"}
      /\ \/ topics' = topics
         \/ topics' = [topics EXCEPT ![t].card = TRUE]
         \/ tasks[k].pc = "copy" /\ topics' = [topics EXCEPT ![t].content = TRUE]
  BY DEF SendCard, Copy, Send, WithCard, WithContent
<1>2. TaskOwn(k) /\ TaskLock(k)
  BY DEF Belongs, Apart
<1>3. u \in Users /\ Of(t, u) /\ (topics[t].open => owner[t] = u)
  BY <1>1, <1>2 DEF TaskOwn, Aim, WithoutTopic, Sending
<1>4. Mode' = Mode /\ Thread' = Thread /\ Loose' = Loose /\ Old' = Old
  BY <1>1 DEF Mode, Thread, Loose, Old
<1>5. Safe(u) => case[u].mode # "none" /\ case[u].topic = t /\ (tasks[k].pc = "copy" => topics[t].card)
  BY <1>1, <1>2 DEF TaskLock, Sending
<1>6. CASE topics' = topics
  BY <1>1, <1>6, NothingSeen
<1>7. CASE topics' # topics
  <2>1. Promise!Post(u, t)
    BY <1>1, <1>3, <1>4, <1>5, <1>7, CalmIsSafe DEF Promise!Post, Promise!Of, Of
  <2> QED
    BY <1>3, <1>4, <2>1 DEF Promise!Next, Of
<1> QED
  BY <1>6, <1>7

\* a topic is closed, or was
LEMMA CloseConverses ==
    ASSUME Typed, NEW t \in DOMAIN topics, UNCHANGED <<case, owner, legacy>>,
           topics' = topics \/ topics' = [topics EXCEPT ![t].open = FALSE],
           \A u \in Users : seen'[u].expired = seen[u].expired
    PROVE  [Promise!Next]_(Promise!vars)
<1>1. CASE topics' = topics
  BY <1>1, NothingSeen
<1>2. CASE topics' # topics
  <2>1. topics[t] \in Topic
    BY TopicFields
  <2>2. topics[t].open
    <3> SUFFICES ASSUME ~topics[t].open PROVE topics' = topics
      BY <1>2
    <3>1. [topics[t] EXCEPT !.open = FALSE] = topics[t]
      BY <2>1 DEF Topic
    <3>2. topics' = [topics EXCEPT ![t] = topics[t]]
      BY <1>2, <3>1
    <3> QED
      BY <3>2 DEF Typed
  <2>3. Mode' = Mode /\ Thread' = Thread /\ Loose' = Loose /\ Old' = Old
    BY DEF Mode, Thread, Loose, Old
  <2>4. Promise!Close(t)
    BY <1>2, <2>2, <2>3 DEF Promise!Close
  <2> QED
    BY <2>3, <2>4 DEF Promise!Next
<1> QED
  BY <1>1, <1>2

\* a topic is closed by a handler or by hand
LEMMA ShutConverses ==
    ASSUME Typed, Belongs,
           \/ \E k \in Tasks : Undo(k) \/ Shut(k)
           \/ \E t \in DOMAIN topics : CloseByHand(t)
    PROVE  [Promise!Next]_(Promise!vars)
<1>1. UNCHANGED <<case, owner, legacy>>
  BY DEF Undo, Shut, CloseByHand
<1>2. seen' = seen \/ \E u : seen' = [seen EXCEPT ![u].lost = TRUE]
  BY DEF Undo, Shut, CloseByHand
<1>3. \A u \in Users : seen'[u].expired = seen[u].expired
  BY <1>2, LossSeen
<1>4. \E t \in DOMAIN topics : topics' = topics \/ topics' = [topics EXCEPT ![t].open = FALSE]
  <2>1. ASSUME NEW k \in Tasks, Undo(k) \/ Shut(k)
        PROVE  /\ tasks[k].topic \in DOMAIN topics
               /\ \/ topics' = topics
                  \/ topics' = [topics EXCEPT ![tasks[k].topic].open = FALSE]
    <3>1. TaskOwn(k)
      BY DEF Belongs
    <3> QED
      BY <2>1, <3>1 DEF Undo, Shut, TaskOwn, Aim, WithoutTopic, Of
  <2>2. ASSUME NEW t \in DOMAIN topics, CloseByHand(t)
        PROVE  topics' = [topics EXCEPT ![t].open = FALSE]
    BY <2>2 DEF CloseByHand
  <2> QED
    BY <2>1, <2>2
<1> QED
  BY <1>1, <1>3, <1>4, CloseConverses

\* a case goes with its closed topic
LEMMA ClearConverses ==
    ASSUME Typed, Belongs, Apart, NEW k \in Tasks, Delete(k)
    PROVE  [Promise!Next]_(Promise!vars)
<1> DEFINE u == tasks[k].user
           t == tasks[k].topic
<1>1. /\ UNCHANGED <<topics, seen, legacy>> /\ tasks[k].pc = "delete"
      /\ case' = [case EXCEPT ![u] = NoCase]
      /\ owner' = [owner EXCEPT ![t] = None]
  BY DEF Delete, Forgotten, Unmapped
<1>2. TaskOwn(k) /\ TaskLock(k)
  BY DEF Belongs, Apart
<1>3. u \in Users /\ Of(t, u) /\ ~topics[t].open
  BY <1>1, <1>2 DEF TaskOwn, Aim, WithoutTopic, Clearing
<1>4. t # NoTopic /\ t \in DOMAIN topics
  BY <1>3 DEF Of, Typed, NoTopic
<1>5. /\ Mode' = [Mode EXCEPT ![u] = "none"]
      /\ Thread' = [Thread EXCEPT ![u] = NoTopic]
      /\ Loose' = Loose /\ Old' = Old
  BY <1>1, <1>3 DEF Mode, Thread, Loose, Old, NoCase, Typed
<1>6. CASE case[u].topic = t
  <2>1. Promise!Forget(u)
    BY <1>1, <1>3, <1>4, <1>5, <1>6, CalmIsSafe DEF Promise!Forget, Promise!NoTopic, NoTopic
  <2> QED
    BY <1>3, <1>5, <2>1 DEF Promise!Next
<1>7. CASE case[u].topic # t
  <2>1. ~Safe(u)
    BY <1>1, <1>2, <1>7 DEF TaskLock
  <2>2. Promise!Drop(u, t)
    BY <1>1, <1>3, <1>5, <2>1, CalmIsSafe
       DEF Promise!Drop, Promise!Of, Promise!NoTopic, NoTopic, Of
  <2> QED
    BY <1>3, <1>4, <1>5, <2>2 DEF Promise!Next
<1> QED
  BY <1>6, <1>7

\* a lock expires, or the bot stops
LEMMA OutsideConverses ==
    ASSUME Typed, (\E u \in Users : LockExpires(u)) \/ Crash
    PROVE  [Promise!Next]_(Promise!vars)
<1>1. UNCHANGED <<case, owner, topics, legacy>> /\ Mode' = Mode /\ Thread' = Thread /\ Old' = Old
  BY DEF LockExpires, Crash, Mode, Thread, Old
<1>2. CASE Crash
  <2>1. \A u \in Users : seen'[u].expired = seen[u].expired
    BY <1>2 DEF Crash, Typed
  <2> QED
    BY <1>1, <2>1, NothingSeen
<1>3. CASE \E u \in Users : LockExpires(u)
  <2>1. PICK u \in Users : LockExpires(u)
    BY <1>3
  <2>2. CASE seen' = seen
    BY <1>1, <2>2, NothingSeen
  <2>3. CASE seen' = [seen EXCEPT ![u].expired = TRUE]
    <3>1. \A v \in Users : seen'[v].expired <=> (seen[v].expired \/ v = u)
      BY <2>3 DEF Typed
    <3>2. Loose' = Loose \cup {u}
      BY <3>1 DEF Loose
    <3>3. Promise!Loosen(u)
      BY <1>1, <3>2 DEF Promise!Loosen
    <3> QED
      BY <1>1, <3>3 DEF Promise!Next
  <2> QED
    BY <2>1, <2>2, <2>3 DEF LockExpires
<1> QED
  BY <1>2, <1>3

\* every step is one of the conversation, or goes unseen
LEMMA NextConverses ==
    ASSUME Typed, Belongs, Apart, Written, [Next]_vars
    PROVE  [Promise!Next]_(Promise!vars)
<1>1. CASE UNCHANGED vars
  BY <1>1, NothingSeen DEF vars
<1>2. ASSUME NEW k \in Tasks,
             \/ \E u \in Users : Begin(k, u) \/ Write(k, u)
             \/ \E t \in DOMAIN topics : PressClose(k, t) \/ Notified(k, t)
             \/ Step(k) \/ GiveUp(k) \/ Fault(k)
      PROVE  [Promise!Next]_(Promise!vars)
  <2>1. CASE \/ \E u \in Users : Begin(k, u) \/ Write(k, u)
             \/ \E t \in DOMAIN topics : PressClose(k, t) \/ Notified(k, t)
             \/ GiveUp(k) \/ Fault(k)
    BY <2>1, LooksConverse
  <2>2. CASE Step(k)
    <3>1. CASE Acquire(k) \/ Looks(k) \/ Find(k)
      BY <3>1, LooksConverse
    <3>2. CASE Enter(k) \/ RestoreEnter(k) \/ MarkCard(k) \/ Complete(k)
      BY <3>2, ModeConverses
    <3>3. CASE Map(k) \/ CreateTopic(k) \/ Bind(k)
      BY <3>3, MapConverses, CreateConverses, BindConverses
    <3>4. CASE SendCard(k) \/ Copy(k)
      BY <3>4, SendConverses
    <3>5. CASE Undo(k) \/ Shut(k) \/ Delete(k)
      BY <3>5, ShutConverses, ClearConverses
    <3> QED
      BY <2>2, <3>1, <3>2, <3>3, <3>4, <3>5 DEF Step, Looks
  <2> QED
    BY <1>2, <2>1, <2>2
<1>3. CASE \/ \E t \in DOMAIN topics : CloseByHand(t)
           \/ \E u \in Users : LockExpires(u)
           \/ Crash
  BY <1>3, ShutConverses, OutsideConverses
<1> QED
  BY <1>1, <1>2, <1>3 DEF Next

\* The handlers, which interleave, lose and repeat requests, fail at any step and work in Redis
\* and in Telegram without a transaction over both, keep a conversation with each user: one
\* thread, mapped both ways, that his messages go to below his card and that is answered, and a
\* case that is forgotten with its closed thread alone, or, where the lock has expired, with one
\* that was his before (deliver_user_message, bind_topic, clear_case, begin, the close button and
\* the notices).
THEOREM KeepsConversation == Spec => ImplementsConversation
<1> DEFINE Inv == Typed /\ Belongs /\ Apart /\ Written
<1>1. Init => Inv
  <2>1. Init => Written
    BY DEF Init, Written, Idle
  <2> QED
    BY <2>1, InitBelongs, InitApart
<1>2. Inv /\ [Next]_vars => Inv'
  BY NextBelongs, NextApart, WrittenStep
<1>3. Init => Promise!Init
  <2> SUFFICES ASSUME Init PROVE Promise!Init
    OBVIOUS
  <2>2. Old \subseteq Users
    BY DEF Old
  <2>1. Mode = [u \in Users |-> "none"] /\ Thread = [u \in Users |-> NoTopic] /\ Loose = {}
    BY DEF Init, Mode, Thread, Loose, Old, NoCase
  <2> QED
    BY <2>1, <2>2 DEF Init, Promise!Init, Promise!NoTopic, NoTopic
<1>4. Inv /\ [Next]_vars => [Promise!Next]_(Promise!vars)
  BY NextConverses
<1> HIDE DEF Inv
<1> QED
  BY <1>1, <1>2, <1>3, <1>4, PTL DEF Spec, ImplementsConversation, Promise!Spec

=============================================================================
