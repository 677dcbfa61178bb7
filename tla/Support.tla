------------------------------ MODULE Support ------------------------------
(***************************************************************************)
(* The support chat: a user's case in Redis (mode, topic, card), the       *)
(* reverse mapping from a forum topic to its user, and the handlers that   *)
(* work on them: a message of the user, the start of support, the close    *)
(* button, the notice that a topic was closed.                             *)
(*                                                                         *)
(* aiogram runs every update as a task of its own, so handlers of one user *)
(* interleave between any two awaits; a Redis lock with a timeout is to    *)
(* keep them apart.  A Telegram request whose answer is lost is sent again *)
(* by the retry middleware, and may have taken effect each time.           *)
(***************************************************************************)
EXTENDS Integers, Sequences, FiniteSets

CONSTANTS
    Users,
    Tasks,      \* slots for handlers that run at the same time
    None,
    Crashed,    \* holder of a lock whose process is gone
    MaxTopics,  \* bound on forum topics
    MaxSpent    \* bound on failures, expired locks, crashes and topics that are closed by hand

ASSUME SupportAssumption ==
    /\ None \notin Users \cup Tasks \cup {Crashed} /\ Crashed \notin Tasks
    /\ MaxTopics \in Nat /\ MaxSpent \in Nat

NoTopic == 0
TopicIds == 1 .. MaxTopics
Locked == {"check", "find", "map", "create", "bind", "undo", "card", "post", "mark", "copy",
           "complete", "clear", "clear closed", "delete", "begin", "enter", "recheck", "shut"}
Places == Locked \cup {"idle", "restore", "restore enter", "lock"}

VARIABLES
    case,    \* user -> his hash in Redis; a field that is absent has its zero value
    legacy,  \* user -> whether he asked for support before the group was configured
    owner,   \* topic -> the user it is mapped to
    lock,    \* user -> the task that has his lock
    topics,  \* the topics of the forum; an id is an index
    notices, \* topics whose closing the bot has not been told of
    tasks,   \* the handlers
    spent,   \* of MaxSpent
    seen     \* history, for the properties only

vars == <<case, legacy, owner, lock, topics, notices, tasks, spent, seen>>

NoCase == [mode |-> "none", topic |-> NoTopic, card |-> FALSE]
Idle == [pc |-> "idle", next |-> "idle", user |-> None, topic |-> NoTopic]

Spend == spent < MaxSpent /\ spent' = spent + 1

-----------------------------------------------------------------------------
\* The store.

Goto(k, pc) == tasks' = [tasks EXCEPT ![k].pc = pc]

\* user_lock: the handler goes on at "next" when it has the lock
Queue(k, next) == tasks' = [tasks EXCEPT ![k].pc = "lock", ![k].next = next]

\* (seeded fault: the lock is kept when the block is left)
Kept(k) == lock

\* Lock.release compares the token: a lock that expired is left to its new holder
Released(k) == [u \in Users |-> IF lock[u] = k THEN None ELSE lock[u]]

End(k) == lock' = Released(k) /\ tasks' = [tasks EXCEPT ![k] = Idle]

Begun(u) == [case EXCEPT ![u].mode = "waiting"]

Bound(u, t) == [case EXCEPT ![u].topic = t, ![u].card = FALSE]

Completed(u) == [case EXCEPT ![u].mode = "active"]

\* (seeded fault: the expected topic is not compared)
AnyTopic(u, t) == TRUE

IsExpected(u, t) == case[u].topic = t

\* clear_case deletes both keys in one transaction
Forgotten(u) == [case EXCEPT ![u] = NoCase]

\* (seeded fault: the reverse mapping is left)
StillMapped(t) == owner

Unmapped(t) == [owner EXCEPT ![t] = None]

-----------------------------------------------------------------------------
\* Telegram.

Opened(u, n) == topics \o [i \in 1 .. n |-> [user |-> u, open |-> TRUE, card |-> FALSE, content |-> FALSE]]

Admitted(n) == Len(topics) + n <= MaxTopics

\* Writing to a topic that is closed or deleted is refused, or, by an administrator, admitted.
Refused(t) == ~topics[t].open

\* A topic that Telegram reports unavailable is cleared under a new lock.
Unavailable(k) ==
    /\ lock' = Released(k)
    /\ Queue(k, "clear")

-----------------------------------------------------------------------------
\* The start of support.

\* the command or a button
Begin(k, u) ==
    /\ tasks[k] = Idle
    /\ tasks' = [tasks EXCEPT ![k] = [Idle EXCEPT !.pc = "lock", !.next = "begin", !.user = u]]
    /\ UNCHANGED <<case, legacy, owner, lock, topics, notices, spent, seen>>

\* begin reads the mode in one command, and writes it in another unless it was active
BeginCase(k) ==
    /\ tasks[k].pc = "begin"
    /\ IF case[tasks[k].user].mode = "active" THEN End(k) ELSE Goto(k, "enter") /\ UNCHANGED lock
    /\ UNCHANGED <<case, legacy, owner, topics, notices, spent, seen>>

Enter(k) ==
    /\ tasks[k].pc = "enter"
    /\ case' = Begun(tasks[k].user)
    /\ End(k)
    /\ UNCHANGED <<legacy, owner, topics, notices, spent, seen>>

\* A message outside any form: SupportModeFilter reads the mode, of the group's store and then
\* of the one used before the group was configured.
Write(k, u) ==
    /\ tasks[k] = Idle
    /\ LET started(pc) == [Idle EXCEPT !.pc = pc, !.next = "check", !.user = u]
       IN  \/ case[u].mode # "none" /\ tasks' = [tasks EXCEPT ![k] = started("lock")]
           \/ case[u].mode = "none" /\ legacy[u] /\ tasks' = [tasks EXCEPT ![k] = started("restore")]
    /\ UNCHANGED <<case, legacy, owner, lock, topics, notices, spent, seen>>

\* The case is begun without the lock, and the old store keeps its mode.
Restore(k) ==
    /\ tasks[k].pc = "restore"
    /\ IF case[tasks[k].user].mode = "active" THEN Queue(k, "check") ELSE Goto(k, "restore enter")
    /\ UNCHANGED <<case, legacy, owner, lock, topics, notices, spent, seen>>

\* What was read may be of the past by now.
RestoreEnter(k) ==
    /\ tasks[k].pc = "restore enter"
    /\ case' = Begun(tasks[k].user)
    /\ Queue(k, "check")
    /\ UNCHANGED <<legacy, owner, lock, topics, notices, spent, seen>>

-----------------------------------------------------------------------------
\* user_lock.

\* (seeded fault: the close button works without the lock)
FreeOrShutting(k) == lock[tasks[k].user] = None \/ tasks[k].next = "recheck"

IsFree(k) == lock[tasks[k].user] = None

Acquire(k) ==
    /\ tasks[k].pc = "lock"
    /\ IsFree(k)
    /\ lock' = [lock EXCEPT ![tasks[k].user] = k]
    /\ Goto(k, tasks[k].next)
    /\ UNCHANGED <<case, legacy, owner, topics, notices, spent, seen>>

\* after SUPPORT_LOCK_WAIT_SECONDS
GiveUp(k) ==
    /\ tasks[k].pc = "lock" /\ lock[tasks[k].user] # None
    /\ Spend
    /\ End(k)
    /\ seen' = [seen EXCEPT ![tasks[k].user].lost = TRUE]
    /\ UNCHANGED <<case, legacy, owner, topics, notices>>

\* after SUPPORT_LOCK_TIMEOUT_SECONDS, whether or not its holder is still at work
LockExpires(u) ==
    /\ lock[u] # None
    /\ IF lock[u] = Crashed
       THEN UNCHANGED <<spent, seen>>
       ELSE Spend /\ seen' = [seen EXCEPT ![u].expired = TRUE]
    /\ lock' = [lock EXCEPT ![u] = None]
    /\ UNCHANGED <<case, legacy, owner, topics, notices, tasks>>

-----------------------------------------------------------------------------
\* deliver_user_message.

\* (seeded fault: the mode is not read again under the lock)
AnyMode(u) == TRUE

IsOpen(u) == case[u].mode # "none"

Check(k) ==
    /\ tasks[k].pc = "check"
    /\ IF IsOpen(tasks[k].user) THEN Goto(k, "find") /\ UNCHANGED lock ELSE End(k)
    /\ UNCHANGED <<case, legacy, owner, topics, notices, spent, seen>>

\* get_topic
Find(k) ==
    LET t == case[tasks[k].user].topic IN
    /\ tasks[k].pc = "find"
    /\ tasks' = [tasks EXCEPT ![k].topic = t, ![k].pc = IF t = NoTopic THEN "create" ELSE "map"]
    /\ UNCHANGED <<case, legacy, owner, lock, topics, notices, spent, seen>>

\* ensure_reverse_mapping
Map(k) ==
    /\ tasks[k].pc = "map"
    /\ owner' = [owner EXCEPT ![tasks[k].topic] = tasks[k].user]
    /\ Goto(k, "card")
    /\ UNCHANGED <<case, legacy, lock, topics, notices, spent, seen>>

\* a repeated request opens two topics, of which the bot knows the second
CreateTopic(k) ==
    LET u == tasks[k].user IN
    /\ tasks[k].pc = "create"
    /\ \/ \E n \in 1 .. 2 :
             /\ Admitted(n)
             /\ topics' = Opened(u, n)
             /\ tasks' = [tasks EXCEPT ![k].topic = Len(topics) + n, ![k].pc = "bind"]
             /\ UNCHANGED <<lock, spent>>
       \/ \E n \in 0 .. 1 :
             Admitted(n) /\ topics' = Opened(u, n) /\ End(k)
             /\ IF Admitted(1) THEN Spend ELSE UNCHANGED spent
    /\ UNCHANGED <<case, legacy, owner, notices, seen>>

\* (seeded fault: the reverse mapping is left to the next message)
BoundOneWay(u, t) == owner

Owned(u, t) == [owner EXCEPT ![t] = u]

\* bind_topic is one transaction; when it fails, done or not, the topic is closed again
Bind(k) ==
    LET u == tasks[k].user
        t == tasks[k].topic
        done == case' = Bound(u, t) /\ owner' = Owned(u, t)
    IN
    /\ tasks[k].pc = "bind"
    /\ \/ done /\ Goto(k, "card") /\ UNCHANGED spent
       \/ (done \/ UNCHANGED <<case, owner>>) /\ Goto(k, "undo") /\ Spend
    /\ UNCHANGED <<legacy, lock, topics, notices, seen>>

Undo(k) ==
    /\ tasks[k].pc = "undo"
    /\ \/ topics' = [topics EXCEPT ![tasks[k].topic].open = FALSE] /\ UNCHANGED spent
       \/ UNCHANGED topics /\ Spend
    /\ End(k)
    /\ seen' = [seen EXCEPT ![tasks[k].user].lost = TRUE]
    /\ UNCHANGED <<case, legacy, owner, notices>>

\* A message to the topic.  Its repetition leaves it there twice, its failure perhaps once.
Send(k, pc, next, sent) ==
    LET t == tasks[k].topic IN
    /\ tasks[k].pc = pc
    /\ \/ topics' = sent /\ Goto(k, next) /\ UNCHANGED <<lock, spent>>
       \/ topics' \in {topics, sent} /\ End(k) /\ Spend
       \/ Refused(t) /\ Unavailable(k) /\ UNCHANGED <<topics, spent>>
    /\ UNCHANGED <<case, legacy, owner, notices, seen>>

\* the card of the user, which the bot's data and the panel's are put together for, with the
\* close button
WithCard(t) == [topics EXCEPT ![t].card = TRUE]

NeedsCard(u) == ~case[u].card

\* is_card_ready; for a card that is missing load_user_card reads the database, which can end
\* the delivery (Fault), and the panel, whose refusal is only logged
LookForCard(k) ==
    /\ tasks[k].pc = "card"
    /\ Goto(k, IF NeedsCard(tasks[k].user) THEN "post" ELSE "copy")
    /\ UNCHANGED <<case, legacy, owner, lock, topics, notices, spent, seen>>

\* (seeded fault: a card that could not be sent is only logged)
SendCardOrLog(k) ==
    \/ Send(k, "post", "mark", WithCard(tasks[k].topic))
    \/ /\ tasks[k].pc = "post" /\ Spend /\ Goto(k, "mark")
       /\ UNCHANGED <<case, legacy, owner, lock, topics, notices, seen>>

SendCard(k) == Send(k, "post", "mark", WithCard(tasks[k].topic))

MarkCard(k) ==
    /\ tasks[k].pc = "mark"
    /\ case' = [case EXCEPT ![tasks[k].user].card = TRUE]
    /\ Goto(k, "copy")
    /\ UNCHANGED <<legacy, owner, lock, topics, notices, spent, seen>>

\* the header, and the copy of the message; the header is removed when the copy fails
WithContent(t) == [topics EXCEPT ![t].content = TRUE]

Copy(k) == Send(k, "copy", "complete", WithContent(tasks[k].topic))

\* complete_delivery (the marker that the first message was confirmed serves the wording only)
Complete(k) ==
    /\ tasks[k].pc = "complete"
    /\ case' = Completed(tasks[k].user)
    /\ End(k)
    /\ UNCHANGED <<legacy, owner, topics, notices, spent, seen>>

\* clear_case: the topic of the case is read in one command, and the case deleted in another,
\* whatever topic it has by then
ClearCase(k) ==
    /\ tasks[k].pc = "clear"
    /\ IF IsExpected(tasks[k].user, tasks[k].topic) THEN Goto(k, "delete") /\ UNCHANGED lock
       ELSE End(k)
    /\ UNCHANGED <<case, legacy, owner, topics, notices, spent, seen>>

Delete(k) ==
    /\ tasks[k].pc = "delete"
    /\ case' = Forgotten(tasks[k].user) /\ owner' = Unmapped(tasks[k].topic)
    /\ End(k)
    /\ UNCHANGED <<legacy, topics, notices, spent, seen>>

\* Redis fails
Fault(k) ==
    /\ tasks[k].pc \in {"restore", "restore enter", "lock", "begin", "enter", "check", "find", "map",
                       "card", "mark", "complete", "clear", "clear closed", "delete", "recheck"}
    /\ Spend /\ End(k)
    /\ seen' = [seen EXCEPT ![tasks[k].user].lost = TRUE]
    /\ UNCHANGED <<case, legacy, owner, topics, notices>>

-----------------------------------------------------------------------------
\* The close button, pressed in topic t, and the notice that t was closed.

PressClose(k, t) ==
    /\ tasks[k] = Idle /\ owner[t] # None /\ topics[t].card
    /\ tasks' = [tasks EXCEPT ![k] = [pc |-> "lock", next |-> "recheck", user |-> owner[t], topic |-> t]]
    /\ UNCHANGED <<case, legacy, owner, lock, topics, notices, spent, seen>>

\* The mapping and the case are read one after the other, and could be read at once: a topic of
\* a case is always mapped to its user, since what writes or deletes the two is one transaction.
Recheck(k) ==
    LET t == tasks[k].topic
        u == tasks[k].user
    IN
    /\ tasks[k].pc = "recheck"
    /\ IF owner[t] = u /\ case[u].topic = t THEN Goto(k, "shut") /\ UNCHANGED lock ELSE End(k)
    /\ UNCHANGED <<case, legacy, owner, topics, notices, spent, seen>>

\* Telegram refuses to close a topic twice; the repetition of a lost request meets that
Shut(k) ==
    LET shut == [topics EXCEPT ![tasks[k].topic].open = FALSE] IN
    /\ tasks[k].pc = "shut"
    /\ \/ ~Refused(tasks[k].topic) /\ topics' = shut /\ Goto(k, "clear") /\ UNCHANGED <<lock, spent, seen>>
       \/ /\ topics' \in {topics, shut} /\ End(k)
          /\ IF Refused(tasks[k].topic) THEN UNCHANGED <<spent, seen>>
             ELSE Spend /\ seen' = [seen EXCEPT ![tasks[k].user].lost = TRUE]
    /\ UNCHANGED <<case, legacy, owner, notices>>

\* handle_forum_topic_closed
Notified(k, t) ==
    /\ tasks[k] = Idle /\ t \in notices
    /\ notices' = notices \ {t}
    /\ IF owner[t] = None
       THEN UNCHANGED tasks /\ seen' = [seen EXCEPT ![topics[t].user].lost = TRUE]
       ELSE /\ tasks' = [tasks EXCEPT ![k] =
                            [pc |-> "lock", next |-> "clear closed", user |-> owner[t], topic |-> t]]
            /\ UNCHANGED seen
    /\ UNCHANGED <<case, legacy, owner, lock, topics, spent>>

ClearClosed(k) ==
    LET t == tasks[k].topic
        u == tasks[k].user
    IN
    /\ tasks[k].pc = "clear closed"
    /\ IF owner[t] = u /\ IsExpected(u, t) THEN Goto(k, "delete") /\ UNCHANGED lock ELSE End(k)
    /\ UNCHANGED <<case, legacy, owner, topics, notices, spent, seen>>

\* An administrator's message in topic t is copied to this user, if any.
RepliesTo(t) == owner[t]

-----------------------------------------------------------------------------
\* People and processes.

\* a topic is closed by hand, and the bot told of it; or deleted, and it is not
CloseByHand(t) ==
    /\ topics[t].open
    /\ Spend
    /\ topics' = [topics EXCEPT ![t].open = FALSE]
    /\ \/ notices' = notices \cup {t} /\ UNCHANGED seen
       \/ UNCHANGED notices /\ seen' = [seen EXCEPT ![topics[t].user].lost = TRUE]
    /\ UNCHANGED <<case, legacy, owner, lock, tasks>>

\* the bot stops and starts; its locks stay behind
Crash ==
    /\ \E k \in Tasks : tasks[k] # Idle
    /\ Spend
    /\ tasks' = [k \in Tasks |-> Idle]
    /\ lock' = [u \in Users |-> IF lock[u] = None THEN None ELSE Crashed]
    /\ seen' = [u \in Users |-> [seen[u] EXCEPT !.lost = @ \/ \E k \in Tasks : tasks[k].user = u]]
    /\ UNCHANGED <<case, legacy, owner, topics, notices>>

-----------------------------------------------------------------------------
Init ==
    /\ case = [u \in Users |-> NoCase]
    /\ legacy \in [Users -> BOOLEAN]
    /\ owner = [t \in TopicIds |-> None]
    /\ lock = [u \in Users |-> None]
    /\ topics = <<>> /\ notices = {}
    /\ tasks = [k \in Tasks |-> Idle]
    /\ spent = 0
    /\ seen = [u \in Users |-> [expired |-> FALSE, lost |-> FALSE]]

Step(k) ==
    \/ Restore(k) \/ RestoreEnter(k) \/ BeginCase(k) \/ Enter(k) \/ Acquire(k)
    \/ Check(k) \/ Find(k) \/ Map(k) \/ CreateTopic(k) \/ Bind(k) \/ Undo(k)
    \/ LookForCard(k) \/ SendCard(k) \/ MarkCard(k) \/ Copy(k) \/ Complete(k)
    \/ ClearCase(k) \/ Recheck(k) \/ Shut(k) \/ ClearClosed(k) \/ Delete(k)

Next ==
    \/ \E k \in Tasks :
          \/ \E u \in Users : Begin(k, u) \/ Write(k, u)
          \/ \E t \in DOMAIN topics : PressClose(k, t) \/ Notified(k, t)
          \/ Step(k) \/ GiveUp(k) \/ Fault(k)
    \/ \E u \in Users : LockExpires(u)
    \/ \E t \in DOMAIN topics : CloseByHand(t)
    \/ Crash

Spec == Init /\ [][Next]_vars

\* Handlers go on, a lock that is free is had in the end by one who waits for it, a lock left
\* behind expires, and a notice is delivered.  (There is always a handler for an update: that
\* the slots are few is the model's doing.)
Fairness ==
    /\ \A k \in Tasks : WF_vars(Step(k)) /\ SF_vars(Acquire(k))
    /\ \A u \in Users : WF_vars(lock[u] = Crashed /\ LockExpires(u))
    /\ \A t \in TopicIds : SF_vars(t \in DOMAIN topics /\ \E k \in Tasks : Notified(k, t))

FairSpec == Spec /\ Fairness

-----------------------------------------------------------------------------
Task == [pc : Places, next : Places, user : Users \cup {None}, topic : 0 .. MaxTopics]

\* The shape of the state: a topic is mapped to no user but the one it was opened for, and only
\* a handler that is inside its block holds a lock.
TypeOK ==
    /\ \A u \in Users : /\ case[u].mode \in {"none", "waiting", "active"}
                         /\ case[u].topic \in 0 .. Len(topics)
    /\ \A t \in TopicIds : owner[t] # None => t \in DOMAIN topics /\ owner[t] = topics[t].user
    /\ \A u \in Users : lock[u] \in Tasks => tasks[lock[u]].user = u /\ tasks[lock[u]].pc \in Locked
    /\ Len(topics) \in 0 .. MaxTopics /\ notices \subseteq DOMAIN topics
    /\ tasks \in [Tasks -> Task]
    /\ spent \in 0 .. MaxSpent

\* test_support.py:442, "concurrent first messages create exactly one topic": a user's case and
\* the mapping of topics back to users agree, so that he has one thread, and the replies in no
\* other topic reach him; unless his lock expired under a handler.
MappedBothWays ==
    \A u \in Users : ~seen[u].expired =>
        \A t \in TopicIds : case[u].topic = t <=> owner[t] = u

\* What a user wrote is never in a topic without his card, through which it is answered and
\* closed, though the sending of the card, its mark in Redis and the copy may each fail; unless
\* his lock expired.
CardFirst ==
    \A t \in DOMAIN topics :
        topics[t].content => topics[t].card \/ seen[topics[t].user].expired

\* A message in an open topic can be answered: replies there reach the user who wrote it, even
\* when his lock expired, requests were repeated or the bot was restarted.
Answerable ==
    \A t \in DOMAIN topics : topics[t].open /\ topics[t].content => RepliesTo(t) = topics[t].user

\* A message is delivered only to the topic of a case that is still open: a close button or a
\* notice that came first wins; unless the lock expired.
DeliveredToCase ==
    [][\A k \in Tasks :
          LET u == tasks[k].user IN
          tasks[k].pc = "copy" /\ tasks'[k].pc = "complete" /\ ~seen[u].expired =>
              case[u].mode # "none" /\ case[u].topic = tasks[k].topic]_vars

\* A case that was closed stays closed until the user asks for support again, however many of
\* his messages were on their way; unless his lock expired, or he has the mode of the old store,
\* which opens a new case with every message after a close.
ClosedStaysClosed ==
    [][\A u \in Users :
          case[u].mode = "none" /\ case'[u].mode # "none" =>
              \/ \E k \in Tasks : tasks[k].user = u /\ tasks[k].pc = "enter"
              \/ legacy[u] \/ seen[u].expired]_vars

\* What the promise sees: whether a user has a case, his thread, whose lock has expired, and who
\* has a mode in the old store.
Mode == [u \in Users |-> case[u].mode]
Thread == [u \in Users |-> case[u].topic]
Loose == {u \in Users : seen[u].expired}
Old == {u \in Users : legacy[u]}

Promise == INSTANCE Conversation WITH
    Topics <- TopicIds, mode <- Mode, thread <- Thread, reach <- owner, forum <- topics, loose <- Loose,
    old <- Old

\* Conversation: whatever handlers meet, requests are repeated and steps fail, a user has one
\* thread, mapped both ways; his messages go there, below his card, and replies come back; a
\* conversation that is active is not begun again; and a case is forgotten only with its closed
\* thread.  Where the lock has expired, a case may be forgotten on account of a thread that he had
\* before; and a mode of the old store may begin an active conversation again, without the lock.
ImplementsConversation == Promise!Spec

\* topic t is closed, and still mapped to u
Stale(t, u) == t \in DOMAIN topics /\ owner[t] = u /\ ~topics[t].open

\* The mappings of the topics of a user that were closed are taken away in the end, all of them;
\* unless Redis failed, the lock was not had in time or expired, the bot was restarted, the topic
\* deleted, or the notice of its closing came before it was mapped.  (What is left then waits for
\* the user's next message.)
ClosedIsCleared ==
    \A u \in Users :
        (\E t \in TopicIds : Stale(t, u))
            ~> ((\A t \in TopicIds : ~Stale(t, u)) \/ seen[u].lost \/ seen[u].expired)
=============================================================================
