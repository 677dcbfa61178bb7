---------------------------- MODULE Conversation ----------------------------
(***************************************************************************)
(* What the support chat promises, without the lock, the handlers and the  *)
(* requests that are lost or repeated: a user has one thread at a time;    *)
(* what he writes goes there, below his card and where it can be answered; *)
(* and a case is forgotten with its closed thread, by nothing else.  Of a  *)
(* user whose lock has once expired under a handler less is promised, but  *)
(* that he and no one else is answered, and that his case is forgotten     *)
(* only with a thread of his that was closed, though it be an older one.   *)
(***************************************************************************)
EXTENDS Naturals, Sequences

CONSTANTS Users, None, Topics

VARIABLES
    mode,   \* user -> whether he has asked for support, or has written
    thread, \* user -> his topic
    reach,  \* topic -> the user whom replies reach
    forum,  \* the topics: of whom, open, with his card, with what he wrote
    loose,  \* the users whose lock has expired
    old     \* the users who asked before there was a group

vars == <<mode, thread, reach, forum, loose, old>>

NoTopic == 0
Calm(u) == u \notin loose
Of(t, u) == t \in DOMAIN forum /\ forum[t].user = u

Init ==
    /\ mode = [u \in Users |-> "none"]
    /\ thread = [u \in Users |-> NoTopic]
    /\ reach = [t \in Topics |-> None]
    /\ forum = <<>>
    /\ loose = {}
    /\ old \subseteq Users

\* a case is begun
Ask(u) ==
    /\ mode[u] = "none"
    /\ mode' = [mode EXCEPT ![u] = "waiting"]
    /\ UNCHANGED <<thread, reach, forum, loose>>

\* an active conversation is begun again, by a message that still reads the old mode
AskAgain(u) ==
    /\ Calm(u) => u \in old
    /\ mode[u] = "active"
    /\ mode' = [mode EXCEPT ![u] = "waiting"]
    /\ UNCHANGED <<thread, reach, forum, loose>>

\* a topic, or two, for one who has asked and has none
Open(u) ==
    /\ Calm(u) => mode[u] # "none" /\ thread[u] = NoTopic
    /\ \E n \in 1 .. 2 :
          forum' = forum \o [i \in 1 .. n |->
                               [user |-> u, open |-> TRUE, card |-> FALSE, content |-> FALSE]]
    /\ UNCHANGED <<mode, thread, reach, loose>>

\* the topic is his thread, in both directions
Bind(u, t) ==
    /\ Of(t, u)
    /\ Calm(u) => mode[u] # "none" /\ thread[u] = NoTopic /\ reach[t] = None
    /\ thread' = [thread EXCEPT ![u] = t]
    /\ reach' = [reach EXCEPT ![t] = u]
    /\ UNCHANGED <<mode, forum, loose>>

\* the way back alone is mended, where the lock has let it be lost
Mend(u, t) ==
    /\ Of(t, u) /\ ~Calm(u)
    /\ reach' = [reach EXCEPT ![t] = u]
    /\ UNCHANGED <<mode, thread, forum, loose>>

\* his card, and then what he wrote
Post(u, t) ==
    /\ Of(t, u)
    /\ Calm(u) => mode[u] # "none" /\ thread[u] = t
    /\ forum[t].open => reach[t] = u
    /\ \/ forum' = [forum EXCEPT ![t].card = TRUE]
       \/ (Calm(u) => forum[t].card) /\ forum' = [forum EXCEPT ![t].content = TRUE]
    /\ UNCHANGED <<mode, thread, reach, loose>>

\* his first message has been delivered
Confirm(u) ==
    /\ Calm(u) => mode[u] = "waiting" /\ thread[u] # NoTopic /\ forum[thread[u]].content
    /\ mode' = [mode EXCEPT ![u] = "active"]
    /\ UNCHANGED <<thread, reach, forum, loose>>

\* a topic is closed, by the bot or by people
Close(t) ==
    /\ forum[t].open
    /\ forum' = [forum EXCEPT ![t].open = FALSE]
    /\ UNCHANGED <<mode, thread, reach, loose>>

\* a case goes with its closed thread
Forget(u) ==
    /\ thread[u] # NoTopic /\ ~forum[thread[u]].open
    /\ mode' = [mode EXCEPT ![u] = "none"]
    /\ thread' = [thread EXCEPT ![u] = NoTopic]
    /\ reach' = [reach EXCEPT ![thread[u]] = None]
    /\ UNCHANGED <<forum, loose>>

\* where the lock was lost, on account of a closed topic t that was his thread once
Drop(u, t) ==
    /\ Of(t, u) /\ ~Calm(u) /\ ~forum[t].open
    /\ mode' = [mode EXCEPT ![u] = "none"]
    /\ thread' = [thread EXCEPT ![u] = NoTopic]
    /\ reach' = [reach EXCEPT ![t] = None]
    /\ UNCHANGED <<forum, loose>>

Loosen(u) ==
    /\ loose' = loose \cup {u}
    /\ UNCHANGED <<mode, thread, reach, forum>>

\* what does not change any of this is not seen
Next ==
    /\ vars' # vars /\ UNCHANGED old
    /\ \/ \E u \in Users :
             \/ Ask(u) \/ AskAgain(u) \/ Open(u) \/ Confirm(u) \/ Forget(u) \/ Loosen(u)
             \/ \E t \in DOMAIN forum : Bind(u, t) \/ Mend(u, t) \/ Post(u, t) \/ Drop(u, t)
       \/ \E t \in DOMAIN forum : Close(t)

Spec == Init /\ [][Next]_vars
=============================================================================
