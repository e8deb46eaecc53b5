------------------------------ MODULE Delivery ------------------------------
(***************************************************************************)
(* How the primary delivers notifications: the thread that serves the      *)
(* front end (handle_connection_fe) logs users in and out, follows and     *)
(* sends; a FOLLOW is answered only when its replication has gone around   *)
(* the ring, by a thread of its own (handle_replication).  Both end in     *)
(* send_message, which writes to the front end or keeps the notification   *)
(* for the receiver's next login.                                          *)
(*                                                                         *)
(* There is one front end (NUMBER_OF_FES = 1), so MUTEX_LOGIN and          *)
(* MUTEX_FOLLOW are only ever taken by its thread and are left out; the    *)
(* users' mutexes and MUTEX_PENDING_NOTIFICATIONS are shared.  The front   *)
(* end and the other servers are external.                                 *)
(***************************************************************************)
EXTENDS Integers, Sequences, SequencesExt

CONSTANTS
    User,
    Slot,        \* threads of handle_replication
    Nobody,      \* no user
    NoThread,    \* no thread
    MaxSessions, \* MAX_SESSIONS, as the front end enforces it
    MaxEvents,   \* bound: notifications from the front end, its end included
    MaxReplays,  \* bound: notifications handled again after it has closed
    MaxRounds    \* bound: rounds of the ring a FOLLOW makes after the first

ASSUME DeliveryAssumption ==
    /\ "fe" \notin Slot /\ Nobody \notin User /\ NoThread \notin Slot \cup {"fe"}
    /\ MaxSessions \in Nat \ {0} /\ MaxEvents \in Nat /\ MaxReplays \in Nat
    /\ MaxRounds \in Nat

Thread == Slot \cup {"fe"}

VARIABLES
    known,       \* the users in user_hash_table
    sessions,    \* user->sessions_number
    followers,   \* user->followers
    pending,     \* user->pending_notifications
    userLock,    \* user->mutex: its holder
    pendingLock, \* MUTEX_PENDING_NOTIFICATIONS: its holder
    pc,          \* where a thread is
    todo,        \* the notifications a thread has still to pass to send_message
    cmd,         \* notification: what the front end's thread read last
    ids,         \* GLOBAL_NOTIFICATION_ID
    ring,        \* FOLLOWs on their way around the ring
    again,       \* again[r]: how often the follower of r was entered again
    up,          \* does the process run?
    feLink,      \* the front end's connection, as the primary's write meets it
    feSessions,  \* the sessions the front end has announced
    events,      \* notifications received from it, its end included
    replays,     \* notifications handled again
    pushed,      \* pushed[u]: what the front end received for u
    addressed    \* addressed[u]: the messages that were to reach u

tableVars == <<known, sessions, followers, pending>>
lockVars  == <<userLock, pendingLock>>
feVars    == <<up, feLink, pushed>>
envVars   == <<feSessions, events, replays>>
vars == <<tableVars, lockVars, pc, todo, cmd, ids, ring, again, feVars, envVars, addressed>>

Command == [type : {"LOGIN", "LOGOUT", "SEND"}, author : User, target : {Nobody}]
           \cup [type : {"FOLLOW"}, author : User, target : User]
NoCommand == [type |-> "none", author |-> Nobody, target |-> Nobody]

\* A message lives on the heap.  An info lives on the stack of the thread that
\* made it: once that function has returned, a pointer to it dangles.
Note(k, u) == [id |-> ids, kind |-> k, to |-> u, owner |-> NoThread]
Info(u, t) == [id |-> ids, kind |-> "info", to |-> u, owner |-> t]

Init ==
    /\ known = {}
    /\ sessions  = [u \in User |-> 0]
    /\ followers = [u \in User |-> <<>>]
    /\ pending   = [u \in User |-> <<>>]
    /\ userLock  = [u \in User |-> NoThread]
    /\ pendingLock = NoThread
    /\ pc   = [t \in Thread |-> "idle"]
    /\ todo = [t \in Thread |-> <<>>]
    /\ cmd = NoCommand /\ ids = 0 /\ ring = {}
    /\ again = [r \in User \X User |-> 0]
    /\ up = TRUE /\ feLink = "up"
    /\ feSessions = [u \in User |-> 0]
    /\ events = 0 /\ replays = 0
    /\ pushed = [u \in User |-> <<>>]
    /\ addressed = [u \in User |-> <<>>]

Goto(t, l) == pc' = [pc EXCEPT ![t] = l]

-----------------------------------------------------------------------------
(* send_message, by any thread, for the head of what it has to send.        *)

Receiver(t) == Head(todo[t]).to
Done(t)     == todo' = [todo EXCEPT ![t] = Tail(@)]
Release(t)  == userLock' = [userLock EXCEPT ![Receiver(t)] = NoThread]

LockReceiver(t) ==
    /\ pc[t] = "send" /\ todo[t] # <<>>
    /\ userLock[Receiver(t)] = NoThread
    /\ userLock' = [userLock EXCEPT ![Receiver(t)] = t]
    /\ Goto(t, IF sessions[Receiver(t)] > 0 THEN "write" ELSE "keep")
    /\ UNCHANGED <<tableVars, pendingLock, todo, cmd, ids, ring, again, feVars, envVars, addressed>>

\* write() to the front end.  SIGPIPE has an uninitialized action: on a broken
\* connection the write fails, or the process ends.  On a descriptor that was
\* shut it fails, or reaches whatever connection has the number now.
WriteFE(t) ==
    /\ pc[t] = "write"
    /\ \/ /\ feLink = "up"
          /\ pushed' = [pushed EXCEPT ![Receiver(t)] = Append(@, Head(todo[t]))]
          /\ UNCHANGED <<feLink, up>>
       \/ /\ feLink # "up"
          /\ feLink' = IF feLink = "shut" THEN "shut" ELSE "broken"
          /\ up' \in IF feLink = "broken" THEN BOOLEAN ELSE {TRUE}
          /\ UNCHANGED pushed
    /\ Release(t) /\ Done(t) /\ Goto(t, "send")
    /\ UNCHANGED <<tableVars, pendingLock, cmd, ids, ring, again, envVars, addressed>>

\* Keep it for later, under both mutexes.
Keep(t) ==
    /\ pc[t] = "keep"
    /\ pendingLock = NoThread
    /\ pending' = [pending EXCEPT ![Receiver(t)] = Append(@, Head(todo[t]))]
    /\ Release(t) /\ Done(t) /\ Goto(t, "send")
    /\ UNCHANGED <<known, sessions, followers, pendingLock, cmd, ids, ring, again, feVars, envVars, addressed>>

SendMessage(t) == LockReceiver(t) \/ WriteFE(t) \/ Keep(t)

-----------------------------------------------------------------------------
(* handle_connection_fe.                                                    *)

\* What the front end may send: LOGIN and LOGOUT of a session, a message of a
\* user that logged in before (LOGOUT overtakes the messages in its queue).
Sends(n) ==
    /\ n.type = "LOGIN" => feSessions[n.author] < MaxSessions
    /\ n.type = "LOGOUT" => feSessions[n.author] > 0
    /\ n.type \in {"SEND", "FOLLOW"} => n.author \in known

Receive(n) ==
    /\ pc["fe"] = "idle" /\ feLink = "up"
    /\ events < MaxEvents /\ Sends(n)
    /\ cmd' = n
    /\ events' = events + 1
    /\ feSessions' = [feSessions EXCEPT ![n.author] =
          @ + (IF n.type = "LOGIN" THEN 1 ELSE IF n.type = "LOGOUT" THEN -1 ELSE 0)]
    /\ Goto("fe", "handle")
    /\ UNCHANGED <<tableVars, lockVars, todo, ids, ring, again, feVars, replays, addressed>>

\* With unread pushes in its socket, the front end's end is a reset.
FrontEndCloses ==
    /\ feLink = "up" /\ MaxReplays > 0
    /\ events < MaxEvents
    /\ events' = events + 1
    /\ feLink' \in {"closed", "reset"}
    /\ UNCHANGED <<tableVars, lockVars, pc, todo, cmd, ids, ring, again, up, pushed, feSessions, replays, addressed>>

\* read() returns 0, which is not an error: the buffer, uninitialized in this
\* round of the loop, holds the notification of the round before.
Replay ==
    /\ pc["fe"] = "idle" /\ feLink \in {"closed", "broken"} /\ cmd.type # "none"
    /\ replays < MaxReplays
    /\ replays' = replays + 1
    /\ Goto("fe", "handle")
    /\ UNCHANGED <<tableVars, lockVars, todo, cmd, ids, ring, again, feVars, feSessions, events, addressed>>

\* The first read() after a reset fails: the thread closes the descriptor and
\* returns, and FE_SOCKFDS keeps its number.
ReadFails ==
    /\ pc["fe"] = "idle" /\ feLink = "reset"
    /\ feLink' = "shut"
    /\ Goto("fe", "gone")
    /\ UNCHANGED <<tableVars, lockVars, todo, cmd, ids, ring, again, up, pushed, envVars, addressed>>

Handling(type) == pc["fe"] = "handle" /\ cmd.type = type
Sent(type)     == pc["fe"] = "send" /\ todo["fe"] = <<>> /\ cmd.type = type

\* Fault: no early return for a new user.
LoginTwice ==
    /\ Handling("LOGIN")
    /\ known' = known \cup {cmd.author}
    /\ sessions' = [sessions EXCEPT ![cmd.author] = IF cmd.author \in known THEN @ + 1 ELSE 2]
    /\ Goto("fe", "login")
    /\ UNCHANGED <<followers, pending, lockVars, todo, cmd, ids, ring, again, feVars, envVars, addressed>>

\* login_user.
Login ==
    /\ Handling("LOGIN")
    /\ known' = known \cup {cmd.author}
    /\ sessions' = [sessions EXCEPT ![cmd.author] = IF cmd.author \in known THEN @ + 1 ELSE 1]
    /\ Goto("fe", "login")
    /\ UNCHANGED <<followers, pending, lockVars, todo, cmd, ids, ring, again, feVars, envVars, addressed>>

\* handle_pending_notifications: what it sends once its mutex is held ...
TakePending ==
    /\ pc["fe"] = "login"
    /\ pendingLock = NoThread
    /\ pendingLock' = "fe"
    /\ todo' = [todo EXCEPT !["fe"] = pending[cmd.author]]
    /\ Goto("fe", "send")
    /\ UNCHANGED <<tableVars, userLock, cmd, ids, ring, again, feVars, envVars, addressed>>

\* Fault: the list is not reset.
ClearPendingNot ==
    /\ Sent("LOGIN")
    /\ pendingLock' = NoThread
    /\ Goto("fe", "idle")
    /\ UNCHANGED <<tableVars, userLock, todo, cmd, ids, ring, again, feVars, envVars, addressed>>

\* ... and forgets when all of it is sent.
ClearPending ==
    /\ Sent("LOGIN")
    /\ pending' = [pending EXCEPT ![cmd.author] = <<>>]
    /\ pendingLock' = NoThread
    /\ Goto("fe", "idle")
    /\ UNCHANGED <<known, sessions, followers, userLock, todo, cmd, ids, ring, again, feVars, envVars, addressed>>

\* logout_user.
Logout ==
    /\ Handling("LOGOUT")
    /\ sessions' = [sessions EXCEPT ![cmd.author] = @ - 1]
    /\ Goto("fe", "idle")
    /\ UNCHANGED <<known, followers, pending, lockVars, todo, cmd, ids, ring, again, feVars, envVars, addressed>>

\* receive_message: to the author and to each of its followers.
ReceiveMessage ==
    LET to == <<cmd.author>> \o followers[cmd.author] IN
    /\ Handling("SEND")
    /\ ids' = ids + 1
    /\ todo' = [todo EXCEPT !["fe"] = [i \in DOMAIN to |-> Note("message", to[i])]]
    /\ addressed' = [u \in User |-> IF Contains(to, u) THEN Append(addressed[u], ids) ELSE addressed[u]]
    /\ Goto("fe", "send")
    /\ UNCHANGED <<tableVars, lockVars, cmd, ring, again, feVars, envVars>>

\* The author's list of notifications, under its mutex.
MessageDone ==
    /\ Sent("SEND")
    /\ userLock[cmd.author] = NoThread
    /\ Goto("fe", "idle")
    /\ UNCHANGED <<tableVars, lockVars, todo, cmd, ids, ring, again, feVars, envVars, addressed>>

\* follow_user.
FollowNobody ==
    /\ Handling("FOLLOW")
    /\ cmd.target = cmd.author \/ cmd.target \notin known
    /\ ids' = ids + 1
    /\ todo' = [todo EXCEPT !["fe"] = <<Info(cmd.author, "fe")>>]
    /\ Goto("fe", "send")
    /\ UNCHANGED <<tableVars, lockVars, cmd, ring, again, feVars, envVars, addressed>>

\* Fault: add the follower without looking for it.
FollowNewBlind ==
    /\ Handling("FOLLOW")
    /\ cmd.target # cmd.author /\ cmd.target \in known
    /\ userLock[cmd.target] = NoThread
    /\ followers' = [followers EXCEPT ![cmd.target] = Append(@, cmd.author)]
    /\ ring' = ring \cup {<<cmd.author, cmd.target>>}
    /\ cmd' = [cmd EXCEPT !.target = Nobody]
    /\ Goto("fe", "idle")
    /\ UNCHANGED <<known, sessions, pending, lockVars, todo, ids, again, feVars, envVars, addressed>>

\* A new follower: the answer waits for the replication.  Its text overwrites
\* the name of the followed user in the notification.
FollowNew ==
    /\ Handling("FOLLOW")
    /\ cmd.target # cmd.author /\ cmd.target \in known
    /\ userLock[cmd.target] = NoThread
    /\ ~Contains(followers[cmd.target], cmd.author)
    /\ followers' = [followers EXCEPT ![cmd.target] = Append(@, cmd.author)]
    /\ ring' = ring \cup {<<cmd.author, cmd.target>>}
    /\ cmd' = [cmd EXCEPT !.target = Nobody]
    /\ Goto("fe", "idle")
    /\ UNCHANGED <<known, sessions, pending, lockVars, todo, ids, again, feVars, envVars, addressed>>

\* Already one: the mutex of the followed user is held while the author is told.
FollowAgain ==
    /\ Handling("FOLLOW")
    /\ cmd.target # cmd.author /\ cmd.target \in known
    /\ userLock[cmd.target] = NoThread
    /\ Contains(followers[cmd.target], cmd.author)
    /\ userLock' = [userLock EXCEPT ![cmd.target] = "fe"]
    /\ ids' = ids + 1
    /\ todo' = [todo EXCEPT !["fe"] = <<Info(cmd.author, "fe")>>]
    /\ Goto("fe", "send")
    /\ UNCHANGED <<tableVars, pendingLock, cmd, ring, again, feVars, envVars, addressed>>

\* Fault: the mutex of the followed user is not released.
FollowDoneLocked ==
    /\ Sent("FOLLOW")
    /\ Goto("fe", "idle")
    /\ UNCHANGED <<tableVars, lockVars, todo, cmd, ids, ring, again, feVars, envVars, addressed>>

FollowDone ==
    /\ Sent("FOLLOW")
    /\ userLock' = [u \in User |-> IF u = cmd.target /\ userLock[u] = "fe" THEN NoThread
                                   ELSE userLock[u]]
    /\ Goto("fe", "idle")
    /\ UNCHANGED <<tableVars, pendingLock, todo, cmd, ids, ring, again, feVars, envVars, addressed>>

Handle ==
    \/ Login \/ TakePending \/ ClearPending \/ Logout
    \/ ReceiveMessage \/ MessageDone
    \/ FollowNobody \/ FollowNew \/ FollowAgain \/ FollowDone

-----------------------------------------------------------------------------
(* handle_replication of a FOLLOW that has come round, by a thread for it.   *)

\* With data 0: the agreement is back, tell the author.
Agreed(t, r) ==
    /\ pc[t] = "idle"
    /\ r \in ring
    /\ ring' = ring \ {r}
    /\ ids' = ids + 1
    /\ todo' = [todo EXCEPT ![t] = <<Info(r[1], t)>>]
    /\ Goto(t, "send")
    /\ UNCHANGED <<tableVars, lockVars, cmd, again, feVars, envVars, addressed>>

\* With data 1, because the server before the primary did not take this for the
\* last hop (its next_index was another scan's, see Replication): the follower is
\* entered without a look at the list, and the notification sent on.  A
\* receive_message that is in this list, without its mutex, gets to the new end.
GoesOn(r) ==
    /\ r \in ring
    /\ again[r] < MaxRounds
    /\ userLock[r[2]] = NoThread
    /\ followers' = [followers EXCEPT ![r[2]] = Append(@, r[1])]
    /\ again' = [again EXCEPT ![r] = @ + 1]
    /\ todo' = IF cmd.type = "SEND" /\ cmd.author = r[2] /\ todo["fe"] # <<>>
               THEN [todo EXCEPT !["fe"] = Append(@, [Head(@) EXCEPT !.to = r[1]])]
               ELSE todo
    /\ UNCHANGED <<known, sessions, pending, lockVars, pc, cmd, ids, ring, feVars, envVars, addressed>>

AnswerDone(t) ==
    /\ pc[t] = "send" /\ todo[t] = <<>>
    /\ Goto(t, "idle")
    /\ UNCHANGED <<tableVars, lockVars, todo, cmd, ids, ring, again, feVars, envVars, addressed>>

FeThread == Handle \/ SendMessage("fe")
AnswerThread(t) == SendMessage(t) \/ AnswerDone(t)

Next ==
    /\ up
    /\ \/ \E n \in Command : Receive(n)
       \/ FrontEndCloses \/ Replay \/ ReadFails
       \/ FeThread
       \/ \E t \in Slot : AnswerThread(t) \/ \E r \in ring : Agreed(t, r)
       \/ \E r \in ring : GoesOn(r)

Spec == Init /\ [][Next]_vars

(***************************************************************************)
(* Threads that can run do run; the mutexes are the only things they wait  *)
(* for.                                                                    *)
(***************************************************************************)
Fairness ==
    /\ WF_vars(up /\ FeThread)
    /\ \A t \in Slot : WF_vars(up /\ AnswerThread(t))

FairSpec == Spec /\ Fairness

-----------------------------------------------------------------------------
Notes == [id : Nat, kind : {"message", "info"}, to : User, owner : Thread \cup {NoThread}]

TypeOK ==
    /\ known \subseteq User
    /\ sessions \in [User -> -MaxReplays .. MaxSessions + MaxReplays]
    /\ followers \in [User -> Seq(User)]
    /\ pending \in [User -> Seq(Notes)]
    /\ userLock \in [User -> Thread \cup {NoThread}]
    /\ pendingLock \in Thread \cup {NoThread}
    /\ pc \in [Thread -> {"idle", "handle", "login", "send", "write", "keep", "gone"}]
    /\ todo \in [Thread -> Seq(Notes)]
    /\ cmd \in [type : {"LOGIN", "LOGOUT", "SEND", "FOLLOW", "none"},
                author : User \cup {Nobody}, target : User \cup {Nobody}]
    /\ ids \in Nat /\ ring \subseteq User \X User
    /\ again \in [User \X User -> 0 .. MaxRounds]
    /\ up \in BOOLEAN /\ feLink \in {"up", "closed", "reset", "broken", "shut"}
    /\ feSessions \in [User -> 0 .. MaxSessions]
    /\ events \in 0 .. MaxEvents /\ replays \in 0 .. MaxReplays
    /\ pushed \in [User -> Seq(Notes)] /\ addressed \in [User -> Seq(Nat)]

Resting == pc["fe"] = "idle" /\ feLink = "up"

(***************************************************************************)
(* No user follows itself, or another twice, unless the FOLLOW of the two  *)
(* has come round the ring with data 1: then handle_replication appends    *)
(* the follower, who is in the list, without looking.                      *)
(***************************************************************************)
FollowersOnce ==
    \A u \in User :
        /\ ~Contains(followers[u], u)
        /\ \A i, j \in DOMAIN followers[u] :
              i # j /\ followers[u][i] = followers[u][j] => again[<<followers[u][i], u>>] > 0

(***************************************************************************)
(* Whether its receivers are logged in or not, and whatever the answering  *)
(* threads do meanwhile, every message reaches the front end or the        *)
(* pending list, and each receiver gets its messages in the order they     *)
(* were sent, which is that of their identifiers; and each of them once,   *)
(* unless a FOLLOW of this receiver was entered again (receive_message,    *)
(* send_message and handle_pending_notifications together).                *)
(***************************************************************************)
Doubled(u) == \E v \in User : again[<<u, v>>] > 0

Messages(notes) == {i \in DOMAIN notes : notes[i].kind = "message"}
Ids(notes)      == {notes[i].id : i \in Messages(notes)}
Before(twice, m, n) == m < n \/ (twice /\ m = n)
InOrder(twice, notes) ==
    \A i, j \in Messages(notes) : i < j => Before(twice, notes[i].id, notes[j].id)

MessagesOnceInOrder ==
    Resting => \A u \in User :
        LET got == pushed[u] \o pending[u]
        IN  InOrder(Doubled(u), got) /\ Ids(got) = Range(addressed[u])

(***************************************************************************)
(* What waits for a user who is logged in is being sent: "Do not allow to  *)
(* add any new notification while we haven't sent the others"              *)
(* (server.c:452).                                                         *)
(***************************************************************************)
PendingMeansOffline ==
    Resting => \A u \in User : pending[u] # <<>> => sessions[u] <= 0

(***************************************************************************)
(* "Add to the notifications which must be sent to this user later on"     *)
(* (server.c:367): what is kept can still be sent later, because the       *)
(* function that made it has not returned or left it on the heap.          *)
(***************************************************************************)
PendingIntact ==
    \A u \in User : \A i \in DOMAIN pending[u] :
        pending[u][i].owner # NoThread => pc[pending[u][i].owner] # "idle"

(***************************************************************************)
(* "We have sent them all, so we can clean it" (server.c:459): a login     *)
(* gets to the end of handle_pending_notifications.                        *)
(***************************************************************************)
PendingFlushed == pc["fe"] = "login" ~> pc["fe"] = "idle" \/ ~up

(***************************************************************************)
(* A login, which holds the pending mutex, and an answer, which holds the  *)
(* user's and wants the pending one, wait for each other.                  *)
(***************************************************************************)
Crossed ==
    /\ pendingLock = "fe" /\ todo["fe"] # <<>>
    /\ \E t \in Slot : pc[t] = "keep" /\ userLock[Receiver("fe")] = t

(***************************************************************************)
(* That crossing is the only deadlock: whatever mutexes are held meanwhile *)
(* (follow_user keeps the one of the followed user while it tells the      *)
(* author), the front end's thread gets to the end of every notification   *)
(* and every answer is delivered or kept, unless the process ends.         *)
(***************************************************************************)
OnlyCrossingBlocks ==
    /\ pc["fe"] = "handle" ~> pc["fe"] = "idle" \/ ~up \/ Crossed
    /\ \A t \in Slot : pc[t] = "send" ~> pc[t] = "idle" \/ ~up \/ Crossed

(***************************************************************************)
(* "Couldn't read notification from socket" (server.c:867): once its front *)
(* end has closed, the thread that serves it handles nothing more.         *)
(***************************************************************************)
ClosedMeansDone ==
    [][feLink # "up" => ~(pc["fe"] = "idle" /\ pc'["fe"] = "handle")]_vars

=============================================================================
