------------------------------ MODULE FrontEnd ------------------------------
(***************************************************************************)
(* The front end (FE): a process between the clients and the primary.  One *)
(* thread per client connection logs its user in, queues the messages the  *)
(* client writes and logs the user out; one thread sends the queue to the  *)
(* primary; one forwards what the primary pushes; one keeps the connection *)
(* with the primary alive and replaces it.                                 *)
(*                                                                         *)
(* Of the primary only send_message is here: it pushes to users that were  *)
(* announced to it, by this process or by the one that had its port        *)
(* before; and it may die.  Clients connect, write and close.  A link is   *)
(* one TCP connection with a primary, numbered in the order                *)
(* ring->primary_fd takes them.                                            *)
(***************************************************************************)
EXTENDS Integers, Sequences, FiniteSets

CONSTANTS
    Client,      \* connections of clients, each used once
    User,        \* user names
    Earlier,     \* users with a session that an earlier front end announced
    Visitor,     \* bound: users that log in while this one runs
    None,        \* no client, no user: -1 and NULL
    MaxSessions, \* MAX_SESSIONS
    MaxMessages, \* bound: messages written by one client
    MaxPushes,   \* bound: messages pushed by the primaries
    MaxDeaths    \* bound: primaries that die

ASSUME FrontEndAssumption ==
    /\ None \notin Client \cup User
    /\ Earlier \subseteq User /\ Visitor \subseteq User
    /\ MaxSessions \in Nat \ {0}
    /\ MaxMessages \in Nat /\ MaxPushes \in Nat /\ MaxDeaths \in Nat

Spot == 0 .. MaxSessions - 1
\* Every death makes the FE connect once, and once more when the listener's
\* late IS_CONNECTED_TO_SERVER = FALSE undoes the first.
Link == 1 .. 2 * MaxDeaths + 1

VARIABLES
    \* user_hash_table
    known,      \* the users in the table
    spots,      \* user->sockets_fd
    sessions,   \* user->sessions_number
    \* the clients and their threads
    client,     \* client[c]: the connection, as a write of the FE meets it
    name,       \* the user that client c logs in
    wrote,      \* messages of client c that have arrived
    taken,      \* messages its thread has read
    thread,     \* where listen_client_connection is
    found,      \* did hash_find return a node?
    loginLock,  \* MUTEX_LOGIN: its holder
    \* the message queue
    queue,      \* chained_list_messages
    sending,    \* the consumer holds MUTEX_MESSAGE_QUEUE and is in send_server
    served,     \* served[c]: what the primaries received from connection c
    \* the links
    cur,        \* the link of ring->primary_fd; 0 while ring is NULL
    link,       \* state of every link
    inbox,      \* inbox[l]: pushed on link l and not yet read
    pushes,     \* messages pushed so far
    deaths,     \* primaries dead so far
    connected,  \* IS_CONNECTED_TO_SERVER
    keeper,     \* where keep_server_connection is
    listener,   \* where listen_server_connection is
    got,        \* got[c]: the pushed messages that client c received
    ended       \* why the FE process has ended, or "no"

tableVars  == <<known, spots, sessions>>
clientVars == <<client, name, wrote, taken, thread, found, loginLock>>
queueVars  == <<queue, sending, served>>
linkVars   == <<cur, link, inbox, pushes, deaths>>
keepVars   == <<connected, keeper>>
listenVars == <<listener, got>>
vars == <<tableVars, clientVars, queueVars, linkVars, keepVars, listenVars, ended>>

Init ==
    /\ known = {}
    /\ spots = [u \in User |-> [i \in Spot |-> None]]
    /\ sessions = [u \in User |-> 0]
    /\ client = [c \in Client |-> "out"]
    /\ name = [c \in Client |-> None]
    /\ wrote = [c \in Client |-> 0]
    /\ taken = [c \in Client |-> 0]
    /\ thread = [c \in Client |-> "none"]
    /\ found = [c \in Client |-> FALSE]
    /\ loginLock = None
    /\ queue = <<>> /\ sending = FALSE
    /\ served = [c \in Client |-> <<>>]
    /\ cur = 0
    /\ link = [l \in Link |-> "new"]
    /\ inbox = [l \in Link |-> <<>>]
    /\ pushes = 0 /\ deaths = 0
    /\ connected = FALSE /\ keeper = "loop"
    /\ listener = [pc |-> "loop", fd |-> 0, msg |-> 0, to |-> None, spot |-> 0, sock |-> None]
    /\ got = [c \in Client |-> <<>>]
    /\ ended = "no"

-----------------------------------------------------------------------------
(* The clients.                                                             *)

\* A client connects and writes its LOGIN; the accept loop starts its thread.
\* (A LOGIN that never comes is NoLogin; one that login_user finds on its stack,
\* because it read nothing, is as good as written.)
Connect(c, u) ==
    /\ client[c] = "out"
    /\ client' = [client EXCEPT ![c] = "open"]
    /\ name'   = [name   EXCEPT ![c] = u]
    /\ thread' = [thread EXCEPT ![c] = "login"]
    /\ UNCHANGED <<wrote, taken, found, loginLock, tableVars, queueVars, linkVars, keepVars, listenVars, ended>>

\* The client program writes only once its login was acknowledged.
Write(c) ==
    /\ client[c] = "open"
    /\ thread[c] \in {"announce", "read", "enqueue"}
    /\ wrote[c] < MaxMessages
    /\ wrote' = [wrote EXCEPT ![c] = @ + 1]
    /\ UNCHANGED <<client, name, taken, thread, found, loginLock, tableVars, queueVars, linkVars, keepVars, listenVars, ended>>

\* The end is announced, or, with unread data at the client, a reset.
Close(c) ==
    /\ client[c] = "open"
    /\ \E how \in {"closed", "reset"} : client' = [client EXCEPT ![c] = how]
    /\ UNCHANGED <<name, wrote, taken, thread, found, loginLock, tableVars, queueVars, linkVars, keepVars, listenVars, ended>>

-----------------------------------------------------------------------------
(* write(): on an open connection the data arrives; on one the peer has     *)
(* closed the data is lost and the peer answers with a reset; on one that   *)
(* was reset it fails, once; on a broken one the process is ended by        *)
(* SIGPIPE, which the FE does not ignore.                                   *)

WriteClient(c, arrives) ==
    \/ /\ client[c] = "open"
       /\ arrives
       /\ UNCHANGED <<client, ended>>
    \/ /\ client[c] \in {"closed", "reset"}
       /\ client' = [client EXCEPT ![c] = "broken"]
       /\ UNCHANGED <<got, ended>>
    \/ /\ client[c] = "broken"
       /\ ended' = "client pipe"
       /\ UNCHANGED <<client, got>>

\* One round of the loop of send_server, for the message m of connection c.
\* "reset" is a link whose peer died with unread data: the first write reports
\* ECONNRESET and send_server sleeps and retries.
SendLost ==
    /\ link[cur] = "closed"
    /\ link' = [link EXCEPT ![cur] = "broken"]
    /\ UNCHANGED <<served, ended>>

SendServer(c, m) ==
    \/ /\ cur > 0 /\ link[cur] = "up"
       /\ served' = [served EXCEPT ![c] = Append(@, m)]
       /\ UNCHANGED <<link, ended>>
    \/ cur > 0 /\ SendLost

SendFails ==
    \/ /\ cur = 0
       /\ ended' = "no ring"
       /\ UNCHANGED link
    \/ /\ cur > 0 /\ link[cur] = "broken"
       /\ ended' = "server pipe"
       /\ UNCHANGED link
    \/ /\ cur > 0 /\ link[cur] = "reset"
       /\ link' = [link EXCEPT ![cur] = "broken"]
       /\ UNCHANGED ended

-----------------------------------------------------------------------------
(* listen_client_connection: the thread of one client.                      *)

Goto(c, l) == thread' = [thread EXCEPT ![c] = l]

\* Fault: look the user up without MUTEX_LOGIN.
FindUserUnlocked(c) ==
    /\ thread[c] = "login"
    /\ loginLock' = c
    /\ found' = [found EXCEPT ![c] = name[c] \in known]
    /\ Goto(c, "insert")
    /\ UNCHANGED <<client, name, wrote, taken, tableVars, queueVars, linkVars, keepVars, listenVars, ended>>

\* login_user reads nothing, an error, or something that is not a LOGIN.
NoLogin(c) ==
    /\ thread[c] = "login"
    /\ Goto(c, "nack")
    /\ UNCHANGED <<client, name, wrote, taken, found, loginLock, tableVars, queueVars, linkVars, keepVars, listenVars, ended>>

\* login_user: MUTEX_LOGIN is held from here to the end of LoginUser.
FindUser(c) ==
    /\ thread[c] = "login"
    /\ loginLock = None
    /\ loginLock' = c
    /\ found' = [found EXCEPT ![c] = name[c] \in known]
    /\ Goto(c, "insert")
    /\ UNCHANGED <<client, name, wrote, taken, tableVars, queueVars, linkVars, keepVars, listenVars, ended>>

FreeSpots(u) == {i \in Spot : spots[u][i] = None}

\* Fault: the new user is not inserted.
NewUserLost(c) ==
    /\ ~found[c]
    /\ spots' = [spots EXCEPT ![name[c]] = [i \in Spot |-> IF i = 0 THEN c ELSE None]]
    /\ sessions' = [sessions EXCEPT ![name[c]] = 1]
    /\ Goto(c, "ack")
    /\ UNCHANGED known

NewUser(c) ==
    LET u == name[c] IN
    /\ ~found[c]
    /\ known' = known \cup {u}
    /\ spots' = [spots EXCEPT ![u] = [i \in Spot |-> IF i = 0 THEN c ELSE None]]
    /\ sessions' = [sessions EXCEPT ![u] = 1]
    /\ Goto(c, "ack")

\* Fault: fill every free spot.
NewSessionTwice(c) ==
    LET u == name[c] IN
    /\ found[c]
    /\ sessions[u] < MaxSessions
    /\ spots' = [spots EXCEPT ![u] = [i \in Spot |-> IF @[i] = None THEN c ELSE @[i]]]
    /\ sessions' = [sessions EXCEPT ![u] = @ + 1]
    /\ Goto(c, "ack")
    /\ UNCHANGED known

\* get_free_socket_spot: the first spot that holds -1.
NewSession(c) ==
    LET u == name[c] IN
    /\ found[c]
    /\ sessions[u] < MaxSessions
    /\ \E i \in FreeSpots(u) :
        /\ \A j \in FreeSpots(u) : i <= j
        /\ spots' = [spots EXCEPT ![u][i] = c]
    /\ sessions' = [sessions EXCEPT ![u] = @ + 1]
    /\ Goto(c, "ack")
    /\ UNCHANGED known

Refuse(c) ==
    /\ found[c]
    /\ sessions[name[c]] >= MaxSessions
    /\ Goto(c, "nack")
    /\ UNCHANGED tableVars

LoginUser(c) ==
    /\ thread[c] = "insert"
    /\ NewUser(c) \/ NewSession(c) \/ Refuse(c)
    /\ loginLock' = None
    /\ UNCHANGED <<client, name, wrote, taken, found, queueVars, linkVars, keepVars, listenVars, ended>>

\* A thread that cannot write its answer returns, whatever it has taken.
Answer(c) ==
    /\ \/ thread[c] = "ack" /\ client[c] # "reset" /\ Goto(c, "announce")
       \/ thread[c] = "ack" /\ client[c] = "reset" /\ Goto(c, "stranded")
       \/ thread[c] = "nack" /\ Goto(c, "done")
    /\ WriteClient(c, UNCHANGED got)
    /\ UNCHANGED <<name, wrote, taken, found, loginLock, tableVars, queueVars, linkVars, keepVars, listener>>

\* LOGIN and LOGOUT do not go through the queue.
Announce(c, at, m, next) ==
    /\ thread[c] = at
    /\ \/ SendServer(c, m) /\ Goto(c, next)
       \/ SendFails /\ UNCHANGED <<thread, served>>
    /\ UNCHANGED <<client, name, wrote, taken, found, loginLock, tableVars, queue, sending,
                   cur, inbox, pushes, deaths, keepVars, listenVars>>

AnnounceLogin(c)  == Announce(c, "announce", <<"LOGIN", 0>>, "read")
AnnounceLogout(c) == Announce(c, "logout", <<"LOGOUT", 0>>, "done")

\* Fault: the end of the connection is seen before the data that precedes it.
ReadClientHasty(c) ==
    /\ thread[c] = "read"
    /\ \/ wrote[c] > taken[c] /\ client[c] = "open" /\ Goto(c, "enqueue")
       \/ client[c] # "open" /\ Goto(c, "leave")
    /\ UNCHANGED <<client, name, wrote, taken, found, loginLock, tableVars, queueVars, linkVars, keepVars, listenVars, ended>>

\* Data first, then the error of a reset, then end of file.
ReadClient(c) ==
    /\ thread[c] = "read"
    /\ \/ wrote[c] > taken[c] /\ Goto(c, "enqueue") /\ UNCHANGED client
       \/ /\ wrote[c] = taken[c] /\ client[c] = "reset"
          /\ client' = [client EXCEPT ![c] = "broken"]
          /\ UNCHANGED thread
       \/ /\ wrote[c] = taken[c] /\ client[c] \in {"closed", "broken"}
          /\ Goto(c, "leave")
          /\ UNCHANGED client
    /\ UNCHANGED <<name, wrote, taken, found, loginLock, tableVars, queueVars, linkVars, keepVars, listenVars, ended>>

\* Fault: append at the start of the list.
EnqueueFirst(c) ==
    /\ thread[c] = "enqueue"
    /\ ~sending
    /\ taken' = [taken EXCEPT ![c] = @ + 1]
    /\ queue' = <<<<c, taken[c] + 1>>>> \o queue
    /\ Goto(c, "read")
    /\ UNCHANGED <<client, name, wrote, found, loginLock, tableVars, sending, served, linkVars, keepVars, listenVars, ended>>

Enqueue(c) ==
    /\ thread[c] = "enqueue"
    /\ ~sending
    /\ taken' = [taken EXCEPT ![c] = @ + 1]
    /\ queue' = Append(queue, <<c, taken[c] + 1>>)
    /\ Goto(c, "read")
    /\ UNCHANGED <<client, name, wrote, found, loginLock, tableVars, sending, served, linkVars, keepVars, listenVars, ended>>

\* End of file: give the session back, under user->mutex.
Leave(c) ==
    LET u == name[c] IN
    /\ thread[c] = "leave"
    /\ sessions' = [sessions EXCEPT ![u] = @ - 1]
    /\ spots' = [spots EXCEPT ![u] = [i \in Spot |-> IF @[i] = c THEN None ELSE @[i]]]
    /\ Goto(c, "logout")
    /\ UNCHANGED <<known, client, name, wrote, taken, found, loginLock, queueVars, linkVars, keepVars, listenVars, ended>>

ClientThread(c) ==
    \/ NoLogin(c) \/ FindUser(c) \/ LoginUser(c) \/ Answer(c) \/ AnnounceLogin(c)
    \/ ReadClient(c) \/ Enqueue(c) \/ Leave(c) \/ AnnounceLogout(c)

-----------------------------------------------------------------------------
(* listen_message_processor: send the head of the queue, then remove it,    *)
(* all of it under MUTEX_MESSAGE_QUEUE.                                     *)

TakeMessage ==
    /\ ~sending
    /\ queue # <<>>
    /\ sending' = TRUE
    /\ UNCHANGED <<queue, served, tableVars, clientVars, linkVars, keepVars, listenVars, ended>>

SendMessage ==
    /\ sending
    /\ \/ /\ SendServer(Head(queue)[1], <<"MESSAGE", Head(queue)[2]>>)
          /\ queue' = Tail(queue)
          /\ sending' = FALSE
       \/ SendFails /\ UNCHANGED queueVars
    /\ UNCHANGED <<tableVars, clientVars, cur, inbox, pushes, deaths, keepVars, listenVars>>

Processor == TakeMessage \/ SendMessage

-----------------------------------------------------------------------------
(* The primary: send_message writes to the FE of every user with a session. *)
(* A session begins with the user's LOGIN, or was in the primary's table    *)
(* before this FE started; that it may have ended makes no difference here. *)

Announced == Earlier \cup {name[c] : c \in {d \in Client : served[d] # <<>>}}

Push(u) ==
    /\ pushes < MaxPushes
    /\ cur > 0 /\ link[cur] = "up"
    /\ u \in Announced
    /\ pushes' = pushes + 1
    /\ inbox' = [inbox EXCEPT ![cur] = Append(@, [id |-> pushes + 1, to |-> u])]
    /\ UNCHANGED <<cur, link, deaths, tableVars, clientVars, queueVars, keepVars, listenVars, ended>>

\* It dies, with or without unread data of the FE in its socket.
PrimaryDies ==
    /\ deaths < MaxDeaths
    /\ \E l \in Link : link[l] = "up"
    /\ deaths' = deaths + 1
    /\ \E broken \in {"closed", "reset"} :
        link' = [l \in Link |-> IF link[l] = "up" THEN broken ELSE link[l]]
    /\ UNCHANGED <<cur, inbox, pushes, tableVars, clientVars, queueVars, keepVars, listenVars, ended>>

-----------------------------------------------------------------------------
(* keep_server_connection.                                                  *)

\* Branch on IS_CONNECTED_TO_SERVER.
KeepLoop ==
    /\ keeper = "loop"
    /\ keeper' = IF connected THEN "dial" ELSE "search"
    /\ UNCHANGED <<connected, tableVars, clientVars, queueVars, linkVars, listenVars, ended>>

\* connect_to_leader, when it finds one, which may be never; then the
\* assignment to ring.
ConnectToLeader ==
    /\ keeper = "search"
    /\ cur + 1 \in Link
    /\ cur' = cur + 1
    /\ link' = [link EXCEPT ![cur + 1] = "up"]
    /\ keeper' = "found"
    /\ UNCHANGED <<connected, inbox, pushes, deaths, tableVars, clientVars, queueVars, listenVars, ended>>

KeepSet ==
    /\ keeper = "found"
    /\ connected' = TRUE
    /\ keeper' = "loop"
    /\ UNCHANGED <<tableVars, clientVars, queueVars, linkVars, listenVars, ended>>

\* keep_alive_with_server: the keepalive connection is with the process of link cur.
KeepDial ==
    /\ keeper = "dial"
    /\ keeper' = IF link[cur] = "up" THEN "beat" ELSE "lost"
    /\ UNCHANGED <<connected, tableVars, clientVars, queueVars, linkVars, listenVars, ended>>

\* Fault: the loop of the keepalive ends on a reported error only.
KeepBrokenLoudly ==
    /\ keeper = "beat"
    /\ link[cur] = "reset"
    /\ keeper' = "lost"
    /\ UNCHANGED <<connected, tableVars, clientVars, queueVars, linkVars, listenVars, ended>>

KeepBroken ==
    /\ keeper = "beat"
    /\ link[cur] # "up"
    /\ keeper' = "lost"
    /\ UNCHANGED <<connected, tableVars, clientVars, queueVars, linkVars, listenVars, ended>>

KeepClear ==
    /\ keeper = "lost"
    /\ connected' = FALSE
    /\ keeper' = "loop"
    /\ UNCHANGED <<tableVars, clientVars, queueVars, linkVars, listenVars, ended>>

Keeper == KeepLoop \/ KeepSet \/ KeepDial \/ KeepBroken \/ KeepClear

-----------------------------------------------------------------------------
(* listen_server_connection.                                                *)

\* While connected, block in read() on the link of this moment.
ListenLoop ==
    /\ listener.pc = "loop"
    /\ connected
    /\ listener' = [listener EXCEPT !.pc = "read", !.fd = cur]
    /\ UNCHANGED <<got, tableVars, clientVars, queueVars, linkVars, keepVars, ended>>

\* A pushed message, end of file, or an error: the error leaves the flag alone.
\* The node of a receiver that hash_find does not find is NULL.
ListenRead ==
    LET l == listener.fd IN
    /\ listener.pc = "read"
    /\ \/ /\ inbox[l] # <<>>
          /\ inbox' = [inbox EXCEPT ![l] = Tail(@)]
          /\ listener' = [listener EXCEPT !.pc = "pick", !.msg = Head(inbox[l]).id,
                                          !.to = Head(inbox[l]).to, !.spot = 0]
          /\ ended' = IF Head(inbox[l]).to \in known THEN ended ELSE "no user"
          /\ UNCHANGED link
       \/ /\ inbox[l] = <<>> /\ link[l] \in {"closed", "broken"}
          /\ listener' = [listener EXCEPT !.pc = "eof", !.fd = 0]
          /\ UNCHANGED <<link, inbox, ended>>
       \/ /\ inbox[l] = <<>> /\ link[l] = "reset"
          /\ link' = [link EXCEPT ![l] = "broken"]
          /\ listener' = [listener EXCEPT !.pc = "loop", !.fd = 0]
          /\ UNCHANGED <<inbox, ended>>
    /\ UNCHANGED <<cur, pushes, deaths, got, tableVars, clientVars, queueVars, keepVars>>

ListenClear ==
    /\ listener.pc = "eof"
    /\ connected' = FALSE
    /\ listener' = [listener EXCEPT !.pc = "loop"]
    /\ UNCHANGED <<keeper, got, tableVars, clientVars, queueVars, linkVars, ended>>

\* Fault: look at one spot too many.
NextSpotFar ==
    IF listener.spot <= MaxSessions - 1
    THEN [listener EXCEPT !.pc = "pick", !.spot = @ + 1, !.sock = None]
    ELSE [pc |-> "loop", fd |-> 0, msg |-> 0, to |-> None, spot |-> 0, sock |-> None]

\* The next spot of the receiver, read without its mutex ...
NextSpot ==
    IF listener.spot < MaxSessions - 1
    THEN [listener EXCEPT !.pc = "pick", !.spot = @ + 1, !.sock = None]
    ELSE [pc |-> "loop", fd |-> 0, msg |-> 0, to |-> None, spot |-> 0, sock |-> None]

PickSpot ==
    LET c == spots[listener.to][listener.spot] IN
    /\ listener.pc = "pick"
    /\ listener' = IF c = None THEN NextSpot
                   ELSE [listener EXCEPT !.pc = "write", !.sock = c]
    /\ UNCHANGED <<got, tableVars, clientVars, queueVars, linkVars, keepVars, ended>>

\* ... and the write to the socket found there.
WriteSpot ==
    LET c == listener.sock IN
    /\ listener.pc = "write"
    /\ WriteClient(c, got' = [got EXCEPT ![c] = Append(@, listener.msg)])
    /\ listener' = NextSpot
    /\ UNCHANGED <<name, wrote, taken, thread, found, loginLock, tableVars, queueVars, linkVars, keepVars>>

Listener == ListenLoop \/ ListenRead \/ ListenClear \/ PickSpot \/ WriteSpot

-----------------------------------------------------------------------------
Next ==
    /\ ended = "no"
    /\ \/ \E c \in Client : \/ \E u \in Visitor : Connect(c, u)
                            \/ Write(c) \/ Close(c) \/ ClientThread(c)
       \/ Processor \/ Keeper \/ ConnectToLeader \/ Listener
       \/ PrimaryDies \/ \E u \in User : Push(u)

Spec == Init /\ [][Next]_vars

(***************************************************************************)
(* Every thread of the FE that can take a step takes one: they only wait   *)
(* for each other at the two mutexes, and a thread that holds one of them  *)
(* releases it without waiting for a third.  Clients and primaries do as   *)
(* they please, and whether connect_to_leader succeeds is up to the        *)
(* servers (FrontEndLink): nothing obliges ConnectToLeader.                *)
(***************************************************************************)
Running(A) == ended = "no" /\ A

Fairness ==
    /\ \A c \in Client : WF_vars(Running(ClientThread(c)))
    /\ WF_vars(Running(Processor))
    /\ WF_vars(Running(Keeper))
    /\ WF_vars(Running(Listener))

FairSpec == Spec /\ Fairness

-----------------------------------------------------------------------------
TypeOK ==
    /\ known \subseteq User
    /\ spots \in [User -> [Spot -> Client \cup {None}]]
    /\ sessions \in [User -> Nat]
    /\ client \in [Client -> {"out", "open", "closed", "reset", "broken"}]
    /\ name \in [Client -> User \cup {None}]
    /\ wrote \in [Client -> 0 .. MaxMessages] /\ taken \in [Client -> 0 .. MaxMessages]
    /\ thread \in [Client -> {"none", "login", "insert", "ack", "nack", "announce",
                              "read", "enqueue", "leave", "logout", "done", "stranded"}]
    /\ found \in [Client -> BOOLEAN]
    /\ loginLock \in Client \cup {None}
    /\ queue \in Seq(Client \X Nat) /\ sending \in BOOLEAN
    /\ served \in [Client -> Seq({"LOGIN", "LOGOUT", "MESSAGE"} \X Nat)]
    /\ cur \in Link \cup {0}
    /\ link \in [Link -> {"new", "up", "closed", "reset", "broken"}]
    /\ inbox \in [Link -> Seq([id : Nat, to : User])]
    /\ pushes \in 0 .. MaxPushes /\ deaths \in 0 .. MaxDeaths
    /\ connected \in BOOLEAN
    /\ keeper \in {"loop", "search", "found", "dial", "beat", "lost"}
    /\ listener \in [pc : {"loop", "read", "eof", "pick", "write"}, fd : Link \cup {0},
                     msg : Nat, to : User \cup {None}, spot : Spot, sock : Client \cup {None}]
    /\ got \in [Client -> Seq(Nat)]
    /\ ended \in {"no", "no ring", "no user", "server pipe", "client pipe"}

-----------------------------------------------------------------------------
(***************************************************************************)
(* The table of sessions (login_user and listen_client_connection): a      *)
(* user's count is the number of its occupied spots, and a connection has  *)
(* a spot, one and of its own user, from login_user to its leave; except   *)
(* that one whose acknowledgement could not be written (line 477) keeps    *)
(* its spot, and its share of the count, for good.  So the count never     *)
(* exceeds MAX_SESSIONS, and the loop of get_free_socket_spot, which looks *)
(* one spot too far, always stops at a real one.                           *)
(***************************************************************************)
Occupied(u) == {i \in Spot : spots[u][i] # None}
Seated(c)   == thread[c] \in {"ack", "announce", "read", "enqueue", "leave", "stranded"}

CountMatches == \A u \in User : sessions[u] = Cardinality(Occupied(u))

EveryoneSits ==
    \A c \in Client : Seated(c) => \E i \in Spot : spots[name[c]][i] = c

NobodyElse ==
    \A u \in User, i, j \in Spot : spots[u][i] # None =>
        /\ Seated(spots[u][i]) /\ name[spots[u][i]] = u
        /\ spots[u][i] = spots[u][j] => i = j

SessionTable == CountMatches /\ EveryoneSits /\ NobodyElse

(***************************************************************************)
(* listen_server_connection uses the node of hash_find without testing it  *)
(* (line 212).  It is NULL only for a user whose session an earlier front  *)
(* end announced: whoever this one announces, through the queue or not, it *)
(* has inserted before.                                                    *)
(***************************************************************************)
PushFindsUser ==
    ended = "no user" => listener.to \in Earlier

(***************************************************************************)
(* What a client receives, although the listener reads the spots without   *)
(* the user's mutex: messages for its own user, in the order the primaries *)
(* pushed them, none twice.                                                *)
(***************************************************************************)
PushesInOrder ==
    /\ listener.pc = "write" => name[listener.sock] = listener.to
    /\ \A c \in Client : \A i, j \in DOMAIN got[c] : i < j => got[c][i] < got[c][j]

(***************************************************************************)
(* What the primaries receive from a connection: its messages once each    *)
(* and in the order of the client, whatever the two paths to the primary   *)
(* (the queue, and send_server called directly) and the retries do; while  *)
(* no primary has died, the LOGIN first and no gap.  LOGOUT may overtake.  *)
(***************************************************************************)
Sent(c)    == {i \in DOMAIN served[c] : served[c][i][1] = "MESSAGE"}
Numbers(c) == {served[c][i][2] : i \in Sent(c)}

MessagesInOrder ==
    \A c \in Client :
        /\ \A i, j \in Sent(c) : i < j => served[c][i][2] < served[c][j][2]
        /\ deaths = 0 =>
            /\ \E n \in 0 .. taken[c] : Numbers(c) = 1 .. n
            /\ served[c] # <<>> => Head(served[c])[1] = "LOGIN"

(***************************************************************************)
(* As long as no primary dies, what arrived from an admitted client        *)
(* reaches the primary, also when the client has closed, or reset the      *)
(* connection, right after writing.                                        *)
(***************************************************************************)
EveryMessageServed ==
    \A c \in Client : \A n \in 1 .. MaxMessages :
        wrote[c] >= n ~> \/ <<"MESSAGE", n>> \in {served[c][i] : i \in DOMAIN served[c]}
                          \/ deaths > 0 \/ ended # "no"

(***************************************************************************)
(* Whatever dies, the front end is back in service again and again: the    *)
(* keeper watches a link that is up, and the listener, which depends on    *)
(* the flag that both write, reads from that link.  Three things keep it   *)
(* from it: the process has ended, connect_to_leader goes on searching, or *)
(* the listener has cleared, for the old link, the flag that the keeper    *)
(* had set for the new one, and now sleeps beside a link that is up.       *)
(***************************************************************************)
InService ==
    /\ keeper = "beat" /\ link[cur] = "up"
    /\ connected /\ listener.pc # "loop" /\ listener.fd = cur

Asleep ==
    /\ keeper = "beat" /\ link[cur] = "up"
    /\ ~connected /\ listener.pc = "loop"

Reconnects == []<>(InService \/ ended # "no" \/ keeper = "search" \/ Asleep)

(***************************************************************************)
(* "Failed to send message %d to server. Will retry in a few..."           *)
(* (send_server): a failing write to the primary is retried.               *)
(***************************************************************************)
FailedSendIsRetried == ended # "server pipe"

(***************************************************************************)
(* "When sending notification %d to %s through socket %d"                  *)
(* (listen_server_connection): a failing write to a client is logged, and  *)
(* the FE goes on.                                                         *)
(***************************************************************************)
FailedPushIsLogged == ended # "client pipe"

(***************************************************************************)
(* "You cannot login. Max conections exceeded" (client.c:160): the client  *)
(* takes the first thing it reads for the answer to its login, so nothing  *)
(* is pushed to a connection before its answer.                            *)
(***************************************************************************)
AnswerComesFirst == \A c \in Client : got[c] # <<>> => thread[c] # "ack"

(***************************************************************************)
(* "Connection with the main server restablished!"                         *)
(* (keep_server_connection): once it is, and as long as it lasts, what the *)
(* primary pushes is read.                                                 *)
(***************************************************************************)
EveryPushIsRead ==
    \A l \in Link :
        inbox[l] # <<>> ~> inbox[l] = <<>> \/ link[l] # "up" \/ ended # "no"

=============================================================================
