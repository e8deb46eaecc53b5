----------------------------- MODULE Replication -----------------------------
(***************************************************************************)
(* How the primary's table of users gets to the other servers.  What the   *)
(* front end asks for is applied by the primary and sent to the next       *)
(* server of the ring, which applies it and sends it on (send_replication, *)
(* handle_replication); the server whose next one is the primary marks it  *)
(* as the last, and a FOLLOW that comes back so is answered.  A server     *)
(* that joins makes the primary send its whole table                       *)
(* (send_initial_replication).                                             *)
(*                                                                         *)
(* Every notification travels on a connection of its own and is handled by *)
(* a thread of its own; the scans for the next server share the process's  *)
(* next_index.  The primary does not change here: elections are the        *)
(* subject of RingElection, users' mutexes and pending notifications of    *)
(* Delivery.                                                               *)
(***************************************************************************)
EXTENDS Integers, Sequences, SequencesExt, FiniteSetsExt

CONSTANTS
    N,           \* servers 0 .. N-1
    Primary,
    Users,       \* users 1 .. Users, in the order of the hash table
    Pool,        \* threads of handle_connection
    FirstUp,     \* the servers that run at the start
    MaxSessions, \* MAX_SESSIONS, as the front end enforces it
    MaxEvents,   \* bound: notifications from the front end
    MaxJoins,    \* bound: servers that join later
    MaxKills,    \* bound: followers that are stopped
    Ending,      \* bound: what a behaviour may be spoiled by and not go on
    EndingJoined \* bound: and what else once a server has joined

ASSUME ReplicationAssumption ==
    /\ N \in Nat \ {0, 1} /\ Primary \in 0 .. N - 1
    /\ Users \in Nat \ {0} /\ MaxSessions \in Nat \ {0}
    /\ Primary \in FirstUp /\ FirstUp \subseteq 0 .. N - 1
    /\ "fe" \notin Pool /\ "join" \notin Pool
    /\ {MaxEvents, MaxKills} \subseteq Nat /\ MaxJoins \in {0, 1}

Server == 0 .. N - 1
User   == 1 .. Users
Thread == Pool \cup {"fe", "join"}
Nobody == 0                 \* no user
Self   == N                 \* a scan that came back to its own server
Gone   == N + 1             \* a connection whose other end has died

VARIABLES
    up,          \* the servers that run
    known,       \* known[s]: the users in s's user_hash_table
    sessions,    \* sessions[s][u]: user->sessions_number
    followers,   \* followers[s][u]: user->followers
    nextIndex,   \* ring->next_index
    th,          \* th[s][t]: where a thread is, what it sends, its connection
    net,         \* notifications written and not yet read
    walk,        \* send_initial_replication: the user and the follower it is at
    feSessions,  \* the sessions the front end has announced
    events, joins, kills,
    answered,    \* FOLLOWs answered at the primary
    joined,      \* history: servers that joined later
    newest,      \* history: newest[s]: the latest notification s has applied
    spoiled      \* history: what happened that the protocol does not handle

tableVars == <<known, sessions, followers>>
envVars   == <<feSessions, events, joins, kills>>
histVars  == <<answered, joined, newest, spoiled>>
vars == <<up, tableVars, nextIndex, th, net, walk, envVars, histVars>>

Command == {"LOGIN", "LOGOUT", "FOLLOW"}

\* data: 1 to be sent on, 0 on its last hop, 2 for the next server only.
Notification(command, author, target, data, id) ==
    [command |-> command, author |-> author, target |-> target, data |-> data, id |-> id]

Blank == Notification("none", Nobody, Nobody, 0, 0)
Idle  == [pc |-> "idle", note |-> Blank, conn |-> Self, count |-> 0]

EmptySessions  == [u \in User |-> 0]
EmptyFollowers == [u \in User |-> <<>>]

Init ==
    /\ up = FirstUp
    /\ known = [s \in Server |-> {}]
    /\ sessions = [s \in Server |-> EmptySessions]
    /\ followers = [s \in Server |-> EmptyFollowers]
    /\ nextIndex = [s \in Server |-> s]
    /\ th = [s \in Server |-> [t \in Thread |-> Idle]]
    /\ net = {} /\ walk = <<0, 0>>
    /\ feSessions = EmptySessions
    /\ events = 0 /\ joins = 0 /\ kills = 0
    /\ answered = {} /\ joined = {} /\ spoiled = {}
    /\ newest = [s \in Server |-> 0]

\* Fault: one past the last server.
NextIdxFar(i) == IF i = 0 THEN N ELSE i - 1

\* server_ring_get_next_index.
NextIdx(i) == IF i = 0 THEN N - 1 ELSE i - 1

Set(s, t, state) == th' = [th EXCEPT ![s][t] = state]
Spoil(what, if) == spoiled' = IF if THEN spoiled \cup {what} ELSE spoiled

\* The scans of s that have begun and whose outcome has not been looked at.
Scanning(s) == {t \in Thread : th[s][t].pc \in {"advance", "write"}}
Met(s) == IF Scanning(s) # {} THEN {"raced"} ELSE {}

\* send_replication by thread t of s begins: the scan starts at s itself.
Begin(s, t, n) ==
    /\ Set(s, t, [Idle EXCEPT !.pc = "advance", !.note = n])
    /\ nextIndex' = [nextIndex EXCEPT ![s] = s]

\* The process of s ends, and with it its memory and threads, what was written
\* to it and not read, and the connections to it.
EndOf(s, how) ==
    /\ up' = up \ {s}
    /\ known' = [known EXCEPT ![s] = {}]
    /\ sessions' = [sessions EXCEPT ![s] = EmptySessions]
    /\ followers' = [followers EXCEPT ![s] = EmptyFollowers]
    /\ nextIndex' = [nextIndex EXCEPT ![s] = s]
    /\ newest' = [newest EXCEPT ![s] = 0]
    /\ th' = [r \in Server |-> [t \in Thread |->
                IF r = s THEN Idle
                ELSE IF th[r][t].pc = "write" /\ th[r][t].conn = s
                     THEN [th[r][t] EXCEPT !.conn = Gone] ELSE th[r][t]]]
    /\ spoiled' = spoiled \cup {how}

Unread(s) == {m \in net : m.to = s}

-----------------------------------------------------------------------------
(* The table of users.                                                      *)

\* login_user.
LoginAt(s, u) ==
    /\ known' = [known EXCEPT ![s] = @ \cup {u}]
    /\ sessions' = [sessions EXCEPT ![s][u] = IF u \in known[s] THEN @ + 1 ELSE 1]
    /\ UNCHANGED followers

\* logout_user.
LogoutAt(s, u) ==
    /\ sessions' = [sessions EXCEPT ![s][u] = IF u \in known[s] THEN @ - 1 ELSE @]
    /\ UNCHANGED <<known, followers>>

FollowAt(s, author, target) ==
    /\ followers' = [followers EXCEPT ![s][target] = Append(@, author)]
    /\ UNCHANGED <<known, sessions>>

-----------------------------------------------------------------------------
(* send_replication by thread t of s, once begun.                           *)

\* One round of the scan: the next server, or the one after it, ...
ScanAdvance(s, t) ==
    LET n == NextIdx(nextIndex[s]) IN
    /\ th[s][t].pc = "advance"
    /\ nextIndex' = [nextIndex EXCEPT ![s] = n]
    /\ IF n = s \/ n \in up
       THEN Set(s, t, [th[s][t] EXCEPT !.pc = "write", !.conn = IF n = s THEN Self ELSE n])
       ELSE UNCHANGED th
    /\ UNCHANGED <<up, tableVars, net, walk, envVars, histVars>>

\* Fault: the last hop is the one from the primary's neighbour.
KeepReplicatingOff(s, n) ==
    IF n.data = 2 THEN 2 ELSE IF NextIdx(nextIndex[s]) = Primary THEN 0 ELSE 1

\* Is this the last hop?  It looks at next_index, not at its own connection.
KeepReplicating(s, n) ==
    IF n.data = 2 THEN 2 ELSE IF nextIndex[s] = Primary THEN 0 ELSE 1

\* What a thread does when its notification is sent.
Sent(t) == IF t = "join" THEN [Idle EXCEPT !.pc = "walk"] ELSE Idle

Write(s, t) ==
    LET c == th[s][t].conn  n == th[s][t].note IN
    /\ th[s][t].pc = "write" /\ c # Self
    /\ net' = IF c = Gone THEN net
              ELSE net \cup {[to |-> c, note |-> [n EXCEPT !.data = KeepReplicating(s, n)]]}
    /\ Set(s, t, Sent(t))
    /\ UNCHANGED <<up, tableVars, nextIndex, walk, envVars, histVars>>

\* A failed write ends the process: on a socket that is not connected, because
\* there is no other server, or sometimes on one whose other end has died.
WriteFails(s, t) ==
    /\ th[s][t].pc = "write" /\ th[s][t].conn \in {Self, Gone}
    /\ EndOf(s, "died")
    /\ net' = net \ Unread(s)
    /\ UNCHANGED <<walk, envVars, answered, joined>>

SendReplication(s, t) == ScanAdvance(s, t) \/ Write(s, t) \/ WriteFails(s, t)

-----------------------------------------------------------------------------
(* The primary: what the front end asks for is applied and sent.            *)

FromFE(command, author, target) ==
    /\ Primary \in up
    /\ th[Primary]["fe"] = Idle
    /\ events < MaxEvents
    /\ events' = events + 1
    /\ Begin(Primary, "fe", Notification(command, author, target, 1, events + 1))
    /\ spoiled' = spoiled \cup Met(Primary)
    /\ UNCHANGED <<up, net, walk, joins, kills, answered, joined, newest>>

Login(u) ==
    /\ feSessions[u] < MaxSessions
    /\ FromFE("LOGIN", u, Nobody)
    /\ feSessions' = [feSessions EXCEPT ![u] = @ + 1]
    /\ LoginAt(Primary, u)

Logout(u) ==
    /\ feSessions[u] > 0
    /\ FromFE("LOGOUT", u, Nobody)
    /\ feSessions' = [feSessions EXCEPT ![u] = @ - 1]
    /\ LogoutAt(Primary, u)

\* follow_user; the FOLLOWs that are refused change nothing and go nowhere.
Follow(u, target) ==
    /\ u \in known[Primary] /\ target \in known[Primary] \ {u}
    /\ ~Contains(followers[Primary][target], u)
    /\ FromFE("FOLLOW", u, target)
    /\ FollowAt(Primary, u, target)
    /\ UNCHANGED feSessions

-----------------------------------------------------------------------------
(* handle_replication by thread t of s.                                     *)

Reads(s, t, m) == s \in up /\ th[s][t] = Idle /\ t \in Pool /\ m \in net /\ m.to = s
Is(m, command) == m.note.command = command
Read(m) == net' = net \ {m}

\* What is to be sent on is sent on.
Forward(s, t, n) ==
    IF n.data = 1 THEN Begin(s, t, n) ELSE Set(s, t, Idle) /\ UNCHANGED nextIndex

\* The order matters among the notifications that go around the ring.
Noted(s, n) == newest' = [newest EXCEPT ![s] = IF n.id > @ THEN n.id ELSE @]
Late(s, n)  == IF n.data = 1 /\ n.id < newest[s] THEN {"overtaken"} ELSE {}
MetBy(s, n) == IF n.data = 1 THEN Met(s) ELSE {}

Applied(s, n) ==
    /\ Noted(s, n)
    /\ spoiled' = spoiled \cup Late(s, n) \cup MetBy(s, n)
    /\ UNCHANGED <<up, walk, envVars, joined>>

IgnoreOwn(s, t, m) ==
    /\ Reads(s, t, m) /\ Read(m)
    /\ s = Primary /\ (Is(m, "LOGIN") \/ Is(m, "LOGOUT"))
    /\ UNCHANGED <<up, tableVars, nextIndex, th, walk, envVars, histVars>>

\* Fault: it is not sent on.
HandleNewUserSilent(s, t, m) ==
    /\ Reads(s, t, m) /\ Read(m)
    /\ s # Primary /\ Is(m, "LOGIN") /\ m.note.author \notin known[s]
    /\ LoginAt(s, m.note.author)
    /\ Applied(s, m.note)
    /\ UNCHANGED <<th, nextIndex, answered>>

\* LOGIN of a user that is not in the table, under MUTEX_LOGIN.
HandleNewUser(s, t, m) ==
    /\ Reads(s, t, m) /\ Read(m)
    /\ s # Primary /\ Is(m, "LOGIN") /\ m.note.author \notin known[s]
    /\ LoginAt(s, m.note.author)
    /\ Forward(s, t, m.note) /\ Applied(s, m.note)
    /\ UNCHANGED answered

\* LOGIN or LOGOUT of one that is: sessions_number is read ...
ReadCount(s, t, m) ==
    /\ Reads(s, t, m) /\ Read(m)
    /\ s # Primary /\ (Is(m, "LOGIN") \/ Is(m, "LOGOUT")) /\ m.note.author \in known[s]
    /\ Set(s, t, [Idle EXCEPT !.pc = "count", !.note = m.note, !.count = sessions[s][m.note.author]])
    /\ Noted(s, m.note)
    /\ spoiled' = spoiled \cup Late(s, m.note)
    /\ UNCHANGED <<up, tableVars, nextIndex, walk, envVars, answered, joined>>

Counted(s, t) ==
    LET n == th[s][t].note
    IN  sessions' = [sessions EXCEPT ![s][n.author] =
                        th[s][t].count + (IF n.command = "LOGIN" THEN 1 ELSE -1)]

\* Fault: it is not sent on.
WriteCountSilent(s, t) ==
    /\ th[s][t].pc = "count"
    /\ Counted(s, t)
    /\ Set(s, t, Idle)
    /\ UNCHANGED <<up, known, followers, nextIndex, net, walk, envVars, histVars>>

\* ... and written, without a mutex: what was written meanwhile is lost.
WriteCount(s, t) ==
    LET n == th[s][t].note IN
    /\ th[s][t].pc = "count"
    /\ Counted(s, t)
    /\ Forward(s, t, n)
    /\ spoiled' = spoiled \cup MetBy(s, n)
                           \cup (IF sessions[s][n.author] # th[s][t].count THEN {"raced"} ELSE {})
    /\ UNCHANGED <<up, known, followers, net, walk, envVars, answered, joined, newest>>

\* LOGOUT of a user that is not in the table.
LogoutUnknown(s, t, m) ==
    /\ Reads(s, t, m) /\ Read(m)
    /\ s # Primary /\ Is(m, "LOGOUT") /\ m.note.author \notin known[s]
    /\ Forward(s, t, m.note) /\ Applied(s, m.note)
    /\ UNCHANGED <<tableVars, answered>>

\* On its last hop: answer the author; only the primary's answer can arrive.
HandleAgreed(s, t, m) ==
    /\ Reads(s, t, m) /\ Read(m)
    /\ Is(m, "FOLLOW") /\ m.note.data = 0
    /\ answered' = IF s = Primary THEN answered \cup {m.note} ELSE answered
    /\ UNCHANGED <<up, tableVars, nextIndex, th, walk, envVars, joined, newest, spoiled>>

\* Fault: a follower this server has not heard of is left out.
HandleFollowKnown(s, t, m) ==
    /\ Reads(s, t, m) /\ Read(m)
    /\ Is(m, "FOLLOW") /\ m.note.data # 0
    /\ m.note.target \in known[s]
    /\ IF m.note.author \in known[s] THEN FollowAt(s, m.note.author, m.note.target)
       ELSE UNCHANGED tableVars
    /\ Forward(s, t, m.note) /\ Applied(s, m.note)
    /\ UNCHANGED answered

HandleFollow(s, t, m) ==
    /\ Reads(s, t, m) /\ Read(m)
    /\ Is(m, "FOLLOW") /\ m.note.data # 0
    /\ m.note.target \in known[s]
    /\ FollowAt(s, m.note.author, m.note.target)
    /\ Forward(s, t, m.note) /\ Applied(s, m.note)
    /\ UNCHANGED answered

\* The target is looked up and used without a test: NULL ends the process.
FollowUnknown(s, t, m) ==
    /\ Reads(s, t, m)
    /\ Is(m, "FOLLOW") /\ m.note.data # 0
    /\ m.note.target \notin known[s]
    /\ EndOf(s, "died")
    /\ net' = net \ Unread(s)
    /\ UNCHANGED <<walk, envVars, answered, joined>>

HandleReplication(s, t, m) ==
    \/ IgnoreOwn(s, t, m) \/ HandleNewUser(s, t, m) \/ ReadCount(s, t, m) \/ LogoutUnknown(s, t, m)
    \/ HandleAgreed(s, t, m) \/ HandleFollow(s, t, m) \/ FollowUnknown(s, t, m)

-----------------------------------------------------------------------------
(* Servers that come and go.                                                *)

\* A server starts, with an empty table, and can be connected to.  If it is not
\* the one the primary's scans find, its copy of the table goes to another.
Join(s) ==
    /\ s \in Server \ up /\ joins < MaxJoins /\ Primary \in up
    /\ joins' = joins + 1
    /\ up' = up \cup {s} /\ joined' = joined \cup {s}
    /\ LET nearer == {r \in up \ {Primary} : (Primary - r) % N < (Primary - s) % N}
       IN  Spoil("missed", nearer # {})
    /\ UNCHANGED <<tableVars, nextIndex, th, net, walk, feSessions, events, kills, answered, newest>>

\* handle_connection_keepalive at the primary: the new server's first one.
Greet ==
    /\ Primary \in up /\ th[Primary]["join"] = Idle
    /\ joined \cap up # {} /\ walk = <<0, 0>>
    /\ Set(Primary, "join", [Idle EXCEPT !.pc = "walk"])
    /\ UNCHANGED <<up, tableVars, nextIndex, net, walk, envVars, histVars>>

\* send_initial_replication, over the table as it is when the loop gets there:
\* for each user a LOGIN and its followers.
Walking == th[Primary]["join"].pc = "walk"

\* Place <<u, i>> of the table is u's LOGIN for i = 0, and then its followers.
Ahead == {p \in known[Primary] \X (0 .. MaxEvents) :
            /\ p[2] <= Len(followers[Primary][p[1]])
            /\ p[1] > walk[1] \/ (p[1] = walk[1] /\ p[2] > walk[2])}

InitialNote(p) ==
    IF p[2] = 0 THEN Notification("LOGIN", p[1], Nobody, 2, 0)
    ELSE Notification("FOLLOW", followers[Primary][p[1]][p[2]], p[1], 2, 0)

\* Fault: the table is left after the first follower of a user.
WalkSendLess ==
    /\ Walking
    /\ \E p \in Ahead :
        /\ \A q \in Ahead : p[1] < q[1] \/ (p[1] = q[1] /\ p[2] <= q[2])
        /\ walk' = IF p[2] = 1 THEN <<Users + 1, 0>> ELSE p
        /\ Begin(Primary, "join", InitialNote(p))
    /\ spoiled' = spoiled \cup Met(Primary)
    /\ UNCHANGED <<up, tableVars, net, envVars, answered, joined, newest>>

WalkSend ==
    /\ Walking
    /\ \E p \in Ahead :
        /\ \A q \in Ahead : p[1] < q[1] \/ (p[1] = q[1] /\ p[2] <= q[2])
        /\ walk' = p
        /\ Begin(Primary, "join", InitialNote(p))
    /\ spoiled' = spoiled \cup Met(Primary)
    /\ UNCHANGED <<up, tableVars, net, envVars, answered, joined, newest>>

WalkEnd ==
    /\ Walking /\ Ahead = {}
    /\ walk' = <<Users + 1, 0>>
    /\ Set(Primary, "join", Idle)
    /\ UNCHANGED <<up, tableVars, nextIndex, net, envVars, histVars>>

SendInitialReplication == Primary \in up /\ (WalkSend \/ WalkEnd)

\* A notification is written whole or not at all.  A connection on which nothing
\* was written is read as end of file and counts for nothing here.
Kill(s) ==
    /\ s \in up \ {Primary} /\ kills < MaxKills
    /\ kills' = kills + 1
    /\ EndOf(s, "killed")
    /\ net' = net \ Unread(s)
    /\ UNCHANGED <<walk, feSessions, events, joins, answered, joined>>

-----------------------------------------------------------------------------
FrontEnd == \E u \in User : Login(u) \/ Logout(u) \/ \E v \in User : Follow(u, v)

Reading(s) == \E t \in Pool, m \in net : HandleReplication(s, t, m)

Next ==
    /\ spoiled \cap Ending = {}
    /\ joined # {} => spoiled \cap EndingJoined = {}
    /\ \/ FrontEnd
       \/ \E s \in Server : Reading(s)
                            \/ \E t \in Thread : SendReplication(s, t) \/ WriteCount(s, t)
       \/ Greet \/ SendInitialReplication
       \/ \E s \in Server : Join(s) \/ Kill(s)

Spec == Init /\ [][Next]_vars

-----------------------------------------------------------------------------
Notes == [command : Command \cup {"none"}, author : 0 .. Users, target : 0 .. Users,
          data : 0 .. 2, id : 0 .. MaxEvents]

State == [pc : {"idle", "advance", "write", "walk", "count"},
          note : Notes, conn : 0 .. Gone, count : Int]

TypeOK ==
    /\ up \subseteq Server
    /\ known \in [Server -> SUBSET User]
    /\ sessions \in [Server -> [User -> Int]]
    /\ followers \in [Server -> [User -> Seq(User)]]
    /\ nextIndex \in [Server -> Server]
    /\ th \in [Server -> [Thread -> State]]
    /\ net \subseteq [to : up, note : Notes]
    /\ walk \in (0 .. Users + 1) \X Nat
    /\ feSessions \in [User -> 0 .. MaxSessions]
    /\ events \in 0 .. MaxEvents /\ joins \in 0 .. MaxJoins /\ kills \in 0 .. MaxKills
    /\ answered \subseteq Notes /\ joined \subseteq Server
    /\ newest \in [Server -> 0 .. MaxEvents]
    /\ spoiled \subseteq {"raced", "overtaken", "missed", "died", "killed"}

\* Nothing is on its way.
Quiet ==
    /\ net = {}
    /\ \A s \in up, t \in Thread : th[s][t] = Idle
    /\ joined # {} => walk[1] > Users

(***************************************************************************)
(* When nothing is on its way every server has the primary's table: the    *)
(* users, how often they are logged in and their followers in order,       *)
(* unless two scans or two counts of one process met, one notification     *)
(* overtook another, or a server came or went.  Each of these makes the    *)
(* copies differ, and the code does not notice (send_replication,          *)
(* handle_replication).                                                    *)
(***************************************************************************)
CopiesAgree ==
    Quiet /\ spoiled = {} /\ joined = {} =>
        \A s \in up : /\ known[s] = known[Primary]
                      /\ sessions[s] = sessions[Primary]
                      /\ followers[s] = followers[Primary]

(***************************************************************************)
(* A server that joins where the primary's scans find it has every user    *)
(* and every follower when nothing is on its way, although the front end   *)
(* goes on logging users in and following while the table is sent, and     *)
(* whoever was stopped before (send_initial_replication).  How often a     *)
(* user is logged in it may count wrong.                                   *)
(***************************************************************************)
JoinerCatchesUp ==
    Quiet /\ Primary \in up /\ spoiled \cap {"raced", "missed", "died"} = {} =>
        \A s \in joined \cap up :
            /\ known[s] = known[Primary]
            /\ \A u \in User : Range(followers[s][u]) = Range(followers[Primary][u])

(***************************************************************************)
(* "Sending for agreement and response will go after every replication"    *)
(* (server.c:269): when a FOLLOW is answered, every server that was there  *)
(* all along has the new follower, whoever died meanwhile.                 *)
(***************************************************************************)
AnsweredMeansReplicated ==
    "raced" \notin spoiled =>
        \A n \in answered : \A s \in up \ joined : Contains(followers[s][n.target], n.author)

(***************************************************************************)
(* Every accepted FOLLOW gets all the way around the ring, is recognised   *)
(* when it is back and answered: none is left unanswered when nothing is   *)
(* on its way, unless scans met or a server that may have held it ended.   *)
(***************************************************************************)
FollowAnswered ==
    Quiet /\ spoiled \cap {"raced", "died", "killed"} = {} =>
        \A v \in User : \A u \in Range(followers[Primary][v]) :
            \E n \in answered : n.author = u /\ n.target = v

(***************************************************************************)
(* A FOLLOW on its way around meets a server that knows its target, or one *)
(* that the LOGIN of the target is still to reach: only by being overtaken *)
(* can the pointer that is used without a test be NULL (server.c:533).     *)
(***************************************************************************)
TargetOnItsWay ==
    spoiled \cap {"raced", "died", "killed"} = {} /\ joined = {} =>
        \A m \in net : Is(m, "FOLLOW") /\ m.note.target \notin known[m.to] =>
            LET late == {n.note : n \in net} \cup {th[s][t].note : s \in up, t \in Thread}
            IN  \E n \in late : n.command = "LOGIN" /\ n.author = m.note.target /\ n.id < m.note.id

(***************************************************************************)
(* "Primary received back replication LOGIN. Ignoring..." (server.c:496):  *)
(* no follower ends because of what it is sent.                            *)
(***************************************************************************)
ReplicasSurvive == \A s \in FirstUp : s \in up \/ "killed" \in spoiled

=============================================================================
