--------------------------- MODULE FrontEndProofs ---------------------------
(***************************************************************************)
(* What TLAPS proves of FrontEnd, for any number of connections, users,    *)
(* sessions per user, messages and deaths of primaries: the types, the     *)
(* table of sessions, and the order of what is pushed to the clients and   *)
(* of what the primaries receive.                                          *)
(***************************************************************************)
EXTENDS FrontEnd, FiniteSetTheorems, SequenceTheorems, TLAPS

-----------------------------------------------------------------------------
(***************************************************************************)
(* Why: between hash_find and the insertion, MUTEX_LOGIN keeps what found  *)
(* says true, and a user that is not in the table has no session.          *)
(***************************************************************************)
LoginInv ==
    /\ \A c \in Client : thread[c] # "none" => name[c] \in User
    /\ \A c \in Client : thread[c] = "insert" =>
        loginLock = c /\ found[c] = (name[c] \in known)
    /\ \A u \in User : u \notin known => Occupied(u) = {}
    /\ \A c \in Client : client[c] = "out" => thread[c] = "none"

(***************************************************************************)
(* Why: the inductive invariants.  What every thread has when it is about  *)
(* to use it.                                                              *)
(***************************************************************************)
\* The listener holds a link, a message that it passes on.
Listening == listener.pc \in {"read", "pick", "write"}
Passing   == listener.pc \in {"pick", "write"}

HandInv ==
    /\ \A c \in Client : taken[c] <= wrote[c] /\ (thread[c] = "enqueue" => taken[c] < wrote[c])
    /\ sending => queue # <<>>
    /\ connected \/ keeper = "found" => cur # 0
    /\ Listening => listener.fd \in 1 .. cur
    /\ Passing => listener.to \in User
    /\ listener.pc = "write" => listener.sock \in Client

(***************************************************************************)
(* Who has been admitted, and not only answered that he is not, is in the  *)
(* table, and nobody else has anything in the queue or with the primaries. *)
(***************************************************************************)
Admitted(c) == thread[c] \notin {"none", "login", "insert"}

Inside(c)   == Seated(c) \/ thread[c] = "logout"

KnownInv ==
    /\ \A c \in Client : Inside(c) => name[c] \in known
    /\ \A c \in Client : served[c] # <<>> => Admitted(c) /\ name[c] \in known
    /\ \A i \in DOMAIN queue : Admitted(queue[i][1]) /\ name[queue[i][1]] \in known

\* What the listener can still read is for one of them, or for a user that an
\* earlier front end announced.
PushKnown ==
    /\ \A l \in Link : \A i \in DOMAIN inbox[l] : inbox[l][i].to \in known \cup Earlier
    /\ PushFindsUser

(***************************************************************************)
(* The identifiers of the pushed messages grow along a link, from a link   *)
(* to the next, and from what the clients got, over what is being passed   *)
(* on, to what the listener can still read.                                *)
(***************************************************************************)
Floor == IF Listening THEN listener.fd ELSE cur

InboxInv ==
    \A l \in Link : \A i \in DOMAIN inbox[l] :
        /\ inbox[l][i].id <= pushes /\ l <= cur
        /\ \A k \in Link : \A j \in DOMAIN inbox[k] :
              k < l \/ (k = l /\ j < i) => inbox[k][j].id < inbox[l][i].id
        /\ l >= Floor => \A c \in Client : \A j \in DOMAIN got[c] : got[c][j] < inbox[l][i].id
        /\ Passing /\ l >= listener.fd => listener.msg < inbox[l][i].id

GotInv ==
    /\ Passing => listener.msg <= pushes
    /\ \A c \in Client :
        /\ got[c] # <<>> => Admitted(c)
        /\ \A i \in DOMAIN got[c] :
            /\ got[c][i] <= pushes
            /\ \A j \in DOMAIN got[c] : i < j => got[c][i] < got[c][j]
            /\ Passing => got[c][i] <= listener.msg

\* Whoever has the message that is being passed on is not met again.
Had(c)     == \E i \in DOMAIN got[c] : got[c][i] = listener.msg
Ahead(c, i) == \E j \in Spot : j >= i /\ spots[listener.to][j] = c

PassInv ==
    /\ listener.pc = "pick" =>
        \A c \in Client : Had(c) => ~Ahead(c, listener.spot)
    /\ listener.pc = "write" =>
        /\ Admitted(listener.sock) /\ name[listener.sock] = listener.to
        /\ ~Had(listener.sock) /\ ~Ahead(listener.sock, listener.spot + 1)
        /\ \A c \in Client : Had(c) => ~Ahead(c, listener.spot + 1)

PushInv == InboxInv /\ GotInv /\ PassInv

(***************************************************************************)
(* The numbers of the messages of a connection grow from what the          *)
(* primaries received to the end of the queue; as long as no primary has   *)
(* died, nothing is missing.                                               *)
(***************************************************************************)
Queued(c) == {i \in DOMAIN queue : queue[i][1] = c}
Left(c)   == {queue[i][2] : i \in Queued(c)}

OrderInv ==
    \A c \in Client :
        /\ \A i, j \in Sent(c) : i < j => served[c][i][2] < served[c][j][2]
        /\ \A i, j \in Queued(c) : i < j => queue[i][2] < queue[j][2]
        /\ \A m \in Numbers(c) : \A n \in Left(c) : m < n
        /\ \A m \in Numbers(c) \cup Left(c) : m <= taken[c]

NoGapInv ==
    /\ \A l \in Link : link[l] \in {"new", "up"}
    /\ cur # 0 => link[cur] = "up"
    /\ \A c \in Client :
        /\ \E n \in 0 .. taken[c] : Numbers(c) = 1 .. n /\ Left(c) = n + 1 .. taken[c]
        /\ served[c] # <<>> => served[c][1][1] = "LOGIN"
        /\ thread[c] \in {"read", "enqueue", "leave", "logout"} \/ Queued(c) # {} => served[c] # <<>>

QueueInv == OrderInv /\ (deaths = 0 => NoGapInv)

-----------------------------------------------------------------------------
\* The thread keep_server_connection, with its search.
Keeping == Keeper \/ ConnectToLeader

\* The part of the type invariant that the table of sessions rests on.
Places == {"none", "login", "insert", "ack", "nack", "announce",
           "read", "enqueue", "leave", "logout", "done", "stranded"}

TableType ==
    /\ spots \in [User -> [Spot -> Client \cup {None}]]
    /\ sessions \in [User -> Int]
    /\ client \in [Client -> {"out", "open", "closed", "reset", "broken"}]
    /\ name \in [Client -> User \cup {None}]
    /\ thread \in [Client -> Places]
    /\ found \in [Client -> BOOLEAN]

SessionInv == TableType /\ LoginInv /\ SessionTable

-----------------------------------------------------------------------------
\* The spots of a user are finitely many, so their number can be counted.
LEMMA SpotsFinite ==
    ASSUME NEW S \in SUBSET Spot
    PROVE  IsFiniteSet(S) /\ Cardinality(S) \in Nat
<1>1. IsFiniteSet(Spot)
    BY FS_Interval, FrontEndAssumption DEF Spot
<1>2. IsFiniteSet(S)
    BY <1>1, FS_Subset
<1> QED
    BY <1>2, FS_CardinalityType

\* One spot more, or one spot less.
LEMMA OneMore ==
    ASSUME NEW S \in SUBSET Spot, NEW i \in Spot \ S
    PROVE  Cardinality(S \cup {i}) = Cardinality(S) + 1
    BY SpotsFinite, FS_AddElement

LEMMA OneLess ==
    ASSUME NEW S \in SUBSET Spot, NEW i \in S
    PROVE  Cardinality(S \ {i}) = Cardinality(S) - 1
    BY SpotsFinite, FS_RemoveElement

-----------------------------------------------------------------------------
LEMMA SessionInit == Init => SessionInv
<1> SUFFICES ASSUME Init PROVE SessionInv
    OBVIOUS
<1>1. TableType
    BY DEF Init, TableType, Places
<1>2. \A u \in User : Occupied(u) = {}
    BY DEF Init, Occupied
<1>3. LoginInv
    BY <1>2 DEF Init, LoginInv
<1>4. CountMatches
    BY <1>2, FS_EmptySet DEF Init, CountMatches
<1>5. EveryoneSits
    BY DEF Init, EveryoneSits, Seated
<1>6. NobodyElse
    BY DEF Init, NobodyElse
<1> QED
    BY <1>1, <1>3, <1>4, <1>5, <1>6 DEF SessionInv, SessionTable

\* A step that leaves the table alone and lets every thread stay in its
\* session, or out of it, keeps the invariant.
LEMMA TableStays ==
    ASSUME SessionInv, TableType', UNCHANGED <<known, spots, sessions>>,
           \A c \in Client : Seated(c)' = Seated(c),
           \A c \in Client : Seated(c) => name'[c] = name[c]
    PROVE  SessionTable' /\ (\A u \in User : u \notin known' => Occupied(u)' = {})
<1>1. \A u \in User : Occupied(u)' = Occupied(u)
    BY DEF Occupied
<1>2. CountMatches'
    BY <1>1 DEF SessionInv, SessionTable, CountMatches
<1>3. EveryoneSits'
    BY DEF SessionInv, SessionTable, EveryoneSits
<1>4. NobodyElse'
  <2> SUFFICES ASSUME NEW u \in User, NEW i \in Spot, NEW j \in Spot, spots[u][i] # None
               PROVE  /\ Seated(spots[u][i])' /\ name'[spots[u][i]] = u
                      /\ spots[u][i] = spots[u][j] => i = j
    BY DEF NobodyElse
  <2>1. spots[u][i] \in Client
    BY DEF SessionInv, TableType
  <2>2. Seated(spots[u][i]) /\ name[spots[u][i]] = u /\ (spots[u][i] = spots[u][j] => i = j)
    BY DEF SessionInv, SessionTable, NobodyElse
  <2> QED
    BY <2>1, <2>2
<1> QED
    BY <1>1, <1>2, <1>3, <1>4 DEF SessionInv, LoginInv, SessionTable

\* A thread moves from place to place outside the login and the leave.
LEMMA ThreadMoves ==
    ASSUME SessionInv, NEW c \in Client, NEW l \in Places,
           thread[c] # "none", l # "none", l # "insert", thread[c] # "insert",
           Seated(c) <=> l \in {"ack", "announce", "read", "enqueue", "leave", "stranded"},
           thread' = [thread EXCEPT ![c] = l],
           client' \in [Client -> {"out", "open", "closed", "reset", "broken"}],
           \A d \in Client : client'[d] = "out" => client[d] = "out",
           UNCHANGED <<known, spots, sessions, name, found, loginLock>>
    PROVE  SessionInv'
<1>1. TableType'
    BY DEF SessionInv, TableType
<1>2. \A d \in Client : Seated(d)' = Seated(d)
    BY DEF Seated, SessionInv, TableType
<1>3. SessionTable' /\ (\A u \in User : u \notin known' => Occupied(u)' = {})
    BY <1>1, <1>2, TableStays
<1>4. LoginInv'
    BY <1>3 DEF LoginInv, SessionInv, TableType
<1> QED
    BY <1>1, <1>3, <1>4 DEF SessionInv

\* A step that touches neither the table nor the threads.
LEMMA ThreadsStay ==
    ASSUME SessionInv,
           client' \in [Client -> {"out", "open", "closed", "reset", "broken"}],
           \A d \in Client : client'[d] = "out" => client[d] = "out",
           UNCHANGED <<known, spots, sessions, name, found, loginLock, thread>>
    PROVE  SessionInv'
<1>1. TableType'
    BY DEF SessionInv, TableType
<1>2. \A d \in Client : Seated(d)' = Seated(d)
    BY DEF Seated
<1>3. SessionTable' /\ (\A u \in User : u \notin known' => Occupied(u)' = {})
    BY <1>1, <1>2, TableStays
<1>4. LoginInv'
    BY <1>3 DEF LoginInv, SessionInv
<1> QED
    BY <1>1, <1>3, <1>4 DEF SessionInv

-----------------------------------------------------------------------------
\* Logging in: MUTEX_LOGIN is free, so no other thread is at "insert".
LEMMA ConnectKeeps ==
    ASSUME SessionInv, NEW c \in Client, NEW u \in User, Connect(c, u)
    PROVE  SessionInv'
<1>1. client[c] = "out" /\ thread[c] = "none"
    BY DEF Connect, SessionInv, LoginInv
<1>2. TableType'
    BY DEF Connect, tableVars, SessionInv, TableType, Places
<1>3. \A d \in Client : Seated(d)' = Seated(d)
    BY <1>1 DEF Connect, Seated, SessionInv, TableType
<1>4. \A d \in Client : Seated(d) => name'[d] = name[d]
    BY <1>1 DEF Connect, Seated, SessionInv, TableType
<1>5. UNCHANGED <<known, spots, sessions>>
    BY DEF Connect, tableVars
<1>6. SessionTable' /\ (\A v \in User : v \notin known' => Occupied(v)' = {})
    BY <1>2, <1>3, <1>4, <1>5, TableStays
<1>7. LoginInv'
    BY <1>1, <1>6 DEF Connect, tableVars, LoginInv, SessionInv, TableType
<1> QED
    BY <1>2, <1>6, <1>7 DEF SessionInv

LEMMA FindUserKeeps ==
    ASSUME SessionInv, NEW c \in Client, FindUser(c)
    PROVE  SessionInv'
<1>1. TableType'
    BY DEF FindUser, Goto, tableVars, SessionInv, TableType, Places
<1>2. \A d \in Client : Seated(d)' = Seated(d)
    BY DEF FindUser, Goto, Seated, SessionInv, TableType
<1>3. UNCHANGED <<known, spots, sessions, name, client>>
    BY DEF FindUser, tableVars
<1>4. SessionTable' /\ (\A v \in User : v \notin known' => Occupied(v)' = {})
    BY <1>1, <1>2, <1>3, TableStays
<1>5. \A d \in Client : thread'[d] = "insert" => d = c
  <2> SUFFICES ASSUME NEW d \in Client, thread'[d] = "insert", d # c PROVE FALSE
    OBVIOUS
  <2>1. thread[d] = "insert"
    BY DEF FindUser, Goto, SessionInv, TableType
  <2>2. loginLock = d /\ loginLock = None
    BY <2>1 DEF FindUser, SessionInv, LoginInv
  <2> QED
    BY <2>2, FrontEndAssumption
<1>6. LoginInv'
  <2>1. \A d \in Client : thread'[d] # "none" => name'[d] \in User
    BY <1>3 DEF FindUser, Goto, SessionInv, TableType, LoginInv
  <2>2. \A d \in Client : thread'[d] = "insert" =>
          loginLock' = d /\ found'[d] = (name'[d] \in known')
    BY <1>3, <1>5 DEF FindUser, SessionInv, TableType
  <2>3. \A d \in Client : client'[d] = "out" => thread'[d] = "none"
    BY <1>3 DEF FindUser, Goto, SessionInv, TableType, LoginInv
  <2> QED
    BY <1>4, <2>1, <2>2, <2>3 DEF LoginInv
<1> QED
    BY <1>1, <1>4, <1>6 DEF SessionInv

\* LoginUser, whatever it does to the table: the thread leaves the login.
LEMMA LoginDone ==
    ASSUME SessionInv, NEW c \in Client, thread[c] = "insert",
           NEW l \in {"ack", "nack"}, thread' = [thread EXCEPT ![c] = l],
           known' \in {known, known \cup {name[c]}},
           UNCHANGED <<client, name, found>>
    PROVE  /\ \A d \in Client : d # c => Seated(d)' = Seated(d)
           /\ Seated(c)' = (l = "ack")
           /\ ~Seated(c)
           /\ \A d \in Client : thread'[d] # "none" => name'[d] \in User
           /\ \A d \in Client : thread'[d] # "insert"
           /\ \A d \in Client : client'[d] = "out" => thread'[d] = "none"
<1>1. \A d \in Client : thread[d] = "insert" => d = c
    BY DEF SessionInv, LoginInv
<1>2. \A d \in Client : thread'[d] = IF d = c THEN l ELSE thread[d]
    BY DEF SessionInv, TableType
<1>3. \A d \in Client : d # c => Seated(d)' = Seated(d)
    BY <1>2 DEF Seated
<1>4. Seated(c)' = (l = "ack") /\ ~Seated(c)
    BY <1>2 DEF Seated
<1>5. \A d \in Client : thread'[d] # "none" => name'[d] \in User
    BY <1>2 DEF SessionInv, LoginInv
<1>6. \A d \in Client : thread'[d] # "insert"
    BY <1>1, <1>2
<1>7. \A d \in Client : client'[d] = "out" => thread'[d] = "none"
    BY <1>2 DEF SessionInv, LoginInv
<1> QED
    BY <1>3, <1>4, <1>5, <1>6, <1>7

LEMMA RefuseKeeps ==
    ASSUME SessionInv, NEW c \in Client, LoginUser(c), Refuse(c)
    PROVE  SessionInv'
<1>1. /\ thread[c] = "insert" /\ thread' = [thread EXCEPT ![c] = "nack"]
      /\ UNCHANGED <<known, spots, sessions, client, name, found>>
    BY DEF LoginUser, Refuse, Goto, tableVars
<1>2. TableType'
    BY <1>1 DEF SessionInv, TableType, Places
<1>3. /\ \A d \in Client : d # c => Seated(d)' = Seated(d)
      /\ Seated(c)' = FALSE /\ ~Seated(c)
      /\ \A d \in Client : thread'[d] # "none" => name'[d] \in User
      /\ \A d \in Client : thread'[d] # "insert"
      /\ \A d \in Client : client'[d] = "out" => thread'[d] = "none"
  <2>1. PICK l \in {"ack", "nack"} : l = "nack"
    OBVIOUS
  <2> QED
    BY <1>1, <2>1, LoginDone
<1>4. ASSUME NEW d \in Client PROVE Seated(d)' = Seated(d)
  <2>1. CASE d = c
    BY <1>3, <2>1 DEF Seated
  <2>2. CASE d # c
    BY <1>3, <2>2
  <2> QED
    BY <2>1, <2>2
<1>5. SessionTable' /\ (\A u \in User : u \notin known' => Occupied(u)' = {})
    BY <1>1, <1>2, <1>4, TableStays
<1> QED
    BY <1>2, <1>3, <1>5 DEF SessionInv, LoginInv

\* A connection takes a free spot of its user: the count grows by one, and
\* everyone else sits where he sat.
LEMMA SpotTaken ==
    ASSUME SessionInv, NEW c \in Client, LoginUser(c),
           NEW u \in User, u = name[c], NEW i \in Spot, spots[u][i] = None,
           spots' = [spots EXCEPT ![u][i] = c],
           sessions' = [sessions EXCEPT ![u] = @ + 1],
           thread[c] = "insert", thread' = [thread EXCEPT ![c] = "ack"],
           known' \in {known, known \cup {u}}, u \in known',
           UNCHANGED <<client, name, found>>
    PROVE  SessionInv'
<1>1. TableType'
    BY DEF SessionInv, TableType, Places
<1>2. /\ \A d \in Client : d # c => Seated(d)' = Seated(d)
      /\ Seated(c)' /\ ~Seated(c)
      /\ \A d \in Client : thread'[d] # "none" => name'[d] \in User
      /\ \A d \in Client : thread'[d] # "insert"
      /\ \A d \in Client : client'[d] = "out" => thread'[d] = "none"
    BY LoginDone
<1>3. \A v \in User, j \in Spot :
        spots'[v][j] = IF v = u /\ j = i THEN c ELSE spots[v][j]
    BY DEF SessionInv, TableType
<1>4. c # None
    BY FrontEndAssumption
<1>5. Occupied(u)' = Occupied(u) \cup {i} /\ i \notin Occupied(u)
    BY <1>3, <1>4 DEF Occupied
<1>6. \A v \in User : v # u => Occupied(v)' = Occupied(v)
    BY <1>3 DEF Occupied
<1>7. CountMatches'
  <2>1. Cardinality(Occupied(u)') = Cardinality(Occupied(u)) + 1
    BY <1>5, OneMore DEF Occupied
  <2>2. sessions'[u] = sessions[u] + 1 /\ \A v \in User : v # u => sessions'[v] = sessions[v]
    BY DEF SessionInv, TableType
  <2>3. \A v \in User : sessions[v] = Cardinality(Occupied(v))
    BY DEF SessionInv, SessionTable, CountMatches
  <2>4. sessions'[u] = Cardinality(Occupied(u)')
    BY <2>1, <2>2, <2>3
  <2>5. \A v \in User : v # u => sessions'[v] = Cardinality(Occupied(v)')
    BY <2>2, <2>3, <1>6
  <2> QED
    BY <2>4, <2>5 DEF CountMatches
<1>8. EveryoneSits'
  <2> SUFFICES ASSUME NEW d \in Client, Seated(d)'
               PROVE  \E j \in Spot : spots'[name[d]][j] = d
    BY DEF EveryoneSits
  <2>1. CASE d = c
    BY <1>3, <2>1
  <2>2. CASE d # c
    <3>1. Seated(d)
      BY <1>2, <2>2
    <3>2. name[d] \in User
      BY <3>1 DEF Seated, SessionInv, LoginInv
    <3>3. PICK j \in Spot : spots[name[d]][j] = d
      BY <3>1 DEF SessionInv, SessionTable, EveryoneSits
    <3>4. ~(name[d] = u /\ j = i)
      BY <3>3, FrontEndAssumption
    <3> QED
      BY <1>3, <3>2, <3>3, <3>4
  <2> QED
    BY <2>1, <2>2
<1>9. NobodyElse'
  <2>1. \A v \in User, j \in Spot : spots[v][j] # None =>
          spots[v][j] \in Client /\ spots[v][j] # c
    BY <1>2 DEF SessionInv, TableType, SessionTable, NobodyElse
  <2> SUFFICES ASSUME NEW v \in User, NEW j \in Spot, NEW k \in Spot, spots'[v][j] # None
               PROVE  /\ Seated(spots[v][j])' /\ name[spots'[v][j]] = v
                      /\ spots'[v][j] = spots'[v][k] => j = k
    BY DEF NobodyElse
  <2>2. CASE v = u /\ j = i
    <3>1. spots'[v][j] = c /\ Seated(c)' /\ name[c] = v
      BY <1>2, <1>3, <2>2
    <3>2. k # i => spots'[v][k] # c
      BY <1>3, <1>4, <2>1
    <3> QED
      BY <2>2, <3>1, <3>2 DEF Seated
  <2>3. CASE ~(v = u /\ j = i)
    <3>1. spots'[v][j] = spots[v][j] /\ spots[v][j] # None
      BY <1>3, <2>3
    <3>2. spots[v][j] \in Client /\ spots[v][j] # c
      BY <2>1, <3>1
    <3>3. /\ Seated(spots[v][j]) /\ name[spots[v][j]] = v
          /\ spots[v][j] = spots[v][k] => j = k
      BY <3>1 DEF SessionInv, SessionTable, NobodyElse
    <3>4. \A d \in Client : d = spots[v][j] => Seated(d)'
      BY <1>2, <3>2, <3>3
    <3>5. spots'[v][j] = spots'[v][k] => j = k
      BY <1>3, <3>1, <3>2, <3>3
    <3> QED
      BY <3>1, <3>2, <3>3, <3>4, <3>5 DEF Seated
  <2> QED
    BY <2>2, <2>3
<1>10. \A v \in User : v \notin known' => Occupied(v)' = {}
    BY <1>6 DEF SessionInv, LoginInv
<1> QED
    BY <1>1, <1>2, <1>7, <1>8, <1>9, <1>10 DEF SessionInv, LoginInv, SessionTable

LEMMA NewUserKeeps ==
    ASSUME SessionInv, NEW c \in Client, LoginUser(c), NewUser(c)
    PROVE  SessionInv'
<1> DEFINE u == name[c]
<1>1. /\ thread[c] = "insert" /\ thread' = [thread EXCEPT ![c] = "ack"]
      /\ UNCHANGED <<client, name, found>> /\ known' = known \cup {u} /\ ~found[c]
    BY DEF LoginUser, NewUser, Goto
<1>2. u \in User /\ u \notin known
    BY <1>1 DEF SessionInv, LoginInv
<1>3. Occupied(u) = {}
    BY <1>2 DEF SessionInv, LoginInv
<1>4. \A j \in Spot : spots[u][j] = None
    BY <1>3 DEF Occupied
<1>5. 0 \in Spot
    BY FrontEndAssumption DEF Spot
<1>6. spots' = [spots EXCEPT ![u][0] = c]
  <2>1. spots[u] \in [Spot -> Client \cup {None}]
    BY <1>2 DEF SessionInv, TableType
  <2>2. [spots[u] EXCEPT ![0] = c] = [i \in Spot |-> IF i = 0 THEN c ELSE None]
    BY <1>4, <2>1
  <2>3. spots' = [spots EXCEPT ![u] = [i \in Spot |-> IF i = 0 THEN c ELSE None]]
    BY DEF NewUser
  <2> QED
    BY <2>2, <2>3
<1>7. sessions' = [sessions EXCEPT ![u] = @ + 1]
  <2>1. sessions[u] = 0
    BY <1>2, <1>3, FS_EmptySet DEF SessionInv, SessionTable, CountMatches
  <2> QED
    BY <2>1 DEF NewUser
<1> HIDE DEF u
<1> QED
    BY <1>1, <1>2, <1>4, <1>5, <1>6, <1>7, SpotTaken DEF u

LEMMA NewSessionKeeps ==
    ASSUME SessionInv, NEW c \in Client, LoginUser(c), NewSession(c)
    PROVE  SessionInv'
<1> DEFINE u == name[c]
<1>1. /\ thread[c] = "insert" /\ thread' = [thread EXCEPT ![c] = "ack"]
      /\ UNCHANGED <<client, name, found, known>> /\ found[c]
    BY DEF LoginUser, NewSession, Goto
<1>2. u \in User /\ u \in known
    BY <1>1 DEF SessionInv, LoginInv
<1>3. PICK i \in FreeSpots(u) : spots' = [spots EXCEPT ![u][i] = c]
    BY DEF NewSession
<1>4. i \in Spot /\ spots[u][i] = None
    BY DEF FreeSpots
<1>5. sessions' = [sessions EXCEPT ![u] = @ + 1]
    BY DEF NewSession
<1> HIDE DEF u
<1> QED
    BY <1>1, <1>2, <1>3, <1>4, <1>5, SpotTaken DEF u

LEMMA LoginUserKeeps ==
    ASSUME SessionInv, NEW c \in Client, LoginUser(c)
    PROVE  SessionInv'
    BY NewUserKeeps, NewSessionKeeps, RefuseKeeps DEF LoginUser

-----------------------------------------------------------------------------
\* The end of a connection: exactly one spot is given back.
LEMMA LeaveKeeps ==
    ASSUME SessionInv, NEW c \in Client, Leave(c)
    PROVE  SessionInv'
<1>0. thread[c] = "leave"
    BY DEF Leave
<1>2. PICK u \in User : u = name[c]
    BY <1>0 DEF SessionInv, LoginInv
<1>1. /\ thread[c] = "leave" /\ thread' = [thread EXCEPT ![c] = "logout"]
      /\ UNCHANGED <<client, name, found, known, loginLock>>
      /\ sessions' = [sessions EXCEPT ![u] = @ - 1]
      /\ spots' = [spots EXCEPT ![u] = [k \in Spot |-> IF @[k] = c THEN None ELSE @[k]]]
    BY <1>2 DEF Leave, Goto
<1>3. Seated(c)
    BY <1>1 DEF Seated
<1>4. PICK i \in Spot : spots[u][i] = c
    BY <1>2, <1>3 DEF SessionInv, SessionTable, EveryoneSits
<1>5. c # None
    BY FrontEndAssumption
<1>6. \A v \in User, j \in Spot : spots[v][j] = c => v = u /\ j = i
  <2> SUFFICES ASSUME NEW v \in User, NEW j \in Spot, spots[v][j] = c
               PROVE  v = u /\ j = i
    OBVIOUS
  <2>1. v = u
    BY <1>2, <1>5 DEF SessionInv, SessionTable, NobodyElse
  <2>2. spots[u][j] = spots[u][i] /\ spots[u][j] # None
    BY <1>4, <1>5, <2>1
  <2> QED
    BY <1>2, <2>1, <2>2 DEF SessionInv, SessionTable, NobodyElse
<1>7. \A v \in User, j \in Spot :
        spots'[v][j] = IF v = u /\ j = i THEN None ELSE spots[v][j]
    BY <1>1, <1>2, <1>4, <1>6 DEF SessionInv, TableType
<1>8. TableType'
    BY <1>1, <1>2 DEF SessionInv, TableType, Places
<1>9. Occupied(u)' = Occupied(u) \ {i} /\ i \in Occupied(u)
    BY <1>2, <1>4, <1>5, <1>7 DEF Occupied
<1>10. \A v \in User : v # u => Occupied(v)' = Occupied(v)
    BY <1>7 DEF Occupied
<1>11. \A d \in Client : thread'[d] = IF d = c THEN "logout" ELSE thread[d]
    BY <1>1 DEF SessionInv, TableType
<1>12. \A d \in Client : d # c => (Seated(d)' <=> Seated(d))
    BY <1>11 DEF Seated
<1>13. ~Seated(c)'
    BY <1>11 DEF Seated
<1>14. CountMatches'
  <2>1. Cardinality(Occupied(u)') = Cardinality(Occupied(u)) - 1
    BY <1>9, OneLess DEF Occupied
  <2>2. sessions'[u] = sessions[u] - 1 /\ \A v \in User : v # u => sessions'[v] = sessions[v]
    BY <1>1, <1>2 DEF SessionInv, TableType
  <2>3. \A v \in User : sessions[v] = Cardinality(Occupied(v))
    BY DEF SessionInv, SessionTable, CountMatches
  <2>4. sessions'[u] = Cardinality(Occupied(u)')
    BY <1>2, <2>1, <2>2, <2>3
  <2>5. \A v \in User : v # u => sessions'[v] = Cardinality(Occupied(v)')
    BY <2>2, <2>3, <1>10
  <2> QED
    BY <2>4, <2>5 DEF CountMatches
<1>15. EveryoneSits'
  <2> SUFFICES ASSUME NEW d \in Client, Seated(d)'
               PROVE  \E j \in Spot : spots'[name[d]][j] = d
    BY <1>1 DEF EveryoneSits
  <2>1. d # c /\ Seated(d)
    BY <1>12, <1>13
  <2>2. name[d] \in User
    BY <2>1 DEF Seated, SessionInv, LoginInv
  <2>3. PICK j \in Spot : spots[name[d]][j] = d
    BY <2>1 DEF SessionInv, SessionTable, EveryoneSits
  <2>4. ~(name[d] = u /\ j = i)
    BY <1>4, <2>1, <2>3
  <2> QED
    BY <1>7, <2>2, <2>3, <2>4
<1>16. NobodyElse'
  <2> SUFFICES ASSUME NEW v \in User, NEW j \in Spot, NEW k \in Spot, spots'[v][j] # None
               PROVE  /\ Seated(spots[v][j])' /\ name[spots'[v][j]] = v
                      /\ spots'[v][j] = spots'[v][k] => j = k
    BY <1>1 DEF NobodyElse
  <2>1. ~(v = u /\ j = i) /\ spots'[v][j] = spots[v][j] /\ spots[v][j] # None
    BY <1>7
  <2>2. spots[v][j] \in Client /\ spots[v][j] # c
    BY <1>6, <2>1 DEF SessionInv, TableType
  <2>3. /\ Seated(spots[v][j]) /\ name[spots[v][j]] = v
        /\ spots[v][j] = spots[v][k] => j = k
    BY <2>1 DEF SessionInv, SessionTable, NobodyElse
  <2>4. \A d \in Client : d = spots[v][j] => Seated(d)'
    BY <1>12, <2>2, <2>3
  <2>5. spots'[v][j] = spots'[v][k] => j = k
    BY <1>7, <2>1, <2>3
  <2> QED
    BY <2>1, <2>2, <2>3, <2>4, <2>5 DEF Seated
<1>17. LoginInv'
  <2>1. \A d \in Client : thread'[d] # "none" => name'[d] \in User
    BY <1>1, <1>11 DEF SessionInv, LoginInv
  <2>2. \A d \in Client : thread'[d] = "insert" =>
          loginLock' = d /\ found'[d] = (name'[d] \in known')
    BY <1>1, <1>11 DEF SessionInv, LoginInv
  <2>3. \A v \in User : v \notin known' => Occupied(v)' = {}
    BY <1>1, <1>9, <1>10 DEF SessionInv, LoginInv
  <2>4. \A d \in Client : client'[d] = "out" => thread'[d] = "none"
    BY <1>1, <1>11 DEF SessionInv, LoginInv
  <2> QED
    BY <2>1, <2>2, <2>3, <2>4 DEF LoginInv
<1> QED
    BY <1>8, <1>14, <1>15, <1>16, <1>17 DEF SessionInv, SessionTable

-----------------------------------------------------------------------------
\* The other steps of a client's thread only move it.
LEMMA NoLoginKeeps ==
    ASSUME SessionInv, NEW c \in Client, NoLogin(c)
    PROVE  SessionInv'
<1>1. /\ UNCHANGED <<known, spots, sessions, name, found, loginLock, client>>
      /\ thread[c] = "login" /\ thread' = [thread EXCEPT ![c] = "nack"]
    BY DEF NoLogin, Goto, tableVars
<1>2. client \in [Client -> {"out", "open", "closed", "reset", "broken"}]
    BY DEF SessionInv, TableType
<1> QED
    BY <1>1, <1>2, ThreadMoves DEF Seated, Places

LEMMA AnswerKeeps ==
    ASSUME SessionInv, NEW c \in Client, Answer(c)
    PROVE  SessionInv'
<1>1. /\ client' \in [Client -> {"out", "open", "closed", "reset", "broken"}]
      /\ \A d \in Client : client'[d] = "out" => client[d] = "out"
    BY DEF Answer, WriteClient, SessionInv, TableType
<1>2. UNCHANGED <<known, spots, sessions, name, found, loginLock>>
    BY DEF Answer, tableVars
<1>3. CASE thread[c] = "ack"
  <2>1. PICK l \in {"announce", "stranded"} : thread' = [thread EXCEPT ![c] = l]
    BY <1>3 DEF Answer, Goto
  <2> QED
    BY <1>1, <1>2, <1>3, <2>1, ThreadMoves DEF Seated, Places
<1>4. CASE thread[c] = "nack"
  <2>1. thread' = [thread EXCEPT ![c] = "done"]
    BY <1>4 DEF Answer, Goto
  <2> QED
    BY <1>1, <1>2, <1>4, <2>1, ThreadMoves DEF Seated, Places
<1> QED
    BY <1>3, <1>4 DEF Answer

LEMMA AnnounceKeeps ==
    ASSUME SessionInv, NEW c \in Client, AnnounceLogin(c) \/ AnnounceLogout(c)
    PROVE  SessionInv'
<1>1. UNCHANGED <<known, spots, sessions, name, found, loginLock, client>>
    BY DEF AnnounceLogin, AnnounceLogout, Announce, tableVars
<1>2. client \in [Client -> {"out", "open", "closed", "reset", "broken"}]
    BY DEF SessionInv, TableType
<1>3. CASE thread' = thread
    BY <1>1, <1>2, <1>3, ThreadsStay
<1>4. CASE thread[c] = "announce" /\ thread' = [thread EXCEPT ![c] = "read"]
    BY <1>1, <1>2, <1>4, ThreadMoves DEF Seated, Places
<1>5. CASE thread[c] = "logout" /\ thread' = [thread EXCEPT ![c] = "done"]
    BY <1>1, <1>2, <1>5, ThreadMoves DEF Seated, Places
<1> QED
    BY <1>3, <1>4, <1>5 DEF AnnounceLogin, AnnounceLogout, Announce, Goto

LEMMA ReadKeeps ==
    ASSUME SessionInv, NEW c \in Client, ReadClient(c) \/ Enqueue(c)
    PROVE  SessionInv'
<1>1. UNCHANGED <<known, spots, sessions, name, found, loginLock>>
    BY DEF ReadClient, Enqueue, tableVars
<1>2. /\ client' \in [Client -> {"out", "open", "closed", "reset", "broken"}]
      /\ \A d \in Client : client'[d] = "out" => client[d] = "out"
    BY DEF ReadClient, Enqueue, SessionInv, TableType
<1>6. CASE thread' = thread
    BY <1>1, <1>2, <1>6, ThreadsStay
<1>3. CASE thread[c] = "read" /\ thread' = [thread EXCEPT ![c] = "enqueue"]
    BY <1>1, <1>2, <1>3, ThreadMoves DEF Seated, Places
<1>4. CASE thread[c] = "read" /\ thread' = [thread EXCEPT ![c] = "leave"]
    BY <1>1, <1>2, <1>4, ThreadMoves DEF Seated, Places
<1>5. CASE thread[c] = "enqueue" /\ thread' = [thread EXCEPT ![c] = "read"]
    BY <1>1, <1>2, <1>5, ThreadMoves DEF Seated, Places
<1> QED
    BY <1>3, <1>4, <1>5, <1>6 DEF ReadClient, Enqueue, Goto

LEMMA ClientThreadKeeps ==
    ASSUME SessionInv, NEW c \in Client, ClientThread(c)
    PROVE  SessionInv'
    BY NoLoginKeeps, FindUserKeeps, LoginUserKeeps, AnswerKeeps, AnnounceKeeps, ReadKeeps, LeaveKeeps
       DEF ClientThread

\* What the other threads, the clients and the primary do.
LEMMA OthersKeep ==
    ASSUME SessionInv,
           \/ \E c \in Client : Write(c) \/ Close(c)
           \/ Processor \/ Keeping \/ Listener \/ PrimaryDies
           \/ \E u \in User : Push(u)
           \/ UNCHANGED vars
    PROVE  SessionInv'
<1>1. client \in [Client -> {"out", "open", "closed", "reset", "broken"}]
    BY DEF SessionInv, TableType
<1>2. CASE \E c \in Client : Write(c)
  <2>1. UNCHANGED <<known, spots, sessions, name, found, loginLock, thread, client>>
    BY <1>2 DEF Write, tableVars
  <2> QED
    BY <1>1, <2>1, ThreadsStay
<1>3. CASE \E c \in Client : Close(c)
  <2>1. UNCHANGED <<known, spots, sessions, name, found, loginLock, thread>>
    BY <1>3 DEF Close, tableVars
  <2>2. /\ client' \in [Client -> {"out", "open", "closed", "reset", "broken"}]
        /\ \A d \in Client : client'[d] = "out" => client[d] = "out"
    BY <1>1, <1>3 DEF Close
  <2> QED
    BY <2>1, <2>2, ThreadsStay
<1>4. CASE Processor
  <2>1. UNCHANGED <<known, spots, sessions, name, found, loginLock, thread, client>>
    BY <1>4 DEF Processor, TakeMessage, SendMessage, tableVars, clientVars
  <2> QED
    BY <1>1, <2>1, ThreadsStay
<1>5. CASE Keeping
  <2>1. UNCHANGED <<known, spots, sessions, name, found, loginLock, thread, client>>
    BY <1>5 DEF Keeping, Keeper, KeepLoop, ConnectToLeader, KeepSet, KeepDial, KeepBroken, KeepClear,
                tableVars, clientVars
  <2> QED
    BY <1>1, <2>1, ThreadsStay
<1>6. CASE ListenLoop \/ ListenRead \/ ListenClear \/ PickSpot
  <2>1. UNCHANGED <<known, spots, sessions, name, found, loginLock, thread, client>>
    BY <1>6 DEF ListenLoop, ListenRead, ListenClear, PickSpot, tableVars, clientVars
  <2> QED
    BY <1>1, <2>1, ThreadsStay
<1>7. CASE WriteSpot
  <2>1. UNCHANGED <<known, spots, sessions, name, found, loginLock, thread>>
    BY <1>7 DEF WriteSpot, tableVars
  <2>2. /\ client' \in [Client -> {"out", "open", "closed", "reset", "broken"}]
        /\ \A d \in Client : client'[d] = "out" => client[d] = "out"
    BY <1>1, <1>7 DEF WriteSpot, WriteClient
  <2> QED
    BY <2>1, <2>2, ThreadsStay
<1>8. CASE PrimaryDies \/ (\E u \in User : Push(u)) \/ UNCHANGED vars
  <2>1. UNCHANGED <<known, spots, sessions, name, found, loginLock, thread, client>>
    BY <1>8 DEF PrimaryDies, Push, vars, tableVars, clientVars
  <2> QED
    BY <1>1, <2>1, ThreadsStay
<1> QED
    BY <1>2, <1>3, <1>4, <1>5, <1>6, <1>7, <1>8 DEF Listener

LEMMA SessionNext == SessionInv /\ [Next]_vars => SessionInv'
<1> SUFFICES ASSUME SessionInv, [Next]_vars PROVE SessionInv'
    OBVIOUS
<1>1. CASE \E c \in Client, u \in User : Connect(c, u)
    BY <1>1, ConnectKeeps
<1>2. CASE \E c \in Client : ClientThread(c)
    BY <1>2, ClientThreadKeeps
<1>3. CASE \/ \E c \in Client : Write(c) \/ Close(c)
           \/ Processor \/ Keeping \/ Listener \/ PrimaryDies
           \/ \E u \in User : Push(u)
           \/ UNCHANGED vars
    BY <1>3, OthersKeep
<1> QED
    BY <1>1, <1>2, <1>3, FrontEndAssumption DEF Next, Keeping

(***************************************************************************)
(* login_user and the end of listen_client_connection: the counts and the  *)
(* spots of the user table agree, for any number of connections, users and *)
(* sessions per user, however logins and ends interleave.                  *)
(***************************************************************************)
THEOREM SessionsAgree == Spec => []SessionTable
<1>1. SessionInv => SessionTable
    BY DEF SessionInv
<1> QED
    BY SessionInit, SessionNext, <1>1, PTL DEF Spec

-----------------------------------------------------------------------------
(* The types of the rest, in parts.                                         *)

QueueType ==
    /\ known \subseteq User
    /\ wrote \in [Client -> 0 .. MaxMessages] /\ taken \in [Client -> 0 .. MaxMessages]
    /\ loginLock \in Client \cup {None}
    /\ queue \in Seq(Client \X Nat)
    /\ served \in [Client -> Seq({"LOGIN", "LOGOUT", "MESSAGE"} \X Nat)]
SendType ==
    /\ sending \in BOOLEAN /\ connected \in BOOLEAN
    /\ ended \in {"no", "no ring", "no user", "server pipe", "client pipe"}
LinkType ==
    /\ cur \in Link \cup {0}
    /\ link \in [Link -> {"new", "up", "closed", "reset", "broken"}]
    /\ inbox \in [Link -> Seq([id : Nat, to : User])]
    /\ pushes \in 0 .. MaxPushes /\ deaths \in 0 .. MaxDeaths
    /\ keeper \in {"loop", "search", "found", "dial", "beat", "lost"}
Hand == [pc : {"loop", "read", "eof", "pick", "write"}, fd : Link \cup {0},
         msg : Nat, to : User \cup {None}, spot : Spot, sock : Client \cup {None}]
ListenType ==
    /\ listener \in Hand
    /\ got \in [Client -> Seq(Nat)]

Typed == QueueType /\ SendType /\ LinkType /\ ListenType
Base  == SessionInv /\ Typed /\ HandInv

LEMMA BaseTypes == Base => TypeOK
<1> SUFFICES ASSUME Base PROVE TypeOK
    OBVIOUS
<1>1. sessions \in [User -> Nat]
  <2>1. \A u \in User : Occupied(u) \in SUBSET Spot
    BY DEF Occupied
  <2>2. \A u \in User : sessions[u] = Cardinality(Occupied(u))
    BY DEF Base, SessionInv, SessionTable, CountMatches
  <2>3. \A u \in User : sessions[u] \in Nat
    BY <2>1, <2>2, SpotsFinite
  <2> QED BY <2>3 DEF Base, SessionInv, TableType
<1>2. /\ spots \in [User -> [Spot -> Client \cup {None}]]
      /\ client \in [Client -> {"out", "open", "closed", "reset", "broken"}]
      /\ name \in [Client -> User \cup {None}]
      /\ thread \in [Client -> {"none", "login", "insert", "ack", "nack", "announce",
                                "read", "enqueue", "leave", "logout", "done", "stranded"}]
      /\ found \in [Client -> BOOLEAN]
    BY DEF Base, SessionInv, TableType, Places
<1>3. QueueType /\ SendType /\ LinkType /\ ListenType
    BY DEF Base, Typed
<1> QED BY <1>1, <1>2, <1>3 DEF TypeOK, QueueType, SendType, LinkType, ListenType, Hand

LEMMA Constants ==
    /\ MaxSessions \in Nat \ {0} /\ MaxMessages \in Nat /\ MaxPushes \in Nat /\ MaxDeaths \in Nat
    /\ None \notin Client /\ None \notin User /\ 0 \in Spot /\ 0 \notin Link
    /\ Spot \subseteq Nat /\ Link \subseteq Nat /\ Link = 1 .. 2 * MaxDeaths + 1
    BY FrontEndAssumption DEF Spot, Link

LEMMA LinkBelow ==
    ASSUME NEW k \in Link \cup {0}
    PROVE  k \in Nat /\ \A i \in 1 .. k : i \in Link
    BY Constants

LEMMA BaseInit == Init => Base
<1> SUFFICES ASSUME Init PROVE Base
    OBVIOUS
<1>1. SessionInv
    BY SessionInit
<1>2. QueueType /\ LinkType
    BY Constants DEF Init, QueueType, LinkType
<1>3. SendType
  <2>1. sending \in BOOLEAN /\ connected \in BOOLEAN
    BY Zenon DEF Init
  <2> QED BY <2>1 DEF Init, SendType
<1>4. ListenType
    BY Constants DEF Init, ListenType, Hand
<1>5. HandInv
    BY Constants DEF Init, HandInv, Listening, Passing
<1> QED BY <1>1, <1>2, <1>3, <1>4, <1>5 DEF Base, Typed

\* What the steps of the clients and of their threads leave alone, but for the
\* two kinds of steps that send or queue something.
ClientSteps(c) ==
    \/ \E u \in Visitor : Connect(c, u)
    \/ Write(c) \/ Close(c) \/ NoLogin(c) \/ FindUser(c) \/ LoginUser(c) \/ Answer(c) \/ ReadClient(c) \/ Leave(c)

Announces(c) == AnnounceLogin(c) \/ AnnounceLogout(c)

LEMMA NextIs ==
    Next <=> /\ ended = "no"
             /\ \/ \E c \in Client : ClientSteps(c) \/ Announces(c) \/ Enqueue(c)
                \/ Processor \/ Keeping \/ Listener \/ PrimaryDies \/ \E u \in User : Push(u)
    BY DEF Next, ClientThread, ClientSteps, Announces, Keeping

LEMMA ClientFrame ==
    ASSUME NEW c \in Client, ClientSteps(c)
    PROVE  UNCHANGED <<queueVars, linkVars, keepVars, listenVars>>
<1>1. CASE Answer(c)
    BY <1>1 DEF Answer, WriteClient, listenVars
<1>2. CASE ~Answer(c)
    BY <1>2 DEF ClientSteps, Connect, Write, Close, NoLogin, FindUser, LoginUser, ReadClient, Leave
<1> QED BY <1>1, <1>2

\* Where the threads are after a step, as far as the queue is concerned.
LEMMA ThreadSteps ==
    ASSUME SessionInv, NEW c \in Client, ClientSteps(c) \/ Announces(c) \/ Enqueue(c)
    PROVE  /\ \A d \in Client : d # c => thread'[d] = thread[d]
           /\ thread'[c] = "enqueue" /\ thread[c] # "enqueue" => ReadClient(c) /\ wrote[c] > taken[c]
<1>1. \A d \in Client : d # c => thread'[d] = thread[d]
    BY DEF ClientSteps, Connect, Write, Close, NoLogin, FindUser, LoginUser, NewUser, NewSession, Refuse, Answer,
       ReadClient, Leave, Announces, AnnounceLogin, AnnounceLogout, Announce, Enqueue, Goto,
       SessionInv, TableType
<1>2. CASE ReadClient(c)
    BY <1>1, <1>2 DEF ReadClient, Goto, SessionInv, TableType
<1>3. CASE ~ReadClient(c)
  <2>1. thread'[c] = "enqueue" => thread[c] = "enqueue"
    BY <1>3 DEF ClientSteps, Connect, Write, Close, NoLogin, FindUser, LoginUser, NewUser, NewSession, Refuse,
       Answer, Leave, Announces, AnnounceLogin, AnnounceLogout, Announce, Enqueue, Goto,
       SessionInv, TableType
  <2> QED BY <1>1, <2>1
<1> QED BY <1>2, <1>3

\* Of the parts of the model that the step does not touch.
LEMMA SendStays  == SendType /\ UNCHANGED <<sending, connected, ended>> => SendType'
    BY DEF SendType
LEMMA QueueStays == QueueType /\ UNCHANGED <<known, wrote, taken, loginLock, queue, served>> => QueueType'
    BY DEF QueueType
LEMMA LinkStays  == LinkType /\ UNCHANGED <<linkVars, keeper>> => LinkType'
    BY DEF LinkType, linkVars
LEMMA ListenStays == ListenType /\ UNCHANGED listenVars => ListenType'
    BY DEF ListenType, listenVars

LEMMA HandStays ==
    ASSUME HandInv, UNCHANGED <<sending, queue, connected, keeper, cur, listener>>,
           \A d \in Client : taken'[d] <= wrote'[d] /\ (thread'[d] = "enqueue" => taken'[d] < wrote'[d])
    PROVE  HandInv'
    BY DEF HandInv, Listening, Passing

LEMMA ClientTypes ==
    ASSUME Base, NEW c \in Client, ClientSteps(c), SessionInv'
    PROVE  Base'
<1>1. UNCHANGED <<queueVars, linkVars, keepVars, listenVars>>
    BY ClientFrame
<1>2. known' \subseteq User /\ loginLock' \in Client \cup {None} /\ taken' = taken
  <2>1. CASE LoginUser(c)
    <3>1. name[c] \in User
      BY <2>1 DEF LoginUser, Base, SessionInv, LoginInv
    <3> QED BY <2>1, <3>1 DEF LoginUser, NewUser, NewSession, Refuse, tableVars, Base, Typed, QueueType
  <2>2. CASE ~LoginUser(c)
    BY <2>2 DEF ClientSteps, Connect, Write, Close, NoLogin, FindUser, Answer, ReadClient, Leave, tableVars,
       Base, Typed, QueueType
  <2> QED BY <2>1, <2>2
<1>3. wrote' \in [Client -> 0 .. MaxMessages] /\ \A d \in Client : wrote'[d] >= wrote[d]
  <2>1. CASE Write(c)
    <3>1. wrote[c] + 1 \in 0 .. MaxMessages
      BY <2>1, Constants DEF Write, Base, Typed, QueueType
    <3> QED BY <2>1, <3>1, Constants DEF Write, Base, Typed, QueueType
  <2>2. CASE ~Write(c)
    <3>1. wrote' = wrote
      BY <2>2 DEF ClientSteps, Connect, Close, NoLogin, FindUser, LoginUser, Answer, ReadClient, Leave
    <3> QED BY <3>1, Constants DEF Base, Typed, QueueType
  <2> QED BY <2>1, <2>2
<1>4. QueueType'
    BY <1>1, <1>2, <1>3 DEF queueVars, Base, Typed, QueueType
<1>5. ended' \in {"no", "no ring", "no user", "server pipe", "client pipe"}
    BY DEF ClientSteps, Connect, Write, Close, NoLogin, FindUser, LoginUser, Answer, WriteClient, ReadClient,
       Leave, Base, Typed, SendType
<1>6. SendType'
  <2>1. sending' \in BOOLEAN /\ connected' \in BOOLEAN
    BY <1>1 DEF queueVars, keepVars, Base, Typed, SendType
  <2> QED BY <1>5, <2>1 DEF SendType
<1>7. LinkType' /\ ListenType'
    BY <1>1, LinkStays, ListenStays DEF keepVars, Base, Typed
<1>8. \A d \in Client : taken'[d] <= wrote'[d] /\ (thread'[d] = "enqueue" => taken'[d] < wrote'[d])
  <2> SUFFICES ASSUME NEW d \in Client
               PROVE  taken[d] <= wrote'[d] /\ (thread'[d] = "enqueue" => taken[d] < wrote'[d])
    BY <1>2
  <2>1. taken[d] \in Nat /\ wrote[d] \in Nat /\ wrote'[d] \in Nat /\ wrote'[d] >= wrote[d]
        /\ taken[d] <= wrote[d] /\ (thread[d] = "enqueue" => taken[d] < wrote[d])
    BY <1>3, Constants DEF Base, Typed, QueueType, HandInv
  <2>2. thread'[d] = "enqueue" => taken[d] < wrote[d]
    BY <2>1, ThreadSteps DEF Base
  <2> QED BY <2>1, <2>2
<1>9. HandInv'
    BY <1>1, <1>8, HandStays DEF queueVars, keepVars, linkVars, listenVars, Base
<1> QED BY <1>4, <1>6, <1>7, <1>9 DEF Base, Typed

\* send_server, with m for connection c.
LEMMA ServerTypes ==
    ASSUME Base, NEW c \in Client, NEW m \in {"LOGIN", "LOGOUT", "MESSAGE"} \X Nat,
           SendServer(c, m) \/ (SendFails /\ UNCHANGED served)
    PROVE  /\ served' \in [Client -> Seq({"LOGIN", "LOGOUT", "MESSAGE"} \X Nat)]
           /\ link' \in [Link -> {"new", "up", "closed", "reset", "broken"}]
           /\ ended' \in {"no", "no ring", "no user", "server pipe", "client pipe"}
<1>1. served' \in [Client -> Seq({"LOGIN", "LOGOUT", "MESSAGE"} \X Nat)]
  <2>1. Append(served[c], m) \in Seq({"LOGIN", "LOGOUT", "MESSAGE"} \X Nat)
    BY DEF Base, Typed, QueueType
  <2> QED BY <2>1 DEF SendServer, SendLost, Base, Typed, QueueType
<1>2. link' \in [Link -> {"new", "up", "closed", "reset", "broken"}]
    BY DEF SendServer, SendLost, SendFails, Base, Typed, LinkType
<1>3. ended' \in {"no", "no ring", "no user", "server pipe", "client pipe"}
    BY DEF SendServer, SendLost, SendFails, Base, Typed, SendType
<1> QED BY <1>1, <1>2, <1>3

LEMMA AnnounceTypes ==
    ASSUME Base, NEW c \in Client, Announces(c), SessionInv'
    PROVE  Base'
<1>1. /\ UNCHANGED <<known, wrote, taken, loginLock, queue, sending, connected, keeper, listener, got,
                     cur, inbox, pushes, deaths>>
    BY DEF Announces, AnnounceLogin, AnnounceLogout, Announce, tableVars, keepVars, listenVars
<1>2. PICK m \in {"LOGIN", "LOGOUT", "MESSAGE"} \X Nat :
        SendServer(c, m) \/ (SendFails /\ UNCHANGED served)
    BY DEF Announces, AnnounceLogin, AnnounceLogout, Announce
<1>3. /\ served' \in [Client -> Seq({"LOGIN", "LOGOUT", "MESSAGE"} \X Nat)]
      /\ link' \in [Link -> {"new", "up", "closed", "reset", "broken"}]
      /\ ended' \in {"no", "no ring", "no user", "server pipe", "client pipe"}
    BY <1>2, ServerTypes
<1>4. QueueType' /\ LinkType' /\ ListenType'
    BY <1>1, <1>3 DEF Base, Typed, QueueType, LinkType, ListenType
<1>5. SendType'
  <2>1. sending' \in BOOLEAN /\ connected' \in BOOLEAN
    BY <1>1 DEF Base, Typed, SendType
  <2> QED BY <1>3, <2>1 DEF SendType
<1>6. \A d \in Client : thread'[d] = "enqueue" => thread[d] = "enqueue"
    BY ThreadSteps DEF Base, Announces, AnnounceLogin, AnnounceLogout, Announce, ReadClient
<1>7. HandInv'
    BY <1>1, <1>6, HandStays DEF Base, HandInv
<1> QED BY <1>4, <1>5, <1>7 DEF Base, Typed

LEMMA EnqueueTypes ==
    ASSUME Base, NEW c \in Client, Enqueue(c), SessionInv'
    PROVE  Base'
<1>1. /\ UNCHANGED <<known, wrote, loginLock, served, sending, connected, ended, linkVars, keeper,
                     listenVars, cur, listener>>
      /\ ~sending /\ queue' = Append(queue, <<c, taken[c] + 1>>)
      /\ taken' = [taken EXCEPT ![c] = @ + 1]
      /\ thread[c] = "enqueue" /\ thread' = [thread EXCEPT ![c] = "read"]
    BY DEF Enqueue, Goto, tableVars, keepVars, linkVars, listenVars
<1>2. taken[c] + 1 \in 0 .. MaxMessages
    BY <1>1, Constants DEF Base, Typed, QueueType, HandInv
<1>3. <<c, taken[c] + 1>> \in Client \X Nat
    BY <1>2
<1>4. queue' \in Seq(Client \X Nat)
    BY <1>1, <1>3 DEF Base, Typed, QueueType
<1>5. QueueType'
    BY <1>1, <1>2, <1>4 DEF Base, Typed, QueueType
<1>6. SendType' /\ LinkType' /\ ListenType'
    BY <1>1, SendStays, LinkStays, ListenStays DEF Base, Typed
<1>7. \A d \in Client : taken'[d] <= wrote'[d] /\ (thread'[d] = "enqueue" => taken'[d] < wrote'[d])
    BY <1>1, <1>2, Constants DEF Base, Typed, QueueType, HandInv, SessionInv, TableType
<1>8. HandInv'
    BY <1>1, <1>7 DEF Base, HandInv, Listening, Passing
<1> QED BY <1>5, <1>6, <1>8 DEF Base, Typed

LEMMA ProcessorTypes ==
    ASSUME Base, Processor, SessionInv'
    PROVE  Base'
<1>1. UNCHANGED <<known, wrote, taken, loginLock, connected, keeper, listener, got, cur, inbox, pushes,
                  deaths, thread>>
    BY DEF Processor, TakeMessage, SendMessage, tableVars, clientVars, linkVars, keepVars, listenVars
<1>2. ListenType'
    BY <1>1, ListenStays DEF Base, Typed, listenVars
<1>3. CASE TakeMessage
  <2>1. UNCHANGED <<queue, served, linkVars, ended>> /\ sending' = TRUE /\ queue # <<>>
    BY <1>3 DEF TakeMessage
  <2>2. QueueType' /\ LinkType'
    BY <1>1, <2>1, QueueStays, LinkStays DEF Base, Typed
  <2>3. SendType'
    <3>1. sending' \in BOOLEAN
      BY <2>1, Zenon
    <3> QED BY <1>1, <2>1, <3>1 DEF Base, Typed, SendType
  <2>4. HandInv'
    BY <1>1, <2>1 DEF Base, HandInv, Listening, Passing
  <2> QED BY <1>2, <2>2, <2>3, <2>4 DEF Base, Typed
<1>4. CASE SendMessage
  <2>1. queue # <<>> /\ queue \in Seq(Client \X Nat)
    BY <1>4 DEF SendMessage, Base, HandInv, Typed, QueueType
  <2>2. PICK h \in Client \X Nat : h = Head(queue)
    BY <2>1
  <2>3. PICK m \in {"LOGIN", "LOGOUT", "MESSAGE"} \X Nat : m = <<"MESSAGE", h[2]>>
    BY <2>2
  <2>4. /\ \/ SendServer(h[1], m) /\ queue' = Tail(queue) /\ sending' = FALSE
           \/ SendFails /\ UNCHANGED <<queue, sending, served>>
    BY <1>4, <2>2, <2>3 DEF SendMessage, queueVars
  <2>5. /\ served' \in [Client -> Seq({"LOGIN", "LOGOUT", "MESSAGE"} \X Nat)]
        /\ link' \in [Link -> {"new", "up", "closed", "reset", "broken"}]
        /\ ended' \in {"no", "no ring", "no user", "server pipe", "client pipe"}
    BY <2>2, <2>4, ServerTypes
  <2>6. queue' \in Seq(Client \X Nat)
    <3>1. Tail(queue) \in Seq(Client \X Nat)
      BY <2>1
    <3>2. queue' = Tail(queue) \/ queue' = queue
      BY <2>4
    <3> QED BY <2>1, <3>1, <3>2
  <2>7. QueueType' /\ LinkType'
    BY <1>1, <2>5, <2>6 DEF Base, Typed, QueueType, LinkType
  <2>8. SendType'
    <3>1. sending' \in BOOLEAN
      <4>1. sending' = FALSE \/ sending' = sending
        BY <2>4
      <4> QED BY <4>1, Zenon DEF Base, Typed, SendType
    <3> QED BY <1>1, <2>5, <3>1 DEF Base, Typed, SendType
  <2>9. HandInv'
    BY <1>1, <2>4 DEF Base, HandInv, Listening, Passing
  <2> QED BY <1>2, <2>7, <2>8, <2>9 DEF Base, Typed
<1> QED BY <1>3, <1>4 DEF Processor

LEMMA KeeperTypes ==
    ASSUME Base, Keeping, SessionInv'
    PROVE  Base'
<1>1. UNCHANGED <<known, clientVars, queueVars, listenVars, ended, inbox, pushes, deaths>>
    BY DEF Keeping, Keeper, KeepLoop, ConnectToLeader, KeepSet, KeepDial, KeepBroken, KeepClear, tableVars, linkVars
<1>2. QueueType' /\ ListenType'
    BY <1>1, QueueStays, ListenStays DEF Base, Typed, clientVars, queueVars
<1>3. /\ keeper' \in {"loop", "search", "found", "dial", "beat", "lost"}
      /\ cur' \in Link \cup {0} /\ cur' >= cur /\ cur' \in Nat /\ cur \in Nat
      /\ link' \in [Link -> {"new", "up", "closed", "reset", "broken"}]
  <2>1. keeper' \in {"loop", "search", "found", "dial", "beat", "lost"}
    BY DEF Keeping, Keeper, KeepLoop, ConnectToLeader, KeepSet, KeepDial, KeepBroken, KeepClear
  <2>2. cur \in Nat /\ cur \in Link \cup {0}
    BY LinkBelow DEF Base, Typed, LinkType
  <2>3. CASE ConnectToLeader
    <3>1. cur' = cur + 1 /\ cur' \in Link
      BY <2>3 DEF ConnectToLeader
    <3>2. link' = [link EXCEPT ![cur + 1] = "up"]
      BY <2>3 DEF ConnectToLeader
    <3> QED BY <2>1, <2>2, <3>1, <3>2 DEF Base, Typed, LinkType
  <2>4. CASE ~ConnectToLeader
    <3>1. cur' = cur /\ link' = link
      BY <2>4 DEF Keeping, Keeper, KeepLoop, KeepSet, KeepDial, KeepBroken, KeepClear, linkVars
    <3> QED BY <2>1, <2>2, <3>1 DEF Base, Typed, LinkType
  <2> QED BY <2>3, <2>4
<1>4. LinkType'
    BY <1>1, <1>3 DEF Base, Typed, LinkType
<1>5. SendType'
  <2>1. connected' \in BOOLEAN /\ sending' \in BOOLEAN
    <3>1. connected' = connected \/ connected' = TRUE \/ connected' = FALSE
      BY DEF Keeping, Keeper, KeepLoop, ConnectToLeader, KeepSet, KeepDial, KeepBroken, KeepClear
    <3>2. sending' = sending
      BY <1>1 DEF queueVars
    <3> QED BY <3>1, <3>2, Zenon DEF Base, Typed, SendType
  <2> QED BY <1>1, <2>1 DEF Base, Typed, SendType
<1>6. HandInv'
  <2>1. connected' \/ keeper' = "found" => cur' # 0
    <3>1. CASE ConnectToLeader
      BY <1>3, <3>1 DEF ConnectToLeader
    <3>2. CASE KeepSet \/ KeepLoop \/ KeepDial \/ KeepBroken
      BY <3>2 DEF KeepSet, KeepLoop, KeepDial, KeepBroken, linkVars, Base, HandInv
    <3>3. CASE KeepClear
      BY <3>3 DEF KeepClear
    <3> QED BY <3>1, <3>2, <3>3 DEF Keeping, Keeper
  <2>2. UNCHANGED <<listener, sending, queue, taken, wrote, thread>>
    BY <1>1 DEF listenVars, queueVars, clientVars
  <2>3. listener.fd \in 1 .. cur => listener.fd \in 1 .. cur'
    BY <1>3
  <2> QED BY <2>1, <2>2, <2>3 DEF Base, HandInv, Listening, Passing
<1> QED BY <1>2, <1>4, <1>5, <1>6 DEF Base, Typed

\* The next spot, or the end of the loop.
LEMMA NextSpotIs ==
    ASSUME ListenType
    PROVE  /\ NextSpot \in Hand
           /\ \/ NextSpot.pc = "loop" /\ NextSpot.sock = None
              \/ /\ NextSpot.pc = "pick" /\ NextSpot.fd = listener.fd /\ NextSpot.to = listener.to
                 /\ NextSpot.msg = listener.msg /\ NextSpot.spot = listener.spot + 1
<1>1. listener \in Hand
    BY DEF ListenType
<1>2. CASE listener.spot < MaxSessions - 1
  <2>1. listener.spot + 1 \in Spot
    BY <1>1, <1>2, Constants DEF Hand, Spot
  <2> QED BY <1>1, <1>2, <2>1 DEF NextSpot, Hand
<1>3. CASE ~(listener.spot < MaxSessions - 1)
    BY <1>3, Constants DEF NextSpot, Hand
<1> QED BY <1>2, <1>3

LEMMA ListenerTypes ==
    ASSUME Base, Listener, SessionInv'
    PROVE  Base'
<1>1. UNCHANGED <<known, name, wrote, taken, thread, found, loginLock, queueVars, keeper, cur, pushes,
                  deaths>>
    BY DEF Listener, ListenLoop, ListenRead, ListenClear, PickSpot, WriteSpot, tableVars, clientVars,
       linkVars, keepVars
<1>2. QueueType'
    BY <1>1, QueueStays DEF Base, Typed, queueVars
<1>3. listener \in Hand /\ cur \in Nat
    BY Constants DEF Base, Typed, ListenType, LinkType
<1>4. CASE ListenLoop
  <2>1. listener' = [listener EXCEPT !.pc = "read", !.fd = cur] /\ cur # 0
        /\ UNCHANGED <<got, linkVars, connected, ended>>
    BY <1>4 DEF ListenLoop, keepVars, Base, HandInv
  <2>2. ListenType' /\ LinkType' /\ SendType'
    BY <1>1, <1>3, <2>1, LinkStays, SendStays
       DEF Base, Typed, ListenType, LinkType, Hand, queueVars
  <2>3. listener'.pc = "read" /\ listener'.fd \in 1 .. cur
    BY <1>3, <2>1 DEF Hand
  <2>4. HandInv'
    BY <1>1, <2>1, <2>3 DEF Base, HandInv, Listening, Passing, queueVars
  <2> QED BY <1>2, <2>2, <2>4 DEF Base, Typed
<1>5. CASE ListenRead
  <2>1. UNCHANGED <<got, connected>> /\ listener.pc = "read" /\ listener.fd \in 1 .. cur
    BY <1>5 DEF ListenRead, keepVars, Base, HandInv, Listening
  <2>a. SendType'
    <3>1. ended' = ended \/ ended' = "no user"
      BY <1>5 DEF ListenRead
    <3>2. ended' \in {"no", "no ring", "no user", "server pipe", "client pipe"}
      BY <3>1 DEF Base, Typed, SendType
    <3> QED BY <1>1, <2>1, <3>2 DEF Base, Typed, SendType, queueVars
  <2>2. listener.fd \in Link /\ inbox[listener.fd] \in Seq([id : Nat, to : User])
    <3>1. listener.fd \in Link
      BY <2>1, LinkBelow DEF Base, Typed, LinkType
    <3> QED BY <3>1 DEF Base, Typed, LinkType
  <2>3. link' \in [Link -> {"new", "up", "closed", "reset", "broken"}]
    BY <1>5, <2>2 DEF ListenRead, Base, Typed, LinkType
  <2>4. CASE inbox[listener.fd] # <<>>
    <3>1. PICK h \in [id : Nat, to : User] : h = Head(inbox[listener.fd])
      <4> PICK q : q = inbox[listener.fd]
        OBVIOUS
      <4>1. q \in Seq([id : Nat, to : User]) /\ q # <<>>
        BY <2>2, <2>4
      <4>2. Head(q) \in [id : Nat, to : User]
        BY <4>1, HeadTailProperties
      <4> QED BY <4>2
    <3>2. /\ inbox' = [inbox EXCEPT ![listener.fd] = Tail(@)]
          /\ listener' = [listener EXCEPT !.pc = "pick", !.msg = h.id, !.to = h.to, !.spot = 0]
      BY <1>5, <2>4, <3>1 DEF ListenRead
    <3>3. Tail(inbox[listener.fd]) \in Seq([id : Nat, to : User])
      BY <2>2, <2>4
    <3>4. inbox' \in [Link -> Seq([id : Nat, to : User])]
      BY <2>2, <3>2, <3>3 DEF Base, Typed, LinkType
    <3>5. listener' \in Hand /\ listener'.pc = "pick" /\ listener'.to \in User
          /\ listener'.fd = listener.fd
      BY <1>3, <3>1, <3>2, Constants DEF Hand
    <3>6. LinkType' /\ ListenType'
      BY <1>1, <2>1, <2>3, <3>4, <3>5 DEF Base, Typed, LinkType, ListenType
    <3>7. SendType'
      BY <2>a
    <3>8. HandInv'
      BY <1>1, <2>1, <3>5 DEF Base, HandInv, Listening, Passing, queueVars
    <3> QED BY <1>2, <3>6, <3>7, <3>8 DEF Base, Typed
  <2>5. CASE inbox[listener.fd] = <<>>
    <3>1. inbox' = inbox /\ listener' \in Hand /\ listener'.pc \in {"eof", "loop"}
      BY <1>3, <1>5, <2>5 DEF ListenRead, Hand
    <3>2. LinkType' /\ ListenType'
      BY <1>1, <2>1, <2>3, <3>1 DEF Base, Typed, LinkType, ListenType
    <3>3. SendType'
      BY <2>a
    <3>4. HandInv'
      BY <1>1, <2>1, <3>1 DEF Base, HandInv, Listening, Passing, queueVars
    <3> QED BY <1>2, <3>2, <3>3, <3>4 DEF Base, Typed
  <2> QED BY <2>4, <2>5
<1>6. CASE ListenClear
  <2>1. listener' = [listener EXCEPT !.pc = "loop"] /\ connected' = FALSE
        /\ UNCHANGED <<got, linkVars, ended>>
    BY <1>6 DEF ListenClear
  <2>2. ListenType' /\ LinkType'
    BY <1>1, <1>3, <2>1, LinkStays DEF Base, Typed, ListenType, Hand
  <2>3. SendType'
    <3>1. connected' \in BOOLEAN
      BY <2>1, Zenon
    <3> QED BY <1>1, <2>1, <3>1 DEF Base, Typed, SendType, queueVars
  <2>4. listener'.pc = "loop"
    BY <1>3, <2>1 DEF Hand
  <2>5. HandInv'
    BY <1>1, <2>1, <2>4 DEF Base, HandInv, Listening, Passing, queueVars, linkVars
  <2> QED BY <1>2, <2>2, <2>3, <2>5 DEF Base, Typed
<1>7. CASE PickSpot
  <2>1. listener.pc = "pick" /\ UNCHANGED <<got, linkVars, connected, ended>> /\ listener.to \in User
    BY <1>7 DEF PickSpot, keepVars, Base, HandInv, Passing
  <2>2. spots[listener.to][listener.spot] \in Client \cup {None}
    BY <1>3, <2>1 DEF Base, SessionInv, TableType, Hand
  <2>3. /\ listener' \in Hand /\ listener'.pc \in {"loop", "pick", "write"}
        /\ listener'.pc # "loop" => listener'.fd = listener.fd /\ listener'.to = listener.to
        /\ listener'.pc = "write" => listener'.sock \in Client
    <3>1. CASE spots[listener.to][listener.spot] = None
      <4>1. listener' = NextSpot
        BY <1>7, <3>1 DEF PickSpot
      <4> QED BY <4>1, NextSpotIs DEF Base, Typed
    <3>2. CASE spots[listener.to][listener.spot] # None
      BY <1>3, <1>7, <2>2, <3>2 DEF PickSpot, Hand
    <3> QED BY <3>1, <3>2
  <2>4. ListenType' /\ LinkType' /\ SendType'
    BY <1>1, <2>1, <2>3, LinkStays, SendStays DEF Base, Typed, ListenType, queueVars
  <2>5. HandInv'
    BY <1>1, <2>1, <2>3 DEF Base, HandInv, Listening, Passing, queueVars
  <2> QED BY <1>2, <2>4, <2>5 DEF Base, Typed
<1>8. CASE WriteSpot
  <2>1. /\ listener.pc = "write" /\ listener' = NextSpot /\ UNCHANGED <<linkVars, connected>>
        /\ listener.sock \in Client /\ listener.to \in User
    BY <1>8 DEF WriteSpot, keepVars, Base, HandInv, Passing
  <2>2. /\ listener' \in Hand /\ listener'.pc \in {"loop", "pick"}
        /\ listener'.pc # "loop" => listener'.fd = listener.fd /\ listener'.to = listener.to
    BY <2>1, NextSpotIs DEF Base, Typed
  <2>3. got' \in [Client -> Seq(Nat)] /\ ended' \in {"no", "no ring", "no user", "server pipe", "client pipe"}
    <3>1. Append(got[listener.sock], listener.msg) \in Seq(Nat)
      BY <1>3, <2>1 DEF Base, Typed, ListenType, Hand
    <3> QED BY <1>8, <2>1, <3>1 DEF WriteSpot, WriteClient, Base, Typed, ListenType, SendType
  <2>4. ListenType' /\ LinkType'
    BY <1>1, <2>1, <2>2, <2>3, LinkStays DEF Base, Typed, ListenType
  <2>5. SendType'
    BY <1>1, <2>1, <2>3 DEF Base, Typed, SendType, queueVars
  <2>6. HandInv'
    BY <1>1, <2>1, <2>2 DEF Base, HandInv, Listening, Passing, queueVars
  <2> QED BY <1>2, <2>4, <2>5, <2>6 DEF Base, Typed
<1> QED BY <1>4, <1>5, <1>6, <1>7, <1>8 DEF Listener

LEMMA OutsideTypes ==
    ASSUME Base, PrimaryDies \/ (\E u \in User : Push(u)) \/ UNCHANGED vars, SessionInv'
    PROVE  Base'
<1>1. UNCHANGED <<tableVars, clientVars, queueVars, keepVars, listenVars, ended, cur>>
    BY DEF PrimaryDies, Push, vars, linkVars
<1>2. QueueType' /\ ListenType' /\ SendType'
    BY <1>1, QueueStays, ListenStays, SendStays DEF Base, Typed, tableVars, clientVars, queueVars, keepVars
<1>3. HandInv'
    BY <1>1, HandStays DEF tableVars, clientVars, queueVars, keepVars, listenVars, Base, HandInv
<1>4. LinkType'
  <2>1. CASE PrimaryDies
    <3>1. deaths' = deaths + 1 /\ deaths' \in 0 .. MaxDeaths /\ UNCHANGED <<cur, inbox, pushes, keeper>>
      BY <2>1, Constants DEF PrimaryDies, keepVars, Base, Typed, LinkType
    <3>2. link' \in [Link -> {"new", "up", "closed", "reset", "broken"}]
      BY <2>1 DEF PrimaryDies, Base, Typed, LinkType
    <3> QED BY <3>1, <3>2 DEF Base, Typed, LinkType
  <2>2. ASSUME NEW u \in User, Push(u) PROVE LinkType'
    <3>1. pushes' = pushes + 1 /\ pushes' \in 0 .. MaxPushes /\ cur \in Link
      BY <2>2, Constants DEF Push, Base, Typed, LinkType
    <3>2. Append(inbox[cur], [id |-> pushes + 1, to |-> u]) \in Seq([id : Nat, to : User])
      <4>1. [id |-> pushes + 1, to |-> u] \in [id : Nat, to : User]
        BY <3>1, Constants DEF Base, Typed, LinkType
      <4>2. inbox[cur] \in Seq([id : Nat, to : User])
        BY <3>1 DEF Base, Typed, LinkType
      <4> QED BY <4>1, <4>2, AppendProperties
    <3> QED BY <1>1, <2>2, <3>1, <3>2 DEF Push, keepVars, Base, Typed, LinkType
  <2>3. CASE UNCHANGED vars
    BY <2>3, LinkStays DEF vars, keepVars, Base, Typed
  <2> QED BY <2>1, <2>2, <2>3
<1> QED BY <1>2, <1>3, <1>4 DEF Base, Typed

LEMMA BaseNext == Base /\ [Next]_vars => Base'
<1> SUFFICES ASSUME Base, [Next]_vars PROVE Base'
    OBVIOUS
<1>1. SessionInv'
    BY SessionNext DEF Base
<1>2. CASE UNCHANGED vars \/ PrimaryDies \/ \E u \in User : Push(u)
    BY <1>1, <1>2, OutsideTypes
<1>3. CASE Processor \/ Keeping \/ Listener
    BY <1>1, <1>3, ProcessorTypes, KeeperTypes, ListenerTypes
<1>4. CASE \E c \in Client : ClientSteps(c) \/ Announces(c) \/ Enqueue(c)
    BY <1>1, <1>4, ClientTypes, AnnounceTypes, EnqueueTypes
<1> QED BY <1>2, <1>3, <1>4, NextIs

(***************************************************************************)
(* The types are right: in particular no thread reads a spot, a link or a  *)
(* head of the queue that is not there, and nobody has more messages taken *)
(* than written.                                                           *)
(***************************************************************************)
THEOREM FrontEndTypes == Spec => []TypeOK
<1> QED BY BaseInit, BaseNext, BaseTypes, PTL DEF Spec

-----------------------------------------------------------------------------
(* Who is admitted stays so, under the same name and in the table.          *)

LEMMA Admissions ==
    ASSUME Base, [Next]_vars
    PROVE  /\ known \subseteq known'
           /\ \A c \in Client : /\ thread[c] # "none" => thread'[c] # "none" /\ name'[c] = name[c]
                                /\ Admitted(c) => Admitted(c)'
                                /\ Inside(c)' => Inside(c) \/ name'[c] \in known'
           /\ \A c \in Client : thread[c] = "insert" => ~Admitted(c)
<1>1. CASE UNCHANGED <<known, name, thread>>
    BY <1>1 DEF Admitted, Inside, Seated
<1>2. ASSUME NEW c \in Client, ClientSteps(c) \/ Announces(c) \/ Enqueue(c),
             NEW d \in Client
      PROVE  /\ known \subseteq known'
             /\ thread[d] # "none" => thread'[d] # "none" /\ name'[d] = name[d]
             /\ Admitted(d) => Admitted(d)'
             /\ Inside(d)' => Inside(d) \/ name'[d] \in known'
  <2>1. CASE \E u \in Visitor : Connect(c, u)
    <3>1. thread[c] = "none"
      BY <2>1 DEF Connect, Base, SessionInv, LoginInv
    <3> QED BY <2>1, <3>1 DEF Connect, tableVars, Admitted, Inside, Seated, Base, SessionInv, TableType
  <2>2. CASE Write(c) \/ Close(c)
    BY <2>2 DEF Write, Close, tableVars, Admitted, Inside, Seated
  <2>3. CASE NoLogin(c) \/ FindUser(c) \/ Answer(c) \/ ReadClient(c) \/ Leave(c) \/ Announces(c) \/ Enqueue(c)
    BY <2>3 DEF NoLogin, FindUser, Answer, ReadClient, Leave, Announces, AnnounceLogin, AnnounceLogout, Announce,
       Enqueue, Goto, tableVars, Admitted, Inside, Seated, Base, SessionInv, TableType
  <2>4. CASE LoginUser(c)
    <3>1. /\ thread[c] = "insert" /\ name' = name
          /\ thread' = [thread EXCEPT ![c] = "ack"] \/ thread' = [thread EXCEPT ![c] = "nack"]
      BY <2>4 DEF LoginUser, NewUser, NewSession, Refuse, Goto
    <3>2. known \subseteq known' /\ name[c] \in known'
      <4>1. found[c] <=> (name[c] \in known)
        BY <3>1 DEF Base, SessionInv, LoginInv, TableType
      <4> QED BY <2>4, <4>1 DEF LoginUser, NewUser, NewSession, Refuse, tableVars
    <3> QED BY <3>1, <3>2 DEF Admitted, Inside, Seated, Base, SessionInv, TableType
  <2> QED BY <1>2, <2>1, <2>2, <2>3, <2>4 DEF ClientSteps
<1>3. CASE \/ Processor \/ Keeping \/ Listener \/ PrimaryDies \/ UNCHANGED vars
           \/ \E u \in User : Push(u)
  <2>1. UNCHANGED <<known, name, thread>>
    BY <1>3 DEF Processor, TakeMessage, SendMessage, Keeping, Keeper, KeepLoop, ConnectToLeader, KeepSet,
       KeepDial, KeepBroken, KeepClear, Listener, ListenLoop, ListenRead, ListenClear, PickSpot,
       WriteSpot, PrimaryDies, Push, vars, tableVars, clientVars
  <2> QED BY <1>1, <2>1
<1>4. \A c \in Client : thread[c] = "insert" => ~Admitted(c)
    BY DEF Admitted
<1>5. CASE \E c \in Client : ClientSteps(c) \/ Announces(c) \/ Enqueue(c)
  <2>1. PICK c \in Client : ClientSteps(c) \/ Announces(c) \/ Enqueue(c)
    BY <1>5
  <2>2. known \subseteq known'
    BY <1>2, <2>1
  <2> QED BY <1>2, <1>4, <2>1, <2>2
<1> QED BY <1>3, <1>4, <1>5, NextIs

\* What served and the queue of a connection become.
LEMMA ServedSteps ==
    ASSUME Base, [Next]_vars
    PROVE  /\ \A c \in Client : served'[c] = served[c] \/ Inside(c)
                  \/ \E i \in DOMAIN queue : queue[i][1] = c
           /\ \/ queue' = queue
              \/ queue # <<>> /\ queue' = Tail(queue)
              \/ \E c \in Client : queue' = Append(queue, <<c, taken[c] + 1>>) /\ Inside(c)
<1>1. CASE Processor
  <2>1. CASE TakeMessage
    BY <2>1 DEF TakeMessage
  <2>2. CASE SendMessage
    <3>1. queue # <<>> /\ queue \in Seq(Client \X Nat)
      BY <2>2 DEF SendMessage, Base, HandInv, Typed, QueueType
    <3>2. Head(queue) = queue[1] /\ 1 \in DOMAIN queue
      BY <3>1
    <3>3. served' = served \/ served' = [served EXCEPT ![queue[1][1]] = Append(@, <<"MESSAGE", queue[1][2]>>)]
      BY <2>2, <3>2 DEF SendMessage, SendServer, SendLost, SendFails, queueVars
    <3>4. queue' = Tail(queue) \/ queue' = queue
      BY <2>2 DEF SendMessage, queueVars
    <3>5. \A c \in Client : c # queue[1][1] => served'[c] = served[c]
      BY <3>3 DEF Base, Typed, QueueType
    <3> QED BY <3>1, <3>2, <3>4, <3>5
  <2> QED BY <1>1, <2>1, <2>2 DEF Processor
<1>2. ASSUME NEW c \in Client, Announces(c) PROVE queue' = queue /\ Inside(c) /\ \A d \in Client : d # c => served'[d] = served[d]
    BY <1>2 DEF Announces, AnnounceLogin, AnnounceLogout, Announce, SendServer, SendLost, SendFails,
       Inside, Seated, Base, Typed, QueueType
<1>3. ASSUME NEW c \in Client, Enqueue(c)
      PROVE  served' = served /\ queue' = Append(queue, <<c, taken[c] + 1>>) /\ Inside(c)
    BY <1>3 DEF Enqueue, Inside, Seated
<1>4. CASE \/ Keeping \/ Listener \/ PrimaryDies \/ UNCHANGED vars
           \/ (\E u \in User : Push(u)) \/ \E c \in Client : ClientSteps(c)
  <2>1. UNCHANGED <<served, queue>>
    BY <1>4, ClientFrame
       DEF Keeping, Keeper, KeepLoop, ConnectToLeader, KeepSet,
       KeepDial, KeepBroken, KeepClear, Listener, ListenLoop, ListenRead, ListenClear, PickSpot,
       WriteSpot, PrimaryDies, Push, vars, queueVars
  <2> QED BY <2>1
<1> QED BY <1>1, <1>2, <1>3, <1>4, NextIs

LEMMA KnownInit == Init => KnownInv /\ PushKnown
    BY DEF Init, KnownInv, PushKnown, PushFindsUser, Inside, Seated

LEMMA KnownNext == Base /\ KnownInv /\ [Next]_vars => KnownInv'
<1> SUFFICES ASSUME Base, KnownInv, [Next]_vars PROVE KnownInv'
    OBVIOUS
<1>1. \A c \in Client : Inside(c) => Admitted(c) /\ name[c] \in known
    BY DEF KnownInv, Inside, Seated, Admitted
<1>2. \A c \in Client : Inside(c)' => name'[c] \in known'
  <2> SUFFICES ASSUME NEW c \in Client, Inside(c)' PROVE name'[c] \in known'
    OBVIOUS
  <2>1. CASE Inside(c)
    BY <1>1, <2>1, Admissions DEF Admitted
  <2> QED BY <2>1, Admissions
<1> DEFINE Stays(c) == thread'[c] \notin {"none", "login", "insert"} /\ name'[c] \in known'
<1>3. \A c \in Client : Admitted(c) /\ name[c] \in known => Stays(c)
    BY Admissions DEF Admitted
<1>4. queue \in Seq(Client \X Nat)
    BY DEF Base, Typed, QueueType
<1>5. \A i \in DOMAIN queue : Stays(queue[i][1])
  <2>1. \A i \in DOMAIN queue : queue[i][1] \in Client /\ Admitted(queue[i][1]) /\ name[queue[i][1]] \in known
    BY <1>4 DEF KnownInv
  <2> QED BY <1>3, <2>1
<1>6. \A c \in Client : served'[c] # <<>> => Stays(c)
  <2> SUFFICES ASSUME NEW c \in Client, served'[c] # <<>> PROVE Stays(c)
    OBVIOUS
  <2>1. CASE served[c] # <<>> \/ Inside(c)
    BY <1>1, <1>3, <2>1 DEF KnownInv
  <2>2. CASE \E i \in DOMAIN queue : queue[i][1] = c
    BY <1>5, <2>2
  <2> QED BY <2>1, <2>2, ServedSteps
<1>7. \A i \in DOMAIN queue' : Stays(queue'[i][1])
  <2>1. CASE queue' = queue
    BY <1>5, <2>1
  <2>2. CASE queue # <<>> /\ queue' = Tail(queue)
    <3>1. \A i \in DOMAIN queue' : i + 1 \in DOMAIN queue /\ queue'[i] = queue[i + 1]
      BY <1>4, <2>2
    <3> QED BY <1>5, <3>1
  <2>3. CASE \E c \in Client : queue' = Append(queue, <<c, taken[c] + 1>>) /\ Inside(c)
    <3> PICK c \in Client : queue' = Append(queue, <<c, taken[c] + 1>>) /\ Inside(c)
      BY <2>3
    <3>1. Stays(c)
      BY <1>1, <1>3
    <3>2. \A i \in DOMAIN queue' : (i \in DOMAIN queue /\ queue'[i] = queue[i]) \/ queue'[i] = <<c, taken[c] + 1>>
      BY <1>4
    <3>3. \A i \in DOMAIN queue' : (i \in DOMAIN queue /\ queue'[i] = queue[i]) \/ queue'[i][1] = c
      BY <3>2
    <3> QED BY <1>5, <3>1, <3>3
  <2> QED BY <2>1, <2>2, <2>3, ServedSteps
<1> QED BY <1>2, <1>6, <1>7 DEF KnownInv, Admitted

LEMMA PushFindsNext == Base /\ KnownInv /\ PushKnown /\ [Next]_vars => PushKnown'
<1> SUFFICES ASSUME Base, KnownInv, PushKnown, [Next]_vars PROVE PushKnown'
    OBVIOUS
<1>1. known \subseteq known'
    BY Admissions
<1>2. CASE UNCHANGED vars
    BY <1>2 DEF vars, linkVars, listenVars, tableVars, PushKnown, PushFindsUser
<1>3. CASE Next
  <2>1. ended = "no"
    BY <1>3 DEF Next
  <2>2. ASSUME UNCHANGED inbox, ended' # "no user" PROVE PushKnown'
    BY <1>1, <2>2 DEF PushKnown, PushFindsUser
  <2>3. ASSUME NEW u \in User, Push(u) PROVE PushKnown'
    <3>1. cur \in Link /\ inbox[cur] \in Seq([id : Nat, to : User]) /\ ended' = "no"
      <4>1. cur \in Link
        BY <2>3 DEF Push, Base, Typed, LinkType
      <4> QED BY <2>1, <2>3, <4>1 DEF Push, Base, Typed, LinkType
    <3>2. u \in known \cup Earlier
      BY <2>3 DEF Push, Announced, KnownInv
    <3>3. inbox' = [inbox EXCEPT ![cur] = Append(@, [id |-> pushes + 1, to |-> u])]
      BY <2>3 DEF Push
    <3>4. ASSUME NEW l \in Link, NEW i \in DOMAIN inbox'[l] PROVE inbox'[l][i].to \in known \cup Earlier
      <4>1. CASE l # cur
        BY <3>3, <4>1 DEF PushKnown, Base, Typed, LinkType
      <4>2. CASE l = cur
        <5> PICK q : q = inbox[cur]
          OBVIOUS
        <5>1. inbox'[l] = Append(q, [id |-> pushes + 1, to |-> u])
          BY <3>3, <4>2 DEF Base, Typed, LinkType
        <5>2. (i \in DOMAIN q /\ inbox'[l][i] = q[i]) \/ inbox'[l][i] = [id |-> pushes + 1, to |-> u]
          BY <3>1, <5>1
        <5> QED BY <3>1, <3>2, <5>2 DEF PushKnown
      <4> QED BY <4>1, <4>2
    <3> QED BY <1>1, <3>1, <3>4 DEF PushKnown, PushFindsUser
  <2>4. CASE ListenRead
    <3>1. listener.fd \in Link
      BY <2>4, LinkBelow DEF ListenRead, Base, HandInv, Listening, Typed, LinkType
    <3>2. CASE inbox[listener.fd] # <<>>
      <4> PICK q, l : l = listener.fd /\ q = inbox[l]
        OBVIOUS
      <4>1. /\ q \in Seq([id : Nat, to : User]) /\ q # <<>>
            /\ \A i \in DOMAIN q : q[i].to \in known \cup Earlier
        BY <3>1, <3>2 DEF PushKnown, Base, Typed, LinkType
      <4>2. /\ inbox' = [inbox EXCEPT ![l] = Tail(q)] /\ listener'.to = Head(q).to
            /\ ended' = "no user" => Head(q).to \notin known
        BY <2>1, <2>4, <3>2 DEF ListenRead, Base, Typed, ListenType, Hand
      <4>3. Head(q) = q[1] /\ 1 \in DOMAIN q /\ \A i \in DOMAIN Tail(q) : i + 1 \in DOMAIN q /\ Tail(q)[i] = q[i + 1]
        BY <4>1
      <4>4. ended' = "no user" => listener'.to \in Earlier
        BY <4>1, <4>2, <4>3
      <4>5. \A k \in Link : \A i \in DOMAIN inbox'[k] : inbox'[k][i].to \in known \cup Earlier
        <5>1. \A i \in DOMAIN Tail(q) : Tail(q)[i].to \in known \cup Earlier
          BY <4>1, <4>3
        <5>2. \A k \in Link : inbox'[k] = IF k = l THEN Tail(q) ELSE inbox[k]
          BY <4>2 DEF Base, Typed, LinkType
        <5> QED BY <5>1, <5>2 DEF PushKnown
      <4> QED BY <1>1, <4>4, <4>5 DEF PushKnown, PushFindsUser
    <3>3. CASE inbox[listener.fd] = <<>>
      <4>1. inbox' = inbox /\ ended' = "no"
        BY <2>1, <2>4, <3>3 DEF ListenRead
      <4> QED BY <2>2, <4>1
    <3> QED BY <3>2, <3>3
  <2>5. CASE \/ \E c \in Client : Announces(c) \/ Enqueue(c)
             \/ Processor \/ Keeping \/ PrimaryDies
             \/ ListenLoop \/ ListenClear \/ PickSpot \/ WriteSpot
    <3>1. inbox' = inbox
      BY <2>5 DEF Announces, AnnounceLogin, AnnounceLogout, Announce, Enqueue, Processor, TakeMessage,
         SendMessage, Keeping, Keeper, KeepLoop, ConnectToLeader, KeepSet, KeepDial, KeepBroken, KeepClear,
         PrimaryDies, ListenLoop, ListenClear, PickSpot, WriteSpot, linkVars
    <3>2. ended' # "no user"
      BY <2>1, <2>5 DEF Announces, AnnounceLogin, AnnounceLogout, Announce, SendServer, SendLost, SendFails,
         Enqueue, Processor, TakeMessage, SendMessage, Keeping, Keeper, KeepLoop, ConnectToLeader, KeepSet,
         KeepDial, KeepBroken, KeepClear, PrimaryDies, ListenLoop, ListenClear, PickSpot, WriteSpot, WriteClient
    <3> QED BY <2>2, <3>1, <3>2
  <2>6. ASSUME NEW c \in Client, ClientSteps(c) PROVE PushKnown'
    <3>1. inbox' = inbox
      BY <2>6, ClientFrame DEF linkVars
    <3>2. ended' # "no user"
      BY <2>1, <2>6 DEF ClientSteps, Connect, Write, Close, NoLogin, FindUser, LoginUser, Answer, WriteClient,
         ReadClient, Leave
    <3> QED BY <2>2, <3>1, <3>2
  <2> QED BY <1>3, <2>3, <2>4, <2>5, <2>6, NextIs DEF Listener
<1> QED BY <1>2, <1>3

(***************************************************************************)
(* listen_server_connection meets the NULL of hash_find (line 212) for a   *)
(* user of an earlier front end only: any other user that the primary      *)
(* pushes to has been announced by a thread that found or inserted it.     *)
(***************************************************************************)
THEOREM PushesFindUsers == Spec => []PushFindsUser
<1>1. Init => Base /\ KnownInv /\ PushKnown
    BY BaseInit, KnownInit
<1>2. Base /\ KnownInv /\ PushKnown /\ [Next]_vars => (Base /\ KnownInv /\ PushKnown)'
    BY BaseNext, KnownNext, PushFindsNext
<1>3. PushKnown => PushFindsUser
    BY DEF PushKnown
<1> QED BY <1>1, <1>2, <1>3, PTL DEF Spec

-----------------------------------------------------------------------------
(* The order of what is pushed to the clients.                              *)

\* Nobody gets a spot once he is admitted: whom the listener has left behind
\* is not met again.
LEMMA SpotSteps ==
    ASSUME Base, [Next]_vars, NEW u \in User, NEW j \in Spot
    PROVE  \/ spots'[u][j] = spots[u][j] \/ spots'[u][j] = None
           \/ spots'[u][j] \in Client /\ ~Admitted(spots'[u][j])
<1> USE DEF Base, SessionInv, TableType
<1>1. CASE spots' = spots
    BY <1>1
<1>2. CASE \E c \in Client : LoginUser(c)
  <2> PICK c \in Client : LoginUser(c)
    BY <1>2
  <2>1. ~Admitted(c) /\ name[c] \in User
    BY Admissions DEF LoginUser, LoginInv
  <2>2. spots'[u][j] \in {spots[u][j], None, c}
    BY <2>1 DEF LoginUser, NewUser, NewSession, Refuse, tableVars, FreeSpots
  <2> QED BY <2>1, <2>2
<1>3. CASE \E c \in Client : Leave(c)
  <2> PICK c \in Client : Leave(c)
    BY <1>3
  <2>1. name[c] \in User
    BY DEF Leave, LoginInv
  <2> QED BY <2>1 DEF Leave
<1>4. CASE ~(spots' = spots) /\ ~(\E c \in Client : LoginUser(c) \/ Leave(c))
  <2>1. ASSUME NEW c \in Client, ClientSteps(c) \/ Announces(c) \/ Enqueue(c), ~LoginUser(c), ~Leave(c)
        PROVE  spots' = spots
    BY <2>1 DEF ClientSteps, Connect, Write, Close, NoLogin, FindUser, Answer, ReadClient, Announces,
       AnnounceLogin, AnnounceLogout, Announce, Enqueue, tableVars
  <2>2. CASE Processor \/ Keeping \/ Listener \/ PrimaryDies \/ UNCHANGED vars \/ \E v \in User : Push(v)
    BY <2>2 DEF Processor, TakeMessage, SendMessage, Keeping, Keeper, KeepLoop, ConnectToLeader, KeepSet,
       KeepDial, KeepBroken, KeepClear, Listener, ListenLoop, ListenRead, ListenClear, PickSpot,
       WriteSpot, PrimaryDies, Push, vars, tableVars
  <2> QED BY <1>4, <2>1, <2>2, NextIs
<1> QED BY <1>1, <1>2, <1>3, <1>4

\* What the listener looks for: its message is older than what it can read.
LEMMA FloorRises ==
    ASSUME Base, Base', InboxInv, UNCHANGED <<inbox, got, pushes>>, cur' >= cur, Floor' >= Floor,
           Passing' => Passing /\ listener'.fd = listener.fd /\ listener'.msg = listener.msg
    PROVE  InboxInv'
<1>1. cur \in Nat /\ cur' \in Nat /\ Floor \in Nat /\ Floor' \in Nat
  <2>1. Link \cup {0} \subseteq Nat
    BY Constants
  <2>2. cur \in Nat /\ cur' \in Nat /\ listener.fd \in Nat /\ listener'.fd \in Nat
    BY <2>1 DEF Base, Typed, LinkType, ListenType, Hand
  <2> QED BY <2>2 DEF Floor
<1> SUFFICES ASSUME NEW l \in Link, NEW i \in DOMAIN inbox[l]
             PROVE  /\ inbox[l][i].id <= pushes /\ l <= cur'
                    /\ \A k \in Link : \A j \in DOMAIN inbox[k] :
                          k < l \/ (k = l /\ j < i) => inbox[k][j].id < inbox[l][i].id
                    /\ l >= Floor' => \A c \in Client : \A j \in DOMAIN got[c] : got[c][j] < inbox[l][i].id
                    /\ Passing' /\ l >= listener'.fd => listener'.msg < inbox[l][i].id
    BY DEF InboxInv
<1>2. l \in Nat
    BY Constants
<1>3. /\ inbox[l][i].id <= pushes /\ l <= cur
      /\ \A k \in Link : \A j \in DOMAIN inbox[k] :
            k < l \/ (k = l /\ j < i) => inbox[k][j].id < inbox[l][i].id
      /\ l >= Floor => \A c \in Client : \A j \in DOMAIN got[c] : got[c][j] < inbox[l][i].id
      /\ Passing /\ l >= listener.fd => listener.msg < inbox[l][i].id
    BY DEF InboxInv
<1>4. l >= Floor' => l >= Floor
    BY <1>1, <1>2
<1>5. l <= cur'
    BY <1>1, <1>2, <1>3
<1> QED BY <1>3, <1>4, <1>5

\* What was received stays so.
LEMMA GotStays ==
    ASSUME Base, [Next]_vars, GotInv, UNCHANGED <<got, pushes>>,
           Passing' => Passing /\ listener'.msg = listener.msg
    PROVE  GotInv'
<1>1. \A c \in Client : Admitted(c) => Admitted(c)'
    BY Admissions
<1>2. \A c \in Client : got'[c] # <<>> => Admitted(c)'
    BY <1>1 DEF GotInv
<1> QED BY <1>2 DEF GotInv

\* The listener and what was received unchanged: the same clients are ahead.
LEMMA PassStays ==
    ASSUME Base, [Next]_vars, GotInv, PassInv, UNCHANGED <<got, listener>>
    PROVE  PassInv'
<1>1. CASE ~Passing
    BY <1>1 DEF Passing, PassInv
<1>2. CASE Passing
  <2>1. listener.to \in User /\ listener.spot \in Nat
    BY <1>2, Constants DEF Base, HandInv, Typed, ListenType, Hand
  <2>2. \A c \in Client : Had(c)' = Had(c) /\ (Had(c) => Admitted(c))
    BY DEF Had, GotInv
  <2>3. ASSUME NEW c \in Client, Admitted(c), NEW i \in Nat, ~Ahead(c, i) PROVE ~Ahead(c, i)'
    <3> SUFFICES ASSUME NEW j \in Spot, j >= i, spots'[listener.to][j] = c PROVE FALSE
      BY DEF Ahead
    <3>1. spots[listener.to][j] # c
      BY <2>3 DEF Ahead
    <3> QED BY <2>1, <2>3, <3>1, SpotSteps, Constants
  <2>4. CASE listener.pc = "pick"
    <3>1. \A c \in Client : Had(c)' => ~Ahead(c, listener.spot)'
      BY <2>1, <2>2, <2>3, <2>4 DEF PassInv
    <3> QED BY <2>4, <3>1 DEF PassInv, Ahead
  <2>5. CASE listener.pc = "write"
    <3> PICK s, n : s = listener.sock /\ n = listener.spot + 1
      OBVIOUS
    <3>1. s \in Client /\ n \in Nat
      BY <2>1, <2>5 DEF Base, HandInv
    <3>2. Admitted(s) /\ name[s] = listener.to /\ ~Had(s) /\ ~Ahead(s, n)
      BY <2>5 DEF PassInv
    <3>3. Admitted(s)' /\ name'[s] = listener.to /\ ~Had(s)' /\ ~Ahead(s, n)'
      BY <2>2, <2>3, <3>1, <3>2, Admissions DEF Admitted
    <3>4. \A c \in Client : Had(c)' => ~Ahead(c, n)'
      BY <2>2, <2>3, <2>5, <3>1 DEF PassInv
    <3> QED BY <2>5, <3>3, <3>4 DEF PassInv, Ahead, Had, Admitted
  <2> QED BY <1>2, <2>4, <2>5 DEF Passing
<1> QED BY <1>1, <1>2

LEMMA PushStill ==
    ASSUME Base, Base', [Next]_vars, PushInv,
           UNCHANGED <<got, listener, inbox, pushes>>, cur' \in {cur, cur + 1}
    PROVE  PushInv'
<1>1. cur' >= cur /\ Floor' >= Floor
  <2>1. cur \in Nat /\ listener.fd \in Nat
    BY Constants DEF Base, Typed, LinkType, ListenType, Hand
  <2> QED BY <2>1 DEF Floor, Listening
<1>2. InboxInv'
    BY <1>1, FloorRises DEF PushInv, Passing
<1>3. GotInv'
    BY GotStays DEF PushInv, Passing
<1> QED BY <1>2, <1>3, PassStays DEF PushInv

\* A push: the newest identifier, on the newest link.
LEMMA PushNewest ==
    ASSUME Base, Base', [Next]_vars, PushInv, NEW u \in User, Push(u)
    PROVE  PushInv'
<1>1. PassInv'
    BY PassStays DEF PushInv, Push, listenVars
<1>2. /\ cur \in Link /\ cur \in Nat /\ pushes \in Nat /\ pushes' = pushes + 1
      /\ UNCHANGED <<listener, got, cur, thread>>
  <2>1. cur \in Link
    BY DEF Push, Base, Typed, LinkType
  <2> QED BY <2>1, Constants DEF Push, listenVars, clientVars, Base, Typed, LinkType
<1>3. GotInv'
  <2>1. \A c \in Client : \A i \in DOMAIN got[c] : got[c][i] \in Nat
    BY DEF Base, Typed, ListenType
  <2>2. listener.msg \in Nat
    BY DEF Base, Typed, ListenType, Hand
  <2> QED BY <1>2, <2>1, <2>2 DEF GotInv, PushInv, Passing, Admitted
<1>4. InboxInv'
  <2> PICK q : q = inbox[cur]
    OBVIOUS
  <2> PICK new : new = [id |-> pushes + 1, to |-> u]
    OBVIOUS
  <2> DEFINE Item == [id : Nat, to : User]
  <2>0. \A l \in Link : inbox[l] \in Seq(Item)
    BY DEF Base, Typed, LinkType
  <2>a. new \in Item /\ new.id = pushes + 1 /\ \A x \in Item : x.id \in Nat
    BY <1>2
  <2> HIDE DEF Item
  <2>1. q \in Seq(Item) /\ new \in Item
    BY <1>2, <2>0, <2>a
  <2>2. inbox'[cur] = Append(q, new) /\ \A l \in Link : l # cur => inbox'[l] = inbox[l]
    BY <1>2 DEF Push, Base, Typed, LinkType
  <2>3. Len(q) \in Nat /\ DOMAIN Append(q, new) = 1 .. Len(q) + 1 /\ DOMAIN q = 1 .. Len(q)
        /\ Append(q, new)[Len(q) + 1] = new /\ \A i \in 1 .. Len(q) : Append(q, new)[i] = q[i]
    BY <2>1
  <2> DEFINE New(l, i) == l = cur /\ i = Len(q) + 1
  <2>4. ASSUME NEW l \in Link, NEW i \in DOMAIN inbox'[l]
        PROVE  /\ i \in Nat
               /\ ~New(l, i) => i \in DOMAIN inbox[l] /\ inbox'[l][i] = inbox[l][i] /\ inbox[l][i].id \in Nat
               /\ New(l, i) => inbox'[l][i].id = pushes + 1
    <3>1. CASE l = cur
      <4>1. i \in 1 .. Len(q) + 1 /\ inbox[l] = q
        BY <2>2, <2>3, <2>4, <3>1
      <4>2. CASE i = Len(q) + 1
        BY <2>a, <2>2, <2>3, <3>1, <4>2
      <4>3. CASE i \in 1 .. Len(q)
        <5>1. q[i] \in Item /\ i \in Nat /\ i # Len(q) + 1
          BY <2>1, <2>3, <4>3
        <5>2. inbox'[l][i] = q[i]
          BY <2>2, <2>3, <3>1, <4>3
        <5> QED BY <2>a, <2>3, <4>1, <4>3, <5>1, <5>2
      <4> QED BY <2>3, <4>1, <4>2, <4>3
    <3>2. CASE l # cur
      <4>1. inbox[l] \in Seq(Item) /\ inbox'[l] = inbox[l] /\ i \in DOMAIN inbox[l]
        BY <2>0, <2>2, <2>4, <3>2
      <4>2. inbox[l][i] \in Item /\ i \in Nat
        BY <4>1
      <4> QED BY <2>a, <3>2, <4>1, <4>2
    <3> QED BY <3>1, <3>2
  <2>5. ASSUME NEW l \in Link, NEW i \in DOMAIN inbox[l] PROVE inbox[l][i].id <= pushes /\ l <= cur
    BY DEF PushInv, InboxInv
  <2> SUFFICES ASSUME NEW l \in Link, NEW i \in DOMAIN inbox'[l]
               PROVE  /\ inbox'[l][i].id <= pushes + 1 /\ l <= cur
                      /\ \A k \in Link : \A j \in DOMAIN inbox'[k] :
                            k < l \/ (k = l /\ j < i) => inbox'[k][j].id < inbox'[l][i].id
                      /\ l >= Floor => \A c \in Client : \A j \in DOMAIN got[c] : got[c][j] < inbox'[l][i].id
                      /\ Passing /\ l >= listener.fd => listener.msg < inbox'[l][i].id
    BY <1>2 DEF InboxInv, Floor, Listening, Passing
  <2> HIDE DEF New
  <2>6. CASE New(l, i)
    <3>1. inbox'[l][i].id = pushes + 1 /\ l = cur /\ i = Len(q) + 1
      BY <2>4, <2>6 DEF New
    <3>2. ASSUME NEW k \in Link, NEW j \in DOMAIN inbox'[k], k < l \/ (k = l /\ j < i)
          PROVE  inbox'[k][j].id < pushes + 1
      <4>1. ~New(k, j)
        BY <1>2, <2>3, <3>1, <3>2 DEF New
      <4> QED BY <1>2, <2>4, <2>5, <4>1
    <3>3. \A c \in Client : \A j \in DOMAIN got[c] : got[c][j] \in Nat /\ got[c][j] <= pushes
      BY DEF PushInv, GotInv, Base, Typed, ListenType
    <3>4. Passing => listener.msg \in Nat /\ listener.msg <= pushes
      BY DEF PushInv, GotInv, Base, Typed, ListenType, Hand
    <3> QED BY <1>2, <3>1, <3>2, <3>3, <3>4
  <2>7. CASE ~New(l, i)
    <3>1. i \in DOMAIN inbox[l] /\ inbox'[l][i] = inbox[l][i] /\ inbox[l][i].id \in Nat
      BY <2>4, <2>7
    <3>2. inbox[l][i].id <= pushes /\ l <= cur
      BY <2>5, <3>1
    <3>3. ASSUME NEW k \in Link, NEW j \in DOMAIN inbox'[k], k < l \/ (k = l /\ j < i)
          PROVE  inbox'[k][j].id < inbox'[l][i].id
      <4>1. ~New(k, j)
        <5>1. k = cur => l = cur
          BY <1>2, <3>2, <3>3, Constants
        <5>2. l = cur => i \in 1 .. Len(q)
          BY <2>3, <3>1
        <5> QED BY <2>3, <3>3, <5>1, <5>2, Constants DEF New
      <4>2. j \in DOMAIN inbox[k] /\ inbox'[k][j] = inbox[k][j]
        BY <2>4, <4>1
      <4> QED BY <3>1, <3>3, <4>2 DEF PushInv, InboxInv
    <3>4. l >= Floor => \A c \in Client : \A j \in DOMAIN got[c] : got[c][j] < inbox[l][i].id
      BY <3>1 DEF PushInv, InboxInv
    <3>5. Passing /\ l >= listener.fd => listener.msg < inbox[l][i].id
      BY <3>1 DEF PushInv, InboxInv
    <3> QED BY <1>2, <3>1, <3>2, <3>3, <3>4, <3>5
  <2> QED BY <2>6, <2>7
<1> QED BY <1>1, <1>3, <1>4 DEF PushInv

\* The listener starts to read on the newest link, or goes back to wait.
LEMMA PushWaits ==
    ASSUME Base, Base', [Next]_vars, PushInv, UNCHANGED <<got, inbox, pushes, cur>>,
           listener'.pc \in {"loop", "read", "eof"}, listener'.pc = "read" => listener'.fd = cur
    PROVE  PushInv'
<1>1. cur' >= cur /\ Floor' >= Floor
  <2>1. cur \in Nat /\ listener.fd \in Nat /\ (Listening => listener.fd <= cur)
    BY Constants DEF Base, Typed, LinkType, ListenType, Hand, HandInv
  <2> QED BY <2>1 DEF Floor, Listening
<1>2. ~Passing'
    BY DEF Passing
<1>3. InboxInv' /\ GotInv'
    BY <1>1, <1>2, FloorRises, GotStays DEF PushInv
<1> QED BY <1>3 DEF PushInv, PassInv

\* The listener takes the first message of its link.
LEMMA PushTaken ==
    ASSUME Base, Base', [Next]_vars, PushInv, ListenRead, inbox[listener.fd] # <<>>
    PROVE  PushInv'
<1> DEFINE Item == [id : Nat, to : User]
<1> PICK l : l = listener.fd
    OBVIOUS
<1> PICK q : q = inbox[l]
    OBVIOUS
<1>1. /\ listener.pc = "read" /\ l \in Link /\ l \in Nat /\ cur \in Nat /\ l <= cur
      /\ UNCHANGED <<got, pushes, cur, thread>>
  <2>1. listener.pc = "read"
    BY DEF ListenRead
  <2>2. l \in 1 .. cur /\ cur \in Link \cup {0}
    BY <2>1 DEF Base, HandInv, Listening, Typed, LinkType
  <2>3. l \in Link /\ l \in Nat /\ cur \in Nat /\ l <= cur
    BY <2>2, LinkBelow, Constants
  <2> QED BY <2>1, <2>3 DEF ListenRead, clientVars
<1>2. q \in Seq(Item) /\ q # <<>>
  <2>1. \A k \in Link : inbox[k] \in Seq(Item)
    BY DEF Base, Typed, LinkType
  <2> HIDE DEF Item
  <2> QED BY <1>1, <2>1
<1>3. /\ inbox' = [inbox EXCEPT ![l] = Tail(q)]
      /\ listener'.pc = "pick" /\ listener'.fd = l /\ listener'.msg = Head(q).id
    BY DEF ListenRead, Base, Typed, ListenType, Hand
<1> HIDE DEF Item
<1>4. /\ Head(q) = q[1] /\ 1 \in DOMAIN q /\ DOMAIN q \subseteq Nat \ {0}
      /\ \A i \in DOMAIN Tail(q) : i \in Nat \ {0} /\ i + 1 \in DOMAIN q /\ Tail(q)[i] = q[i + 1]
    BY <1>2
<1>5. /\ inbox'[l] = Tail(q) /\ \A k \in Link : k # l => inbox'[k] = inbox[k]
    BY <1>1, <1>3 DEF Base, Typed, LinkType
<1>6. Floor = l /\ Floor' = l /\ Passing' /\ ~Passing
    BY <1>1, <1>3 DEF Floor, Listening, Passing
<1>7. listener'.msg = inbox[l][1].id
    BY <1>3, <1>4
<1>8. \A k \in Link : \A i \in DOMAIN inbox[k] : inbox[k][i].id <= pushes /\ k <= cur
    BY DEF PushInv, InboxInv
<1>9. \A k, n \in Link : \A i \in DOMAIN inbox[k], j \in DOMAIN inbox[n] :
          k < n \/ (k = n /\ i < j) => inbox[k][i].id < inbox[n][j].id
    BY DEF PushInv, InboxInv
<1>10. \A c \in Client : \A j \in DOMAIN got[c] : got[c][j] < listener'.msg
    BY <1>1, <1>4, <1>6, <1>7 DEF PushInv, InboxInv
<1>11. InboxInv'
  <2> DEFINE Was(k, i) == IF k = l THEN i + 1 ELSE i
  <2>1. ASSUME NEW k \in Link, NEW i \in DOMAIN inbox'[k]
        PROVE  /\ Was(k, i) \in DOMAIN inbox[k] /\ inbox'[k][i] = inbox[k][Was(k, i)]
              /\ (k = l => i \in Nat \ {0})
    BY <1>4, <1>5, <2>1
  <2>2. ASSUME NEW k \in Link, NEW i \in DOMAIN inbox'[k]
        PROVE  inbox'[k][i].id <= pushes /\ k <= cur
    BY <1>8, <2>1, <2>2
  <2>3. ASSUME NEW k \in Link, NEW n \in Link, NEW i \in DOMAIN inbox'[k], NEW j \in DOMAIN inbox'[n],
               k < n \/ (k = n /\ i < j)
        PROVE  inbox'[k][i].id < inbox'[n][j].id
    <3>1. k = n /\ i < j => Was(k, i) < Was(n, j)
      BY <2>1
    <3>2. k < n \/ (k = n /\ Was(k, i) < Was(n, j))
      BY <2>3, <3>1
    <3>3. inbox[k][Was(k, i)].id < inbox[n][Was(n, j)].id
      BY <1>9, <2>1, <3>2
    <3> QED BY <2>1, <3>3
  <2>4. ASSUME NEW k \in Link, NEW i \in DOMAIN inbox'[k], k >= l
        PROVE  \A c \in Client : \A j \in DOMAIN got[c] : got[c][j] < inbox'[k][i].id
    BY <1>6, <2>1, <2>4 DEF PushInv, InboxInv
  <2>5. ASSUME NEW k \in Link, NEW i \in DOMAIN inbox'[k], k >= l
        PROVE  inbox[l][1].id < inbox'[k][i].id
    <3>1. k = l => 1 < Was(k, i)
      BY <2>1
    <3>2. l < k \/ (l = k /\ 1 < Was(k, i))
      BY <1>1, <2>5, <3>1, Constants
    <3> QED BY <1>1, <1>4, <1>9, <2>1, <3>2
  <2> HIDE DEF Was
  <2>6. ASSUME NEW n \in Link, NEW j \in DOMAIN inbox'[n]
        PROVE  /\ inbox'[n][j].id <= pushes' /\ n <= cur'
               /\ \A k \in Link : \A i \in DOMAIN inbox'[k] :
                     k < n \/ (k = n /\ i < j) => inbox'[k][i].id < inbox'[n][j].id
               /\ n >= Floor' => \A c \in Client : \A i \in DOMAIN got'[c] : got'[c][i] < inbox'[n][j].id
               /\ Passing' /\ n >= listener'.fd => listener'.msg < inbox'[n][j].id
    BY <1>1, <1>3, <1>6, <1>7, <2>2, <2>3, <2>4, <2>5, <2>6
  <2> QED BY <2>6 DEF InboxInv
<1>12. GotInv'
  <2>1. listener'.msg <= pushes
    BY <1>1, <1>4, <1>7, <1>8
  <2>2. \A c \in Client : \A j \in DOMAIN got[c] : got[c][j] <= listener'.msg
    <3>1. \A c \in Client : \A j \in DOMAIN got[c] : got[c][j] \in Nat
      BY DEF Base, Typed, ListenType
    <3>2. listener'.msg \in Nat
      BY DEF Base, Typed, ListenType, Hand
    <3> QED BY <1>10, <3>1, <3>2
  <2> QED BY <1>1, <2>1, <2>2 DEF PushInv, GotInv, Admitted
<1>13. PassInv'
  <2>1. \A c \in Client : ~Had(c)'
    BY <1>1, <1>10 DEF Had, Base, Typed, ListenType
  <2> QED BY <1>3, <2>1 DEF PassInv
<1> QED BY <1>11, <1>12, <1>13 DEF PushInv

\* After a spot: the next one, behind which nobody is whom the message met.
LEMMA PushNextSpot ==
    ASSUME Base, Base', [Next]_vars, PushInv, Passing, listener' = NextSpot,
           UNCHANGED <<inbox, pushes, cur, name, spots>>,
           \A c \in Client : Admitted(c)' = Admitted(c),
           got' = got \/ (listener.pc = "write" /\ got' = [got EXCEPT ![listener.sock] = Append(@, listener.msg)]),
           listener.pc = "write" \/ spots[listener.to][listener.spot] = None
    PROVE  PushInv'
<1> PICK s, m, n : s = listener.sock /\ m = listener.msg /\ n = listener.spot
    OBVIOUS
<1>1. /\ m \in Nat /\ n \in Nat /\ cur \in Nat /\ listener.fd \in Nat /\ listener.fd <= cur
      /\ Floor = listener.fd /\ listener.to \in User /\ m <= pushes
      /\ listener.pc = "write" => s \in Client
  <2>1. listener.fd \in 1 .. cur
    BY DEF Base, HandInv, Passing, Listening
  <2>2. listener.fd \in Nat /\ cur \in Nat /\ m \in Nat /\ n \in Nat
    BY Constants DEF Base, Typed, LinkType, ListenType, Hand
  <2>3. listener.to \in User /\ (listener.pc = "write" => s \in Client)
    BY DEF Base, HandInv, Passing
  <2>4. m <= pushes /\ Floor = listener.fd
    BY DEF Passing, Listening, Floor, PushInv, GotInv
  <2> QED BY <2>1, <2>2, <2>3, <2>4
<1>2. \/ listener'.pc = "loop"
      \/ /\ listener'.pc = "pick" /\ listener'.fd = listener.fd /\ listener'.msg = m
         /\ listener'.to = listener.to /\ listener'.spot = n + 1
    BY NextSpotIs DEF Base, Typed, ListenType, Hand
<1>3. /\ Floor' \in Nat /\ Floor' >= Floor
      /\ Passing' => Passing /\ listener'.fd = listener.fd /\ listener'.msg = m
    BY <1>1, <1>2 DEF Floor, Listening, Passing
\* Who receives it has nothing newer.
<1>4. \A c \in Client : /\ \A i \in DOMAIN got[c] : got[c][i] \in Nat /\ got[c][i] <= m /\ got[c][i] <= pushes
                        /\ \A i, j \in DOMAIN got[c] : i < j => got[c][i] < got[c][j]
                        /\ got[c] \in Seq(Nat)
    BY DEF PushInv, GotInv, Base, Typed, ListenType
<1>5. listener.pc = "write" => \A i \in DOMAIN got[s] : got[s][i] < m
  <2>1. listener.pc = "write" => ~Had(s)
    BY DEF PushInv, PassInv
  <2> QED BY <1>1, <1>4, <2>1 DEF Had
<1>6. ASSUME NEW c \in Client, NEW i \in DOMAIN got'[c]
      PROVE  \/ i \in DOMAIN got[c] /\ got'[c][i] = got[c][i]
             \/ listener.pc = "write" /\ c = s /\ got'[c][i] = m /\ i = Len(got[c]) + 1
  <2>1. CASE got'[c] = got[c]
    BY <1>6, <2>1
  <2>2. CASE listener.pc = "write" /\ got' = [got EXCEPT ![s] = Append(@, m)] /\ c = s
    <3> PICK g : g = got[c]
      OBVIOUS
    <3>1. g \in Seq(Nat) /\ got'[c] = Append(g, m)
      BY <1>4, <2>2 DEF Base, Typed, ListenType
    <3> QED BY <1>1, <1>6, <2>2, <3>1
  <2> QED BY <2>1, <2>2 DEF Base, Typed, ListenType
<1>7. \A c \in Client : /\ \A i \in DOMAIN got'[c] : got'[c][i] <= m /\ got'[c][i] <= pushes
                        /\ \A i, j \in DOMAIN got'[c] : i < j => got'[c][i] < got'[c][j]
  <2> SUFFICES ASSUME NEW c \in Client
               PROVE  /\ \A i \in DOMAIN got'[c] : got'[c][i] <= m /\ got'[c][i] <= pushes
                      /\ \A i, j \in DOMAIN got'[c] : i < j => got'[c][i] < got'[c][j]
    OBVIOUS
  <2>1. ASSUME NEW i \in DOMAIN got'[c] PROVE got'[c][i] <= m /\ got'[c][i] <= pushes
    <3>1. CASE i \in DOMAIN got[c] /\ got'[c][i] = got[c][i]
      BY <1>4, <3>1
    <3>2. CASE got'[c][i] = m
      BY <1>1, <3>2
    <3> QED BY <1>6, <3>1, <3>2
  <2>2. ASSUME NEW i \in DOMAIN got'[c], NEW j \in DOMAIN got'[c], i < j PROVE got'[c][i] < got'[c][j]
    <3>1. Len(got[c]) \in Nat /\ DOMAIN got[c] = 1 .. Len(got[c])
      BY <1>4
    <3> QED BY <1>4, <1>5, <1>6, <2>2, <3>1
  <2> QED BY <2>1, <2>2
<1>8. \A c \in Client : Had(c)' /\ Passing' => Had(c) \/ (listener.pc = "write" /\ c = s)
    BY <1>3, <1>6 DEF Had
<1>9. GotInv'
  <2>1. \A c \in Client : got'[c] # <<>> => Admitted(c)'
    <3> SUFFICES ASSUME NEW c \in Client, got'[c] # <<>> PROVE Admitted(c)
      OBVIOUS
    <3>1. CASE got[c] # <<>>
      BY <3>1 DEF PushInv, GotInv
    <3>2. CASE got[c] = <<>>
      <4>1. listener.pc = "write" /\ c = s
        BY <3>2 DEF Base, Typed, ListenType
      <4> QED BY <4>1 DEF PushInv, PassInv
    <3> QED BY <3>1, <3>2
  <2> QED BY <1>1, <1>3, <1>7, <2>1 DEF GotInv
<1>10. InboxInv'
  <2> SUFFICES ASSUME NEW l \in Link, NEW i \in DOMAIN inbox[l]
               PROVE  /\ inbox[l][i].id <= pushes /\ l <= cur
                      /\ \A k \in Link : \A j \in DOMAIN inbox[k] :
                            k < l \/ (k = l /\ j < i) => inbox[k][j].id < inbox[l][i].id
                      /\ l >= Floor' => \A c \in Client : \A j \in DOMAIN got'[c] : got'[c][j] < inbox[l][i].id
                      /\ Passing' /\ l >= listener'.fd => listener'.msg < inbox[l][i].id
    BY DEF InboxInv
  <2>1. /\ inbox[l][i].id <= pushes /\ l <= cur
        /\ \A k \in Link : \A j \in DOMAIN inbox[k] :
              k < l \/ (k = l /\ j < i) => inbox[k][j].id < inbox[l][i].id
        /\ l >= Floor => \A c \in Client : \A j \in DOMAIN got[c] : got[c][j] < inbox[l][i].id
        /\ l >= listener.fd => m < inbox[l][i].id
    BY DEF PushInv, InboxInv
  <2>2. l \in Nat
    BY Constants
  <2>3. l >= Floor' => l >= Floor /\ l >= listener.fd
    BY <1>1, <1>3, <2>2
  <2>4. l >= Floor' => \A c \in Client : \A j \in DOMAIN got'[c] : got'[c][j] < inbox[l][i].id
    BY <1>6, <2>1, <2>3
  <2> QED BY <1>3, <2>1, <2>4
<1>11. PassInv'
  <2>1. CASE listener'.pc = "loop"
    BY <2>1 DEF PassInv
  <2>2. CASE listener'.pc = "pick"
    <3>1. listener'.to = listener.to /\ listener'.spot = n + 1 /\ Passing'
      BY <1>2, <2>2 DEF Passing
    <3>2. ASSUME NEW c \in Client, Had(c) \/ (listener.pc = "write" /\ c = s) PROVE ~Ahead(c, n + 1)
      <4>1. CASE listener.pc = "write"
        BY <3>2, <4>1 DEF PushInv, PassInv
      <4>2. CASE listener.pc # "write"
        <5>1. listener.pc = "pick" /\ Had(c) /\ ~Ahead(c, n)
          BY <3>2, <4>2 DEF PushInv, PassInv, Passing
        <5> QED BY <1>1, <5>1, Constants DEF Ahead
      <4> QED BY <4>1, <4>2
    <3>3. \A c \in Client : Had(c)' => ~Ahead(c, n + 1)
      BY <1>8, <3>1, <3>2
    <3> QED BY <2>2, <3>1, <3>3 DEF PassInv, Ahead
  <2> QED BY <1>2, <2>1, <2>2
<1> QED BY <1>9, <1>10, <1>11 DEF PushInv

\* A connection is found in a spot: it is the only one, and in it for its user.
LEMMA PushPicked ==
    ASSUME Base, Base', [Next]_vars, PushInv, PickSpot, spots[listener.to][listener.spot] # None
    PROVE  PushInv'
<1> PICK s, n, u : s = spots[listener.to][listener.spot] /\ n = listener.spot /\ u = listener.to
    OBVIOUS
<1>1. /\ listener.pc = "pick" /\ u \in User /\ n \in Spot /\ n \in Nat /\ s \in Client
      /\ spots[u][n] = s /\ s # None
  <2>1. listener.pc = "pick"
    BY DEF PickSpot
  <2>2. u \in User /\ n \in Spot
    BY <2>1 DEF Base, HandInv, Passing, Typed, ListenType, Hand
  <2> QED BY <2>1, <2>2, Constants DEF Base, SessionInv, TableType
<1>2. listener' = [listener EXCEPT !.pc = "write", !.sock = s]
    BY DEF PickSpot
<1>3. /\ listener'.pc = "write" /\ listener'.sock = s /\ listener'.fd = listener.fd
      /\ listener'.msg = listener.msg /\ listener'.to = u /\ listener'.spot = n
    BY <1>2 DEF Base, Typed, ListenType, Hand
<1>4. UNCHANGED <<got, inbox, pushes, cur, thread, name, spots>>
    BY DEF PickSpot, tableVars, clientVars, linkVars
<1>5. Passing /\ Passing' /\ Floor' = Floor
    BY <1>1, <1>3, <1>4 DEF Passing, Floor, Listening
<1>6. InboxInv' /\ GotInv'
  <2>1. cur' >= cur /\ Floor' >= Floor
    BY <1>4, <1>5, Constants DEF Base, Typed, LinkType, ListenType, Hand, Floor
  <2> QED BY <1>3, <1>4, <1>5, <2>1, FloorRises, GotStays DEF PushInv
<1>7. Seated(s) /\ name[s] = u /\ \A j \in Spot : spots[u][j] = s => j = n
    BY <1>1 DEF Base, SessionInv, SessionTable, NobodyElse
<1>8. \A c \in Client : Had(c)' = Had(c) /\ (Had(c) => ~Ahead(c, n))
    BY <1>1, <1>3, <1>4 DEF Had, PushInv, PassInv
<1>9. Ahead(s, n)
    BY <1>1 DEF Ahead
<1>10. \A c \in Client : (c = s \/ Had(c)) => ~Ahead(c, n + 1)'
  <2> SUFFICES ASSUME NEW c \in Client, c = s \/ Had(c), NEW j \in Spot, j >= n + 1, spots[u][j] = c PROVE FALSE
    BY <1>3, <1>4 DEF Ahead
  <2>1. j >= n /\ j # n
    BY <1>1, Constants
  <2>2. Ahead(c, n)
    BY <2>1 DEF Ahead
  <2> QED BY <1>7, <1>8, <2>1, <2>2
<1>11. Admitted(s)' /\ name'[s] = u /\ ~Had(s)'
    BY <1>1, <1>4, <1>7, <1>8, <1>9 DEF Seated, Admitted
<1>12. ~Ahead(s, n + 1)' /\ \A c \in Client : Had(c)' => ~Ahead(c, n + 1)'
    BY <1>1, <1>8, <1>10
<1>13. PassInv'
    BY <1>3, <1>11, <1>12 DEF PassInv, Ahead, Admitted, Had
<1> QED BY <1>6, <1>13 DEF PushInv

LEMMA PushListens ==
    ASSUME Base, Base', [Next]_vars, PushInv, Listener
    PROVE  PushInv'
<1>1. CASE ListenLoop \/ ListenClear
  <2>1. UNCHANGED <<got, inbox, pushes, cur>>
    BY <1>1 DEF ListenLoop, ListenClear, linkVars
  <2>2. listener'.pc \in {"loop", "read", "eof"} /\ (listener'.pc = "read" => listener'.fd = cur)
    BY <1>1 DEF ListenLoop, ListenClear, Base, Typed, ListenType, Hand
  <2> QED BY <2>1, <2>2, PushWaits
<1>2. CASE ListenRead
  <2>1. CASE inbox[listener.fd] # <<>>
    BY <1>2, <2>1, PushTaken
  <2>2. CASE inbox[listener.fd] = <<>>
    <3>1. UNCHANGED <<got, inbox, pushes, cur>>
      BY <1>2, <2>2 DEF ListenRead
    <3>2. listener'.pc \in {"loop", "eof"}
      BY <1>2, <2>2 DEF ListenRead, Base, Typed, ListenType, Hand
    <3> QED BY <3>1, <3>2, PushWaits
  <2> QED BY <2>1, <2>2
<1>3. CASE PickSpot
  <2>1. CASE spots[listener.to][listener.spot] # None
    BY <1>3, <2>1, PushPicked
  <2>2. CASE spots[listener.to][listener.spot] = None
    <3>1. Passing /\ listener' = NextSpot /\ UNCHANGED <<inbox, pushes, cur, name, spots, thread, got>>
      BY <1>3, <2>2 DEF PickSpot, tableVars, clientVars, linkVars, Passing
    <3>2. \A c \in Client : Admitted(c)' = Admitted(c)
      BY <3>1 DEF Admitted
    <3> QED BY <2>2, <3>1, <3>2, PushNextSpot
  <2> QED BY <2>1, <2>2
<1>4. CASE WriteSpot
  <2>1. Passing /\ listener.pc = "write" /\ listener' = NextSpot /\ UNCHANGED <<inbox, pushes, cur, name, spots, thread>>
    BY <1>4 DEF WriteSpot, tableVars, linkVars, Passing
  <2>2. got' = got \/ got' = [got EXCEPT ![listener.sock] = Append(@, listener.msg)]
    <3>1. WriteClient(listener.sock, got' = [got EXCEPT ![listener.sock] = Append(@, listener.msg)])
      BY <1>4, Zenon DEF WriteSpot
    <3> QED BY <3>1, Zenon DEF WriteClient
  <2>3. \A c \in Client : Admitted(c)' = Admitted(c)
    BY <2>1 DEF Admitted
  <2> QED BY <2>1, <2>2, <2>3, PushNextSpot
<1> QED BY <1>1, <1>2, <1>3, <1>4 DEF Listener

LEMMA PushInit == Init => PushInv
<1> SUFFICES ASSUME Init PROVE PushInv
    OBVIOUS
<1>1. \A l \in Link : inbox[l] = <<>>
    BY DEF Init
<1>2. \A c \in Client : got[c] = <<>>
    BY DEF Init
<1>3. listener.pc = "loop"
    BY DEF Init
<1> QED BY <1>1, <1>2, <1>3 DEF PushInv, InboxInv, GotInv, PassInv, Passing

LEMMA PushNext == Base /\ PushInv /\ [Next]_vars => PushInv'
<1> SUFFICES ASSUME Base, PushInv, [Next]_vars PROVE PushInv'
    OBVIOUS
<1>1. Base'
    BY BaseNext
<1>2. CASE Listener
    BY <1>1, <1>2, PushListens
<1>3. CASE \E u \in User : Push(u)
    BY <1>1, <1>3, PushNewest
<1>4. CASE \/ \E c \in Client : ClientSteps(c) \/ Announces(c) \/ Enqueue(c)
           \/ Processor \/ Keeping \/ PrimaryDies \/ UNCHANGED vars
  <2>1. UNCHANGED <<got, listener, inbox, pushes>> /\ cur' \in {cur, cur + 1}
    BY <1>4, ClientFrame
       DEF Announces, AnnounceLogin, AnnounceLogout, Announce, Enqueue, Processor, TakeMessage, SendMessage,
       Keeping, Keeper, KeepLoop, ConnectToLeader, KeepSet, KeepDial, KeepBroken, KeepClear, PrimaryDies, vars,
       linkVars, listenVars
  <2> QED BY <1>1, <2>1, PushStill
<1> QED BY <1>2, <1>3, <1>4, NextIs

(***************************************************************************)
(* What the listener writes goes to connections of the receiver, in the    *)
(* order of the primaries and to nobody twice, although it reads the spots *)
(* without user->mutex while threads log in and leave: a connection that   *)
(* takes a spot while a message is passed on has received nothing yet.     *)
(***************************************************************************)
THEOREM PushesKeepOrder == Spec => []PushesInOrder
<1>1. Init => Base /\ PushInv
    BY BaseInit, PushInit
<1>2. Base /\ PushInv /\ [Next]_vars => (Base /\ PushInv)'
    BY BaseNext, PushNext
<1>3. Base /\ PushInv => PushesInOrder
  <2> SUFFICES ASSUME Base, PushInv PROVE PushesInOrder
    OBVIOUS
  <2>1. listener.pc = "write" => name[listener.sock] = listener.to
    BY DEF PushInv, PassInv
  <2>2. \A c \in Client : \A i, j \in DOMAIN got[c] : i < j => got[c][i] < got[c][j]
    BY DEF PushInv, GotInv
  <2> QED BY <2>1, <2>2 DEF PushesInOrder
<1> QED BY <1>1, <1>2, <1>3, PTL DEF Spec

-----------------------------------------------------------------------------
(* The order of what the primaries receive.                                 *)

SentGrows(c)  == \A i, j \in Sent(c) : i < j => served[c][i][2] < served[c][j][2]
QueueGrows(c) == \A i, j \in Queued(c) : i < j => queue[i][2] < queue[j][2]

\* What was sent, after one message more.
LEMMA ServedMore ==
    ASSUME Base, NEW c \in Client, NEW m \in {"LOGIN", "LOGOUT", "MESSAGE"} \X Nat,
           served'[c] = Append(served[c], m)
    PROVE  /\ m[1] # "MESSAGE" => Numbers(c)' = Numbers(c)
           /\ m[1] = "MESSAGE" => Numbers(c)' = Numbers(c) \cup {m[2]}
           /\ SentGrows(c) /\ (m[1] = "MESSAGE" => \A k \in Numbers(c) : k < m[2]) => SentGrows(c)'
           /\ served'[c] # <<>> /\ served'[c][1] = IF served[c] = <<>> THEN m ELSE served[c][1]
<1> DEFINE Item == {"LOGIN", "LOGOUT", "MESSAGE"} \X Nat
<1> PICK s : s = served[c]
    OBVIOUS
<1> PICK t : t = served'[c]
    OBVIOUS
<1>1. s \in Seq(Item)
    BY DEF Base, Typed, QueueType
<1>2. \A x \in Item : x[2] \in Nat
    OBVIOUS
<1>a. m \in Item
    OBVIOUS
<1> HIDE DEF Item
<1>3. /\ Len(s) \in Nat /\ DOMAIN s = 1 .. Len(s) /\ DOMAIN t = 1 .. Len(s) + 1 /\ t # <<>>
      /\ t[Len(s) + 1] = m /\ \A i \in 1 .. Len(s) : t[i] = s[i] /\ s[i] \in Item
      /\ s = <<>> <=> Len(s) = 0
  <2>1. t = Append(s, m)
    OBVIOUS
  <2>2. /\ Len(s) \in Nat /\ DOMAIN s = 1 .. Len(s) /\ DOMAIN t = 1 .. Len(s) + 1
        /\ t[Len(s) + 1] = m /\ \A i \in 1 .. Len(s) : t[i] = s[i]
    BY <1>1, <1>a, <2>1, AppendProperties
  <2>3. t # <<>> /\ (s = <<>> <=> Len(s) = 0)
    BY <1>1, <1>a, <2>1, EmptySeq, AppendProperties
  <2> QED BY <1>1, <2>2, <2>3
<1>4. Sent(c) = {i \in DOMAIN s : s[i][1] = "MESSAGE"} /\ Sent(c)' = {i \in DOMAIN t : t[i][1] = "MESSAGE"}
    BY DEF Sent
<1>5. Sent(c)' = IF m[1] = "MESSAGE" THEN Sent(c) \cup {Len(s) + 1} ELSE Sent(c)
  <2>1. ASSUME NEW i PROVE i \in Sent(c)' <=> i \in Sent(c) \/ (m[1] = "MESSAGE" /\ i = Len(s) + 1)
    <3>1. CASE i \in 1 .. Len(s)
      BY <1>3, <1>4, <3>1
    <3>2. CASE i = Len(s) + 1
      BY <1>3, <1>4, <3>2
    <3>3. CASE i \notin 1 .. Len(s) + 1
      BY <1>3, <1>4, <3>3
    <3> QED BY <1>3, <3>1, <3>2, <3>3
  <2> QED BY <2>1
<1>6. \A i \in Sent(c) : i \in 1 .. Len(s) /\ t[i] = s[i]
    BY <1>3, <1>4
<1>7. Numbers(c) = {s[i][2] : i \in Sent(c)} /\ Numbers(c)' = {t[i][2] : i \in Sent(c)'}
    BY DEF Numbers
<1>8. m[1] # "MESSAGE" => Numbers(c)' = Numbers(c)
    BY <1>5, <1>6, <1>7
<1>9. m[1] = "MESSAGE" => Numbers(c)' = Numbers(c) \cup {m[2]}
    BY <1>3, <1>5, <1>6, <1>7
<1>10. ASSUME SentGrows(c), m[1] = "MESSAGE" => \A k \in Numbers(c) : k < m[2] PROVE SentGrows(c)'
  <2> SUFFICES ASSUME NEW i \in Sent(c)', NEW j \in Sent(c)', i < j PROVE t[i][2] < t[j][2]
    BY DEF SentGrows
  <2>1. i \in Sent(c) /\ t[i] = s[i]
    BY <1>3, <1>4, <1>5, <1>6
  <2>2. CASE j \in Sent(c)
    BY <1>6, <1>10, <2>1, <2>2 DEF SentGrows
  <2>3. CASE j \notin Sent(c)
    BY <1>3, <1>5, <1>7, <1>10, <2>1, <2>3
  <2> QED BY <2>2, <2>3
<1> QED BY <1>3, <1>8, <1>9, <1>10

\* What is left in the queue, after one message more.
LEMMA QueueMore ==
    ASSUME Base, NEW d \in Client, NEW n \in Nat, queue' = Append(queue, <<d, n>>), NEW c \in Client
    PROVE  /\ c # d => Left(c)' = Left(c)
           /\ c = d => Left(c)' = Left(c) \cup {n}
           /\ Queued(c)' # {} => Queued(c) # {} \/ c = d
           /\ QueueGrows(c) /\ (c = d => \A k \in Left(c) : k < n) => QueueGrows(c)'
<1> DEFINE Item == Client \X Nat
<1> PICK m : m = <<d, n>>
    OBVIOUS
<1> PICK q, t : q = queue /\ t = queue'
    OBVIOUS
<1>1. q \in Seq(Item)
    BY DEF Base, Typed, QueueType
<1>2. m \in Item /\ m[1] = d /\ m[2] = n
    OBVIOUS
<1> HIDE DEF Item
<1>3. /\ Len(q) \in Nat /\ DOMAIN q = 1 .. Len(q) /\ DOMAIN t = 1 .. Len(q) + 1
      /\ t[Len(q) + 1] = m /\ \A i \in 1 .. Len(q) : t[i] = q[i]
    BY <1>1, <1>2
<1>4. Queued(c)' = IF c = d THEN Queued(c) \cup {Len(q) + 1} ELSE Queued(c)
  <2>1. ASSUME NEW i PROVE i \in Queued(c)' <=> i \in Queued(c) \/ (c = d /\ i = Len(q) + 1)
    <3>1. CASE i \in 1 .. Len(q)
      BY <1>3, <3>1 DEF Queued
    <3>2. CASE i = Len(q) + 1
      BY <1>2, <1>3, <3>2 DEF Queued
    <3>3. CASE i \notin 1 .. Len(q) + 1
      BY <1>3, <3>3 DEF Queued
    <3> QED BY <1>3, <3>1, <3>2, <3>3
  <2> QED BY <2>1
<1>5. \A i \in Queued(c) : i \in 1 .. Len(q) /\ t[i] = q[i]
    BY <1>3 DEF Queued
<1>6. Left(c) = {q[i][2] : i \in Queued(c)} /\ Left(c)' = {t[i][2] : i \in Queued(c)'}
    BY DEF Left
<1>7. c # d => Left(c)' = Left(c)
    BY <1>4, <1>5, <1>6
<1>8. c = d => Left(c)' = Left(c) \cup {n}
    BY <1>2, <1>3, <1>4, <1>5, <1>6
<1>9. ASSUME QueueGrows(c), c = d => \A k \in Left(c) : k < n PROVE QueueGrows(c)'
  <2> SUFFICES ASSUME NEW i \in Queued(c)', NEW j \in Queued(c)', i < j PROVE t[i][2] < t[j][2]
    BY DEF QueueGrows
  <2>1. i \in Queued(c) /\ t[i] = q[i]
    <3>1. i \in 1 .. Len(q) + 1 /\ j \in 1 .. Len(q) + 1
      BY <1>3, <1>4, <1>5
    <3>2. i # Len(q) + 1
      BY <1>3, <3>1
    <3> QED BY <1>4, <1>5, <3>2
  <2>2. CASE j \in Queued(c)
    BY <1>5, <1>9, <2>1, <2>2 DEF QueueGrows
  <2>3. CASE j \notin Queued(c)
    <3>1. c = d /\ j = Len(q) + 1
      BY <1>4, <2>3
    <3>2. t[j][2] = n /\ q[i][2] \in Left(c)
      BY <1>2, <1>3, <1>6, <2>1, <3>1
    <3> QED BY <1>9, <2>1, <3>1, <3>2
  <2> QED BY <2>2, <2>3
<1> QED BY <1>4, <1>7, <1>8, <1>9

\* What is left in the queue, without its head.
LEMMA QueueLess ==
    ASSUME Base, queue # <<>>, queue' = Tail(queue), NEW c \in Client, QueueGrows(c)
    PROVE  /\ QueueGrows(c)'
           /\ Queued(c)' # {} => Queued(c) # {}
           /\ queue[1][1] # c => Left(c)' = Left(c)
           /\ queue[1][1] = c => /\ Left(c) = Left(c)' \cup {queue[1][2]}
                                 /\ \A k \in Left(c)' : queue[1][2] < k
<1> DEFINE Item == Client \X Nat
<1> PICK q, t : q = queue /\ t = queue'
    OBVIOUS
<1>1. q \in Seq(Item)
    BY DEF Base, Typed, QueueType
<1> HIDE DEF Item
<1>3. /\ Len(q) \in Nat \ {0} /\ DOMAIN q = 1 .. Len(q) /\ DOMAIN t = 1 .. Len(q) - 1
      /\ \A i \in 1 .. Len(q) - 1 : t[i] = q[i + 1]
    BY <1>1
<1>4. \A i \in Nat : i \in Queued(c)' <=> i >= 1 /\ i + 1 \in Queued(c)
    BY <1>3 DEF Queued
<1>5. /\ \A i \in Queued(c)' : i \in Nat /\ i + 1 \in Queued(c) /\ t[i] = q[i + 1] /\ i >= 1
      /\ \A i \in Queued(c) : i = 1 \/ (i - 1 \in Queued(c)' /\ t[i - 1] = q[i])
      /\ 1 \in Queued(c) <=> q[1][1] = c
    BY <1>3 DEF Queued
<1>6. Left(c) = {q[i][2] : i \in Queued(c)} /\ Left(c)' = {t[i][2] : i \in Queued(c)'}
    BY DEF Left
<1>7. ASSUME NEW k \in Left(c)' PROVE k \in Left(c)
  <2> PICK i \in Queued(c)' : k = t[i][2]
    BY <1>6, <1>7
  <2>1. i + 1 \in Queued(c) /\ k = q[i + 1][2]
    BY <1>5
  <2> QED BY <1>6, <2>1
<1>8. ASSUME NEW k \in Left(c) PROVE k \in Left(c)' \/ (q[1][1] = c /\ k = q[1][2])
  <2> PICK i \in Queued(c) : k = q[i][2]
    BY <1>6, <1>8
  <2>1. CASE i = 1
    BY <1>5, <2>1
  <2>2. CASE i # 1
    <3>1. i - 1 \in Queued(c)' /\ t[i - 1] = q[i]
      BY <1>5, <2>2
    <3> QED BY <1>6, <3>1
  <2> QED BY <2>1, <2>2
<1>9. QueueGrows(c)'
  <2> SUFFICES ASSUME NEW i \in Queued(c)', NEW j \in Queued(c)', i < j PROVE t[i][2] < t[j][2]
    BY DEF QueueGrows
  <2>1. i + 1 < j + 1 /\ i + 1 \in Queued(c) /\ j + 1 \in Queued(c)
    BY <1>5
  <2> QED BY <1>5, <2>1 DEF QueueGrows
<1>10. q[1][1] = c => q[1][2] \in Left(c)
    BY <1>5, <1>6
<1>11. ASSUME q[1][1] = c, NEW k \in Left(c)' PROVE q[1][2] < k
  <2> PICK i \in Queued(c)' : k = t[i][2]
    BY <1>6, <1>11
  <2>1. 1 \in Queued(c)
    BY <1>5, <1>11
  <2>2. i \in Nat /\ i >= 1 /\ i + 1 \in Queued(c) /\ k = q[i + 1][2]
    BY <1>5
  <2>3. 1 < i + 1
    BY <2>2
  <2> QED BY <2>1, <2>2, <2>3 DEF QueueGrows
<1> QED BY <1>5, <1>7, <1>8, <1>9, <1>10, <1>11

\* OrderInv and NoGapInv, for one connection and for the links.
Ordered(c) ==
    /\ SentGrows(c) /\ QueueGrows(c)
    /\ \A m \in Numbers(c) : \A n \in Left(c) : m < n
    /\ \A m \in Numbers(c) \cup Left(c) : m <= taken[c]

AllUp == (\A l \in Link : link[l] \in {"new", "up"}) /\ (cur # 0 => link[cur] = "up")

Busy(c) == thread[c] \in {"read", "enqueue", "leave", "logout"}

Complete(c) ==
    /\ \E n \in 0 .. taken[c] : Numbers(c) = 1 .. n /\ Left(c) = n + 1 .. taken[c]
    /\ served[c] # <<>> => served[c][1][1] = "LOGIN"
    /\ Busy(c) \/ Queued(c) # {} => served[c] # <<>>

LEMMA QueueParts ==
    /\ OrderInv <=> \A c \in Client : Ordered(c)
    /\ OrderInv' <=> \A c \in Client : Ordered(c)'
    /\ NoGapInv <=> AllUp /\ \A c \in Client : Complete(c)
    /\ NoGapInv' <=> AllUp' /\ \A c \in Client : Complete(c)'
<1>1. OrderInv <=> \A c \in Client : Ordered(c)
    BY Zenon DEF OrderInv, Ordered, SentGrows, QueueGrows
<1>3. OrderInv' <=> \A c \in Client : Ordered(c)'
    BY Zenon DEF OrderInv, Ordered, SentGrows, QueueGrows
<1>4. NoGapInv' <=> AllUp' /\ \A c \in Client : Complete(c)'
    BY Zenon DEF NoGapInv, AllUp, Complete, Busy
<1>2. NoGapInv <=> AllUp /\ \A c \in Client : Complete(c)
    BY Zenon DEF NoGapInv, AllUp, Complete, Busy
<1> QED BY <1>1, <1>2, <1>3, <1>4

LEMMA NumbersAreNat ==
    ASSUME Base, NEW c \in Client
    PROVE  Numbers(c) \subseteq Nat /\ Left(c) \subseteq Nat /\ taken[c] \in Nat
<1>1. \A i \in Sent(c) : served[c][i][2] \in Nat
  <2> DEFINE Item == {"LOGIN", "LOGOUT", "MESSAGE"} \X Nat
  <2>1. served[c] \in Seq(Item)
    BY DEF Base, Typed, QueueType
  <2>2. \A x \in Item : x[2] \in Nat
    OBVIOUS
  <2> HIDE DEF Item
  <2> QED BY <2>1, <2>2 DEF Sent
<1>2. \A i \in Queued(c) : queue[i][2] \in Nat
    BY DEF Base, Typed, QueueType, Queued
<1>3. taken[c] \in Nat
    BY Constants DEF Base, Typed, QueueType
<1> QED BY <1>1, <1>2, <1>3 DEF Numbers, Left

\* What the processor does: the head of the queue goes to the primary or is
\* lost, or nothing moves.
LEMMA ProcessorSteps ==
    ASSUME Base, Processor
    PROVE  /\ taken' = taken /\ thread' = thread
           /\ \/ UNCHANGED <<queue, served>>
              \/ /\ queue # <<>> /\ queue' = Tail(queue)
                 /\ queue[1] \in Client \X Nat /\ 1 \in Queued(queue[1][1])
                 /\ \/ served' = served /\ cur > 0 /\ link[cur] = "closed"
                    \/ served' = [served EXCEPT ![queue[1][1]] = Append(@, <<"MESSAGE", queue[1][2]>>)]
<1>1. CASE TakeMessage
    BY <1>1 DEF TakeMessage, clientVars
<1>2. CASE SendMessage
  <2>1. queue # <<>> /\ queue \in Seq(Client \X Nat)
    BY <1>2 DEF SendMessage, Base, HandInv, Typed, QueueType
  <2>2. Head(queue) = queue[1] /\ 1 \in DOMAIN queue /\ queue[1] \in Client \X Nat
    BY <2>1
  <2>3. 1 \in Queued(queue[1][1])
    BY <2>2 DEF Queued
  <2>4. CASE SendServer(Head(queue)[1], <<"MESSAGE", Head(queue)[2]>>) /\ queue' = Tail(queue)
    BY <1>2, <2>1, <2>2, <2>3, <2>4 DEF SendMessage, SendServer, SendLost, clientVars
  <2>5. CASE UNCHANGED queueVars
    BY <1>2, <2>5 DEF SendMessage, queueVars, clientVars
  <2> QED BY <1>2, <2>4, <2>5 DEF SendMessage
<1> QED BY <1>1, <1>2 DEF Processor

\* What an announcement does: one line more, or nothing.
LEMMA AnnounceSteps ==
    ASSUME Base, NEW c \in Client, Announces(c)
    PROVE  /\ UNCHANGED <<queue, taken>>
           /\ \/ served' = served
              \/ served' = [served EXCEPT ![c] = Append(@, <<"LOGIN", 0>>)]
              \/ served' = [served EXCEPT ![c] = Append(@, <<"LOGOUT", 0>>)] /\ thread[c] = "logout"
           /\ \A d \in Client : d # c => thread'[d] = thread[d]
           /\ AllUp /\ served' = served => thread' = thread
<1>1. UNCHANGED <<queue, taken>>
    BY DEF Announces, AnnounceLogin, AnnounceLogout, Announce
<1>2. \/ served' = served
      \/ served' = [served EXCEPT ![c] = Append(@, <<"LOGIN", 0>>)]
      \/ served' = [served EXCEPT ![c] = Append(@, <<"LOGOUT", 0>>)] /\ thread[c] = "logout"
    BY DEF Announces, AnnounceLogin, AnnounceLogout, Announce, SendServer, SendLost
<1>3. \A d \in Client : d # c => thread'[d] = thread[d]
    BY DEF Announces, AnnounceLogin, AnnounceLogout, Announce, Goto, Base, SessionInv, TableType
<1>4. ASSUME AllUp, served' = served PROVE thread' = thread
  <2> SUFFICES ASSUME NEW m \in {<<"LOGIN", 0>>, <<"LOGOUT", 0>>}, SendServer(c, m) PROVE FALSE
    BY DEF Announces, AnnounceLogin, AnnounceLogout, Announce
  <2>1. cur > 0 => link[cur] = "up"
    BY <1>4 DEF AllUp
  <2>2. served' = [served EXCEPT ![c] = Append(@, m)]
    BY <2>1 DEF SendServer, SendLost
  <2> PICK s : s = served[c]
    OBVIOUS
  <2>3. s = Append(s, m) /\ s \in Seq({"LOGIN", "LOGOUT", "MESSAGE"} \X Nat)
    BY <1>4, <2>2 DEF Base, Typed, QueueType
  <2>4. Len(Append(s, m)) = Len(s) + 1 /\ Len(s) \in Nat
    BY <2>3
  <2> QED BY <2>3, <2>4
<1> QED BY <1>1, <1>2, <1>3, <1>4

\* The other steps do not touch the queue.
LEMMA QueueRests ==
    ASSUME Base, [Next]_vars, ~Processor, \A c \in Client : ~(Announces(c) \/ Enqueue(c))
    PROVE  /\ UNCHANGED <<queue, served, taken>>
           /\ \A d \in Client : Busy(d)' => Busy(d)
<1>1. CASE \/ Keeping \/ Listener \/ PrimaryDies \/ UNCHANGED vars \/ \E u \in User : Push(u)
  <2>1. UNCHANGED <<queue, served, taken, thread>>
    BY <1>1 DEF Keeping, Keeper, KeepLoop, ConnectToLeader, KeepSet, KeepDial, KeepBroken, KeepClear, Listener,
       ListenLoop, ListenRead, ListenClear, PickSpot, WriteSpot, PrimaryDies, Push, vars, queueVars, clientVars
  <2> QED BY <2>1 DEF Busy
<1>2. ASSUME NEW c \in Client, ClientSteps(c)
      PROVE  /\ UNCHANGED <<queue, served, taken>>
             /\ \A d \in Client : Busy(d)' => Busy(d)
  <2>1. UNCHANGED <<queue, served>>
    BY <1>2, ClientFrame DEF queueVars
  <2>2. taken' = taken
    BY <1>2 DEF ClientSteps, Connect, Write, Close, NoLogin, FindUser, LoginUser, Answer, ReadClient, Leave
  <2>3. \A d \in Client : d # c => thread'[d] = thread[d]
    BY <1>2, ThreadSteps DEF Base
  <2>4. Busy(c)' => Busy(c)
    BY <1>2 DEF ClientSteps, Connect, Write, Close, NoLogin, FindUser, LoginUser, NewUser, NewSession, Refuse,
       Answer, ReadClient, Leave, Goto, Base, SessionInv, TableType, Busy
  <2> QED BY <2>1, <2>2, <2>3, <2>4 DEF Busy
<1> QED BY <1>1, <1>2, NextIs

LEMMA SameOrder ==
    ASSUME NEW c \in Client, served'[c] = served[c], queue' = queue, taken'[c] = taken[c], Ordered(c)
    PROVE  Ordered(c)'
    BY DEF Ordered, SentGrows, QueueGrows, Numbers, Left, Sent, Queued

LEMMA OrderNext == Base /\ OrderInv /\ [Next]_vars => OrderInv'
<1> SUFFICES ASSUME Base, [Next]_vars, NEW c \in Client, Ordered(c) PROVE Ordered(c)'
    BY QueueParts
<1> PICK N, L, t : N = Numbers(c) /\ L = Left(c) /\ t = taken[c]
    OBVIOUS
<1>1. N \subseteq Nat /\ L \subseteq Nat /\ t \in Nat
    BY NumbersAreNat
<1>2. /\ SentGrows(c) /\ QueueGrows(c)
      /\ \A m \in N : \A n \in L : m < n
      /\ \A m \in N \cup L : m <= t
    BY DEF Ordered
<1>3. CASE ~Processor /\ \A d \in Client : ~(Announces(d) \/ Enqueue(d))
    BY <1>3, QueueRests, SameOrder
<1>4. ASSUME NEW d \in Client, Announces(d) PROVE Ordered(c)'
  <2>1. CASE served'[c] = served[c]
    BY <1>4, <2>1, AnnounceSteps, SameOrder
  <2>2. CASE served'[c] # served[c]
    <3>1. PICK w \in {"LOGIN", "LOGOUT"} : served'[c] = Append(served[c], <<w, 0>>)
      <4>1. \E w \in {"LOGIN", "LOGOUT"} : served' = [served EXCEPT ![d] = Append(@, <<w, 0>>)]
        BY <1>4, <2>2, AnnounceSteps
      <4> QED BY <2>2, <4>1 DEF Base, Typed, QueueType
    <3>2. Numbers(c)' = N /\ SentGrows(c)'
      <4> PICK m : m = <<w, 0>>
        OBVIOUS
      <4>1. m \in {"LOGIN", "LOGOUT", "MESSAGE"} \X Nat /\ m[1] # "MESSAGE"
        OBVIOUS
      <4>2. served'[c] = Append(served[c], m)
        BY <3>1
      <4> QED BY <1>2, <4>1, <4>2, ServedMore
    <3>3. queue' = queue /\ taken' = taken
      BY <1>4, AnnounceSteps
    <3>4. Left(c)' = L /\ QueueGrows(c)'
      BY <1>2, <3>3 DEF Left, Queued, QueueGrows
    <3> QED BY <1>2, <3>2, <3>3, <3>4 DEF Ordered
  <2> QED BY <2>1, <2>2
<1>5. ASSUME NEW d \in Client, Enqueue(d) PROVE Ordered(c)'
  <2>1. /\ queue' = Append(queue, <<d, taken[d] + 1>>) /\ served' = served
        /\ taken' = [taken EXCEPT ![d] = @ + 1] /\ taken[d] + 1 \in Nat
    BY <1>5, NumbersAreNat DEF Enqueue
  <2>2. Numbers(c)' = N /\ SentGrows(c)'
    BY <1>2, <2>1 DEF Numbers, Sent, SentGrows
  <2>3. CASE c # d
    <3>1. Left(c)' = L /\ QueueGrows(c)'
      BY <1>2, <2>1, <2>3, QueueMore
    <3>2. taken'[c] = t
      BY <2>1, <2>3 DEF Base, Typed, QueueType
    <3> QED BY <1>2, <2>2, <3>1, <3>2 DEF Ordered
  <2>4. CASE c = d
    <3>1. \A k \in L : k < t + 1
      BY <1>1, <1>2
    <3>2. Left(c)' = L \cup {t + 1} /\ QueueGrows(c)'
      BY <1>2, <2>1, <2>4, <3>1, QueueMore
    <3>3. taken'[c] = t + 1
      BY <2>1, <2>4 DEF Base, Typed, QueueType
    <3>4. \A m \in N : \A n \in L \cup {t + 1} : m < n
      BY <1>1, <1>2
    <3>5. \A m \in N \cup (L \cup {t + 1}) : m <= t + 1
      BY <1>1, <1>2
    <3> QED BY <2>2, <3>2, <3>3, <3>4, <3>5 DEF Ordered
  <2> QED BY <2>3, <2>4
<1>6. CASE Processor
  <2>1. CASE UNCHANGED <<queue, served>>
    BY <1>6, <2>1, ProcessorSteps, SameOrder
  <2>2. CASE ~UNCHANGED <<queue, served>>
    <3> PICK d, h : d = queue[1][1] /\ h = queue[1][2]
      OBVIOUS
    <3>1. /\ queue # <<>> /\ queue' = Tail(queue) /\ taken' = taken /\ d \in Client /\ h \in Nat
          /\ served' = served \/ served' = [served EXCEPT ![d] = Append(@, <<"MESSAGE", h>>)]
      BY <1>6, <2>2, ProcessorSteps
    <3>2. QueueGrows(c)' /\ (d # c => Left(c)' = L)
          /\ (d = c => L = Left(c)' \cup {h} /\ \A k \in Left(c)' : h < k)
      BY <1>2, <3>1, QueueLess
    <3>3. CASE d # c
      <4>1. served'[c] = served[c]
        BY <3>1, <3>3 DEF Base, Typed, QueueType
      <4>2. Numbers(c)' = N /\ SentGrows(c)'
        BY <1>2, <4>1 DEF Numbers, Sent, SentGrows
      <4> QED BY <1>2, <3>1, <3>2, <3>3, <4>2 DEF Ordered
    <3>4. CASE d = c /\ served' = served
      <4>1. Numbers(c)' = N /\ SentGrows(c)'
        BY <1>2, <3>4 DEF Numbers, Sent, SentGrows
      <4> QED BY <1>2, <3>1, <3>2, <3>4, <4>1 DEF Ordered
    <3>5. CASE d = c /\ served' = [served EXCEPT ![d] = Append(@, <<"MESSAGE", h>>)]
      <4>1. served'[c] = Append(served[c], <<"MESSAGE", h>>)
        BY <3>1, <3>5 DEF Base, Typed, QueueType
      <4>2. \A k \in N : k < h
        BY <1>2, <3>2, <3>5
      <4>3. Numbers(c)' = N \cup {h} /\ SentGrows(c)'
        <5> PICK m : m = <<"MESSAGE", h>>
          OBVIOUS
        <5>1. m \in {"LOGIN", "LOGOUT", "MESSAGE"} \X Nat /\ m[1] = "MESSAGE" /\ m[2] = h
          BY <3>1
        <5>2. served'[c] = Append(served[c], m)
          BY <4>1
        <5> QED BY <1>2, <4>2, <5>1, <5>2, ServedMore
      <4>4. \A m \in N \cup {h} : \A n \in Left(c)' : m < n
        BY <1>2, <3>2, <3>5
      <4>5. \A m \in (N \cup {h}) \cup Left(c)' : m <= taken'[c]
        BY <1>2, <3>1, <3>2, <3>5
      <4> QED BY <3>2, <4>3, <4>4, <4>5 DEF Ordered
    <3> QED BY <3>1, <3>3, <3>4, <3>5
  <2> QED BY <2>1, <2>2
<1> QED BY <1>3, <1>4, <1>5, <1>6

\* As long as no primary has died, every link that was made works.
LEMMA LinksStayUp ==
    ASSUME Base, AllUp, [Next]_vars, deaths' = 0
    PROVE  AllUp'
<1> USE DEF AllUp
<1>1. cur \in Link \cup {0} /\ 0 \notin Link /\ cur \in Nat /\ deaths \in Nat /\ link \in [Link -> {"new", "up", "closed", "reset", "broken"}]
    BY Constants DEF Base, Typed, LinkType
<1>a. cur > 0 => link[cur] = "up"
    BY <1>1
<1>2. \A m : \A c \in Client : SendServer(c, m) => link' = link
    BY <1>a DEF SendServer, SendLost
<1>3. SendFails => link' = link
  <2>1. link[cur] = "reset" => ~(cur > 0)
    BY <1>a
  <2> QED BY <2>1, Zenon DEF SendFails
<1>4. CASE \E c \in Client : Announces(c)
    BY <1>2, <1>3, <1>4 DEF Announces, AnnounceLogin, AnnounceLogout, Announce
<1>5. CASE Processor
  <2>1. CASE TakeMessage
    BY <2>1 DEF TakeMessage, linkVars
  <2>2. CASE SendMessage
    <3>1. cur' = cur
      BY <2>2 DEF SendMessage
    <3>2. link' = link
      BY <1>1, <1>3, <2>2 DEF SendMessage, SendServer, SendLost
    <3> QED BY <3>1, <3>2
  <2> QED BY <1>5, <2>1, <2>2 DEF Processor
<1>6. CASE ConnectToLeader
    BY <1>1, <1>6 DEF ConnectToLeader
<1>7. CASE ListenRead
  <2>1. listener.fd \in Link
    BY <1>7, LinkBelow DEF ListenRead, Base, HandInv, Listening, Typed, LinkType
  <2>2. link[listener.fd] \in {"new", "up"}
    BY <2>1
  <2>3. link' = link /\ cur' = cur
    BY <1>7, <2>2 DEF ListenRead
  <2> QED BY <2>3
<1>8. ~PrimaryDies
    BY <1>1 DEF PrimaryDies
<1>9. CASE \/ \E c \in Client : ClientSteps(c) \/ Enqueue(c)
           \/ KeepLoop \/ KeepSet \/ KeepDial \/ KeepBroken \/ KeepClear
           \/ ListenLoop \/ ListenClear \/ PickSpot \/ WriteSpot \/ UNCHANGED vars
           \/ \E u \in User : Push(u)
  <2>1. UNCHANGED <<link, cur>>
    BY <1>9, ClientFrame DEF Enqueue, KeepLoop, KeepSet, KeepDial, KeepBroken, KeepClear,
       ListenLoop, ListenClear, PickSpot, WriteSpot, Push, vars, linkVars
  <2> QED BY <2>1
<1> QED BY <1>4, <1>5, <1>6, <1>7, <1>8, <1>9, NextIs DEF Keeping, Keeper, Listener

\* As long as no primary has died, nothing is missing.
LEMMA CompleteNext ==
    ASSUME Base, [Next]_vars, AllUp, NEW c \in Client, Ordered(c), Complete(c)
    PROVE  Complete(c)'
<1> PICK N, L, t : N = Numbers(c) /\ L = Left(c) /\ t = taken[c]
    OBVIOUS
<1> PICK n \in 0 .. t : N = 1 .. n /\ L = n + 1 .. t
    BY DEF Complete
<1>1. /\ served[c] # <<>> => served[c][1][1] = "LOGIN"
      /\ Busy(c) \/ Queued(c) # {} => served[c] # <<>>
      /\ t \in Nat /\ n \in Nat
    BY NumbersAreNat DEF Complete
<1>2. CASE ~Processor /\ \A d \in Client : ~(Announces(d) \/ Enqueue(d))
  <2>1. UNCHANGED <<queue, served, taken>> /\ (Busy(c)' => Busy(c))
    BY <1>2, QueueRests
  <2>2. Numbers(c)' = N /\ Left(c)' = L /\ Queued(c)' = Queued(c)
    BY <2>1 DEF Numbers, Left, Sent, Queued
  <2> QED BY <1>1, <2>1, <2>2 DEF Complete
<1>3. ASSUME NEW d \in Client, Announces(d) PROVE Complete(c)'
  <2>1. UNCHANGED <<queue, taken>>
    BY <1>3, AnnounceSteps
  <2>2. Left(c)' = L /\ Queued(c)' = Queued(c)
    BY <2>1 DEF Left, Queued
  <2>3. CASE served'[c] = served[c]
    <3>1. Numbers(c)' = N
      BY <2>3 DEF Numbers, Sent
    <3>2. Busy(c)' => Busy(c) \/ served[c] # <<>>
      <4>1. CASE d # c \/ served' = served
        BY <1>3, <4>1, AnnounceSteps DEF Busy
      <4>2. CASE d = c /\ served' # served
        <5>1. \E m \in {<<"LOGIN", 0>>, <<"LOGOUT", 0>>} : served' = [served EXCEPT ![c] = Append(@, m)]
          BY <1>3, <4>2, AnnounceSteps
        <5>2. served' = served
          BY <2>3, <5>1 DEF Base, Typed, QueueType
        <5> QED BY <4>2, <5>2
      <4> QED BY <4>1, <4>2
    <3> QED BY <1>1, <2>1, <2>2, <2>3, <3>1, <3>2 DEF Complete
  <2>4. CASE served'[c] # served[c]
    <3>1. PICK w \in {"LOGIN", "LOGOUT"} : /\ served'[c] = Append(served[c], <<w, 0>>)
                                           /\ w = "LOGIN" \/ thread[c] = "logout"
      <4>1. \E w \in {"LOGIN", "LOGOUT"} : /\ served' = [served EXCEPT ![d] = Append(@, <<w, 0>>)]
                                           /\ w = "LOGIN" \/ thread[d] = "logout"
        BY <1>3, <2>4, AnnounceSteps
      <4> QED BY <2>4, <4>1 DEF Base, Typed, QueueType
    <3> PICK m : m = <<w, 0>>
      OBVIOUS
    <3>2. m \in {"LOGIN", "LOGOUT", "MESSAGE"} \X Nat /\ m[1] # "MESSAGE" /\ m[1] = w
      OBVIOUS
    <3>3. served'[c] = Append(served[c], m)
      BY <3>1
    <3>4. /\ Numbers(c)' = N /\ served'[c] # <<>>
          /\ served'[c][1] = IF served[c] = <<>> THEN m ELSE served[c][1]
      BY <3>2, <3>3, ServedMore
    <3>5. served[c] = <<>> => w = "LOGIN"
      BY <1>1, <3>1 DEF Busy
    <3>6. served'[c][1][1] = "LOGIN"
      BY <1>1, <3>2, <3>4, <3>5
    <3> QED BY <1>1, <2>1, <2>2, <3>4, <3>6 DEF Complete
  <2> QED BY <2>3, <2>4
<1>4. ASSUME NEW d \in Client, Enqueue(d) PROVE Complete(c)'
  <2>1. /\ queue' = Append(queue, <<d, taken[d] + 1>>) /\ served' = served
        /\ taken' = [taken EXCEPT ![d] = @ + 1] /\ taken[d] + 1 \in Nat
        /\ thread[d] = "enqueue" /\ thread' = [thread EXCEPT ![d] = "read"]
    BY <1>4, NumbersAreNat DEF Enqueue, Goto
  <2>2. Numbers(c)' = N
    BY <2>1 DEF Numbers, Sent
  <2>3. CASE c # d
    <3>1. Left(c)' = L /\ (Queued(c)' # {} => Queued(c) # {})
      BY <2>1, <2>3, QueueMore DEF Ordered
    <3>2. taken'[c] = t /\ thread'[c] = thread[c]
      BY <2>1, <2>3 DEF Base, Typed, QueueType, SessionInv, TableType
    <3> QED BY <1>1, <2>1, <2>2, <3>1, <3>2 DEF Complete, Busy
  <2>4. CASE c = d
    <3>1. Left(c)' = L \cup {t + 1}
      <4>1. queue' = Append(queue, <<c, t + 1>>) /\ t + 1 \in Nat
        BY <2>1, <2>4
      <4>2. Left(c)' = Left(c) \cup {t + 1}
        <5> PICK k : k = t + 1
          OBVIOUS
        <5>1. k \in Nat /\ queue' = Append(queue, <<c, k>>)
          BY <4>1
        <5>2. \A e \in Client : e = c => Left(e)' = Left(e) \cup {k}
          BY <5>1, QueueMore
        <5> QED BY <5>2
      <4> QED BY <4>2
    <3>2. taken'[c] = t + 1
      BY <2>1, <2>4 DEF Base, Typed, QueueType
    <3>3. L \cup {t + 1} = n + 1 .. t + 1 /\ n \in 0 .. t + 1
      BY <1>1
    <3>4. served[c] # <<>>
      BY <1>1, <2>1, <2>4 DEF Busy
    <3> QED BY <1>1, <2>1, <2>2, <3>1, <3>2, <3>3, <3>4 DEF Complete
  <2> QED BY <2>3, <2>4
<1>5. CASE Processor
  <2>1. taken' = taken /\ thread' = thread /\ Busy(c)' = Busy(c)
    BY <1>5, ProcessorSteps DEF Busy
  <2>2. CASE UNCHANGED <<queue, served>>
    <3>1. Numbers(c)' = N /\ Left(c)' = L /\ Queued(c)' = Queued(c)
      BY <2>2 DEF Numbers, Left, Sent, Queued
    <3> QED BY <1>1, <2>1, <2>2, <3>1 DEF Complete
  <2>3. CASE ~UNCHANGED <<queue, served>>
    <3> PICK d, h : d = queue[1][1] /\ h = queue[1][2]
      OBVIOUS
    <3>1. /\ queue # <<>> /\ queue' = Tail(queue) /\ d \in Client /\ h \in Nat
          /\ 1 \in Queued(d)
          /\ (served' = served /\ cur > 0 /\ link[cur] = "closed")
             \/ served' = [served EXCEPT ![d] = Append(@, <<"MESSAGE", h>>)]
      BY <1>5, <2>3, ProcessorSteps
    <3>2. served' = [served EXCEPT ![d] = Append(@, <<"MESSAGE", h>>)]
      <4>1. ~(cur > 0 /\ link[cur] = "closed")
        BY DEF AllUp
      <4> QED BY <3>1, <4>1
    <3>3. /\ Queued(c)' # {} => Queued(c) # {}
          /\ d # c => Left(c)' = L
          /\ d = c => L = Left(c)' \cup {h} /\ \A k \in Left(c)' : h < k
      BY <3>1, QueueLess DEF Ordered
    <3>4. CASE d # c
      <4>1. served'[c] = served[c]
        BY <3>2, <3>4 DEF Base, Typed, QueueType
      <4>2. Numbers(c)' = N
        BY <4>1 DEF Numbers, Sent
      <4> QED BY <1>1, <2>1, <3>3, <3>4, <4>1, <4>2 DEF Complete
    <3>5. CASE d = c
      <4>1. served'[c] = Append(served[c], <<"MESSAGE", h>>)
        BY <3>1, <3>2, <3>5 DEF Base, Typed, QueueType
      <4>2. served[c] # <<>>
        BY <1>1, <3>1, <3>5
      <4>3. Numbers(c)' = N \cup {h} /\ served'[c] # <<>> /\ served'[c][1] = served[c][1]
        <5> PICK m : m = <<"MESSAGE", h>>
          OBVIOUS
        <5>1. m \in {"LOGIN", "LOGOUT", "MESSAGE"} \X Nat /\ m[1] = "MESSAGE" /\ m[2] = h
          BY <3>1
        <5>2. served'[c] = Append(served[c], m)
          BY <4>1
        <5>3. /\ m[1] = "MESSAGE" => Numbers(c)' = Numbers(c) \cup {m[2]}
              /\ served'[c] # <<>> /\ served'[c][1] = IF served[c] = <<>> THEN m ELSE served[c][1]
          BY <5>1, <5>2, ServedMore
        <5> QED BY <4>2, <5>1, <5>3
      <4>4. h = n + 1 /\ n + 1 \in 0 .. t
        <5>1. h \in n + 1 .. t
          BY <3>3, <3>5
        <5>2. n + 1 \in L
          BY <1>1, <3>1, <5>1
        <5>3. n + 1 = h \/ h < n + 1
          BY <3>3, <3>5, <5>2
        <5> QED BY <1>1, <3>1, <5>1, <5>3
      <4>5. N \cup {h} = 1 .. n + 1
        BY <1>1, <4>4
      <4>6. Left(c)' = n + 2 .. t
        <5>1. ASSUME NEW k PROVE k \in Left(c)' <=> k \in n + 2 .. t
          <6>1. k \in Left(c)' => k \in n + 1 .. t /\ h < k
            BY <3>3, <3>5
          <6>2. k \in n + 2 .. t => k \in L /\ k # h
            BY <1>1, <4>4
          <6>3. k \in L /\ k # h => k \in Left(c)'
            BY <3>3, <3>5
          <6> QED BY <1>1, <4>4, <6>1, <6>2, <6>3
        <5> QED BY <5>1
      <4>7. \E i \in 0 .. t : Numbers(c)' = 1 .. i /\ Left(c)' = i + 1 .. t
        BY <1>1, <4>3, <4>4, <4>5, <4>6
      <4> QED BY <1>1, <2>1, <4>2, <4>3, <4>7 DEF Complete
    <3> QED BY <3>4, <3>5
  <2> QED BY <2>2, <2>3
<1> QED BY <1>2, <1>3, <1>4, <1>5

LEMMA QueueInit == Init => QueueInv
<1> SUFFICES ASSUME Init PROVE QueueInv
    OBVIOUS
<1>1. \A c \in Client : Sent(c) = {} /\ Queued(c) = {}
    BY DEF Init, Sent, Queued
<1>2. \A c \in Client : Numbers(c) = {} /\ Left(c) = {}
    BY <1>1 DEF Numbers, Left
<1>3. ASSUME NEW c \in Client PROVE Ordered(c)
    BY <1>1, <1>2 DEF Ordered, SentGrows, QueueGrows
<1>4. AllUp
    BY DEF Init, AllUp
<1>5. ASSUME NEW c \in Client PROVE Complete(c)
  <2>1. taken[c] = 0 /\ served[c] = <<>> /\ ~Busy(c)
    BY DEF Init, Busy
  <2>2. {} = 1 .. 0 /\ {} = 0 + 1 .. 0 /\ 0 \in 0 .. 0
    OBVIOUS
  <2> QED BY <1>1, <1>2, <2>1, <2>2 DEF Complete
<1> QED BY <1>3, <1>4, <1>5, QueueParts DEF QueueInv

LEMMA QueueNext == Base /\ QueueInv /\ [Next]_vars => QueueInv'
<1> SUFFICES ASSUME Base, QueueInv, [Next]_vars PROVE QueueInv'
    OBVIOUS
<1>1. OrderInv'
    BY OrderNext DEF QueueInv
<1>2. ASSUME deaths' = 0 PROVE NoGapInv'
  <2>1. deaths = 0
    <3>1. deaths' \in {deaths, deaths + 1}
      <4>1. CASE \E c \in Client : ClientSteps(c)
        BY <4>1, ClientFrame DEF linkVars
      <4>2. CASE ~\E c \in Client : ClientSteps(c)
        BY <4>2, NextIs DEF Announces, AnnounceLogin, AnnounceLogout, Announce, Enqueue,
           Processor, TakeMessage, SendMessage, Keeping, Keeper, KeepLoop, ConnectToLeader, KeepSet, KeepDial,
           KeepBroken, KeepClear, Listener, ListenLoop, ListenRead, ListenClear, PickSpot, WriteSpot,
           PrimaryDies, Push, vars, linkVars
      <4> QED BY <4>1, <4>2
    <3>2. deaths \in Nat
      BY DEF Base, Typed, LinkType
    <3> QED BY <1>2, <3>1, <3>2
  <2>2. AllUp /\ \A c \in Client : Ordered(c) /\ Complete(c)
    BY <2>1, QueueParts DEF QueueInv
  <2>3. AllUp'
    BY <1>2, <2>2, LinksStayUp
  <2>4. \A c \in Client : Complete(c)'
    BY <2>2, CompleteNext
  <2> QED BY <2>3, <2>4, QueueParts
<1> QED BY <1>1, <1>2 DEF QueueInv

(***************************************************************************)
(* What the primaries receive from a connection has its order, and while   *)
(* none has died no gap, whichever of the two paths it takes: the queue is *)
(* one, filled and emptied under one mutex, and send_server called         *)
(* directly carries only the LOGIN and the LOGOUT.                         *)
(***************************************************************************)
THEOREM MessagesKeepOrder == Spec => []MessagesInOrder
<1>1. Init => Base /\ QueueInv
    BY BaseInit, QueueInit
<1>2. Base /\ QueueInv /\ [Next]_vars => (Base /\ QueueInv)'
    BY BaseNext, QueueNext
<1>3. Base /\ QueueInv => MessagesInOrder
  <2> SUFFICES ASSUME Base, QueueInv, NEW c \in Client
               PROVE  /\ \A i, j \in Sent(c) : i < j => served[c][i][2] < served[c][j][2]
                      /\ deaths = 0 =>
                          /\ \E n \in 0 .. taken[c] : Numbers(c) = 1 .. n
                          /\ served[c] # <<>> => Head(served[c])[1] = "LOGIN"
    BY DEF MessagesInOrder
  <2>1. \A i, j \in Sent(c) : i < j => served[c][i][2] < served[c][j][2]
    BY DEF QueueInv, OrderInv
  <2>2. ASSUME deaths = 0
        PROVE  /\ \E n \in 0 .. taken[c] : Numbers(c) = 1 .. n
               /\ served[c] # <<>> => Head(served[c])[1] = "LOGIN"
    <3>1. Complete(c)
      BY <2>2, QueueParts DEF QueueInv
    <3>2. served[c] # <<>> => Head(served[c]) = served[c][1]
      BY DEF Base, Typed, QueueType
    <3> QED BY <3>1, <3>2 DEF Complete
  <2> QED BY <2>1, <2>2
<1> QED BY <1>1, <1>2, <1>3, PTL DEF Spec


=============================================================================
