--------------------------- MODULE DeliveryProofs ---------------------------
(***************************************************************************)
(* What TLAPS proves of Delivery: the types, with the sessions of every    *)
(* user, who can be twice in a list of followers, and that every message   *)
(* arrives, in order, and once but for the receivers whose FOLLOW was      *)
(* entered again, for any number of users, threads and notifications.      *)
(***************************************************************************)
EXTENDS Delivery, SequenceTheorems, TLAPS

-----------------------------------------------------------------------------
(***************************************************************************)
(* Why: the inductive invariants.  First, the thread of the front end: it  *)
(* has something to send, and a command, when it is about to need it.      *)
(***************************************************************************)
Sending(t) == pc[t] \in {"send", "write", "keep"}

TurnInv ==
    /\ \A t \in Thread : pc[t] \in {"write", "keep"} => todo[t] # <<>>
    /\ pc["fe"] \notin {"idle", "gone"} => cmd.type # "none"
    /\ pc["fe"] = "login" => cmd.type = "LOGIN"
    /\ ~Sending("fe") => todo["fe"] = <<>>
    /\ cmd.type # "none" => cmd.author \in User
    /\ cmd.type \notin {"none", "LOGIN"} => cmd.author \in known

(***************************************************************************)
(* The sessions are those the front end has announced, up to the command   *)
(* that is still to be handled and those that were handled again.          *)
(***************************************************************************)
\* What the command that was read still does to the sessions of u.
Due(u) == IF pc["fe"] # "handle" \/ cmd.author # u THEN 0
          ELSE IF cmd.type = "LOGIN" THEN 1
          ELSE IF cmd.type = "LOGOUT" THEN -1 ELSE 0

SessionInv ==
    /\ \A u \in User : sessions[u] + Due(u) - feSessions[u] \in -replays .. replays
    /\ \A u \in User \ known : sessions[u] = 0 /\ (feSessions[u] = 0 \/ Due(u) = 1)
    /\ feLink = "up" => replays = 0

(***************************************************************************)
(* Whoever's FOLLOW is on its way has been entered, and is somebody else.  *)
(***************************************************************************)
RingInv   == \A r \in ring : r[1] # r[2] /\ Contains(followers[r[2]], r[1])
FollowInv == FollowersOnce /\ RingInv

(***************************************************************************)
(* The message that receive_message is sending is the newest, and all      *)
(* followers of its author are among those it was to reach: so whoever is  *)
(* entered again meanwhile gets it again, and no other.                    *)
(***************************************************************************)
Newest(n) ==
    /\ n.kind = "message"
    /\ \A u \in User : \A j \in DOMAIN addressed[u] : addressed[u][j] <= n.id
    /\ \A f \in User : Contains(followers[cmd.author], f) =>
          \E j \in DOMAIN addressed[f] : addressed[f][j] = n.id

SendInv ==
    /\ \A u \in User : \A i \in DOMAIN addressed[u] : addressed[u][i] < ids
    /\ cmd.type = "SEND" => \A i \in DOMAIN todo["fe"] : Newest(todo["fe"][i])

(***************************************************************************)
(* And the messages: those to u that the front end's thread has still to   *)
(* send come after those that wait for u, and these after those u got.     *)
(* The ones that wait are being sent themselves after a login.             *)
(***************************************************************************)
Flushing(u) == cmd.type = "LOGIN" /\ cmd.author = u /\ Sending("fe")
Waiting(u)  == IF Flushing(u) THEN {} ELSE {pending[u][i] : i \in Messages(pending[u])}
Coming(u)   == {todo["fe"][i] : i \in {j \in Messages(todo["fe"]) : todo["fe"][j].to = u}}
Got(u)      == {pushed[u][i] : i \in Messages(pushed[u])}

MessageInv ==
    /\ \A u \in User :
        /\ InOrder(Doubled(u), pushed[u]) /\ InOrder(Doubled(u), pending[u])
        /\ \A i \in DOMAIN pending[u] : pending[u][i].to = u
        /\ \A i, j \in Messages(todo["fe"]) :
              i < j /\ todo["fe"][i].to = u /\ todo["fe"][j].to = u =>
                  Before(Doubled(u), todo["fe"][i].id, todo["fe"][j].id)
        /\ \A m \in Got(u) : \A n \in Waiting(u) \cup Coming(u) : Before(Doubled(u), m.id, n.id)
        /\ \A m \in Waiting(u) : \A n \in Coming(u) : Before(Doubled(u), m.id, n.id)
        /\ {n.id : n \in Got(u) \cup Waiting(u) \cup Coming(u)} = Range(addressed[u])
        /\ \A i \in DOMAIN addressed[u] : addressed[u][i] < ids
        /\ Waiting(u) # {} /\ sessions[u] > 0 => cmd.author = u /\ pc["fe"] = "login"
        /\ Flushing(u) => /\ sessions[u] > 0
                          /\ \A i \in DOMAIN todo["fe"] : todo["fe"][i].to = u
    /\ cmd.type = "LOGIN" /\ pc["fe"] \in {"handle", "login"} => feSessions[cmd.author] > 0
    /\ pc["fe"] = "write" => sessions[Receiver("fe")] > 0
    /\ pc["fe"] = "keep" => sessions[Receiver("fe")] <= 0
    /\ \A t \in Slot : Messages(todo[t]) = {}

-----------------------------------------------------------------------------
(* The types, in parts.                                                     *)

TableType ==
    /\ known \subseteq User
    /\ sessions \in [User -> -MaxReplays .. MaxSessions + MaxReplays]
    /\ followers \in [User -> Seq(User)]
    /\ pending \in [User -> Seq(Notes)]
LockType ==
    /\ userLock \in [User -> Thread \cup {NoThread}]
    /\ pendingLock \in Thread \cup {NoThread}
ThreadType ==
    /\ pc \in [Thread -> {"idle", "handle", "login", "send", "write", "keep", "gone"}]
    /\ todo \in [Thread -> Seq(Notes)]
    /\ cmd \in [type : {"LOGIN", "LOGOUT", "SEND", "FOLLOW", "none"},
                author : User \cup {Nobody}, target : User \cup {Nobody}]
    /\ ids \in Nat /\ ring \subseteq User \X User
    /\ again \in [User \X User -> 0 .. MaxRounds]
LinkType ==
    /\ up \in BOOLEAN /\ feLink \in {"up", "closed", "reset", "broken", "shut"}
    /\ pushed \in [User -> Seq(Notes)] /\ addressed \in [User -> Seq(Nat)]
EnvType ==
    /\ feSessions \in [User -> 0 .. MaxSessions]
    /\ events \in 0 .. MaxEvents /\ replays \in 0 .. MaxReplays

Types == TableType /\ LockType /\ ThreadType /\ LinkType /\ EnvType

LEMMA TypeParts == (TypeOK <=> Types) /\ (TypeOK' <=> Types')
    BY DEF TypeOK, Types, TableType, LockType, ThreadType, LinkType, EnvType

LEMMA Constants ==
    /\ "fe" \in Thread /\ "fe" \notin Slot /\ Slot \subseteq Thread
    /\ Nobody \notin User /\ NoThread \notin Thread
    /\ MaxSessions \in Nat \ {0} /\ MaxEvents \in Nat /\ MaxReplays \in Nat
    /\ MaxRounds \in Nat
    BY DeliveryAssumption DEF Thread

Base == Types /\ TurnInv /\ SessionInv /\ FollowInv

\* Lists of followers that stay as they are.
LEMMA FollowStays ==
    ASSUME FollowInv, followers' = followers, again' = again, ring' \subseteq ring
    PROVE  FollowInv'
    BY DEF FollowInv, FollowersOnce, RingInv

-----------------------------------------------------------------------------
(* send_message.                                                            *)

LEMMA HeadOf ==
    ASSUME Types, NEW t \in Thread, todo[t] # <<>>
    PROVE  /\ Head(todo[t]) \in Notes /\ Receiver(t) \in User
           /\ Tail(todo[t]) \in Seq(Notes) /\ Len(todo[t]) \in Nat \ {0}
           /\ Head(todo[t]) = todo[t][1] /\ Len(Tail(todo[t])) = Len(todo[t]) - 1
           /\ \A i \in 1 .. Len(todo[t]) - 1 : Tail(todo[t])[i] = todo[t][i + 1]
<1>1. todo[t] \in Seq(Notes)
    BY DEF Types, ThreadType
<1>2. Head(todo[t]) \in Notes /\ Tail(todo[t]) \in Seq(Notes) /\ Len(todo[t]) \in Nat \ {0}
    BY <1>1
<1>3. Receiver(t) \in User
    BY <1>2 DEF Receiver, Notes
<1> QED BY <1>1, <1>2, <1>3

LEMMA SendBase ==
    ASSUME Base, NEW t \in Thread, SendMessage(t)
    PROVE  /\ Base' /\ todo[t] # <<>>
           /\ \A j \in Thread : j # t => todo'[j] = todo[j] /\ pc'[j] = pc[j]
           /\ UNCHANGED <<known, sessions, followers, cmd, ids, again, addressed, feSessions>>
<1>1. todo[t] # <<>>
    BY DEF SendMessage, LockReceiver, WriteFE, Keep, Base, TurnInv
<1>2. /\ Head(todo[t]) \in Notes /\ Receiver(t) \in User /\ Tail(todo[t]) \in Seq(Notes)
    BY <1>1, HeadOf DEF Base
<1>3. UNCHANGED <<known, sessions, followers, cmd, ids, ring, again, addressed, envVars>>
    BY DEF SendMessage, LockReceiver, WriteFE, Keep, tableVars, feVars
<1>4. /\ pc[t] \in {"send", "write", "keep"} /\ pc'[t] \in {"send", "write", "keep"}
      /\ pc[t] = "send" => todo'[t] = todo[t]
      /\ pc[t] # "send" => pc'[t] = "send"
      /\ \A j \in Thread : j # t => todo'[j] = todo[j] /\ pc'[j] = pc[j]
    BY DEF SendMessage, LockReceiver, WriteFE, Keep, Done, Goto, Base, Types, ThreadType
<1>5. TableType'
  <2>1. pending' \in [User -> Seq(Notes)]
    <3>1. CASE Keep(t)
      <4>1. Append(pending[Receiver(t)], Head(todo[t])) \in Seq(Notes)
        BY <1>2 DEF Base, Types, TableType
      <4> QED BY <3>1, <4>1 DEF Keep, Base, Types, TableType
    <3>2. CASE LockReceiver(t) \/ WriteFE(t)
      BY <3>2 DEF LockReceiver, WriteFE, tableVars, Base, Types, TableType
    <3> QED BY <3>1, <3>2 DEF SendMessage
  <2> QED BY <1>3, <2>1 DEF Base, Types, TableType
<1>6. LockType'
    BY <1>2, Constants
       DEF SendMessage, LockReceiver, WriteFE, Keep, Release, Base, Types, LockType
<1>7. ThreadType'
  <2>1. pc' \in [Thread -> {"idle", "handle", "login", "send", "write", "keep", "gone"}]
    BY DEF SendMessage, LockReceiver, WriteFE, Keep, Goto, Base, Types, ThreadType
  <2>2. todo' \in [Thread -> Seq(Notes)]
    BY <1>2 DEF SendMessage, LockReceiver, WriteFE, Keep, Done, Base, Types, ThreadType
  <2> QED BY <1>3, <2>1, <2>2 DEF Base, Types, ThreadType
<1>8. LinkType'
  <2>1. CASE WriteFE(t)
    <3>1. Append(pushed[Receiver(t)], Head(todo[t])) \in Seq(Notes)
      BY <1>2 DEF Base, Types, LinkType
    <3>2. pushed' \in [User -> Seq(Notes)]
      BY <2>1, <3>1 DEF WriteFE, Base, Types, LinkType
    <3>3. feLink' \in {"up", "closed", "reset", "broken", "shut"}
      BY <2>1 DEF WriteFE, Base, Types, LinkType
    <3>4. up' \in BOOLEAN
      <4>1. up' = up \/ up' \in {TRUE} \/ up' \in BOOLEAN
        BY <2>1 DEF WriteFE
      <4>2. up \in BOOLEAN
        BY DEF Base, Types, LinkType
      <4> QED BY <4>1, <4>2, Zenon
    <3> QED BY <1>3, <3>2, <3>3, <3>4 DEF Base, Types, LinkType
  <2>2. CASE LockReceiver(t) \/ Keep(t)
    BY <2>2 DEF LockReceiver, Keep, feVars, Base, Types, LinkType
  <2> QED BY <2>1, <2>2 DEF SendMessage
<1>9. EnvType'
    BY <1>3 DEF envVars, Base, Types, EnvType
<1>10. TurnInv'
  <2>1. \A j \in Thread : pc'[j] \in {"write", "keep"} => todo'[j] # <<>>
    BY <1>1, <1>4 DEF Base, TurnInv
  <2>2. Sending("fe")' <=> Sending("fe")
    BY <1>4, Constants DEF Sending
  <2>3. pc'["fe"] # "idle" => pc["fe"] # "idle"
    BY <1>4, Constants
  <2>4. pc'["fe"] = "login" => pc["fe"] = "login"
    BY <1>4, Constants
  <2>5. ~Sending("fe") => t # "fe"
    BY <1>4 DEF Sending
  <2> QED BY <1>3, <1>4, <2>1, <2>2, <2>3, <2>4, <2>5, Constants DEF Base, TurnInv
<1>11. SessionInv'
  <2>1. (pc'["fe"] = "handle") <=> (pc["fe"] = "handle")
    BY <1>4, Constants
  <2>2. \A u \in User : Due(u)' = Due(u)
    BY <1>3, <2>1 DEF Due
  <2>3. feLink' = "up" => feLink = "up"
    BY DEF SendMessage, LockReceiver, WriteFE, Keep, feVars
  <2> QED BY <1>3, <2>2, <2>3 DEF envVars, Base, SessionInv
<1>12. FollowInv'
    BY <1>3, FollowStays DEF Base
<1> QED BY <1>1, <1>3, <1>4, <1>5, <1>6, <1>7, <1>8, <1>9, <1>10, <1>11, <1>12
        DEF Base, Types, envVars

-----------------------------------------------------------------------------
(* The other steps.                                                         *)

LEMMA DueNothing ==
    /\ pc["fe"] # "handle" \/ cmd.type \notin {"LOGIN", "LOGOUT"} => \A u \in User : Due(u) = 0
    /\ pc'["fe"] # "handle" \/ cmd'.type \notin {"LOGIN", "LOGOUT"} => \A u \in User : Due(u)' = 0
    BY DEF Due

LEMMA SessionStays ==
    ASSUME Base, UNCHANGED <<known, sessions, feSessions, replays>>, feLink' = "up" => feLink = "up",
           \A u \in User : Due(u)' = Due(u)
    PROVE  SessionInv'
    BY DEF Base, SessionInv

LEMMA ReceiveBase ==
    ASSUME Base, NEW n \in Command, Receive(n)
    PROVE  Base'
<1>1. n.author \in User /\ n.type \in {"LOGIN", "LOGOUT", "SEND", "FOLLOW"} /\ n.target \in User \cup {Nobody}
    BY DEF Command
<1>2. \A u \in User : Due(u) = 0
    BY DueNothing DEF Receive
<1>3. n.type # "LOGIN" => n.author \in known
    BY <1>1, <1>2 DEF Receive, Sends, Base, SessionInv, Types, EnvType
<1>4. TableType' /\ LockType' /\ LinkType'
    BY DEF Receive, Base, Types, TableType, LockType, LinkType, tableVars, lockVars, feVars
<1>5. ThreadType'
  <2>1. cmd' \in [type : {"LOGIN", "LOGOUT", "SEND", "FOLLOW", "none"},
                  author : User \cup {Nobody}, target : User \cup {Nobody}]
    <3>1. cmd' = n
      BY DEF Receive
    <3> QED BY <3>1 DEF Command
  <2> QED BY <2>1, Constants DEF Receive, Goto, Base, Types, ThreadType
<1>6. feSessions' \in [User -> 0 .. MaxSessions]
  <2>1. feSessions[n.author] + (IF n.type = "LOGIN" THEN 1 ELSE IF n.type = "LOGOUT" THEN -1 ELSE 0)
           \in 0 .. MaxSessions
    BY <1>1, Constants DEF Receive, Sends, Base, Types, EnvType
  <2> QED BY <2>1 DEF Receive, Base, Types, EnvType
<1>7. EnvType'
    BY <1>6, Constants DEF Receive, Base, Types, EnvType
<1>8. pc["fe"] = "idle" /\ pc'["fe"] = "handle" /\ \A j \in Thread : j # "fe" => pc'[j] = pc[j]
    BY Constants DEF Receive, Goto, Base, Types, ThreadType
<1>9. TurnInv'
    BY <1>1, <1>3, <1>8 DEF Receive, Base, TurnInv, Sending, tableVars
<1>10. SessionInv'
  <2>1. ASSUME NEW u \in User
        PROVE  /\ Due(u)' = feSessions'[u] - feSessions[u]
               /\ feSessions'[u] # feSessions[u] /\ u \notin known => Due(u)' = 1
    <3>1. CASE u = n.author
      BY <1>1, <1>3, <1>8, <3>1 DEF Receive, Due, Base, Types, EnvType
    <3>2. CASE u # n.author
      BY <1>1, <1>8, <3>2 DEF Receive, Due, Base, Types, EnvType
    <3> QED BY <3>1, <3>2
  <2>2. \A u \in User : sessions[u] \in Int /\ feSessions[u] \in Int /\ feSessions'[u] \in Int
    BY <1>6, Constants DEF Base, Types, TableType, EnvType
  <2>3. UNCHANGED <<known, sessions, replays, feLink>>
    BY DEF Receive, tableVars, feVars
  <2> QED BY <1>2, <2>1, <2>2, <2>3, Constants DEF Base, SessionInv, Types, EnvType
<1>11. FollowInv'
    BY FollowStays DEF Receive, tableVars, Base
<1> QED BY <1>4, <1>5, <1>7, <1>9, <1>10, <1>11 DEF Base, Types

LEMMA ReplayBase ==
    ASSUME Base, Replay
    PROVE  Base'
<1>1. TableType' /\ LockType' /\ LinkType'
    BY DEF Replay, Base, Types, TableType, LockType, LinkType, tableVars, lockVars, feVars
<1>2. ThreadType' /\ EnvType'
    BY Constants DEF Replay, Goto, Base, Types, ThreadType, EnvType
<1>3. pc["fe"] = "idle" /\ pc'["fe"] = "handle" /\ \A j \in Thread : j # "fe" => pc'[j] = pc[j]
    BY Constants DEF Replay, Goto, Base, Types, ThreadType
<1>4. TurnInv'
  <2>1. cmd.type # "none"
    BY DEF Replay
  <2> QED BY <1>3, <2>1 DEF Replay, Base, TurnInv, Sending, tableVars
<1>5. SessionInv'
  <2>1. \A u \in User : Due(u) = 0 /\ Due(u)' \in {-1, 0, 1}
    BY <1>3 DEF Due
  <2>2. \A u \in User : sessions[u] \in Int /\ feSessions[u] \in Int
    BY Constants DEF Base, Types, TableType, EnvType
  <2>3. UNCHANGED <<known, sessions, feSessions, feLink>> /\ replays' = replays + 1 /\ replays \in Nat
    BY DEF Replay, tableVars, feVars, Base, Types, EnvType
  <2>4. feLink' # "up"
    BY DEF Replay, feVars
  <2>5. \A u \in User : sessions'[u] + Due(u)' - feSessions'[u] \in -replays' .. replays'
    BY <2>1, <2>2, <2>3 DEF Base, SessionInv
  <2>6. \A u \in User \ known : sessions[u] = 0 /\ feSessions[u] = 0
    BY <2>1 DEF Base, SessionInv
  <2> QED BY <2>3, <2>4, <2>5, <2>6 DEF SessionInv
<1>6. FollowInv'
    BY FollowStays DEF Replay, tableVars, Base
<1> QED BY <1>1, <1>2, <1>4, <1>5, <1>6 DEF Base, Types

LEMMA ClosesBase ==
    ASSUME Base, FrontEndCloses
    PROVE  Base'
<1>1. TableType' /\ LockType' /\ ThreadType'
    BY DEF FrontEndCloses, Base, Types, TableType, LockType, ThreadType, tableVars, lockVars
<1>2. LinkType'
    BY DEF FrontEndCloses, Base, Types, LinkType
<1>3. EnvType'
    BY Constants DEF FrontEndCloses, Base, Types, EnvType
<1>4. TurnInv'
    BY DEF FrontEndCloses, Base, TurnInv, Sending, tableVars
<1>5. FollowInv'
    BY FollowStays DEF FrontEndCloses, Base, tableVars
<1>6. SessionInv'
    BY SessionStays DEF FrontEndCloses, tableVars, Due
<1> QED BY <1>1, <1>2, <1>3, <1>4, <1>5, <1>6 DEF Base, Types

LEMMA FailsBase ==
    ASSUME Base, ReadFails
    PROVE  Base'
<1>1. /\ pc["fe"] = "idle" /\ pc'["fe"] = "gone" /\ \A j \in Thread : j # "fe" => pc'[j] = pc[j]
      /\ feLink' = "shut"
      /\ UNCHANGED <<tableVars, lockVars, todo, cmd, ids, ring, again, up, pushed, envVars, addressed>>
    BY Constants DEF ReadFails, Goto, Base, Types, ThreadType
<1>2. TableType' /\ LockType' /\ LinkType' /\ EnvType'
    BY <1>1 DEF Base, Types, TableType, LockType, LinkType, EnvType, tableVars, lockVars, envVars
<1>3. ThreadType'
    BY <1>1, Constants DEF ReadFails, Goto, Base, Types, ThreadType
<1>4. TurnInv'
    BY <1>1 DEF Base, TurnInv, Sending, tableVars
<1>5. FollowInv'
    BY <1>1, FollowStays DEF Base, tableVars
<1>6. SessionInv'
    BY <1>1, SessionStays DEF tableVars, envVars, Due
<1> QED BY <1>2, <1>3, <1>4, <1>5, <1>6 DEF Base, Types

\* login_user and logout_user.
LEMMA CountBase ==
    ASSUME Base, Login \/ Logout
    PROVE  Base'
<1>1. /\ pc["fe"] = "handle" /\ pc'["fe"] \in {"login", "idle"} /\ cmd.author \in User
      /\ \A j \in Thread : j # "fe" => pc'[j] = pc[j]
      /\ pc'["fe"] = "login" => cmd.type = "LOGIN"
    BY Constants DEF Login, Logout, Handling, Goto, Base, TurnInv, Types, ThreadType
<1>2. UNCHANGED <<followers, pending, lockVars, todo, cmd, ids, ring, again, feVars, envVars, addressed>>
    BY DEF Login, Logout
<1>3. LockType' /\ LinkType' /\ EnvType'
    BY <1>2 DEF Base, Types, LockType, LinkType, EnvType, lockVars, feVars, envVars
<1>4. ThreadType'
    BY <1>2, Constants DEF Login, Logout, Goto, Base, Types, ThreadType
<1>5. known' = known \cup {cmd.author}
    BY DEF Login, Logout, Handling, Base, TurnInv
<1> PICK due : due = [u \in User |-> Due(u)]
    OBVIOUS
<1>6. /\ \A u \in User : due[u] \in Int /\ Due(u) = due[u] /\ Due(u)' = 0
      /\ \A u \in User : sessions'[u] = sessions[u] + due[u] /\ (u = cmd.author \/ due[u] = 0)
    BY <1>1 DEF Login, Logout, Handling, Due, Base, Types, TableType, SessionInv
<1>7. \A u \in User : sessions[u] \in Int /\ feSessions[u] \in 0 .. MaxSessions
    BY Constants DEF Base, Types, TableType, EnvType
<1>8. replays \in 0 .. MaxReplays
    BY DEF Base, Types, EnvType
<1>9. \A u \in User : /\ sessions'[u] - feSessions[u] \in -replays .. replays
                       /\ sessions'[u] \in -MaxReplays .. MaxSessions + MaxReplays
  <2> SUFFICES ASSUME NEW u \in User
               PROVE  /\ sessions'[u] - feSessions[u] \in -replays .. replays
                      /\ sessions'[u] \in -MaxReplays .. MaxSessions + MaxReplays
    OBVIOUS
  <2>1. sessions[u] + Due(u) - feSessions[u] \in -replays .. replays
    BY DEF Base, SessionInv
  <2>2. /\ sessions'[u] = sessions[u] + due[u] /\ sessions[u] \in Int /\ due[u] \in Int
        /\ feSessions[u] \in 0 .. MaxSessions /\ Due(u) = due[u]
    BY <1>6, <1>7
  <2> QED BY <1>8, <2>1, <2>2, Constants
<1>10. TableType'
  <2>1. sessions' \in [User -> -MaxReplays .. MaxSessions + MaxReplays]
    BY <1>9 DEF Login, Logout, Base, Types, TableType
  <2> QED BY <1>1, <1>2, <1>5, <2>1 DEF Base, Types, TableType
<1>11. TurnInv'
    BY <1>1, <1>2, <1>5 DEF Base, TurnInv, Sending
<1>12. SessionInv'
  <2>1. \A u \in User : sessions'[u] + Due(u)' - feSessions'[u] \in -replays' .. replays'
    <3> SUFFICES ASSUME NEW u \in User
                 PROVE  sessions'[u] + Due(u)' - feSessions'[u] \in -replays' .. replays'
      OBVIOUS
    <3>1. sessions'[u] \in Int /\ feSessions' = feSessions /\ replays' = replays
      BY <1>2, <1>9 DEF envVars
    <3>3. Due(u)' = 0 /\ feSessions[u] \in Int
      BY <1>6, <1>7, Constants
    <3>2. sessions'[u] - feSessions[u] \in -replays .. replays
      BY <1>9
    <3> QED BY <3>1, <3>2, <3>3
  <2>2. ASSUME NEW u \in User \ known' PROVE sessions'[u] = 0 /\ feSessions'[u] = 0
    <3>1. u \in User \ known /\ u # cmd.author
      BY <1>5
    <3>2. sessions[u] = 0 /\ (feSessions[u] = 0 \/ Due(u) = 1)
      BY <3>1 DEF Base, SessionInv
    <3>3. Due(u) = 0 /\ due[u] = 0 /\ sessions'[u] = sessions[u] + due[u]
      BY <1>6, <3>1
    <3> QED BY <1>2, <3>2, <3>3 DEF envVars
  <2> QED BY <1>2, <2>1, <2>2 DEF envVars, feVars, Base, SessionInv
<1>13. FollowInv'
    BY <1>2, FollowStays DEF Base
<1> QED BY <1>3, <1>4, <1>10, <1>11, <1>12, <1>13 DEF Base, Types

\* The steps that only pass notifications on.
Passes ==
    \/ TakePending \/ ClearPending \/ ReceiveMessage \/ MessageDone
    \/ FollowNobody \/ FollowNew \/ FollowAgain \/ FollowDone
    \/ \E t \in Slot : AnswerDone(t) \/ \E r \in ring : Agreed(t, r)

LEMMA NoteMade ==
    ASSUME Types, NEW u \in User, NEW t \in Thread
    PROVE  Note("message", u) \in Notes /\ Info(u, t) \in Notes
    BY Constants DEF Note, Info, Notes, Types, ThreadType

\* receive_message: to whom the notifications go.
LEMMA Receivers ==
    ASSUME Base, ReceiveMessage,
           NEW to, to = <<cmd.author>> \o followers[cmd.author]
    PROVE  /\ to \in Seq(User) /\ DOMAIN to = 1 .. Len(to)
           /\ \A i, j \in DOMAIN to : i # j /\ to[i] = to[j] => Doubled(to[i])
           /\ todo'["fe"] = [i \in DOMAIN to |-> Note("message", to[i])]
           /\ todo'["fe"] \in Seq(Notes)
           /\ addressed' = [u \in User |-> IF Contains(to, u) THEN Append(addressed[u], ids)
                                           ELSE addressed[u]]
<1>1. cmd.author \in User
    BY DEF ReceiveMessage, Handling, Base, TurnInv
<1>2. followers[cmd.author] \in Seq(User)
    BY <1>1 DEF Base, Types, TableType
<1>3. to \in Seq(User) /\ DOMAIN to = 1 .. Len(to)
    BY <1>1, <1>2
<1>4. \A i, j \in DOMAIN to : i # j /\ to[i] = to[j] => Doubled(to[i])
  <2>1. PICK f \in Seq(User) : f = followers[cmd.author]
    BY <1>2
  <2>2. /\ ~Contains(f, cmd.author)
        /\ \A i, j \in DOMAIN f : i # j /\ f[i] = f[j] => again[<<f[i], cmd.author>>] > 0
    BY <1>1, <2>1 DEF Base, FollowInv, FollowersOnce
  <2>3. /\ DOMAIN f = 1 .. Len(f) /\ Len(f) \in Nat /\ Len(to) = Len(f) + 1
        /\ to[1] = cmd.author /\ \A i \in 1 .. Len(f) : to[i + 1] = f[i]
    BY <1>1, <1>3, <2>1
  <2>4. \A i \in 1 .. Len(f) : f[i] # cmd.author
    BY <2>2, <2>3 DEF Contains
  <2>5. ASSUME NEW i \in DOMAIN to, i # 1 PROVE i - 1 \in 1 .. Len(f) /\ to[i] = f[i - 1]
    <3>1. i - 1 \in 1 .. Len(f) /\ (i - 1) + 1 = i
      BY <1>3, <2>3, <2>5
    <3> QED BY <2>3, <3>1
  <2> SUFFICES ASSUME NEW a \in DOMAIN to, NEW b \in DOMAIN to, a # b, to[a] = to[b]
               PROVE  Doubled(to[a])
    OBVIOUS
  <2>6. a # 1 /\ b # 1
    BY <2>3, <2>4, <2>5
  <2>7. a - 1 \in DOMAIN f /\ b - 1 \in DOMAIN f /\ a - 1 # b - 1
    BY <1>3, <2>3, <2>5, <2>6
  <2>8. again[<<to[a], cmd.author>>] > 0
    BY <2>2, <2>5, <2>6, <2>7
  <2> QED BY <1>1, <2>8 DEF Doubled
<1>5. todo'["fe"] = [i \in DOMAIN to |-> Note("message", to[i])]
    BY Constants DEF ReceiveMessage, Base, Types, ThreadType
<1>6. \A i \in 1 .. Len(to) : Note("message", to[i]) \in Notes
    BY <1>3, NoteMade, Constants DEF Base
<1>7. todo'["fe"] \in Seq(Notes)
    BY <1>3, <1>5, <1>6
<1> QED BY <1>3, <1>4, <1>5, <1>7 DEF ReceiveMessage

LEMMA PassingTypes ==
    ASSUME Base, Passes
    PROVE  Types'
<1>1. cmd.type # "none" => cmd.author \in User
    BY DEF Base, TurnInv
<1>2. UNCHANGED <<known, sessions, feVars, envVars>>
    BY DEF Passes, TakePending, ClearPending, ReceiveMessage, MessageDone, FollowNobody, FollowNew,
       FollowAgain, FollowDone, AnswerDone, Agreed, tableVars
<1>3. EnvType'
    BY <1>2 DEF envVars, Base, Types, EnvType
<1>4. followers' \in [User -> Seq(User)] /\ pending' \in [User -> Seq(Notes)]
  <2>1. CASE FollowNew
    <3>1. cmd.target \in User /\ cmd.author \in User
      BY <1>1, <2>1 DEF FollowNew, Handling, Base, Types, TableType
    <3>2. Append(followers[cmd.target], cmd.author) \in Seq(User)
      BY <3>1 DEF Base, Types, TableType
    <3> QED BY <2>1, <3>2 DEF FollowNew, Base, Types, TableType
  <2>2. CASE ClearPending
    <3>1. <<>> \in Seq(Notes)
      OBVIOUS
    <3> QED BY <2>2, <3>1 DEF ClearPending, Base, Types, TableType
  <2>3. CASE ~FollowNew /\ ~ClearPending
    BY <2>3 DEF Passes, TakePending, ReceiveMessage, MessageDone, FollowNobody, FollowAgain,
       FollowDone, AnswerDone, Agreed, tableVars, Base, Types, TableType
  <2> QED BY <2>1, <2>2, <2>3
<1>5. TableType'
    BY <1>2, <1>4 DEF Base, Types, TableType
<1>6. LockType'
    BY Constants DEF Passes, TakePending, ClearPending, ReceiveMessage, MessageDone, FollowNobody,
       FollowNew, FollowAgain, FollowDone, AnswerDone, Agreed, lockVars, Base, Types, LockType
<1>7. todo' \in [Thread -> Seq(Notes)]
  <2>1. CASE TakePending
    <3>1. pending[cmd.author] \in Seq(Notes)
      BY <1>1, <2>1 DEF TakePending, Base, TurnInv, Types, TableType
    <3> QED BY <2>1, <3>1 DEF TakePending, Base, Types, ThreadType
  <2>2. CASE ReceiveMessage
    <3>1. todo'["fe"] \in Seq(Notes)
      BY <2>2, Receivers
    <3> QED BY <2>2, <3>1, Constants DEF ReceiveMessage, Base, Types, ThreadType
  <2>3. ASSUME NEW u \in User, NEW t \in Thread, todo' = [todo EXCEPT ![t] = <<Info(u, t)>>]
        PROVE  todo' \in [Thread -> Seq(Notes)]
    <3>1. <<Info(u, t)>> \in Seq(Notes)
      BY NoteMade DEF Base
    <3> QED BY <2>3, <3>1 DEF Base, Types, ThreadType
  <2>4. CASE FollowNobody \/ FollowAgain
    BY <1>1, <2>3, <2>4, Constants DEF FollowNobody, FollowAgain, Handling
  <2>5. ASSUME NEW t \in Slot, NEW r \in ring, Agreed(t, r) PROVE todo' \in [Thread -> Seq(Notes)]
    <3>1. r[1] \in User
      BY DEF Base, Types, ThreadType
    <3> QED BY <2>3, <2>5, <3>1, Constants DEF Agreed
  <2>6. CASE UNCHANGED todo
    BY <2>6 DEF Base, Types, ThreadType
  <2> QED BY <2>1, <2>2, <2>4, <2>5, <2>6
          DEF Passes, ClearPending, MessageDone, FollowNew, FollowDone, AnswerDone
<1>8. pc' \in [Thread -> {"idle", "handle", "login", "send", "write", "keep", "gone"}]
    BY Constants DEF Passes, TakePending, ClearPending, ReceiveMessage, MessageDone, FollowNobody,
       FollowNew, FollowAgain, FollowDone, AnswerDone, Agreed, Goto, Base, Types, ThreadType
<1>9. /\ cmd' \in [type : {"LOGIN", "LOGOUT", "SEND", "FOLLOW", "none"},
                   author : User \cup {Nobody}, target : User \cup {Nobody}]
      /\ ids' \in Nat
    BY DEF Passes, TakePending, ClearPending, ReceiveMessage, MessageDone, FollowNobody,
       FollowNew, FollowAgain, FollowDone, AnswerDone, Agreed, Base, Types, ThreadType
<1>10. ring' \subseteq User \X User
  <2>1. CASE FollowNew
    <3>1. cmd.target \in User /\ cmd.author \in User
      BY <1>1, <2>1 DEF FollowNew, Handling, Base, Types, TableType
    <3> QED BY <2>1, <3>1 DEF FollowNew, Base, Types, ThreadType
  <2>2. CASE ~FollowNew
    BY <2>2 DEF Passes, TakePending, ClearPending, ReceiveMessage, MessageDone, FollowNobody,
       FollowAgain, FollowDone, AnswerDone, Agreed, Base, Types, ThreadType
  <2> QED BY <2>1, <2>2
<1>13. again' \in [User \X User -> 0 .. MaxRounds]
    BY DEF Passes, TakePending, ClearPending, ReceiveMessage, MessageDone, FollowNobody, FollowNew,
       FollowAgain, FollowDone, AnswerDone, Agreed, Base, Types, ThreadType
<1>11. addressed' \in [User -> Seq(Nat)]
  <2>1. CASE ReceiveMessage
    <3>1. \A u \in User : Append(addressed[u], ids) \in Seq(Nat)
      BY DEF Base, Types, ThreadType, LinkType
    <3> QED BY <2>1, <3>1 DEF ReceiveMessage, Base, Types, LinkType
  <2>2. CASE ~ReceiveMessage
    BY <2>2 DEF Passes, TakePending, ClearPending, MessageDone, FollowNobody, FollowNew,
       FollowAgain, FollowDone, AnswerDone, Agreed, Base, Types, LinkType
  <2> QED BY <2>1, <2>2
<1>12. LinkType'
    BY <1>2, <1>11 DEF feVars, Base, Types, LinkType
<1> QED BY <1>3, <1>5, <1>6, <1>7, <1>8, <1>9, <1>10, <1>12, <1>13 DEF Types, ThreadType

\* A step of the front end's thread, or of one that answers.
FePasses ==
    \/ TakePending \/ ClearPending \/ ReceiveMessage \/ MessageDone
    \/ FollowNobody \/ FollowNew \/ FollowAgain \/ FollowDone

LEMMA FePassing ==
    ASSUME Base, FePasses
    PROVE  /\ pc["fe"] \in {"handle", "login", "send"} /\ pc'["fe"] \in {"send", "idle"}
           /\ pc["fe"] = "handle" => cmd.type \in {"SEND", "FOLLOW"}
           /\ pc'["fe"] = "idle" => todo'["fe"] = <<>>
           /\ pc["fe"] = "login" => cmd.type = "LOGIN"
           /\ \A j \in Slot : pc'[j] = pc[j] /\ todo'[j] = todo[j]
           /\ cmd.author \in User /\ cmd'.author = cmd.author /\ cmd'.type = cmd.type
           /\ cmd.type # "none"
<1>1. /\ pc["fe"] \in {"handle", "login", "send"} /\ pc'["fe"] \in {"send", "idle"}
      /\ pc["fe"] = "handle" => cmd.type \in {"SEND", "FOLLOW"}
      /\ \A j \in Slot : pc'[j] = pc[j]
    BY Constants DEF FePasses, TakePending, ClearPending, ReceiveMessage, MessageDone, FollowNobody,
       FollowNew, FollowAgain, FollowDone, Handling, Sent, Goto, Base, Types, ThreadType
<1>2. \A j \in Slot : todo'[j] = todo[j]
    BY Constants DEF FePasses, TakePending, ClearPending, ReceiveMessage, MessageDone, FollowNobody,
       FollowNew, FollowAgain, FollowDone, Base, Types, ThreadType
<1>3. pc'["fe"] = "idle" => todo'["fe"] = <<>>
  <2>1. CASE FollowNew
    <3>1. ~Sending("fe")
      BY <2>1 DEF FollowNew, Handling, Sending
    <3> QED BY <2>1, <3>1 DEF FollowNew, Base, TurnInv
  <2>2. CASE TakePending \/ ReceiveMessage \/ FollowNobody \/ FollowAgain
    BY <2>2, Constants DEF TakePending, ReceiveMessage, FollowNobody, FollowAgain, Goto, Base, Types,
       ThreadType
  <2>3. CASE ClearPending \/ MessageDone \/ FollowDone
    BY <2>3 DEF ClearPending, MessageDone, FollowDone, Sent
  <2> QED BY <2>1, <2>2, <2>3 DEF FePasses
<1>4. /\ cmd.author \in User /\ cmd.type # "none"
      /\ pc["fe"] = "login" => cmd.type = "LOGIN"
    BY <1>1 DEF Base, TurnInv
<1>5. cmd'.author = cmd.author /\ cmd'.type = cmd.type
    BY DEF FePasses, TakePending, ClearPending, ReceiveMessage, MessageDone, FollowNobody,
       FollowNew, FollowAgain, FollowDone, Base, Types, ThreadType
<1> QED BY <1>1, <1>2, <1>3, <1>4, <1>5

LEMMA FollowersKept ==
    ASSUME Base, Passes
    PROVE  FollowInv' /\ again' = again
<1>1. again' = again
    BY DEF Passes, TakePending, ClearPending, ReceiveMessage, MessageDone, FollowNobody, FollowNew,
       FollowAgain, FollowDone, AnswerDone, Agreed
<1>2. CASE FollowNew
  <2>1. /\ cmd.author \in User /\ cmd.target \in User /\ cmd.target # cmd.author
        /\ ~Contains(followers[cmd.target], cmd.author)
        /\ followers' = [followers EXCEPT ![cmd.target] = Append(@, cmd.author)]
        /\ ring' = ring \cup {<<cmd.author, cmd.target>>}
    BY <1>2 DEF FollowNew, Handling, Base, TurnInv, Types, TableType
  <2>2. \A u \in User : followers[u] \in Seq(User)
    BY DEF Base, Types, TableType
  <2>3. \A u \in User : u # cmd.target => followers'[u] = followers[u]
    BY <2>1 DEF Base, Types, TableType
  <2>4. PICK f \in Seq(User) : f = followers[cmd.target]
    BY <2>1, <2>2
  <2>5. PICK g : g = Append(f, cmd.author) /\ followers'[cmd.target] = g
    BY <2>1, <2>4 DEF Base, Types, TableType
  <2>6. /\ DOMAIN f = 1 .. Len(f) /\ DOMAIN g = 1 .. Len(f) + 1 /\ Len(g) = Len(f) + 1 /\ Len(f) \in Nat
        /\ g[Len(f) + 1] = cmd.author /\ \A i \in 1 .. Len(f) : g[i] = f[i]
    BY <2>1, <2>5
  <2>7. \A i \in 1 .. Len(f) : f[i] # cmd.author
    BY <2>1, <2>4 DEF Contains
  <2>8. ASSUME NEW u \in User
        PROVE  /\ ~Contains(followers'[u], u)
               /\ \A i, j \in DOMAIN followers'[u] : i # j /\ followers'[u][i] = followers'[u][j] =>
                     again[<<followers'[u][i], u>>] > 0
    <3>1. /\ ~Contains(followers[u], u)
          /\ \A i, j \in DOMAIN followers[u] : i # j /\ followers[u][i] = followers[u][j] =>
                again[<<followers[u][i], u>>] > 0
      BY DEF Base, FollowInv, FollowersOnce
    <3>2. CASE u # cmd.target
      <4>1. followers'[u] = followers[u]
        BY <2>3, <3>2
      <4> QED BY <3>1, <4>1
    <3>3. CASE u = cmd.target
      <4>1. \A i \in 1 .. Len(f) : f[i] # u
        BY <2>4, <3>1, <3>3 DEF Contains
      <4>2. \A i \in 1 .. Len(g) : g[i] # u
        BY <2>1, <2>6, <3>3, <4>1
      <4>3. \A i, j \in DOMAIN f : i # j /\ f[i] = f[j] => again[<<f[i], u>>] > 0
        BY <2>4, <3>1, <3>3
      <4>4. \A i, j \in DOMAIN g : i # j /\ g[i] = g[j] => i \in DOMAIN f /\ j \in DOMAIN f
        BY <2>6, <2>7
      <4>5. \A i, j \in DOMAIN g : i # j /\ g[i] = g[j] => again[<<g[i], u>>] > 0
        BY <2>6, <4>3, <4>4
      <4> QED BY <2>5, <3>3, <4>2, <4>5 DEF Contains
    <3> QED BY <3>2, <3>3
  <2>9. FollowersOnce'
    BY <1>1, <2>8 DEF FollowersOnce
  <2>10. ASSUME NEW r \in ring' PROVE r[1] # r[2] /\ Contains(followers'[r[2]], r[1])
    <3>1. CASE r = <<cmd.author, cmd.target>>
      <4>1. r[1] = cmd.author /\ r[2] = cmd.target /\ Len(f) + 1 \in 1 .. Len(g)
        BY <2>6, <3>1
      <4> QED BY <2>1, <2>5, <2>6, <4>1 DEF Contains
    <3>2. CASE r \in ring
      <4>1. r[1] # r[2] /\ Contains(followers[r[2]], r[1]) /\ r[2] \in User
        BY <3>2 DEF Base, FollowInv, RingInv, Types, ThreadType
      <4>2. CASE r[2] # cmd.target
        BY <2>3, <4>1, <4>2
      <4>3. CASE r[2] = cmd.target
        <5>1. PICK i \in 1 .. Len(f) : f[i] = r[1]
          BY <2>4, <4>1, <4>3 DEF Contains
        <5>2. i \in 1 .. Len(g) /\ g[i] = r[1]
          BY <2>6, <5>1
        <5> QED BY <2>5, <4>1, <4>3, <5>2 DEF Contains
      <4> QED BY <4>2, <4>3
    <3> QED BY <2>1, <3>1, <3>2
  <2> QED BY <1>1, <2>9, <2>10 DEF FollowInv, RingInv
<1>3. CASE ~FollowNew
  <2>1. followers' = followers /\ ring' \subseteq ring
    BY <1>3 DEF Passes, TakePending, ClearPending, ReceiveMessage, MessageDone, FollowNobody,
       FollowAgain, FollowDone, AnswerDone, Agreed, tableVars
  <2> QED BY <1>1, <2>1, FollowStays DEF Base
<1> QED BY <1>2, <1>3

LEMMA PassingBase ==
    ASSUME Base, Passes
    PROVE  Base'
<1>1. /\ UNCHANGED <<known, sessions, feSessions, replays, feLink>>
    BY DEF Passes, TakePending, ClearPending, ReceiveMessage, MessageDone, FollowNobody, FollowNew,
       FollowAgain, FollowDone, AnswerDone, Agreed, tableVars, feVars, envVars
<1>2. CASE FePasses
  <2>1. \A u \in User : Due(u) = 0 /\ Due(u)' = 0
    BY <1>2, FePassing, DueNothing
  <2>2. SessionInv'
    BY <1>1, <2>1, SessionStays
  <2>3. \A t \in Thread : pc'[t] \in {"write", "keep"} => todo'[t] # <<>>
    BY <1>2, FePassing DEF Base, TurnInv, Thread
  <2>4. TurnInv'
    BY <1>1, <1>2, <2>3, FePassing DEF Base, TurnInv, Sending
  <2> QED BY <2>2, <2>4, PassingTypes, FollowersKept DEF Base
<1>3. ASSUME NEW t \in Slot, AnswerDone(t) \/ \E r \in ring : Agreed(t, r) PROVE Base'
  <2>1. /\ UNCHANGED cmd /\ pc'[t] \in {"idle", "send"}
        /\ \A j \in Thread : j # t => pc'[j] = pc[j] /\ todo'[j] = todo[j]
    BY <1>3, Constants DEF AnswerDone, Agreed, Goto, Base, Types, ThreadType
  <2>2. pc'["fe"] = pc["fe"] /\ todo'["fe"] = todo["fe"]
    BY <2>1, Constants
  <2>3. SessionInv'
    BY <1>1, <2>1, <2>2, SessionStays DEF Due
  <2>4. \A j \in Thread : pc'[j] \in {"write", "keep"} => todo'[j] # <<>>
    BY <2>1 DEF Base, TurnInv
  <2>5. TurnInv'
    BY <1>1, <2>1, <2>2, <2>4 DEF Base, TurnInv, Sending
  <2> QED BY <1>3, <2>3, <2>5, PassingTypes, FollowersKept DEF Base, Passes
<1> QED BY <1>2, <1>3 DEF Passes, FePasses

\* A FOLLOW that goes on: its follower, who is in the list, is entered once more.
LEMMA GoesIs ==
    ASSUME Base, NEW r \in ring, GoesOn(r)
    PROVE  /\ r[1] \in User /\ r[2] \in User /\ r[1] # r[2] /\ Contains(followers[r[2]], r[1])
           /\ followers[r[2]] \in Seq(User) /\ r = <<r[1], r[2]>>
           /\ followers'[r[2]] = Append(followers[r[2]], r[1])
           /\ \A u \in User : u # r[2] => followers'[u] = followers[u]
           /\ again' = [again EXCEPT ![r] = @ + 1] /\ again'[r] > 0
           /\ \A q \in User \X User : again[q] > 0 => again'[q] > 0
           /\ \/ todo' = todo
              \/ /\ cmd.type = "SEND" /\ cmd.author = r[2] /\ todo["fe"] # <<>>
                 /\ todo'["fe"] = Append(todo["fe"], [Head(todo["fe"]) EXCEPT !.to = r[1]])
                 /\ [Head(todo["fe"]) EXCEPT !.to = r[1]] \in Notes
                 /\ todo' = [todo EXCEPT !["fe"] = todo'["fe"]]
           /\ \A j \in Slot : todo'[j] = todo[j]
           /\ UNCHANGED <<known, sessions, pending, userLock, pendingLock, pc, cmd, ids, ring, up, feLink,
                          pushed, feSessions, events, replays, addressed>>
<1>1. /\ r \in User \X User /\ r[1] \in User /\ r[2] \in User /\ r = <<r[1], r[2]>>
      /\ r[1] # r[2] /\ Contains(followers[r[2]], r[1])
    BY DEF Base, FollowInv, RingInv, Types, ThreadType
<1>2. /\ followers[r[2]] \in Seq(User)
      /\ followers'[r[2]] = Append(followers[r[2]], r[1])
      /\ \A u \in User : u # r[2] => followers'[u] = followers[u]
    BY <1>1 DEF GoesOn, Base, Types, TableType
<1>3. /\ again' = [again EXCEPT ![r] = @ + 1] /\ again'[r] > 0
      /\ \A q \in User \X User : again[q] > 0 => again'[q] > 0
  <2>1. again \in [User \X User -> 0 .. MaxRounds] /\ again' = [again EXCEPT ![r] = @ + 1]
    BY DEF GoesOn, Base, Types, ThreadType
  <2>2. again[r] \in 0 .. MaxRounds /\ again'[r] = again[r] + 1
    BY <1>1, <2>1
  <2>3. \A q \in User \X User : q # r => again'[q] = again[q]
    BY <2>1
  <2> QED BY <2>1, <2>2, <2>3, Constants
<1>4. UNCHANGED <<known, sessions, pending, userLock, pendingLock, pc, cmd, ids, ring, up, feLink,
                  pushed, feSessions, events, replays, addressed>>
    BY DEF GoesOn, lockVars, feVars, envVars
<1>5. CASE cmd.type = "SEND" /\ cmd.author = r[2] /\ todo["fe"] # <<>>
  <2> PICK n : n = [Head(todo["fe"]) EXCEPT !.to = r[1]]
    OBVIOUS
  <2>1. todo' = [todo EXCEPT !["fe"] = Append(@, n)]
    BY <1>5 DEF GoesOn
  <2>2. todo'["fe"] = Append(todo["fe"], n) /\ todo' = [todo EXCEPT !["fe"] = todo'["fe"]]
        /\ \A j \in Slot : todo'[j] = todo[j]
    BY <2>1, Constants DEF Base, Types, ThreadType
  <2>3. n \in Notes
    <3>1. Head(todo["fe"]) \in Notes
      BY <1>5, HeadOf, Constants DEF Base
    <3> QED BY <1>1, <3>1 DEF Notes
  <2> QED BY <1>1, <1>2, <1>3, <1>4, <1>5, <2>2, <2>3
<1>6. CASE ~(cmd.type = "SEND" /\ cmd.author = r[2] /\ todo["fe"] # <<>>)
  <2>1. todo' = todo
    BY <1>6 DEF GoesOn
  <2> QED BY <1>1, <1>2, <1>3, <1>4, <2>1
<1> QED BY <1>5, <1>6

LEMMA GoesBase ==
    ASSUME Base, NEW r \in ring, GoesOn(r)
    PROVE  Base'
<1>1. TableType'
  <2>1. Append(followers[r[2]], r[1]) \in Seq(User)
    <3>1. followers[r[2]] \in Seq(User) /\ r[1] \in User
      BY GoesIs
    <3> QED BY <3>1
  <2>2. followers' \in [User -> Seq(User)]
    BY <2>1 DEF GoesOn, Base, Types, TableType
  <2> QED BY <2>2, GoesIs DEF Base, Types, TableType
<1>2. LockType' /\ LinkType' /\ EnvType'
    BY GoesIs DEF Base, Types, LockType, LinkType, EnvType
<1>3. ThreadType'
  <2>1. again' \in [User \X User -> 0 .. MaxRounds]
    <3>1. again[r] + 1 \in 0 .. MaxRounds
      BY Constants DEF GoesOn, Base, Types, ThreadType
    <3> QED BY <3>1 DEF GoesOn, Base, Types, ThreadType
  <2>2. todo' \in [Thread -> Seq(Notes)]
    <3>1. CASE todo' = todo
      BY <3>1 DEF Base, Types, ThreadType
    <3>2. CASE todo' # todo
      <4> PICK n : n = [Head(todo["fe"]) EXCEPT !.to = r[1]]
        OBVIOUS
      <4>1. todo'["fe"] = Append(todo["fe"], n) /\ n \in Notes
        BY <3>2, GoesIs
      <4>2. todo'["fe"] \in Seq(Notes)
        BY <4>1, Constants DEF Base, Types, ThreadType
      <4>3. todo' = [todo EXCEPT !["fe"] = todo'["fe"]]
        BY <3>2, GoesIs
      <4> QED BY <4>2, <4>3 DEF Base, Types, ThreadType
    <3> QED BY <3>1, <3>2
  <2> QED BY <2>1, <2>2, GoesIs DEF Base, Types, ThreadType
<1>4. TurnInv'
  <2>1. todo["fe"] # <<>> => todo'["fe"] # <<>>
    <3>1. CASE todo' # todo
      <4> PICK n : n = [Head(todo["fe"]) EXCEPT !.to = r[1]]
        OBVIOUS
      <4>1. todo'["fe"] = Append(todo["fe"], n) /\ todo["fe"] \in Seq(Notes)
        BY <3>1, GoesIs, Constants DEF Base, Types, ThreadType
      <4> QED BY <4>1
    <3> QED BY <3>1
  <2>2. todo["fe"] = <<>> => todo'["fe"] = <<>>
    BY GoesIs
  <2>3. \A t \in Thread : pc'[t] \in {"write", "keep"} => todo'[t] # <<>>
    <3>1. pc' = pc /\ \A j \in Slot : todo'[j] = todo[j]
      BY GoesIs
    <3> QED BY <2>1, <3>1 DEF Base, TurnInv, Thread
  <2>4. UNCHANGED <<known, pc, cmd>>
    BY GoesIs
  <2> QED BY <2>2, <2>3, <2>4 DEF Base, TurnInv, Sending
<1>5. SessionInv'
    BY GoesIs, SessionStays DEF Due
<1>6. FollowInv'
  <2> PICK f, g : f = followers[r[2]] /\ g = followers'[r[2]]
    OBVIOUS
  <2>1. f \in Seq(User) /\ g = Append(f, r[1]) /\ r[1] \in User /\ r[1] # r[2] /\ Contains(f, r[1])
    BY GoesIs
  <2>2. /\ DOMAIN f = 1 .. Len(f) /\ DOMAIN g = 1 .. Len(f) + 1 /\ Len(g) = Len(f) + 1 /\ Len(f) \in Nat
        /\ g[Len(f) + 1] = r[1] /\ \A i \in 1 .. Len(f) : g[i] = f[i]
    BY <2>1
  <2>3. ASSUME NEW v, Contains(f, v) PROVE Contains(g, v)
    <3>1. PICK i \in 1 .. Len(f) : f[i] = v
      BY <2>3 DEF Contains
    <3>2. i \in 1 .. Len(g) /\ g[i] = v
      BY <2>2, <3>1
    <3> QED BY <3>2 DEF Contains
  <2>4. ASSUME NEW q \in ring PROVE q[1] # q[2] /\ Contains(followers'[q[2]], q[1])
    <3>1. q[1] # q[2] /\ Contains(followers[q[2]], q[1]) /\ q[2] \in User
      BY DEF Base, FollowInv, RingInv, Types, ThreadType
    <3> QED BY <2>3, <3>1, GoesIs
  <2>5. ASSUME NEW u \in User
        PROVE  /\ ~Contains(followers'[u], u)
               /\ \A i, j \in DOMAIN followers'[u] : i # j /\ followers'[u][i] = followers'[u][j] =>
                     again'[<<followers'[u][i], u>>] > 0
    <3>1. /\ ~Contains(followers[u], u)
          /\ \A i, j \in DOMAIN followers[u] : i # j /\ followers[u][i] = followers[u][j] =>
                again[<<followers[u][i], u>>] > 0
      BY DEF Base, FollowInv, FollowersOnce
    <3>2. followers[u] \in Seq(User)
      BY DEF Base, Types, TableType
    <3>3. CASE u # r[2]
      <4>1. followers'[u] = followers[u]
        BY <3>3, GoesIs
      <4>2. \A i \in DOMAIN followers[u] : <<followers[u][i], u>> \in User \X User
        BY <3>2
      <4> QED BY <3>1, <4>1, <4>2, GoesIs
    <3>4. CASE u = r[2]
      <4>1. \A i \in 1 .. Len(f) : f[i] # u /\ f[i] \in User
        BY <2>1, <3>1, <3>4 DEF Contains
      <4>2. \A i \in 1 .. Len(g) : g[i] # u
        BY <2>1, <2>2, <3>4, <4>1
      <4>3. \A i, j \in 1 .. Len(f) : i # j /\ f[i] = f[j] => again[<<f[i], u>>] > 0
        BY <2>2, <3>1, <3>4
      <4>4. again'[<<r[1], u>>] > 0
        BY <3>4, GoesIs
      <4>5. ASSUME NEW i \in DOMAIN g, NEW j \in DOMAIN g, i # j, g[i] = g[j]
            PROVE  again'[<<g[i], u>>] > 0
        <5>1. CASE g[i] = r[1]
          BY <4>4, <5>1
        <5>2. CASE g[i] # r[1]
          <6>1. i \in 1 .. Len(f) /\ j \in 1 .. Len(f)
            <7>1. i # Len(f) + 1 /\ j # Len(f) + 1
              BY <2>2, <4>5, <5>2
            <7> QED BY <2>2, <7>1
          <6>2. f[i] = f[j] /\ g[i] = f[i]
            BY <2>2, <4>5, <6>1
          <6>3. again[<<f[i], u>>] > 0 /\ <<f[i], u>> \in User \X User
            BY <4>1, <4>3, <4>5, <6>1, <6>2
          <6> QED BY <6>2, <6>3, GoesIs
        <5> QED BY <5>1, <5>2
      <4> QED BY <3>4, <4>2, <4>5 DEF Contains
    <3> QED BY <3>3, <3>4
  <2> QED BY <2>4, <2>5, GoesIs DEF FollowInv, FollowersOnce, RingInv
<1> QED BY <1>1, <1>2, <1>3, <1>4, <1>5, <1>6 DEF Base, Types

LEMMA BaseInit == Init => Base
<1> SUFFICES ASSUME Init PROVE Base
    OBVIOUS
<1>1. TableType
  <2>1. 0 \in -MaxReplays .. MaxSessions + MaxReplays
    BY Constants
  <2> QED BY <2>1 DEF Init, TableType
<1>2. LockType /\ EnvType
    BY Constants DEF Init, LockType, EnvType
<1>3. ThreadType
    BY Constants DEF Init, ThreadType, NoCommand
<1>4. LinkType
  <2>1. up \in BOOLEAN
    BY Zenon DEF Init
  <2> QED BY <2>1 DEF Init, LinkType
<1>5. TurnInv
    BY Constants DEF Init, TurnInv, NoCommand
<1>6. SessionInv
  <2>1. \A u \in User : Due(u) = 0
    BY Constants, DueNothing DEF Init
  <2> QED BY <2>1 DEF Init, SessionInv
<1>7. FollowInv
  <2>1. ring = {} /\ \A u \in User : followers[u] = <<>>
    BY DEF Init
  <2> QED BY <2>1 DEF FollowInv, RingInv, FollowersOnce, Contains
<1> QED BY <1>1, <1>2, <1>3, <1>4, <1>5, <1>6, <1>7 DEF Base, Types

\* What a step is, in the groups the lemmas are about.
LEMMA NextIs ==
    Next <=> /\ up
             /\ \/ \E n \in Command : Receive(n)
                \/ FrontEndCloses \/ Replay \/ ReadFails \/ Login \/ Logout \/ Passes
                \/ \E t \in Thread : SendMessage(t)
                \/ \E r \in ring : GoesOn(r)
    BY Constants DEF Next, FeThread, Handle, AnswerThread, Passes, Thread

LEMMA BaseNext == Base /\ [Next]_vars => Base'
<1> SUFFICES ASSUME Base, [Next]_vars PROVE Base'
    OBVIOUS
<1>1. CASE UNCHANGED vars
  <2>1. UNCHANGED <<known, sessions, followers, pending, userLock, pendingLock, pc, todo, cmd, ids,
                    ring, again, up, feLink, pushed, feSessions, events, replays, addressed>>
    BY <1>1 DEF vars, tableVars, lockVars, feVars, envVars
  <2>2. Types'
    BY <2>1 DEF Base, Types, TableType, LockType, ThreadType, LinkType, EnvType
  <2>3. TurnInv' /\ FollowInv'
    BY <2>1, FollowStays DEF Base, TurnInv, Sending
  <2>4. SessionInv'
    BY <2>1, SessionStays DEF Due
  <2> QED BY <2>2, <2>3, <2>4 DEF Base
<1>2. CASE Next
    BY <1>2, NextIs, ReceiveBase, ClosesBase, ReplayBase, FailsBase, CountBase, PassingBase, SendBase,
       GoesBase
<1> QED BY <1>1, <1>2

-----------------------------------------------------------------------------
(* The messages, user by user.                                              *)

Elems(s)      == {s[i] : i \in Messages(s)}
ElemsTo(s, u) == {s[i] : i \in {j \in Messages(s) : s[j].to = u}}

OrderTo(d, s, u) ==
    \A i, j \in Messages(s) : i < j /\ s[i].to = u /\ s[j].to = u => Before(d, s[i].id, s[j].id)

\* What MessageInv says of the order of the messages to u ...
QueueInv(u) ==
    /\ InOrder(Doubled(u), pushed[u]) /\ InOrder(Doubled(u), pending[u])
    /\ \A i \in DOMAIN pending[u] : pending[u][i].to = u
    /\ OrderTo(Doubled(u), todo["fe"], u)
    /\ \A m \in Got(u) : \A n \in Waiting(u) \cup Coming(u) : Before(Doubled(u), m.id, n.id)
    /\ \A m \in Waiting(u) : \A n \in Coming(u) : Before(Doubled(u), m.id, n.id)
    /\ {n.id : n \in Got(u) \cup Waiting(u) \cup Coming(u)} = Range(addressed[u])
    /\ \A i \in DOMAIN addressed[u] : addressed[u][i] < ids

\* ... and of whether u is logged in.
PlaceInv(u) ==
    /\ Waiting(u) # {} /\ sessions[u] > 0 => cmd.author = u /\ pc["fe"] = "login"
    /\ Flushing(u) => sessions[u] > 0 /\ \A i \in DOMAIN todo["fe"] : todo["fe"][i].to = u

TurnPlace ==
    /\ cmd.type = "LOGIN" /\ pc["fe"] \in {"handle", "login"} => feSessions[cmd.author] > 0
    /\ pc["fe"] = "write" => sessions[Receiver("fe")] > 0
    /\ pc["fe"] = "keep" => sessions[Receiver("fe")] <= 0
    /\ \A t \in Slot : Messages(todo[t]) = {}

LEMMA MessageParts ==
    /\ MessageInv <=> (\A u \in User : QueueInv(u) /\ PlaceInv(u)) /\ TurnPlace
    /\ MessageInv' <=> (\A u \in User : QueueInv(u)' /\ PlaceInv(u)') /\ TurnPlace'
    BY DEF MessageInv, QueueInv, PlaceInv, TurnPlace, OrderTo

LEMMA QueueSets ==
    ASSUME NEW u
    PROVE  /\ Got(u) = Elems(pushed[u]) /\ Got(u)' = Elems(pushed'[u])
           /\ Waiting(u) = IF Flushing(u) THEN {} ELSE Elems(pending[u])
           /\ Waiting(u)' = IF Flushing(u)' THEN {} ELSE Elems(pending'[u])
           /\ Coming(u) = ElemsTo(todo["fe"], u) /\ Coming(u)' = ElemsTo(todo'["fe"], u)
    BY DEF Got, Waiting, Coming, Elems, ElemsTo

\* One notification more at the end of a list.
LEMMA OneMore ==
    ASSUME NEW s \in Seq(Notes), NEW n \in Notes, NEW t, t = Append(s, n), NEW d
    PROVE  /\ t \in Seq(Notes)
           /\ Elems(t) = Elems(s) \cup (IF n.kind = "message" THEN {n} ELSE {})
           /\ InOrder(d, s) /\ (n.kind = "message" => \A m \in Elems(s) : Before(d, m.id, n.id)) =>
                 InOrder(d, t)
           /\ \A u : (\A i \in DOMAIN s : s[i].to = u) /\ n.to = u => \A i \in DOMAIN t : t[i].to = u
<1>1. /\ t \in Seq(Notes) /\ DOMAIN s = 1 .. Len(s) /\ DOMAIN t = 1 .. Len(s) + 1 /\ Len(s) \in Nat
      /\ t[Len(s) + 1] = n /\ \A i \in 1 .. Len(s) : t[i] = s[i]
    OBVIOUS
<1>2. Messages(t) = Messages(s) \cup (IF n.kind = "message" THEN {Len(s) + 1} ELSE {})
    BY <1>1 DEF Messages
<1>3. \A i \in Messages(s) : t[i] = s[i] /\ i \in 1 .. Len(s)
    BY <1>1 DEF Messages
<1>4. Elems(t) = Elems(s) \cup (IF n.kind = "message" THEN {n} ELSE {})
    BY <1>1, <1>2, <1>3 DEF Elems
<1>5. ASSUME InOrder(d, s), n.kind = "message" => \A m \in Elems(s) : Before(d, m.id, n.id)
      PROVE  InOrder(d, t)
  <2> SUFFICES ASSUME NEW i \in Messages(t), NEW j \in Messages(t), i < j PROVE Before(d, t[i].id, t[j].id)
    BY DEF InOrder
  <2>1. i \in Messages(s)
    BY <1>1, <1>2, <1>3
  <2>2. CASE j \in Messages(s)
    BY <1>3, <1>5, <2>1, <2>2 DEF InOrder
  <2>3. CASE j \notin Messages(s)
    <3>1. n.kind = "message" /\ t[j] = n
      BY <1>1, <1>2, <2>3
    <3> QED BY <1>3, <1>5, <2>1, <3>1 DEF Elems
  <2> QED BY <2>2, <2>3
<1>6. \A u : (\A i \in DOMAIN s : s[i].to = u) /\ n.to = u => \A i \in DOMAIN t : t[i].to = u
    BY <1>1
<1> QED BY <1>1, <1>4, <1>5, <1>6

\* ... and if it is an info, no message more.
LEMMA InfoMore ==
    ASSUME NEW d, NEW s \in Seq(Notes), NEW n \in Notes, n.kind # "message", InOrder(d, s),
           NEW t, t = s \/ t = Append(s, n)
    PROVE  Elems(t) = Elems(s) /\ InOrder(d, t)
<1>1. CASE t = Append(s, n)
  <2>1. Elems(t) = Elems(s) \cup (IF n.kind = "message" THEN {n} ELSE {})
    BY <1>1, OneMore
  <2>2. InOrder(d, s) /\ (n.kind = "message" => \A m \in Elems(s) : Before(d, m.id, n.id)) => InOrder(d, t)
    BY <1>1, OneMore
  <2>3. InOrder(d, t)
    BY <2>2
  <2> QED BY <2>1, <2>3
<1>2. CASE t = s
    BY <1>2
<1> QED BY <1>1, <1>2

\* One notification less at the head of a list.
LEMMA OneLess ==
    ASSUME NEW s \in Seq(Notes), s # <<>>, NEW t, t = Tail(s), NEW u, NEW d
    PROVE  /\ ElemsTo(s, u) = ElemsTo(t, u)
                 \cup (IF s[1].kind = "message" /\ s[1].to = u THEN {s[1]} ELSE {})
           /\ OrderTo(d, s, u) => OrderTo(d, t, u)
           /\ OrderTo(d, s, u) /\ s[1].kind = "message" /\ s[1].to = u =>
                 \A m \in ElemsTo(t, u) : Before(d, s[1].id, m.id)
           /\ (\A i \in DOMAIN s : s[i].to = u) => \A i \in DOMAIN t : t[i].to = u
           /\ Messages(s) = {} => Messages(t) = {} /\ s[1].kind # "message"
<1>1. /\ Len(s) \in Nat \ {0} /\ DOMAIN s = 1 .. Len(s) /\ DOMAIN t = 1 .. Len(s) - 1
      /\ \A i \in 1 .. Len(s) - 1 : t[i] = s[i + 1]
    OBVIOUS
<1>2. \A i \in Messages(t) : i \in 1 .. Len(s) - 1 /\ i + 1 \in Messages(s) /\ t[i] = s[i + 1]
    BY <1>1 DEF Messages
<1>3. ASSUME NEW i \in Messages(s), i # 1
      PROVE  /\ i - 1 \in Messages(t) /\ t[i - 1] = s[i]
  <2>1. i - 1 \in 1 .. Len(s) - 1 /\ (i - 1) + 1 = i
    BY <1>1, <1>3 DEF Messages
  <2> QED BY <1>1, <2>1 DEF Messages
<1>4. (1 \in Messages(s)) <=> s[1].kind = "message"
    BY <1>1 DEF Messages
<1>5. ElemsTo(s, u) = ElemsTo(t, u) \cup (IF s[1].kind = "message" /\ s[1].to = u THEN {s[1]} ELSE {})
  <2>1. ASSUME NEW e \in ElemsTo(s, u), e \notin ElemsTo(t, u)
        PROVE  s[1].kind = "message" /\ s[1].to = u /\ e = s[1]
    <3>1. PICK i \in Messages(s) : s[i].to = u /\ e = s[i]
      BY DEF ElemsTo
    <3>2. i = 1
      BY <1>3, <2>1, <3>1 DEF ElemsTo
    <3> QED BY <1>4, <3>1, <3>2
  <2>2. ElemsTo(t, u) \subseteq ElemsTo(s, u)
    BY <1>2 DEF ElemsTo
  <2>3. s[1].kind = "message" /\ s[1].to = u => s[1] \in ElemsTo(s, u)
    BY <1>4 DEF ElemsTo
  <2> QED BY <2>1, <2>2, <2>3
<1>6. ASSUME OrderTo(d, s, u) PROVE OrderTo(d, t, u)
  <2> SUFFICES ASSUME NEW i \in Messages(t), NEW j \in Messages(t), i < j, t[i].to = u, t[j].to = u
               PROVE  Before(d, t[i].id, t[j].id)
    BY DEF OrderTo
  <2>1. i + 1 < j + 1 /\ i + 1 \in Messages(s) /\ j + 1 \in Messages(s)
    BY <1>2
  <2> QED BY <1>2, <1>6, <2>1 DEF OrderTo
<1>7. ASSUME OrderTo(d, s, u), s[1].kind = "message", s[1].to = u, NEW m \in ElemsTo(t, u)
      PROVE  Before(d, s[1].id, m.id)
  <2>1. PICK i \in Messages(t) : t[i].to = u /\ m = t[i]
    BY DEF ElemsTo
  <2>2. 1 < i + 1 /\ i + 1 \in Messages(s) /\ 1 \in Messages(s)
    BY <1>2, <1>4, <1>7
  <2> QED BY <1>2, <1>7, <2>1, <2>2 DEF OrderTo
<1>8. (\A i \in DOMAIN s : s[i].to = u) => \A i \in DOMAIN t : t[i].to = u
    BY <1>1
<1>9. Messages(s) = {} => Messages(t) = {} /\ s[1].kind # "message"
    BY <1>2, <1>4
<1> QED BY <1>5, <1>6, <1>7, <1>8, <1>9

\* Whoever has been entered again stays so.
LEMMA StillBefore ==
    ASSUME NEW d, NEW e, d => e
    PROVE  /\ \A m, n : Before(d, m, n) => Before(e, m, n)
           /\ \A s : InOrder(d, s) => InOrder(e, s)
           /\ \A s, u : OrderTo(d, s, u) => OrderTo(e, s, u)
<1>1. \A m, n : Before(d, m, n) => Before(e, m, n)
    BY DEF Before
<1> QED BY <1>1 DEF InOrder, OrderTo

LEMMA DoubledStays ==
    ASSUME again' = again
    PROVE  \A u : Doubled(u)' = Doubled(u)
    BY DEF Doubled

LEMMA QueueMade ==
    ASSUME NEW u, Doubled(u)' = Doubled(u),
           InOrder(Doubled(u), pushed'[u]), InOrder(Doubled(u), pending'[u]),
           \A i \in DOMAIN pending'[u] : pending'[u][i].to = u,
           OrderTo(Doubled(u), todo'["fe"], u),
           \A m \in Got(u)' : \A n \in Waiting(u)' \cup Coming(u)' : Before(Doubled(u), m.id, n.id),
           \A m \in Waiting(u)' : \A n \in Coming(u)' : Before(Doubled(u), m.id, n.id),
           {n.id : n \in Got(u)' \cup Waiting(u)' \cup Coming(u)'} = Range(addressed'[u]),
           \A i \in DOMAIN addressed'[u] : addressed'[u][i] < ids'
    PROVE  QueueInv(u)'
    BY DEF QueueInv, InOrder, OrderTo, Messages, Before

\* Nothing moves as far as u is concerned.
LEMMA QueueKept ==
    ASSUME NEW u, QueueInv(u), Doubled(u) => Doubled(u)',
           InOrder(Doubled(u), pushed'[u]), InOrder(Doubled(u), pending'[u]),
           \A i \in DOMAIN pending'[u] : pending'[u][i].to = u,
           OrderTo(Doubled(u), todo'["fe"], u),
           Got(u)' = Got(u), Waiting(u)' = Waiting(u), Coming(u)' = Coming(u),
           addressed'[u] = addressed[u], addressed[u] \in Seq(Nat), ids \in Nat, ids' \in Nat, ids' >= ids
    PROVE  QueueInv(u)'
<1>1. \A i \in DOMAIN addressed'[u] : addressed'[u][i] < ids'
    BY DEF QueueInv
<1> PICK d, e : d = Doubled(u) /\ e = Doubled(u)'
    OBVIOUS
<1>2. d => e
    OBVIOUS
<1>3. /\ InOrder(e, pushed'[u]) /\ InOrder(e, pending'[u]) /\ OrderTo(e, todo'["fe"], u)
    BY <1>2, StillBefore
<1>4. /\ \A m \in Got(u)' : \A n \in Waiting(u)' \cup Coming(u)' : Before(e, m.id, n.id)
      /\ \A m \in Waiting(u)' : \A n \in Coming(u)' : Before(e, m.id, n.id)
    BY <1>2, StillBefore DEF QueueInv
<1>5. {n.id : n \in Got(u)' \cup Waiting(u)' \cup Coming(u)'} = Range(addressed'[u])
    BY DEF QueueInv
<1> QED BY <1>1, <1>3, <1>4, <1>5 DEF QueueInv, InOrder, OrderTo, Messages, Before


-----------------------------------------------------------------------------
(* The messages, step by step, as long as the front end is connected.       *)

\* A thread that answers writes or keeps an info: no message moves.
LEMMA AnswerMessages ==
    ASSUME Base, MessageInv, NEW t \in Slot, SendMessage(t), feLink' = "up"
    PROVE  MessageInv'
<1>1. /\ t \in Thread /\ todo[t] # <<>> /\ Types /\ Types'
      /\ pc'["fe"] = pc["fe"] /\ todo'["fe"] = todo["fe"]
      /\ UNCHANGED <<known, sessions, followers, cmd, ids, again, addressed, feSessions>>
      /\ \A j \in Slot : j # t => todo'[j] = todo[j]
    BY SendBase, Constants DEF Base
<1>2. PICK n : n = Head(todo[t])
    OBVIOUS
<1>3. n \in Notes /\ Receiver(t) \in User /\ n.to = Receiver(t)
    BY <1>1, <1>2, HeadOf DEF Receiver
<1>4. Messages(todo[t]) = {}
    BY MessageParts DEF TurnPlace
<1>5. n.kind # "message" /\ Messages(Tail(todo[t])) = {}
  <2>1. todo[t] \in Seq(Notes) /\ n = todo[t][1]
    BY <1>1, <1>2, HeadOf DEF Types, ThreadType
  <2> QED BY <1>1, <1>4, <2>1, OneLess
<1>6. todo'[t] = todo[t] \/ todo'[t] = Tail(todo[t])
    BY <1>1 DEF SendMessage, LockReceiver, WriteFE, Keep, Done, Types, ThreadType
<1>7. \A j \in Slot : Messages(todo'[j]) = {}
    BY <1>1, <1>4, <1>5, <1>6, MessageParts DEF TurnPlace
<1>8. ASSUME NEW u \in User
      PROVE  /\ pushed'[u] = pushed[u] \/ pushed'[u] = Append(pushed[u], n)
             /\ pending'[u] = pending[u] \/ (pending'[u] = Append(pending[u], n) /\ n.to = u)
    BY <1>1, <1>2, <1>3 DEF SendMessage, LockReceiver, WriteFE, Keep, feVars, tableVars, Types,
       TableType, LinkType
<1>9. \A u \in User : Flushing(u)' = Flushing(u)
    BY <1>1 DEF Flushing, Sending
<1>10. ASSUME NEW u \in User
       PROVE  QueueInv(u)' /\ Waiting(u)' = Waiting(u)
  <2>1. pushed[u] \in Seq(Notes) /\ pending[u] \in Seq(Notes) /\ QueueInv(u)
        /\ addressed[u] \in Seq(Nat) /\ ids \in Nat
    BY <1>1, MessageParts DEF Types, TableType, LinkType, ThreadType
  <2>2. Elems(pushed'[u]) = Elems(pushed[u]) /\ InOrder(Doubled(u), pushed'[u])
    <3> PICK p, q : p = pushed[u] /\ q = pushed'[u]
      OBVIOUS
    <3>1. p \in Seq(Notes) /\ InOrder(Doubled(u), p) /\ (q = p \/ q = Append(p, n))
      BY <1>8, <2>1 DEF QueueInv
    <3>2. Elems(q) = Elems(p) /\ InOrder(Doubled(u), q)
      BY <1>3, <1>5, <3>1, InfoMore
    <3> QED BY <3>2
  <2>3. Elems(pending'[u]) = Elems(pending[u]) /\ InOrder(Doubled(u), pending'[u])
        /\ \A i \in DOMAIN pending'[u] : pending'[u][i].to = u
    <3> PICK p, q : p = pending[u] /\ q = pending'[u]
      OBVIOUS
    <3>1. /\ p \in Seq(Notes) /\ InOrder(Doubled(u), p) /\ (q = p \/ (q = Append(p, n) /\ n.to = u))
          /\ \A i \in DOMAIN p : p[i].to = u
      BY <1>8, <2>1 DEF QueueInv
    <3>2. Elems(q) = Elems(p) /\ InOrder(Doubled(u), q)
      BY <1>3, <1>5, <3>1, InfoMore
    <3>3. \A i \in DOMAIN q : q[i].to = u
      <4>1. CASE q = p
        BY <3>1, <4>1
      <4>2. CASE q = Append(p, n) /\ n.to = u
        BY <1>3, <3>1, <4>2, OneMore
      <4> QED BY <3>1, <4>1, <4>2
    <3> QED BY <3>2, <3>3
  <2>4. Got(u)' = Got(u) /\ Waiting(u)' = Waiting(u) /\ Coming(u)' = Coming(u)
    BY <1>1, <1>9, <2>2, <2>3, QueueSets
  <2>5. OrderTo(Doubled(u), todo'["fe"], u)
    BY <1>1, <2>1 DEF QueueInv
  <2> QED BY <1>1, <2>1, <2>2, <2>3, <2>4, <2>5, DoubledStays, QueueKept
<1>11. \A u \in User : PlaceInv(u)'
    BY <1>1, <1>9, <1>10, MessageParts DEF PlaceInv
<1>12. TurnPlace'
    BY <1>1, <1>7, MessageParts DEF TurnPlace, Receiver
<1> QED BY <1>10, <1>11, <1>12, MessageParts

\* The front end's thread takes the mutex of the receiver.
LEMMA LockMessages ==
    ASSUME Base, MessageInv, LockReceiver("fe")
    PROVE  MessageInv'
<1>1. /\ pc["fe"] = "send" /\ pc'["fe"] = (IF sessions[Receiver("fe")] > 0 THEN "write" ELSE "keep")
      /\ UNCHANGED <<tableVars, todo, cmd, ids, again, pushed, feSessions, addressed>>
      /\ Receiver("fe") \in User
    BY HeadOf, Constants DEF LockReceiver, Goto, Base, Types, ThreadType, feVars, envVars
<1>2. ids \in Nat /\ addressed \in [User -> Seq(Nat)] /\ sessions[Receiver("fe")] \in Int
    BY <1>1, Constants DEF Base, Types, ThreadType, LinkType, TableType
<1>3. \A u \in User : Flushing(u)' = Flushing(u)
    BY <1>1 DEF Flushing, Sending
<1>4. ASSUME NEW u \in User PROVE QueueInv(u)' /\ PlaceInv(u)'
  <2>1. QueueInv(u) /\ PlaceInv(u)
    BY MessageParts
  <2>2. Got(u)' = Got(u) /\ Waiting(u)' = Waiting(u) /\ Coming(u)' = Coming(u)
    BY <1>1, <1>3, QueueSets DEF tableVars
  <2>3. QueueInv(u)'
    BY <1>1, <1>2, <2>1, <2>2, DoubledStays, QueueKept DEF tableVars, QueueInv
  <2>4. PlaceInv(u)'
    BY <1>1, <1>3, <2>1, <2>2 DEF PlaceInv, tableVars
  <2> QED BY <2>3, <2>4
<1>5. TurnPlace'
  <2>1. pc'["fe"] \in {"write", "keep"} /\ Receiver("fe")' = Receiver("fe")
    BY <1>1 DEF Receiver
  <2>2. \A t \in Slot : Messages(todo[t]) = {}
    BY MessageParts DEF TurnPlace
  <2>3. \A t \in Slot : Messages(todo'[t]) = {}
    BY <1>1, <2>2
  <2>4. pc'["fe"] = "write" => sessions'[Receiver("fe")'] > 0
    BY <1>1, <2>1 DEF tableVars
  <2>5. pc'["fe"] = "keep" => sessions'[Receiver("fe")'] <= 0
    BY <1>1, <1>2, <2>1 DEF tableVars
  <2> QED BY <2>1, <2>3, <2>4, <2>5 DEF TurnPlace
<1> QED BY <1>4, <1>5, MessageParts

\* The front end's thread writes a notification, or keeps it.
LEMMA FirstMessage ==
    ASSUME Base, MessageInv, WriteFE("fe") \/ Keep("fe"), feLink' = "up"
    PROVE  MessageInv'
<1>1. /\ todo["fe"] # <<>> /\ Types /\ Types'
      /\ UNCHANGED <<known, sessions, followers, cmd, ids, again, addressed, feSessions>>
      /\ \A j \in Slot : todo'[j] = todo[j]
    BY SendBase, Constants DEF Base, SendMessage
<1>2. PICK s : s = todo["fe"]
    OBVIOUS
<1>3. PICK n : n = s[1]
    OBVIOUS
<1>4. /\ s \in Seq(Notes) /\ s # <<>> /\ n \in Notes /\ n.to \in User /\ n.to = Receiver("fe")
      /\ n = Head(todo["fe"])
    BY <1>1, <1>2, <1>3, HeadOf, Constants DEF Receiver, Types, ThreadType
<1>5. PICK t : t = Tail(s)
    OBVIOUS
<1>6. /\ todo'["fe"] = t /\ pc["fe"] \in {"write", "keep"} /\ pc'["fe"] = "send"
    BY <1>1, <1>2, <1>5, Constants DEF WriteFE, Keep, Done, Goto, Types, ThreadType
<1>7. \A u \in User : Flushing(u)' = Flushing(u)
    BY <1>1, <1>6 DEF Flushing, Sending
<1>8. ids \in Nat /\ addressed \in [User -> Seq(Nat)]
    BY <1>1 DEF Types, ThreadType, LinkType
<1>9. sessions[n.to] \in Int
    BY <1>1, <1>4, Constants DEF Types, TableType
<1>10. ASSUME NEW u \in User PROVE QueueInv(u)' /\ PlaceInv(u)'
  <2>1. QueueInv(u) /\ PlaceInv(u)
    BY MessageParts
  <2>2. pushed[u] \in Seq(Notes) /\ pending[u] \in Seq(Notes)
    BY <1>1 DEF Types, TableType, LinkType
  <2>3. /\ Coming(u) = Coming(u)' \cup (IF n.kind = "message" /\ n.to = u THEN {n} ELSE {})
        /\ OrderTo(Doubled(u), t, u)
        /\ n.kind = "message" /\ n.to = u => \A m \in Coming(u)' : Before(Doubled(u), n.id, m.id)
        /\ (\A i \in DOMAIN s : s[i].to = u) => \A i \in DOMAIN t : t[i].to = u
    <3>1. OrderTo(Doubled(u), s, u) /\ Coming(u) = ElemsTo(s, u) /\ Coming(u)' = ElemsTo(t, u)
      BY <1>2, <1>6, <2>1, QueueSets DEF QueueInv
    <3>2. /\ ElemsTo(s, u) = ElemsTo(t, u) \cup (IF n.kind = "message" /\ n.to = u THEN {n} ELSE {})
          /\ OrderTo(Doubled(u), t, u)
          /\ n.kind = "message" /\ n.to = u => \A m \in ElemsTo(t, u) : Before(Doubled(u), n.id, m.id)
      BY <1>3, <1>4, <1>5, <3>1, OneLess
    <3>3. (\A i \in DOMAIN s : s[i].to = u) => \A i \in DOMAIN t : t[i].to = u
      BY <1>4, <1>5, OneLess
    <3> QED BY <3>1, <3>2, <3>3
  <2>4. CASE n.to # u
    <3>1. pushed'[u] = pushed[u] /\ pending'[u] = pending[u]
      BY <1>1, <1>4, <2>4 DEF WriteFE, Keep, tableVars, feVars, Types, TableType, LinkType
    <3>2. Got(u)' = Got(u) /\ Waiting(u)' = Waiting(u) /\ Coming(u)' = Coming(u)
      BY <1>7, <2>3, <2>4, <3>1, QueueSets
    <3>3. QueueInv(u)'
      BY <1>1, <1>6, <1>8, <2>1, <2>3, <3>1, <3>2, DoubledStays, QueueKept DEF QueueInv
    <3>4. PlaceInv(u)'
      BY <1>1, <1>2, <1>6, <1>7, <2>1, <2>3, <3>2 DEF PlaceInv
    <3> QED BY <3>3, <3>4
  <2>5. CASE n.to = u /\ WriteFE("fe")
    <3>1. pushed'[u] = Append(pushed[u], n) /\ pending'[u] = pending[u] /\ pc["fe"] = "write"
      BY <1>1, <1>4, <2>5 DEF WriteFE, tableVars, Types, LinkType
    <3>2. sessions[u] > 0
      BY <1>4, <2>5, <3>1, MessageParts DEF TurnPlace
    <3>3. Waiting(u) = {} /\ Waiting(u)' = {}
      BY <1>7, <2>1, <3>1, <3>2, QueueSets DEF PlaceInv
    <3>4. /\ Got(u)' = Got(u) \cup (IF n.kind = "message" THEN {n} ELSE {})
          /\ InOrder(Doubled(u), pushed'[u])
      <4>1. n.kind = "message" => \A m \in Elems(pushed[u]) : Before(Doubled(u), m.id, n.id)
        BY <2>1, <2>3, <2>5, QueueSets DEF QueueInv
      <4> PICK p, q : p = pushed[u] /\ q = pushed'[u]
        OBVIOUS
      <4>2. p \in Seq(Notes) /\ InOrder(Doubled(u), p) /\ q = Append(p, n)
        BY <2>1, <2>2, <3>1 DEF QueueInv
      <4>3. Elems(q) = Elems(p) \cup (IF n.kind = "message" THEN {n} ELSE {}) /\ InOrder(Doubled(u), q)
        BY <1>4, <4>1, <4>2, OneMore
      <4> QED BY <4>3, QueueSets
    <3>5. \A m \in Got(u)' : \A k \in Coming(u)' : Before(Doubled(u), m.id, k.id)
      BY <2>1, <2>3, <2>5, <3>4 DEF QueueInv
    <3>6. Got(u)' \cup Waiting(u)' \cup Coming(u)' = Got(u) \cup Waiting(u) \cup Coming(u)
      BY <2>3, <2>5, <3>3, <3>4
    <3>9. /\ InOrder(Doubled(u), pending'[u]) /\ OrderTo(Doubled(u), todo'["fe"], u)
          /\ \A i \in DOMAIN pending'[u] : pending'[u][i].to = u
      BY <1>6, <2>1, <2>3, <3>1 DEF QueueInv
    <3>10. {k.id : k \in Got(u)' \cup Waiting(u)' \cup Coming(u)'} = Range(addressed'[u])
      BY <1>1, <2>1, <3>6 DEF QueueInv
    <3>11. \A i \in DOMAIN addressed'[u] : addressed'[u][i] < ids'
      BY <1>1, <2>1 DEF QueueInv
    <3>12. \A m \in Got(u)' : \A k \in Waiting(u)' \cup Coming(u)' : Before(Doubled(u), m.id, k.id)
      BY <3>3, <3>5
    <3>7. QueueInv(u)'
      BY <1>1, <3>3, <3>4, <3>9, <3>10, <3>11, <3>12, DoubledStays, QueueMade
    <3>8. PlaceInv(u)'
      BY <1>1, <1>2, <1>6, <1>7, <2>1, <2>3, <3>3 DEF PlaceInv
    <3> QED BY <3>7, <3>8
  <2>6. CASE n.to = u /\ Keep("fe")
    <3>1. pending'[u] = Append(pending[u], n) /\ pushed'[u] = pushed[u] /\ pc["fe"] = "keep"
      BY <1>1, <1>4, <2>6 DEF Keep, feVars, Types, TableType
    <3>2. sessions[u] <= 0 /\ ~(sessions[u] > 0)
      BY <1>4, <1>9, <2>6, <3>1, MessageParts DEF TurnPlace
    <3>3. ~Flushing(u)
      BY <2>1, <3>2 DEF PlaceInv
    <3>4. Got(u)' = Got(u) /\ Waiting(u) = Elems(pending[u]) /\ Waiting(u)' = Elems(pending'[u])
      BY <1>7, <3>1, <3>3, QueueSets
    <3>5. /\ Waiting(u)' = Waiting(u) \cup (IF n.kind = "message" THEN {n} ELSE {})
          /\ InOrder(Doubled(u), pending'[u])
          /\ \A i \in DOMAIN pending'[u] : pending'[u][i].to = u
      <4>1. n.kind = "message" => \A m \in Elems(pending[u]) : Before(Doubled(u), m.id, n.id)
        BY <2>1, <2>3, <2>6, <3>4 DEF QueueInv
      <4> PICK p, q : p = pending[u] /\ q = pending'[u]
        OBVIOUS
      <4>2. p \in Seq(Notes) /\ InOrder(Doubled(u), p) /\ q = Append(p, n) /\ \A i \in DOMAIN p : p[i].to = u
        BY <2>1, <2>2, <3>1 DEF QueueInv
      <4>3. Elems(q) = Elems(p) \cup (IF n.kind = "message" THEN {n} ELSE {}) /\ InOrder(Doubled(u), q)
        BY <1>4, <4>1, <4>2, OneMore
      <4>4. \A i \in DOMAIN q : q[i].to = u
        BY <1>4, <2>6, <4>2, OneMore
      <4> QED BY <3>4, <4>3, <4>4
    <3>6. \A m \in Got(u)' : \A k \in Waiting(u)' \cup Coming(u)' : Before(Doubled(u), m.id, k.id)
      BY <2>1, <2>3, <2>6, <3>4, <3>5 DEF QueueInv
    <3>7. \A m \in Waiting(u)' : \A k \in Coming(u)' : Before(Doubled(u), m.id, k.id)
      BY <2>1, <2>3, <2>6, <3>5 DEF QueueInv
    <3>8. Got(u)' \cup Waiting(u)' \cup Coming(u)' = Got(u) \cup Waiting(u) \cup Coming(u)
      BY <2>3, <2>6, <3>4, <3>5
    <3>11. InOrder(Doubled(u), pushed'[u]) /\ OrderTo(Doubled(u), todo'["fe"], u)
      BY <1>6, <2>1, <2>3, <3>1 DEF QueueInv
    <3>12. {k.id : k \in Got(u)' \cup Waiting(u)' \cup Coming(u)'} = Range(addressed'[u])
      BY <1>1, <2>1, <3>8 DEF QueueInv
    <3>13. \A i \in DOMAIN addressed'[u] : addressed'[u][i] < ids'
      BY <1>1, <2>1 DEF QueueInv
    <3>9. QueueInv(u)'
      BY <1>1, <3>5, <3>6, <3>7, <3>11, <3>12, <3>13, DoubledStays, QueueMade
    <3>10. PlaceInv(u)'
      BY <1>1, <1>7, <3>2, <3>3 DEF PlaceInv
    <3> QED BY <3>9, <3>10
  <2> QED BY <2>4, <2>5, <2>6
<1>11. TurnPlace'
    BY <1>1, <1>6, MessageParts DEF TurnPlace
<1> QED BY <1>10, <1>11, MessageParts

\* The steps that move no message: the front end's thread has none to send, before or after.
LEMMA StillMessages ==
    ASSUME Base, Types', MessageInv, UNCHANGED <<again, pushed, pending, addressed>>, ids' >= ids,
           Messages(todo["fe"]) = {}, Messages(todo'["fe"]) = {},
           NEW u \in User, ~Flushing(u), ~Flushing(u)'
    PROVE  QueueInv(u)' /\ Waiting(u)' = Waiting(u)
<1>1. QueueInv(u) /\ addressed[u] \in Seq(Nat) /\ ids \in Nat /\ ids' \in Nat
    BY MessageParts DEF Base, Types, LinkType, ThreadType
<1>2. Got(u)' = Got(u) /\ Waiting(u)' = Waiting(u)
    BY QueueSets
<1>3. Coming(u) = {} /\ Coming(u)' = {}
    BY QueueSets DEF ElemsTo
<1>4. OrderTo(Doubled(u), todo'["fe"], u)
    BY DEF OrderTo
<1> QED BY <1>1, <1>2, <1>3, <1>4, DoubledStays, QueueKept DEF QueueInv

\* Before the front end's thread has anything to send.
LEMMA NothingToSend ==
    ASSUME Base, ~Sending("fe")
    PROVE  todo["fe"] = <<>> /\ Messages(todo["fe"]) = {} /\ \A u : ~Flushing(u) /\ Coming(u) = {}
<1>1. todo["fe"] = <<>>
    BY DEF Base, TurnInv
<1>2. Messages(todo["fe"]) = {}
    BY <1>1 DEF Messages
<1> QED BY <1>1, <1>2 DEF Flushing, Coming

LEMMA ReceiveMessages ==
    ASSUME Base, MessageInv, NEW n \in Command, Receive(n)
    PROVE  MessageInv'
<1>1. /\ Base' /\ pc["fe"] = "idle" /\ pc'["fe"] = "handle" /\ cmd' = n
      /\ UNCHANGED <<tableVars, todo, ids, again, pushed, addressed>>
    BY ReceiveBase, Constants DEF Receive, Goto, feVars, Base, Types, ThreadType
<1>2. todo["fe"] = <<>> /\ Messages(todo["fe"]) = {} /\ \A u : ~Flushing(u)
    BY <1>1, NothingToSend DEF Sending
<1>3. \A u \in User : ~Flushing(u)'
    BY <1>1 DEF Flushing, Sending
<1>4. ids' >= ids
    BY <1>1 DEF Base, Types, ThreadType
<1>5. ASSUME NEW u \in User PROVE QueueInv(u)' /\ Waiting(u)' = Waiting(u)
  <2>1. UNCHANGED <<again, pushed, pending, addressed>> /\ Messages(todo'["fe"]) = {}
    BY <1>1, <1>2 DEF tableVars
  <2> QED BY <1>1, <1>2, <1>3, <1>4, <2>1, StillMessages DEF Base
<1>6. \A u \in User : PlaceInv(u)'
    BY <1>1, <1>3, <1>5, MessageParts DEF PlaceInv, tableVars
<1>7. TurnPlace'
  <2>1. n.type = "LOGIN" => feSessions'[n.author] > 0
    <3>1. n.author \in User /\ feSessions \in [User -> 0 .. MaxSessions]
      BY DEF Command, Base, Types, EnvType
    <3> QED BY <3>1, Constants DEF Receive
  <2>2. \A t \in Slot : Messages(todo'[t]) = {}
    BY <1>1, MessageParts DEF TurnPlace
  <2> QED BY <1>1, <2>1, <2>2 DEF TurnPlace
<1> QED BY <1>5, <1>6, <1>7, MessageParts

\* login_user and logout_user.
LEMMA CountMessages ==
    ASSUME Base, MessageInv, Login \/ Logout
    PROVE  MessageInv'
<1>1. /\ Base' /\ pc["fe"] = "handle" /\ cmd.author \in User
      /\ Login => cmd.type = "LOGIN" /\ pc'["fe"] = "login"
      /\ Logout => cmd.type = "LOGOUT" /\ pc'["fe"] = "idle"
      /\ UNCHANGED <<pending, todo, cmd, ids, again, pushed, addressed, feSessions>>
    BY CountBase, Constants DEF Login, Logout, Handling, Goto, feVars, envVars, Base, TurnInv, Types,
       ThreadType
<1>2. todo["fe"] = <<>> /\ Messages(todo["fe"]) = {} /\ \A u : ~Flushing(u)
    BY <1>1, NothingToSend DEF Sending
<1>3. \A u \in User : ~Flushing(u)'
    BY <1>1 DEF Flushing, Sending
<1>4. ids' >= ids
    BY <1>1 DEF Base, Types, ThreadType
<1>5. ASSUME NEW u \in User PROVE QueueInv(u)' /\ Waiting(u)' = Waiting(u)
  <2>1. Messages(todo'["fe"]) = {}
    BY <1>1, <1>2
  <2> QED BY <1>1, <1>2, <1>3, <1>4, <2>1, StillMessages DEF Base
<1>6. ASSUME NEW u \in User, Waiting(u) # {}, sessions'[u] > 0 PROVE Login /\ u = cmd.author
  <2>1. ~(sessions[u] > 0)
    BY <1>1, <1>6, MessageParts DEF PlaceInv
  <2>2. sessions \in [User -> Int]
    BY Constants DEF Base, Types, TableType
  <2>3. sessions'[u] = sessions[u] \/ (u = cmd.author /\ (Login \/ sessions'[u] = sessions[u] - 1))
    BY <1>1, <2>2 DEF Login, Logout
  <2> QED BY <1>6, <2>1, <2>2, <2>3
<1>7. \A u \in User : PlaceInv(u)'
    BY <1>1, <1>3, <1>5, <1>6 DEF PlaceInv
<1>8. TurnPlace'
    BY <1>1, MessageParts DEF TurnPlace
<1> QED BY <1>5, <1>7, <1>8, MessageParts

\* The end of a notification, and the answers that are infos.
LEMMA InfoMessages ==
    ASSUME Base, MessageInv,
           MessageDone \/ FollowNobody \/ FollowNew \/ FollowAgain \/ FollowDone
    PROVE  MessageInv'
<1>1. /\ Base' /\ pc["fe"] \in {"handle", "send"} /\ pc'["fe"] \in {"send", "idle"}
      /\ cmd.author \in User /\ cmd'.author = cmd.author /\ cmd'.type = cmd.type
      /\ cmd.type \in {"SEND", "FOLLOW"}
      /\ UNCHANGED <<pending, sessions, again, pushed, addressed, feSessions>>
      /\ \A j \in Slot : todo'[j] = todo[j]
  <2>1. Passes /\ FePasses
    BY DEF Passes, FePasses
  <2>2. pc["fe"] \in {"handle", "send"} /\ cmd.type \in {"SEND", "FOLLOW"}
    BY DEF MessageDone, FollowNobody, FollowNew, FollowAgain, FollowDone, Handling, Sent
  <2>3. UNCHANGED <<pending, sessions, again, pushed, addressed, feSessions>>
    BY DEF MessageDone, FollowNobody, FollowNew, FollowAgain, FollowDone, tableVars, feVars, envVars
  <2> QED BY <2>1, <2>2, <2>3, PassingBase, FePassing
<1>2. /\ todo["fe"] = <<>>
      /\ todo'["fe"] = todo["fe"] \/ todo'["fe"] = <<Info(cmd.author, "fe")>>
  <2>1. todo["fe"] = <<>>
    BY NothingToSend DEF MessageDone, FollowNobody, FollowNew, FollowAgain, FollowDone, Handling,
       Sent, Sending
  <2> QED BY <2>1, Constants
          DEF MessageDone, FollowNobody, FollowNew, FollowAgain, FollowDone, Base, Types, ThreadType
<1>3. Messages(todo["fe"]) = {} /\ Messages(todo'["fe"]) = {}
    BY <1>2 DEF Messages, Info
<1>4. \A u \in User : ~Flushing(u) /\ ~Flushing(u)'
    BY <1>1 DEF Flushing
<1>5. ids' >= ids
    BY <1>1 DEF MessageDone, FollowNobody, FollowNew, FollowAgain, FollowDone, Base, Types, ThreadType
<1>6. ASSUME NEW u \in User PROVE QueueInv(u)' /\ Waiting(u)' = Waiting(u)
    BY <1>1, <1>3, <1>4, <1>5, StillMessages DEF Base
<1>7. \A u \in User : PlaceInv(u)'
    BY <1>1, <1>4, <1>6, MessageParts DEF PlaceInv
<1>8. TurnPlace'
    BY <1>1, MessageParts DEF TurnPlace
<1> QED BY <1>6, <1>7, <1>8, MessageParts

\* A thread starts to answer, or is done.
LEMMA SlotMessages ==
    ASSUME Base, MessageInv, NEW t \in Slot, AnswerDone(t) \/ \E r \in ring : Agreed(t, r)
    PROVE  MessageInv'
<1>1. /\ Base' /\ UNCHANGED <<tableVars, cmd, again, pushed, addressed, feSessions>>
      /\ pc'["fe"] = pc["fe"] /\ todo'["fe"] = todo["fe"]
  <2>1. Passes
    BY DEF Passes
  <2> QED BY <2>1, PassingBase, Constants
          DEF AnswerDone, Agreed, Goto, feVars, envVars, Base, Types, ThreadType
<1>2. \A j \in Slot : Messages(todo'[j]) = {}
  <2>1. \A j \in Slot : Messages(todo[j]) = {}
    BY MessageParts DEF TurnPlace
  <2>2. ASSUME NEW r \in ring, Agreed(t, r) PROVE Messages(todo'[t]) = {}
    <3>1. todo'[t] = <<Info(r[1], t)>>
      BY <2>2, Constants DEF Agreed, Base, Types, ThreadType
    <3> QED BY <3>1 DEF Messages, Info
  <2>3. AnswerDone(t) => todo' = todo
    BY DEF AnswerDone
  <2>4. \A j \in Slot : j # t => todo'[j] = todo[j]
    BY Constants DEF AnswerDone, Agreed, Base, Types, ThreadType
  <2> QED BY <2>1, <2>2, <2>3, <2>4
<1>3. \A u \in User : Flushing(u)' = Flushing(u)
    BY <1>1 DEF Flushing, Sending
<1>4. ids \in Nat /\ ids' \in Nat /\ ids' >= ids /\ addressed \in [User -> Seq(Nat)]
    BY <1>1 DEF AnswerDone, Agreed, Base, Types, ThreadType, LinkType
<1>5. ASSUME NEW u \in User PROVE QueueInv(u)' /\ PlaceInv(u)'
  <2>1. QueueInv(u) /\ PlaceInv(u)
    BY MessageParts
  <2>2. Got(u)' = Got(u) /\ Waiting(u)' = Waiting(u) /\ Coming(u)' = Coming(u)
    BY <1>1, <1>3, QueueSets DEF tableVars
  <2>3. QueueInv(u)'
    BY <1>1, <1>4, <2>1, <2>2, DoubledStays, QueueKept DEF tableVars, QueueInv
  <2>4. PlaceInv(u)'
    BY <1>1, <1>3, <2>1, <2>2 DEF PlaceInv, tableVars
  <2> QED BY <2>3, <2>4
<1>6. TurnPlace'
    BY <1>1, <1>2, MessageParts DEF TurnPlace, Receiver, tableVars
<1> QED BY <1>5, <1>6, MessageParts

\* handle_pending_notifications begins: what waited for the author is what is sent.
LEMMA TakeMessages ==
    ASSUME Base, MessageInv, TakePending, feLink = "up"
    PROVE  MessageInv'
<1>1. /\ pc["fe"] = "login" /\ pc'["fe"] = "send" /\ cmd.type = "LOGIN" /\ cmd.author \in User
      /\ todo'["fe"] = pending[cmd.author] /\ \A j \in Slot : todo'[j] = todo[j]
      /\ UNCHANGED <<tableVars, cmd, ids, again, pushed, addressed, feSessions>>
    BY Constants DEF TakePending, Goto, feVars, envVars, Base, TurnInv, Types, ThreadType
<1>2. todo["fe"] = <<>> /\ \A u : ~Flushing(u) /\ Coming(u) = {}
    BY <1>1, NothingToSend DEF Sending
<1>3. sessions[cmd.author] > 0
  <2>1. feSessions[cmd.author] > 0
    BY <1>1, MessageParts DEF TurnPlace
  <2>2. Due(cmd.author) = 0
    BY <1>1, DueNothing
  <2>3. replays = 0 /\ sessions[cmd.author] + Due(cmd.author) - feSessions[cmd.author] \in -replays .. replays
    BY <1>1 DEF Base, SessionInv
  <2>4. sessions[cmd.author] \in Int /\ feSessions[cmd.author] \in Int
    BY <1>1, Constants DEF Base, Types, TableType, EnvType
  <2> QED BY <2>1, <2>2, <2>3, <2>4
<1>4. \A u \in User : Flushing(u)' <=> u = cmd.author
    BY <1>1 DEF Flushing, Sending
<1>5. ASSUME NEW u \in User PROVE QueueInv(u)' /\ PlaceInv(u)'
  <2>1. /\ QueueInv(u) /\ PlaceInv(u)
        /\ \A i \in DOMAIN pending[cmd.author] : pending[cmd.author][i].to = cmd.author
        /\ Doubled(u)' = Doubled(u)
    BY <1>1, MessageParts, DoubledStays DEF QueueInv
  <2>2. pending[cmd.author] \in Seq(Notes)
    BY <1>1 DEF Base, Types, TableType
  <2>3. OrderTo(Doubled(u), todo'["fe"], u)
    <3>1. CASE u = cmd.author
      BY <1>1, <2>1, <3>1 DEF QueueInv, OrderTo, InOrder
    <3>2. CASE u # cmd.author
      BY <1>1, <2>1, <3>2 DEF OrderTo, Messages
    <3> QED BY <3>1, <3>2
  <2>4. CASE u = cmd.author
    <3>1. Waiting(u)' = {} /\ Got(u)' = Got(u)
      BY <1>1, <1>4, <2>4, QueueSets
    <3>2. Coming(u)' = Waiting(u)
      <4>1. Coming(u)' = ElemsTo(pending[u], u) /\ Waiting(u) = Elems(pending[u])
        BY <1>1, <1>2, <2>4, QueueSets
      <4>2. \A i \in Messages(pending[u]) : pending[u][i].to = u
        BY <2>1, <2>4 DEF Messages
      <4> QED BY <4>1, <4>2 DEF Elems, ElemsTo
    <3>3. QueueInv(u)'
      <4>1. /\ InOrder(Doubled(u), pushed[u])' /\ InOrder(Doubled(u), pending[u])'
            /\ OrderTo(Doubled(u), todo["fe"], u)'
            /\ \A i \in DOMAIN pending'[u] : pending'[u][i].to = u
        BY <1>1, <2>1, <2>3 DEF QueueInv, InOrder, OrderTo, Messages, tableVars
      <4>2. {k.id : k \in Got(u)' \cup Waiting(u)' \cup Coming(u)'} = Range(addressed'[u])
        BY <1>1, <1>2, <2>1, <3>1, <3>2 DEF QueueInv
      <4> QED BY <1>1, <2>1, <3>1, <3>2, <4>1, <4>2 DEF QueueInv
    <3>4. PlaceInv(u)'
      BY <1>1, <1>3, <2>1, <2>4, <3>1 DEF PlaceInv, tableVars
    <3> QED BY <3>3, <3>4
  <2>5. CASE u # cmd.author
    <3>1. Got(u)' = Got(u) /\ Waiting(u)' = Waiting(u)
      BY <1>1, <1>2, <1>4, <2>5, QueueSets DEF tableVars
    <3>2. Coming(u)' = {}
      <4>1. \A i \in Messages(pending[cmd.author]) : pending[cmd.author][i].to # u
        BY <2>1, <2>5 DEF Messages
      <4> QED BY <1>1, <4>1, QueueSets DEF ElemsTo
    <3>3. addressed[u] \in Seq(Nat) /\ ids \in Nat
      BY DEF Base, Types, ThreadType, LinkType
    <3>4. QueueInv(u)'
      BY <1>1, <1>2, <2>1, <2>3, <3>1, <3>2, <3>3, QueueKept DEF tableVars, QueueInv
    <3>5. PlaceInv(u)'
      BY <1>1, <1>4, <2>1, <2>5, <3>1 DEF PlaceInv, tableVars
    <3> QED BY <3>4, <3>5
  <2> QED BY <2>4, <2>5
<1>6. TurnPlace'
    BY <1>1, MessageParts DEF TurnPlace
<1> QED BY <1>5, <1>6, MessageParts

\* ... and ends: they are all sent, and forgotten.
LEMMA ClearMessages ==
    ASSUME Base, MessageInv, ClearPending
    PROVE  MessageInv'
<1>1. /\ pc["fe"] = "send" /\ pc'["fe"] = "idle" /\ cmd.type = "LOGIN" /\ cmd.author \in User
      /\ todo["fe"] = <<>> /\ pending' = [pending EXCEPT ![cmd.author] = <<>>]
      /\ UNCHANGED <<sessions, todo, cmd, ids, again, pushed, addressed, feSessions>>
    BY Constants DEF ClearPending, Sent, Goto, feVars, envVars, Base, TurnInv, Types, ThreadType
<1>2. \A u \in User : ~Flushing(u)' /\ (Flushing(u) <=> u = cmd.author)
    BY <1>1 DEF Flushing, Sending
<1>3. ASSUME NEW u \in User PROVE QueueInv(u)' /\ PlaceInv(u)'
  <2>1. QueueInv(u) /\ PlaceInv(u)
    BY MessageParts
  <2>2. pending'[u] = IF u = cmd.author THEN <<>> ELSE pending[u]
    BY <1>1 DEF Base, Types, TableType
  <2>3. Got(u)' = Got(u) /\ Coming(u)' = Coming(u)
    BY <1>1, QueueSets
  <2>4. Waiting(u)' = Waiting(u)
    <3>1. Elems(<<>>) = {}
      BY DEF Elems, Messages
    <3> QED BY <1>2, <2>2, <3>1, QueueSets
  <2>5. InOrder(Doubled(u), pending'[u]) /\ \A i \in DOMAIN pending'[u] : pending'[u][i].to = u
    BY <2>1, <2>2 DEF QueueInv, InOrder, Messages
  <2>6. addressed[u] \in Seq(Nat) /\ ids \in Nat
    BY DEF Base, Types, ThreadType, LinkType
  <2>7. QueueInv(u)'
    BY <1>1, <2>1, <2>3, <2>4, <2>5, <2>6, DoubledStays, QueueKept DEF QueueInv
  <2>8. PlaceInv(u)'
    BY <1>1, <1>2, <2>1, <2>4 DEF PlaceInv
  <2> QED BY <2>7, <2>8
<1>4. TurnPlace'
    BY <1>1, MessageParts DEF TurnPlace
<1> QED BY <1>3, <1>4, MessageParts

\* receive_message: the new message has a larger identifier than any before it.
LEMMA NewMessages ==
    ASSUME Base, MessageInv, ReceiveMessage
    PROVE  MessageInv'
<1>1. /\ pc["fe"] = "handle" /\ pc'["fe"] = "send" /\ cmd.type = "SEND" /\ cmd.author \in User
      /\ ids' = ids + 1 /\ ids \in Nat /\ \A j \in Slot : todo'[j] = todo[j]
      /\ UNCHANGED <<tableVars, cmd, again, pushed, feSessions>>
    BY Constants DEF ReceiveMessage, Handling, Goto, feVars, envVars, Base, TurnInv, Types, ThreadType
<1>2. todo["fe"] = <<>> /\ \A u : ~Flushing(u) /\ Coming(u) = {}
    BY <1>1, NothingToSend DEF Sending
<1>3. \A u \in User : ~Flushing(u)'
    BY <1>1 DEF Flushing
<1> PICK to : to = <<cmd.author>> \o followers[cmd.author]
    OBVIOUS
<1>4. /\ to \in Seq(User) /\ DOMAIN to = 1 .. Len(to)
      /\ \A i, j \in DOMAIN to : i # j /\ to[i] = to[j] => Doubled(to[i])
      /\ todo'["fe"] = [i \in DOMAIN to |-> Note("message", to[i])]
      /\ \A u \in User : addressed'[u] = IF Contains(to, u) THEN Append(addressed[u], ids)
                                         ELSE addressed[u]
    BY Receivers
<1>5. /\ DOMAIN todo'["fe"] = DOMAIN to /\ Messages(todo'["fe"]) = DOMAIN to
      /\ \A i \in DOMAIN to : todo'["fe"][i] = Note("message", to[i]) /\ todo'["fe"][i].to = to[i]
    BY <1>4 DEF Messages, Note
<1>6. ASSUME NEW u \in User PROVE QueueInv(u)' /\ PlaceInv(u)'
  <2>1. QueueInv(u) /\ PlaceInv(u) /\ addressed[u] \in Seq(Nat) /\ Doubled(u)' = Doubled(u)
    BY <1>1, MessageParts, DoubledStays DEF Base, Types, LinkType
  <2>2. Got(u)' = Got(u) /\ Waiting(u)' = Waiting(u)
    BY <1>1, <1>2, <1>3, QueueSets DEF tableVars
  <2>3. OrderTo(Doubled(u), todo'["fe"], u)
    <3> SUFFICES ASSUME NEW i \in DOMAIN to, NEW j \in DOMAIN to, i < j, to[i] = u, to[j] = u
                 PROVE  Before(Doubled(u), todo'["fe"][i].id, todo'["fe"][j].id)
      BY <1>5 DEF OrderTo
    <3>1. i # j
      <4>1. i \in 1 .. Len(to) /\ j \in 1 .. Len(to)
        BY <1>4
      <4> QED BY <4>1
    <3>2. Doubled(to[i])
      BY <1>4, <3>1
    <3>3. \A k \in DOMAIN to : todo'["fe"][k] = Note("message", to[k])
      BY <1>5
    <3>5. \A x : Note("message", x).id = ids
      BY DEF Note
    <3>4. \A k \in DOMAIN to : todo'["fe"][k].id = ids
      BY <3>3, <3>5
    <3> QED BY <3>2, <3>4 DEF Before
  <2>4. \A m \in Got(u) \cup Waiting(u) : m.id < ids
    <3>1. \A m \in Got(u) \cup Waiting(u) : m.id \in Range(addressed[u])
      BY <1>2, <2>1 DEF QueueInv
    <3> QED BY <2>1, <3>1 DEF QueueInv, Range
  <2>5. /\ InOrder(Doubled(u), pushed[u])' /\ InOrder(Doubled(u), pending[u])'
        /\ OrderTo(Doubled(u), todo["fe"], u)'
        /\ \A i \in DOMAIN pending'[u] : pending'[u][i].to = u
    BY <1>1, <2>1, <2>3 DEF QueueInv, InOrder, OrderTo, Messages, tableVars
  <2>6. Contains(to, u) => Coming(u)' = {Note("message", u)}
    <3> SUFFICES ASSUME Contains(to, u) PROVE Coming(u)' = {Note("message", u)}
      OBVIOUS
    <3>1. PICK i \in DOMAIN to : to[i] = u
      BY <1>4 DEF Contains
    <3> QED BY <1>5, <3>1, QueueSets DEF ElemsTo
  <2>7. ~Contains(to, u) => Coming(u)' = {}
    <3>1. ~Contains(to, u) => \A i \in DOMAIN to : to[i] # u
      BY <1>4 DEF Contains
    <3> QED BY <1>5, <3>1, QueueSets DEF ElemsTo
  <2>8. \A k \in Coming(u)' : k.id = ids
    BY <2>6, <2>7 DEF Note
  <2>9. {k.id : k \in Got(u)' \cup Waiting(u)' \cup Coming(u)'} = Range(addressed'[u])
    <3>1. {k.id : k \in Got(u) \cup Waiting(u)} = Range(addressed[u])
      BY <1>2, <2>1 DEF QueueInv
    <3>2. CASE Contains(to, u)
      <4>1. {k.id : k \in Got(u)' \cup Waiting(u)' \cup Coming(u)'} = Range(addressed[u]) \cup {ids}
        BY <2>2, <2>6, <2>8, <3>1, <3>2
      <4>2. Range(Append(addressed[u], ids)) = Range(addressed[u]) \cup {ids}
        <5> PICK a, b : a = addressed[u] /\ b = Append(addressed[u], ids)
          OBVIOUS
        <5>1. /\ DOMAIN a = 1 .. Len(a) /\ DOMAIN b = 1 .. Len(a) + 1 /\ Len(a) \in Nat
              /\ b[Len(a) + 1] = ids /\ \A i \in 1 .. Len(a) : b[i] = a[i]
          BY <1>1, <2>1
        <5>2. ASSUME NEW e \in Range(b) PROVE e \in Range(a) \cup {ids}
          <6>1. PICK i \in DOMAIN b : e = b[i]
            BY DEF Range
          <6>2. i \in 1 .. Len(a) \/ i = Len(a) + 1
            BY <5>1, <6>1
          <6> QED BY <5>1, <6>1, <6>2 DEF Range
        <5>3. ASSUME NEW e \in Range(a) PROVE e \in Range(b)
          <6>1. PICK i \in DOMAIN a : e = a[i]
            BY DEF Range
          <6>2. i \in DOMAIN b /\ b[i] = e
            BY <5>1, <6>1
          <6> QED BY <6>2 DEF Range
        <5>4. ids \in Range(b)
          <6>1. Len(a) + 1 \in DOMAIN b
            BY <5>1
          <6> QED BY <5>1, <6>1 DEF Range
        <5>5. Range(b) = Range(a) \cup {ids}
          BY <5>2, <5>3, <5>4
        <5> QED BY <5>5
      <4> QED BY <1>4, <3>2, <4>1, <4>2
    <3>3. CASE ~Contains(to, u)
      BY <1>4, <2>2, <2>7, <3>1, <3>3
    <3> QED BY <3>2, <3>3
  <2>10. \A i \in DOMAIN addressed'[u] : addressed'[u][i] < ids'
    <3> PICK a, b : a = addressed[u] /\ b = addressed'[u]
      OBVIOUS
    <3>1. a \in Seq(Nat) /\ (b = a \/ b = Append(a, ids)) /\ \A i \in DOMAIN a : a[i] < ids
      BY <1>4, <2>1 DEF QueueInv
    <3>3. ASSUME NEW i \in DOMAIN b PROVE b[i] < ids + 1
      <4>1. CASE i \in DOMAIN a /\ b[i] = a[i]
        <5>1. a[i] < ids /\ a[i] \in Nat
          BY <3>1, <4>1
        <5> QED BY <1>1, <4>1, <5>1
      <4>2. CASE b[i] = ids
        BY <1>1, <4>2
      <4>3. b = Append(a, ids) => (i \in DOMAIN a /\ b[i] = a[i]) \/ b[i] = ids
        BY <1>1, <3>1
      <4> QED BY <3>1, <4>1, <4>2, <4>3
    <3> QED BY <1>1, <3>3
  <2>13. /\ \A m \in Got(u)' : \A n \in Waiting(u)' \cup Coming(u)' : Before(Doubled(u), m.id, n.id)
         /\ \A m \in Waiting(u)' : \A n \in Coming(u)' : Before(Doubled(u), m.id, n.id)
    <3>1. \A m \in Got(u)' \cup Waiting(u)' : \A n \in Coming(u)' : Before(Doubled(u), m.id, n.id)
      BY <2>2, <2>4, <2>8 DEF Before
    <3>2. \A m \in Got(u)' : \A n \in Waiting(u)' : Before(Doubled(u), m.id, n.id)
      BY <2>1, <2>2 DEF QueueInv
    <3> QED BY <3>1, <3>2
  <2>11. QueueInv(u)'
    BY <2>1, <2>2, <2>5, <2>9, <2>10, <2>13 DEF QueueInv, Before
  <2>12. PlaceInv(u)'
    BY <1>1, <1>3, <2>1, <2>2 DEF PlaceInv, tableVars
  <2> QED BY <2>11, <2>12
<1>7. TurnPlace'
    BY <1>1, MessageParts DEF TurnPlace
<1> QED BY <1>6, <1>7, MessageParts

\* A FOLLOW that goes on: its follower gets the message that is being sent once more.
LEMMA GoesMessages ==
    ASSUME Base, SendInv, MessageInv, NEW r \in ring, GoesOn(r)
    PROVE  MessageInv'
<1>1. /\ Base' /\ ids \in Nat /\ addressed \in [User -> Seq(Nat)]
    BY GoesBase DEF Base, Types, ThreadType, LinkType
<1>2. \A u \in User : Doubled(u) => Doubled(u)'
    <2>1. \A q \in User \X User : again[q] > 0 => again'[q] > 0
      BY GoesIs
    <2> QED BY <2>1 DEF Doubled
<1>3. \A u \in User : Flushing(u)' = Flushing(u)
    <2>1. pc' = pc /\ cmd' = cmd
      BY GoesIs
    <2> QED BY <2>1 DEF Flushing, Sending
<1>4. UNCHANGED <<pending, sessions, pc, cmd, ids, pushed, feSessions, addressed>>
    BY GoesIs
<1>5. \A j \in Slot : Messages(todo'[j]) = {}
    <2>1. \A j \in Slot : todo'[j] = todo[j]
      BY GoesIs
    <2> QED BY <2>1, MessageParts DEF TurnPlace
<1>6. CASE todo' = todo
  <2>1. ASSUME NEW u \in User PROVE QueueInv(u)' /\ PlaceInv(u)'
    <3>1. QueueInv(u) /\ PlaceInv(u)
      BY MessageParts
    <3>2. Got(u)' = Got(u) /\ Waiting(u)' = Waiting(u) /\ Coming(u)' = Coming(u)
      BY <1>3, <1>4, <1>6, QueueSets
    <3>3. QueueInv(u)'
      BY <1>1, <1>2, <1>4, <1>6, <3>1, <3>2, QueueKept DEF QueueInv
    <3>4. PlaceInv(u)'
      BY <1>3, <1>4, <1>6, <3>1, <3>2 DEF PlaceInv
    <3> QED BY <3>3, <3>4
  <2>2. TurnPlace'
    BY <1>4, <1>5, <1>6, MessageParts DEF TurnPlace, Receiver
  <2> QED BY <2>1, <2>2, MessageParts
<1>7. CASE todo' # todo
  <2> PICK s, t, n : s = todo["fe"] /\ t = todo'["fe"] /\ n = [Head(todo["fe"]) EXCEPT !.to = r[1]]
    OBVIOUS
  <2>1. /\ s \in Seq(Notes) /\ s # <<>> /\ n \in Notes /\ t = Append(s, n)
        /\ cmd.type = "SEND" /\ r[1] \in User /\ r[2] = cmd.author /\ Contains(followers[cmd.author], r[1])
    <3>1. s \in Seq(Notes)
      BY Constants DEF Base, Types, ThreadType
    <3> QED BY <1>7, <3>1, GoesIs
  <2>2. /\ DOMAIN s = 1 .. Len(s) /\ DOMAIN t = 1 .. Len(s) + 1 /\ Len(s) \in Nat \ {0}
        /\ t[Len(s) + 1] = n /\ \A i \in 1 .. Len(s) : t[i] = s[i]
        /\ Head(s) = s[1] /\ Head(t) = s[1] /\ 1 \in DOMAIN s
    BY <2>1
  <2>3. n.kind = "message" /\ n.to = r[1] /\ n.id = s[1].id /\ Newest(s[1])
    <3>1. Newest(s[1])
      BY <2>1, <2>2 DEF SendInv
    <3>2. s[1] \in Notes
      BY <2>1, <2>2
    <3> QED BY <2>1, <2>2, <3>1, <3>2 DEF Newest, Notes
  <2>9. Len(s) + 1 \in DOMAIN t /\ \A i \in DOMAIN t : i \in DOMAIN s \/ i = Len(s) + 1
    BY <2>2
  <2>5. \A i \in Messages(s) : i \in 1 .. Len(s) /\ t[i] = s[i] /\ i # Len(s) + 1
    BY <2>2 DEF Messages
  <2>10. \A i \in DOMAIN s : i \in DOMAIN t /\ t[i] = s[i]
    BY <2>2
  <2>4. Messages(t) = Messages(s) \cup {Len(s) + 1}
    <3>1. Messages(t) \subseteq Messages(s) \cup {Len(s) + 1}
      BY <2>9, <2>10 DEF Messages
    <3>2. Messages(s) \subseteq Messages(t)
      BY <2>10 DEF Messages
    <3>3. Len(s) + 1 \in Messages(t)
      <4>1. t[Len(s) + 1].kind = "message"
        BY <2>2, <2>3
      <4> QED BY <2>9, <4>1 DEF Messages
    <3> QED BY <3>1, <3>2, <3>3
  <2>6. \A u \in User : ~Flushing(u)
    BY <2>1 DEF Flushing
  <2>7. ASSUME NEW u \in User PROVE QueueInv(u)' /\ PlaceInv(u)'
    <3>1. QueueInv(u) /\ PlaceInv(u)
      BY MessageParts
    <3>2. Got(u)' = Got(u) /\ Waiting(u)' = Waiting(u)
      BY <1>3, <1>4, QueueSets
    <3>3. Coming(u)' = Coming(u) \cup (IF u = r[1] THEN {n} ELSE {})
      <4>1. Coming(u) = ElemsTo(s, u) /\ Coming(u)' = ElemsTo(t, u)
        BY QueueSets
      <4>2. {j \in Messages(t) : t[j].to = u}
               = {j \in Messages(s) : s[j].to = u} \cup (IF u = r[1] THEN {Len(s) + 1} ELSE {})
        <5>1. t[Len(s) + 1].to = r[1]
          BY <2>2, <2>3
        <5>2. \A j \in Messages(s) : t[j].to = s[j].to
          BY <2>5
        <5> QED BY <2>4, <5>1, <5>2
      <4>3. \A j \in {j \in Messages(s) : s[j].to = u} : t[j] = s[j]
        BY <2>5
      <4> QED BY <2>2, <4>1, <4>2, <4>3 DEF ElemsTo
    <3>4. CASE u # r[1]
      <4>1. Coming(u)' = Coming(u)
        BY <3>3, <3>4
      <4>2. OrderTo(Doubled(u), s, u)
        BY <3>1 DEF QueueInv
      <4>3. OrderTo(Doubled(u), t, u)
        <5>1. t[Len(s) + 1].to # u
          BY <2>2, <2>3, <3>4
        <5>2. \A i \in Messages(t) : t[i].to = u => i \in Messages(s) /\ t[i] = s[i]
          BY <2>4, <2>5, <5>1
        <5> QED BY <4>2, <5>2 DEF OrderTo
      <4>4. QueueInv(u)'
        BY <1>1, <1>2, <1>4, <3>1, <3>2, <4>1, <4>3, QueueKept DEF QueueInv
      <4>5. PlaceInv(u)'
        BY <1>3, <1>4, <2>6, <3>1, <3>2 DEF PlaceInv
      <4> QED BY <4>4, <4>5
    <3>5. CASE u = r[1]
      <4> PICK d : d = Doubled(u)'
        OBVIOUS
      <4>1. d
        <5>1. again'[r] > 0 /\ r[2] \in User /\ r = <<r[1], r[2]>>
          BY GoesIs
        <5>2. again'[<<u, r[2]>>] > 0
          BY <3>5, <5>1
        <5> QED BY <5>1, <5>2 DEF Doubled
      <4>2. PICK a : a = addressed[u]
        OBVIOUS
      <4>3. /\ a \in Seq(Nat) /\ \A j \in DOMAIN a : a[j] <= n.id
            /\ \E j \in DOMAIN a : a[j] = n.id
        BY <1>1, <2>1, <2>3, <3>5, <4>2 DEF Newest
      <4>4. n.id \in Range(a) /\ \A k \in Range(a) : k <= n.id /\ k \in Nat
        BY <4>3 DEF Range
      <4>5. {m.id : m \in Got(u) \cup Waiting(u) \cup Coming(u)} = Range(a)
        BY <3>1, <4>2 DEF QueueInv
      <4>6. \A m \in Got(u) \cup Waiting(u) \cup Coming(u) : Before(d, m.id, n.id)
        <5>1. \A m \in Got(u) \cup Waiting(u) \cup Coming(u) : m.id \in Range(a)
          BY <4>5
        <5>2. n.id \in Nat
          BY <4>4
        <5> QED BY <4>1, <4>4, <5>1, <5>2 DEF Before
      <4>7. Doubled(u) => d
        BY <1>2
      <4>8. /\ InOrder(d, pushed[u]) /\ InOrder(d, pending[u]) /\ OrderTo(d, s, u)
        BY <3>1, <4>7, StillBefore DEF QueueInv
      <4>9. OrderTo(d, t, u)
        <5> SUFFICES ASSUME NEW i \in Messages(t), NEW j \in Messages(t), i < j, t[i].to = u, t[j].to = u
                     PROVE  Before(d, t[i].id, t[j].id)
          BY DEF OrderTo
        <5>1. i \in Messages(s)
          BY <2>2, <2>4, <2>5
        <5>2. CASE j \in Messages(s)
          BY <2>5, <4>8, <5>1, <5>2 DEF OrderTo
        <5>3. CASE j = Len(s) + 1
          <6>1. s[i] \in Coming(u) /\ t[i] = s[i] /\ t[j] = n
            BY <2>2, <2>5, <5>1, <5>3 DEF Coming
          <6> QED BY <4>6, <6>1
        <5> QED BY <2>4, <5>2, <5>3
      <4>10. /\ \A m \in Got(u)' : \A k \in Waiting(u)' \cup Coming(u)' : Before(d, m.id, k.id)
             /\ \A m \in Waiting(u)' : \A k \in Coming(u)' : Before(d, m.id, k.id)
        <5>1. /\ \A m \in Got(u) : \A k \in Waiting(u) \cup Coming(u) : Before(d, m.id, k.id)
              /\ \A m \in Waiting(u) : \A k \in Coming(u) : Before(d, m.id, k.id)
          BY <3>1, <4>7, StillBefore DEF QueueInv
        <5>2. Coming(u)' = Coming(u) \cup {n}
          BY <3>3, <3>5
        <5> QED BY <3>2, <4>6, <5>1, <5>2
      <4>11. {m.id : m \in Got(u)' \cup Waiting(u)' \cup Coming(u)'} = Range(addressed'[u])
        <5>1. Got(u)' \cup Waiting(u)' \cup Coming(u)' = (Got(u) \cup Waiting(u) \cup Coming(u)) \cup {n}
          BY <3>2, <3>3, <3>5
        <5>2. addressed'[u] = a
          BY <1>4, <4>2
        <5> QED BY <4>4, <4>5, <5>1, <5>2
      <4>12. QueueInv(u)'
        BY <1>4, <3>1, <4>8, <4>9, <4>10, <4>11 DEF QueueInv, InOrder, OrderTo, Messages, Before
      <4>13. PlaceInv(u)'
        BY <1>3, <1>4, <2>6, <3>1, <3>2 DEF PlaceInv
      <4> QED BY <4>12, <4>13
    <3> QED BY <3>4, <3>5
  <2>8. TurnPlace'
    <3>1. Receiver("fe")' = Receiver("fe")
      BY <2>2 DEF Receiver
    <3> QED BY <1>4, <1>5, <3>1, MessageParts DEF TurnPlace
  <2> QED BY <2>7, <2>8, MessageParts
<1> QED BY <1>6, <1>7

-----------------------------------------------------------------------------
(* The message that is being sent is the newest.                            *)

LEMMA SendInit == Init => SendInv
    BY DEF Init, SendInv, NoCommand

\* Steps that take no message in hand, nor change who follows the author.
LEMMA SendStays ==
    ASSUME Base, SendInv, UNCHANGED addressed, ids' \in Nat, ids' >= ids,
           cmd'.type = "SEND" =>
               \/ todo'["fe"] = <<>>
               \/ /\ cmd' = cmd /\ todo'["fe"] = todo["fe"]
                  /\ \A f \in User : Contains(followers'[cmd.author], f) => Contains(followers[cmd.author], f)
    PROVE  SendInv'
<1>1. \A u \in User : \A i \in DOMAIN addressed'[u] : addressed'[u][i] < ids'
  <2> SUFFICES ASSUME NEW u \in User, NEW i \in DOMAIN addressed[u] PROVE addressed[u][i] < ids'
    OBVIOUS
  <2>1. addressed[u] \in Seq(Nat) /\ ids \in Nat
    BY DEF Base, Types, LinkType, ThreadType
  <2>2. addressed[u][i] \in Nat /\ addressed[u][i] < ids
    BY <2>1 DEF SendInv
  <2> QED BY <2>1, <2>2
<1>2. ASSUME cmd'.type = "SEND", NEW i \in DOMAIN todo'["fe"] PROVE Newest(todo["fe"][i])'
  <2>1. CASE todo'["fe"] = <<>>
    BY <1>2, <2>1
  <2>2. CASE cmd' = cmd /\ todo'["fe"] = todo["fe"]
    <3>1. Newest(todo["fe"][i])
      BY <1>2, <2>2 DEF SendInv
    <3> QED BY <1>2, <2>2, <3>1 DEF Newest
  <2> QED BY <1>2, <2>1, <2>2
<1> QED BY <1>1, <1>2 DEF SendInv

LEMMA SendGoes ==
    ASSUME Base, SendInv, NEW r \in ring, GoesOn(r)
    PROVE  SendInv'
<1>1. ids \in Nat /\ UNCHANGED <<addressed, ids, cmd>>
    BY GoesIs DEF Base, Types, ThreadType
<1>2. ASSUME cmd.type = "SEND", NEW f \in User, Contains(followers'[cmd.author], f)
      PROVE  Contains(followers[cmd.author], f)
  <2>1. CASE cmd.author = r[2]
    <3> PICK p, q : p = followers[r[2]] /\ q = followers'[r[2]]
      OBVIOUS
    <3>1. p \in Seq(User) /\ q = Append(p, r[1]) /\ r[1] \in User /\ Contains(p, r[1])
      BY GoesIs
    <3>2. /\ DOMAIN q = 1 .. Len(p) + 1 /\ Len(q) = Len(p) + 1 /\ Len(p) \in Nat
          /\ q[Len(p) + 1] = r[1] /\ \A i \in 1 .. Len(p) : q[i] = p[i]
      BY <3>1
    <3>3. PICK i \in 1 .. Len(q) : q[i] = f
      BY <1>2, <2>1 DEF Contains
    <3>4. CASE i = Len(p) + 1
      BY <2>1, <3>1, <3>2, <3>3, <3>4
    <3>5. CASE i # Len(p) + 1
      <4>1. i \in 1 .. Len(p) /\ p[i] = f
        BY <3>2, <3>3, <3>5
      <4> QED BY <2>1, <4>1 DEF Contains
    <3> QED BY <3>4, <3>5
  <2>2. CASE cmd.author # r[2]
    <3>1. cmd.author \in User
      BY <1>2 DEF Base, TurnInv
    <3>2. followers'[cmd.author] = followers[cmd.author]
      BY <2>2, <3>1, GoesIs
    <3> QED BY <1>2, <3>2
  <2> QED BY <2>1, <2>2
<1>3. CASE todo' = todo
  BY <1>1, <1>2, <1>3, SendStays
<1>4. CASE todo' # todo
  <2> PICK s, n : s = todo["fe"] /\ n = [Head(todo["fe"]) EXCEPT !.to = r[1]]
    OBVIOUS
  <2>1. /\ s \in Seq(Notes) /\ s # <<>> /\ n \in Notes /\ todo'["fe"] = Append(s, n) /\ cmd.type = "SEND"
    <3>1. s \in Seq(Notes)
      BY Constants DEF Base, Types, ThreadType
    <3> QED BY <1>4, <3>1, GoesIs
  <2>2. /\ DOMAIN s = 1 .. Len(s) /\ DOMAIN todo'["fe"] = 1 .. Len(s) + 1 /\ Len(s) \in Nat \ {0}
        /\ todo'["fe"][Len(s) + 1] = n /\ \A i \in 1 .. Len(s) : todo'["fe"][i] = s[i]
        /\ Head(s) = s[1] /\ 1 \in DOMAIN s
    BY <2>1
  <2>3. \A i \in DOMAIN s : Newest(s[i])
    BY <2>1 DEF SendInv
  <2>4. s[1] \in Notes
    BY <2>1, <2>2
  <2>5. n.kind = s[1].kind /\ n.id = s[1].id
    BY <2>2, <2>4 DEF Notes
  <2>6. ASSUME NEW m, Newest(m), NEW k, k.kind = m.kind, k.id = m.id
        PROVE  /\ k.kind = "message"
               /\ \A u \in User : \A j \in DOMAIN addressed'[u] : addressed'[u][j] <= k.id
               /\ \A f \in User : Contains(followers'[cmd'.author], f) =>
                     \E j \in DOMAIN addressed'[f] : addressed'[f][j] = k.id
    BY <1>1, <1>2, <2>1, <2>6 DEF Newest
  <2>7. ASSUME NEW i \in DOMAIN todo'["fe"] PROVE Newest(todo["fe"][i])'
    <3>1. CASE i \in DOMAIN s
      <4>1. Newest(s[i]) /\ todo'["fe"][i] = s[i]
        BY <2>2, <2>3, <3>1
      <4> QED BY <2>6, <4>1 DEF Newest
    <3>2. CASE i \notin DOMAIN s
      <4>1. Newest(s[1])
        BY <2>2, <2>3
      <4>2. i = Len(s) + 1
        BY <2>2, <2>7, <3>2
      <4>3. todo'["fe"][i] = n
        BY <2>2, <4>2
      <4>4. /\ n.kind = "message"
            /\ \A u \in User : \A j \in DOMAIN addressed'[u] : addressed'[u][j] <= n.id
            /\ \A f \in User : Contains(followers'[cmd'.author], f) =>
                  \E j \in DOMAIN addressed'[f] : addressed'[f][j] = n.id
        BY <2>5, <2>6, <4>1
      <4> QED BY <4>3, <4>4 DEF Newest
    <3> QED BY <3>1, <3>2
  <2> QED BY <1>1, <2>7 DEF SendInv
<1> QED BY <1>3, <1>4

LEMMA SendMessages ==
    ASSUME Base, SendInv, NEW t \in Thread, SendMessage(t)
    PROVE  SendInv'
<1>1. /\ todo[t] # <<>> /\ UNCHANGED <<followers, cmd, ids, addressed>>
      /\ \A j \in Thread : j # t => todo'[j] = todo[j]
    BY SendBase
<1>2. ids \in Nat
    BY DEF Base, Types, ThreadType
<1>3. todo'["fe"] = todo["fe"] \/ todo'["fe"] = Tail(todo["fe"])
    BY <1>1, Constants DEF SendMessage, LockReceiver, WriteFE, Keep, Done, Base, Types, ThreadType
<1>4. CASE todo'["fe"] = todo["fe"]
    BY <1>1, <1>2, <1>4, SendStays
<1>5. CASE todo'["fe"] # todo["fe"]
  <2> PICK s : s = todo["fe"]
    OBVIOUS
  <2>1. s \in Seq(Notes) /\ s # <<>> /\ todo'["fe"] = Tail(s)
    BY <1>1, <1>3, <1>5, Constants DEF Base, Types, ThreadType
  <2>2. \A i \in DOMAIN Tail(s) : i + 1 \in DOMAIN s /\ Tail(s)[i] = s[i + 1]
    BY <2>1
  <2>3. cmd.type = "SEND" => \A i \in DOMAIN s : Newest(s[i])
    BY DEF SendInv
  <2>4. ASSUME cmd.type = "SEND", NEW i \in DOMAIN todo'["fe"] PROVE Newest(todo["fe"][i])'
    <3>1. Newest(s[i + 1]) /\ todo'["fe"][i] = s[i + 1]
      BY <2>1, <2>2, <2>3, <2>4
    <3> QED BY <1>1, <3>1 DEF Newest
  <2> QED BY <1>1, <2>4 DEF SendInv
<1> QED BY <1>4, <1>5

\* receive_message: every follower of the author is among the receivers.
LEMMA SendBegins ==
    ASSUME Base, SendInv, ReceiveMessage
    PROVE  SendInv'
<1>1. /\ cmd.author \in User /\ ids' = ids + 1 /\ ids \in Nat /\ UNCHANGED <<followers, cmd>>
    BY DEF ReceiveMessage, Handling, tableVars, Base, TurnInv, Types, ThreadType
<1> PICK to : to = <<cmd.author>> \o followers[cmd.author]
    OBVIOUS
<1>2. /\ to \in Seq(User) /\ DOMAIN to = 1 .. Len(to)
      /\ todo'["fe"] = [i \in DOMAIN to |-> Note("message", to[i])]
      /\ \A u \in User : addressed'[u] = IF Contains(to, u) THEN Append(addressed[u], ids)
                                         ELSE addressed[u]
    BY Receivers
<1>3. ASSUME NEW u \in User
      PROVE  /\ \A i \in DOMAIN addressed'[u] : addressed'[u][i] \in Nat /\ addressed'[u][i] <= ids
             /\ Contains(to, u) => \E j \in DOMAIN addressed'[u] : addressed'[u][j] = ids
  <2> PICK a, b : a = addressed[u] /\ b = addressed'[u]
    OBVIOUS
  <2>1. a \in Seq(Nat) /\ \A i \in DOMAIN a : a[i] < ids
    BY DEF Base, Types, LinkType, SendInv
  <2>2. \A i \in DOMAIN a : a[i] \in Nat /\ a[i] <= ids
    BY <1>1, <2>1
  <2>3. CASE Contains(to, u)
    <3>1. b = Append(a, ids)
      BY <1>2, <2>3
    <3>2. /\ DOMAIN a = 1 .. Len(a) /\ DOMAIN b = 1 .. Len(a) + 1 /\ Len(a) \in Nat
          /\ b[Len(a) + 1] = ids /\ \A i \in 1 .. Len(a) : b[i] = a[i]
      BY <1>1, <2>1, <3>1
    <3>3. \A i \in DOMAIN b : b[i] \in Nat /\ b[i] <= ids
      BY <1>1, <2>2, <3>2
    <3>4. Len(a) + 1 \in DOMAIN b
      BY <3>2
    <3> QED BY <3>2, <3>3, <3>4
  <2>4. CASE ~Contains(to, u)
    BY <1>2, <2>2, <2>4
  <2> QED BY <2>3, <2>4
<1>4. ASSUME NEW f \in User, Contains(followers[cmd.author], f) PROVE Contains(to, f)
  <2> PICK p : p = followers[cmd.author]
    OBVIOUS
  <2>1. p \in Seq(User)
    BY <1>1 DEF Base, Types, TableType
  <2>2. Len(to) = Len(p) + 1 /\ Len(p) \in Nat /\ \A i \in 1 .. Len(p) : to[i + 1] = p[i]
    BY <1>1, <2>1
  <2>3. PICK i \in 1 .. Len(p) : p[i] = f
    BY <1>4 DEF Contains
  <2>4. i + 1 \in 1 .. Len(to) /\ to[i + 1] = f
    BY <2>2, <2>3
  <2> QED BY <2>4 DEF Contains
<1>5. \A i \in DOMAIN todo'["fe"] : todo'["fe"][i].id = ids /\ todo'["fe"][i].kind = "message"
    BY <1>2 DEF Note
<1>6. \A i \in DOMAIN todo'["fe"] : Newest(todo["fe"][i])'
    BY <1>1, <1>3, <1>4, <1>5 DEF Newest
<1>7. \A u \in User : \A i \in DOMAIN addressed'[u] : addressed'[u][i] < ids'
    BY <1>1, <1>3
<1> QED BY <1>6, <1>7 DEF SendInv

LEMMA SendNext == Base /\ SendInv /\ [Next]_vars => SendInv'
<1> SUFFICES ASSUME Base, SendInv, [Next]_vars PROVE SendInv'
    OBVIOUS
<1>1. ids \in Nat
    BY DEF Base, Types, ThreadType
<1>2. CASE UNCHANGED vars
  <2>1. UNCHANGED <<followers, todo, cmd, ids, addressed>>
    BY <1>2 DEF vars, tableVars
  <2> QED BY <1>1, <2>1, SendStays
<1>3. CASE Next
  <2>1. ASSUME (\E n \in Command : Receive(n)) \/ FrontEndCloses \/ Replay \/ ReadFails \/ Login \/ Logout
        PROVE  SendInv'
    <3>1. UNCHANGED <<followers, todo, ids, addressed>>
      BY <2>1 DEF Receive, FrontEndCloses, Replay, ReadFails, Login, Logout, tableVars
    <3>2. cmd' = cmd \/ pc["fe"] = "idle"
      BY <2>1 DEF Receive, FrontEndCloses, Replay, ReadFails, Login, Logout
    <3>3. pc["fe"] = "idle" => todo["fe"] = <<>>
      BY NothingToSend DEF Sending
    <3> QED BY <1>1, <3>1, <3>2, <3>3, SendStays
  <2>2. ASSUME FePasses, ~ReceiveMessage PROVE SendInv'
    <3>1. ids' \in Nat /\ ids' >= ids /\ addressed' = addressed
      BY <1>1, <2>2 DEF FePasses, TakePending, ClearPending, MessageDone, FollowNobody, FollowNew,
         FollowAgain, FollowDone
    <3>2. cmd'.type = "SEND" => MessageDone
      BY <2>2 DEF FePasses, TakePending, ClearPending, FollowNobody, FollowNew, FollowAgain, FollowDone,
         Handling, Sent, Base, TurnInv, Types, ThreadType
    <3>3. MessageDone => todo'["fe"] = <<>>
      BY DEF MessageDone, Sent
    <3> QED BY <3>1, <3>2, <3>3, SendStays
  <2>3. ASSUME NEW t \in Slot, AnswerDone(t) \/ \E r \in ring : Agreed(t, r) PROVE SendInv'
    <3>1. /\ ids' \in Nat /\ ids' >= ids /\ UNCHANGED <<followers, cmd, addressed>>
          /\ todo'["fe"] = todo["fe"]
      BY <1>1, <2>3, Constants DEF AnswerDone, Agreed, tableVars, Base, Types, ThreadType
    <3> QED BY <3>1, SendStays
  <2>4. CASE Passes
    BY <2>2, <2>3, <2>4, SendBegins DEF Passes, FePasses
  <2> QED BY <1>3, <2>1, <2>4, NextIs, SendMessages, SendGoes
<1> QED BY <1>2, <1>3

LEMMA MessageInit == Init => MessageInv
<1> SUFFICES ASSUME Init PROVE MessageInv
    OBVIOUS
<1>1. /\ pc["fe"] = "idle" /\ cmd.type = "none" /\ \A t \in Thread : todo[t] = <<>>
      /\ \A u \in User : pushed[u] = <<>> /\ pending[u] = <<>> /\ addressed[u] = <<>>
    BY Constants DEF Init, NoCommand
<1>2. Messages(<<>>) = {}
    BY DEF Messages
<1>3. ASSUME NEW u \in User
      PROVE  Got(u) = {} /\ Waiting(u) = {} /\ Coming(u) = {} /\ Range(addressed[u]) = {} /\ ~Flushing(u)
    BY <1>1, <1>2, Constants DEF Got, Waiting, Coming, Range, Flushing
<1>4. \A u \in User : QueueInv(u) /\ PlaceInv(u)
    BY <1>1, <1>2, <1>3, Constants DEF QueueInv, PlaceInv, InOrder, OrderTo
<1>5. TurnPlace
    BY <1>1, <1>2, Constants DEF TurnPlace
<1> QED BY <1>4, <1>5, MessageParts

\* Of the front end's connection: once it is not up, it stays so.
LEMMA LinkGoes == Next /\ feLink' = "up" => feLink = "up"
    BY DEF Next, FeThread, Handle, AnswerThread, SendMessage, LockReceiver, WriteFE, Keep, Receive,
       FrontEndCloses, Replay, ReadFails, Login, Logout, TakePending, ClearPending, ReceiveMessage,
       MessageDone, FollowNobody, FollowNew, FollowAgain, FollowDone, AnswerDone, Agreed, GoesOn, feVars

LEMMA MessageNext ==
    Base /\ SendInv /\ (feLink = "up" => MessageInv) /\ [Next]_vars => (feLink' = "up" => MessageInv')
<1> SUFFICES ASSUME Base, SendInv, feLink = "up" => MessageInv, [Next]_vars, feLink' = "up"
             PROVE  MessageInv'
    OBVIOUS
<1>1. CASE UNCHANGED vars
  <2>1. UNCHANGED <<known, sessions, followers, pending, pc, todo, cmd, ids, again, feLink, pushed,
                    feSessions, addressed>>
    BY <1>1 DEF vars, tableVars, lockVars, feVars, envVars
  <2>2. MessageInv /\ addressed \in [User -> Seq(Nat)] /\ ids \in Nat
    BY <2>1 DEF Base, Types, LinkType, ThreadType
  <2>3. ASSUME NEW u \in User PROVE QueueInv(u)' /\ PlaceInv(u)'
    <3>1. QueueInv(u) /\ PlaceInv(u)
      BY <2>2, MessageParts
    <3>2. Flushing(u)' = Flushing(u)
      BY <2>1 DEF Flushing, Sending
    <3>3. Got(u)' = Got(u) /\ Waiting(u)' = Waiting(u) /\ Coming(u)' = Coming(u)
      BY <2>1, <3>2, QueueSets
    <3>4. QueueInv(u)'
      BY <2>1, <2>2, <3>1, <3>3, DoubledStays, QueueKept DEF QueueInv
    <3> QED BY <2>1, <3>1, <3>2, <3>3, <3>4 DEF PlaceInv
  <2>4. TurnPlace'
    BY <2>1, <2>2, MessageParts DEF TurnPlace, Receiver
  <2> QED BY <2>3, <2>4, MessageParts
<1>2. CASE Next
  <2>1. feLink = "up" /\ MessageInv
    BY <1>2, LinkGoes
  <2>2. CASE \E n \in Command : Receive(n)
    BY <2>1, <2>2, ReceiveMessages
  <2>3. CASE FrontEndCloses \/ Replay \/ ReadFails
    BY <2>1, <2>3 DEF FrontEndCloses, Replay, ReadFails
  <2>4. CASE Login \/ Logout
    BY <2>1, <2>4, CountMessages
  <2>5. CASE Passes
    <3>1. CASE MessageDone \/ FollowNobody \/ FollowNew \/ FollowAgain \/ FollowDone
      BY <2>1, <3>1, InfoMessages
    <3> QED BY <2>1, <2>5, <3>1, TakeMessages, ClearMessages, NewMessages, SlotMessages DEF Passes
  <2>6. CASE SendMessage("fe")
    BY <2>1, <2>6, LockMessages, FirstMessage DEF SendMessage
  <2>7. CASE \E t \in Slot : SendMessage(t)
    BY <2>1, <2>7, AnswerMessages
  <2>8. CASE \E r \in ring : GoesOn(r)
    BY <2>1, <2>8, GoesMessages
  <2> QED BY <1>2, <2>2, <2>3, <2>4, <2>5, <2>6, <2>7, <2>8, NextIs DEF Thread
<1> QED BY <1>1, <1>2

-----------------------------------------------------------------------------
(* The theorems.                                                            *)

Safe == Base /\ SendInv /\ (feLink = "up" => MessageInv)

LEMMA Always == Spec => []Safe
<1>1. Init => Safe
    BY BaseInit, SendInit, MessageInit DEF Safe
<1>2. Safe /\ [Next]_vars => Safe'
    BY BaseNext, SendNext, MessageNext DEF Safe
<1> QED BY <1>1, <1>2, PTL DEF Spec

(***************************************************************************)
(* The types are right; in particular no user's sessions_number leaves     *)
(* what the front end allows by more than the notifications that were      *)
(* handled again (login_user, logout_user).                                *)
(***************************************************************************)
THEOREM DeliveryTypes == Spec => []TypeOK
<1>1. Safe => TypeOK
    BY TypeParts DEF Safe, Base
<1> QED BY <1>1, Always, PTL

(***************************************************************************)
(* Nobody follows itself, and nobody follows a user twice whose FOLLOW has *)
(* not been entered again by handle_replication (follow_user looks before  *)
(* it appends; the branch for data 1 does not).                            *)
(***************************************************************************)
THEOREM NobodyFollowsTwice == Spec => []FollowersOnce
<1>1. Safe => FollowersOnce
    BY DEF Safe, Base, FollowInv
<1> QED BY <1>1, Always, PTL

\* s is p, of length k, and then q, of length l.
Joins(s, p, q, k, l) ==
    /\ k \in Nat /\ l \in Nat /\ DOMAIN p = 1 .. k /\ DOMAIN q = 1 .. l /\ DOMAIN s = 1 .. k + l
    /\ \A i \in 1 .. k : s[i] = p[i]
    /\ \A i \in 1 .. l : s[k + i] = q[i]

\* Two lists in order, the second after the first, are in order together.
LEMMA BothInOrder ==
    ASSUME NEW d, NEW k, NEW l, NEW p, NEW q, NEW s, Joins(s, p, q, k, l),
           InOrder(d, p), InOrder(d, q), \A m \in Elems(p) : \A n \in Elems(q) : Before(d, m.id, n.id)
    PROVE  InOrder(d, s) /\ Ids(s) = {m.id : m \in Elems(p) \cup Elems(q)}
<1> USE DEF Joins
<1>1. ASSUME NEW i \in Messages(s)
      PROVE  i \in 1 .. k + l
    BY DEF Messages
<1>2. ASSUME NEW i \in Messages(s)
      PROVE  \/ i <= k /\ i \in Messages(p) /\ s[i] = p[i]
             \/ i > k /\ i - k \in Messages(q) /\ s[i] = q[i - k]
  <2>1. i \in 1 .. k + l /\ s[i].kind = "message"
    BY <1>1 DEF Messages
  <2>2. CASE i <= k
    BY <1>1, <2>1, <2>2 DEF Messages
  <2>3. CASE i > k
    <3>1. i - k \in 1 .. l /\ k + (i - k) = i
      BY <1>1, <2>1, <2>3
    <3> QED BY <1>1, <2>1, <2>3, <3>1 DEF Messages
  <2> QED BY <1>1, <2>1, <2>2, <2>3
<1>3. InOrder(d, s)
  <2> SUFFICES ASSUME NEW i \in Messages(s), NEW j \in Messages(s), i < j PROVE Before(d, s[i].id, s[j].id)
    BY DEF InOrder
  <2>1. i \in Int /\ j \in Int
    BY <1>1 DEF Messages
  <2>2. CASE j <= k
    BY <1>1, <1>2, <2>1, <2>2 DEF InOrder
  <2>3. CASE i <= k /\ j > k
    <3>1. s[i] \in Elems(p) /\ s[j] \in Elems(q)
      BY <1>1, <1>2, <2>1, <2>3 DEF Elems
    <3> QED BY <3>1
  <2>4. CASE i > k
    <3>1. /\ i - k \in Messages(q) /\ j - k \in Messages(q) /\ i - k < j - k
          /\ s[i] = q[i - k] /\ s[j] = q[j - k]
      BY <1>1, <1>2, <2>1, <2>4
    <3> QED BY <3>1 DEF InOrder
  <2> QED BY <1>1, <2>1, <2>2, <2>3, <2>4
<1>4. \A i \in Messages(p) : i \in Messages(s) /\ s[i] = p[i]
    BY <1>1 DEF Messages
<1>5. \A i \in Messages(q) : k + i \in Messages(s) /\ s[k + i] = q[i]
    BY <1>1 DEF Messages
<1>6. Elems(s) = Elems(p) \cup Elems(q)
    BY <1>2, <1>4, <1>5 DEF Elems
<1>7. Ids(s) = {m.id : m \in Elems(s)}
    BY DEF Ids, Elems
<1> QED BY <1>3, <1>6, <1>7

LEMMA Joined ==
    \A d, p, q :
        p \in Seq(Notes) /\ q \in Seq(Notes) /\
        InOrder(d, p) /\ InOrder(d, q) /\ (\A m \in Elems(p) : \A n \in Elems(q) : Before(d, m.id, n.id)) =>
            InOrder(d, p \o q) /\ Ids(p \o q) = {m.id : m \in Elems(p) \cup Elems(q)}
<1> SUFFICES ASSUME NEW d, NEW p \in Seq(Notes), NEW q \in Seq(Notes), NEW s, s = p \o q,
                    InOrder(d, p), InOrder(d, q),
                    \A m \in Elems(p) : \A n \in Elems(q) : Before(d, m.id, n.id)
             PROVE  InOrder(d, s) /\ Ids(s) = {m.id : m \in Elems(p) \cup Elems(q)}
    OBVIOUS
<1>1. Joins(s, p, q, Len(p), Len(q))
    BY DEF Joins
<1> QED BY <1>1, BothInOrder

(***************************************************************************)
(* As long as the front end is connected, and between two notifications,   *)
(* every message is with the front end or in the pending list, in the      *)
(* order of the identifiers, and once for every receiver whose FOLLOWs     *)
(* were entered once (receive_message, send_message and                    *)
(* handle_pending_notifications), for any number of users and of threads   *)
(* that answer.                                                            *)
(***************************************************************************)
THEOREM OnceAndInOrder == Spec => []MessagesOnceInOrder
<1>1. Safe => MessagesOnceInOrder
  <2> SUFFICES ASSUME Safe, Resting, NEW u \in User,
                      NEW got, got = pushed[u] \o pending[u]
               PROVE  InOrder(Doubled(u), got) /\ Ids(got) = Range(addressed[u])
    BY DEF MessagesOnceInOrder
  <2>1. pc["fe"] = "idle" /\ Base /\ QueueInv(u)
    BY MessageParts DEF Resting, Safe
  <2>2. ~Flushing(u) /\ Coming(u) = {}
    BY <2>1, NothingToSend DEF Sending
  <2>3. Got(u) = Elems(pushed[u]) /\ Waiting(u) = Elems(pending[u])
    BY <2>2, QueueSets
  <2>4. pushed[u] \in Seq(Notes) /\ pending[u] \in Seq(Notes)
    BY <2>1 DEF Base, Types, TableType, LinkType
  <2>5. \A m \in Elems(pushed[u]) : \A n \in Elems(pending[u]) : Before(Doubled(u), m.id, n.id)
    BY <2>1, <2>3 DEF QueueInv
  <2>6. {m.id : m \in Elems(pushed[u]) \cup Elems(pending[u])} = Range(addressed[u])
    BY <2>1, <2>2, <2>3 DEF QueueInv
  <2>7. InOrder(Doubled(u), pushed[u]) /\ InOrder(Doubled(u), pending[u])
    BY <2>1 DEF QueueInv
  <2>8. InOrder(Doubled(u), got) /\ Ids(got) = {m.id : m \in Elems(pushed[u]) \cup Elems(pending[u])}
    BY <2>4, <2>5, <2>7, Joined
  <2> QED BY <2>6, <2>8
<1> QED BY <1>1, Always, PTL

=============================================================================
