-------------------------- MODULE ReplicationProofs --------------------------
(***************************************************************************)
(* What TLAPS proves of Replication, for any number of servers, users,     *)
(* threads and notifications.                                              *)
(***************************************************************************)
EXTENDS Replication, FiniteSetTheorems, SequenceTheorems, TLAPS

-----------------------------------------------------------------------------
(***************************************************************************)
(* Why: the inductive invariants.  First, what is sent: whole              *)
(* notifications, over connections to servers that run.                    *)
(***************************************************************************)
Whole(n) == /\ n.command \in Command /\ n.author \in User
            /\ n.command = "FOLLOW" => n.target \in User

SoundInv ==
    /\ \A m \in net : Whole(m.note)
    /\ \A s \in Server, t \in Thread :
          LET w == th[s][t] IN
          /\ s \notin up => w = Idle
          /\ w.note = Blank \/ Whole(w.note)
          /\ w.pc \in {"advance", "write", "count"} => Whole(w.note)
          /\ w.pc \in {"idle", "walk"} => w.note = Blank
          /\ w.pc = "count" => w.note.command # "FOLLOW"
          /\ w.conn \in Server => w.pc = "write" /\ w.conn \in up \ {s}

(***************************************************************************)
(* Then, where a notification that goes around has been.  Hops counts from *)
(* the primary; a scan passes no server that was there all along, and at   *)
(* whatever server a FOLLOW arrives, those before it have the follower.    *)
(***************************************************************************)
Hops(s)  == IF s <= Primary THEN Primary - s ELSE Primary - s + N
Place(c) == IF c = Primary THEN N ELSE Hops(c)

Stayed == up \ joined

Replicated(n, hops) ==
    \A r \in Stayed : Hops(r) < hops => Contains(followers[r][n.target], n.author)

GoesAround(n) == n.command = "FOLLOW" /\ n.data # 2

ScanInv ==
    \A s \in Server :
        /\ \A t, j \in Scanning(s) : t = j
        /\ \A t \in Thread : th[s][t].pc = "advance" =>
              \A r \in Stayed : Hops(r) > Hops(s) => Hops(r) > Hops(nextIndex[s])
        /\ \A t \in Thread : th[s][t].conn \in Server => nextIndex[s] = th[s][t].conn

RoundInv ==
    /\ \A m \in net : GoesAround(m.note) => Replicated(m.note, Place(m.to))
    /\ \A s \in Server, t \in Thread :
          LET w == th[s][t] IN
          GoesAround(w.note) =>
              /\ w.pc = "advance" => Replicated(w.note, Hops(s) + 1)
              /\ w.conn \in Server => Replicated(w.note, Place(w.conn))
    /\ \A n \in answered : n.command = "FOLLOW" /\ Whole(n) /\ Replicated(n, N)

(***************************************************************************)
(* And, until a server ends: only what arrives at the primary is on its    *)
(* last hop, so that a FOLLOW is on its way until it is answered.          *)
(***************************************************************************)
LastHop ==
    /\ \A m \in net : IF m.to = Primary THEN m.note.data = 0 ELSE m.note.data # 0
    /\ \A s \in Server, t \in Thread :
          LET w == th[s][t] IN
          /\ w.pc \in {"advance", "write", "count"} => w.note.data # 0
          /\ w.note.data = 2 /\ w.pc \in {"advance", "write"} => s = Primary
          /\ w.conn # Gone

OnItsWay(author, target) ==
    LET carries(n) == GoesAround(n) /\ n.author = author /\ n.target = target
    IN  \/ \E m \in net : carries(m.note)
        \/ \E s \in up, t \in Thread : carries(th[s][t].note)

AnswerInv ==
    LastHop /\ \A u, v \in User : Contains(followers[Primary][v], u) =>
                  OnItsWay(u, v) \/ \E n \in answered : n.author = u /\ n.target = v

(***************************************************************************)
(* Last, until a server comes or goes: a LOGIN is before whatever the      *)
(* front end could ask for after it, at every server it has still to       *)
(* reach.                                                                  *)
(***************************************************************************)
\* A LOGIN of the user older than id is on its way to s.
Coming(s, user, id) ==
    LET older(n) == n.command = "LOGIN" /\ n.author = user /\ n.id < id
    IN  \/ \E m \in net : older(m.note) /\ Place(m.to) <= Hops(s)
        \/ \E r \in up, t \in Thread :
              LET w == th[r][t] IN
              /\ older(w.note) /\ Hops(r) < Hops(s)
              /\ w.conn \in Server => Place(w.conn) <= Hops(s)

KnowsOrLearns(user, id) == \A s \in up : user \in known[s] \/ Coming(s, user, id)

TargetInv ==
    /\ \A s \in Server : th[s]["join"] = Idle /\ \A t \in Thread : th[s][t].note.data # 2
    /\ \A m \in net : m.note.data # 2
    /\ \A user \in known[Primary] : KnowsOrLearns(user, events + 1)
    /\ \A m \in net : Is(m, "FOLLOW") => KnowsOrLearns(m.note.target, m.note.id)
    /\ \A s \in Server, t \in Thread :
          LET n == th[s][t].note IN n.command = "FOLLOW" => KnowsOrLearns(n.target, n.id)

-----------------------------------------------------------------------------
(* The threads.                                                             *)

LEMMA Constants ==
    /\ Primary \in Server /\ Primary \in FirstUp /\ FirstUp \subseteq Server
    /\ Self \notin Server /\ Gone \notin Server /\ Self # Gone
    /\ N \in Nat /\ 0 .. Gone = Server \cup {Self, Gone}
    /\ "fe" \in Thread /\ "join" \in Thread /\ "fe" # "join" /\ Pool \subseteq Thread
    /\ "fe" \notin Pool /\ "join" \notin Pool
    /\ Users \in Nat /\ MaxEvents \in Nat /\ MaxKills \in Nat /\ MaxJoins \in Nat
    /\ MaxSessions \in Nat
    BY ReplicationAssumption DEF Server, Self, Gone, Thread

LEMMA IdleState ==
    /\ Blank \in Notes /\ Blank.command = "none" /\ Blank.data = 0 /\ Blank.id = 0
    /\ Idle \in State /\ Idle.pc = "idle" /\ Idle.note = Blank /\ Idle.conn = Self
<1>1. Blank \in Notes /\ Blank.command = "none" /\ Blank.data = 0 /\ Blank.id = 0
    BY Constants DEF Blank, Notification, Notes, Nobody
<1> QED BY <1>1, Constants DEF Idle, State

\* A thread that has just begun to send.
Begun(n) == [Idle EXCEPT !.pc = "advance", !.note = n]

LEMMA BegunState ==
    ASSUME NEW n \in Notes
    PROVE  /\ Begun(n) \in State /\ Begun(n).pc = "advance" /\ Begun(n).note = n
           /\ Begun(n).conn = Self
    BY IdleState DEF Begun, Idle, State

\* Nobody but thread t of s moves, and that to w.
ThreadIs(s, t, w) ==
    /\ th' \in [Server -> [Thread -> State]]
    /\ th'[s][t] = w
    /\ \A r \in Server, j \in Thread : r # s \/ j # t => th'[r][j] = th[r][j]

LEMMA SetMoves ==
    ASSUME TypeOK, NEW s \in Server, NEW t \in Thread, NEW w \in State, Set(s, t, w)
    PROVE  ThreadIs(s, t, w)
<1>1. th \in [Server -> [Thread -> State]]
    BY DEF TypeOK
<1> QED BY <1>1 DEF Set, ThreadIs

\* What it does that send_replication begins.
Begins(s, t, n) ==
    /\ ThreadIs(s, t, Begun(n))
    /\ nextIndex' \in [Server -> Server] /\ nextIndex'[s] = s
    /\ \A r \in Server : r # s => nextIndex'[r] = nextIndex[r]

LEMMA BeginMoves ==
    ASSUME TypeOK, NEW s \in Server, NEW t \in Thread, NEW n \in Notes, Begin(s, t, n)
    PROVE  Begins(s, t, n)
<1>1. ThreadIs(s, t, Begun(n))
  <2>1. Begun(n) \in State /\ Set(s, t, Begun(n))
    BY BegunState DEF Begin, Begun
  <2> QED BY <2>1, SetMoves
<1> QED BY <1>1 DEF Begin, Begins, TypeOK

\* What it does to forward a notification, or to be done with it.
Forwards(s, t, n) ==
    \/ n.data = 1 /\ Begins(s, t, n)
    \/ n.data # 1 /\ ThreadIs(s, t, Idle) /\ UNCHANGED nextIndex

LEMMA ForwardMoves ==
    ASSUME TypeOK, NEW s \in Server, NEW t \in Thread, NEW n \in Notes, Forward(s, t, n)
    PROVE  Forwards(s, t, n)
    BY BeginMoves, SetMoves, IdleState DEF Forward, Forwards

\* What the end of a process does.
Ends(s) ==
    /\ up' = up \ {s} /\ UNCHANGED joined
    /\ th' \in [Server -> [Thread -> State]]
    /\ \A t \in Thread : th'[s][t] = Idle
    /\ \A r \in Server \ {s}, t \in Thread :
          /\ th'[r][t].pc = th[r][t].pc /\ th'[r][t].note = th[r][t].note
          /\ th[r][t] = Idle => th'[r][t] = Idle
          /\ th'[r][t].conn \in {th[r][t].conn, Gone}
          /\ th'[r][t].conn # s \/ th[r][t].pc # "write"
          /\ th'[r][t].conn = th[r][t].conn \/ th[r][t].conn = s
    /\ \A r \in Server \ {s} : /\ nextIndex'[r] = nextIndex[r]
                               /\ known'[r] = known[r] /\ followers'[r] = followers[r]
    /\ known'[s] = {} /\ followers'[s] = EmptyFollowers
    /\ net' = net \ Unread(s)
    /\ spoiled \subseteq spoiled' /\ spoiled' \cap {"died", "killed"} # {}
    /\ s = Primary => "died" \in spoiled'
    /\ UNCHANGED <<answered, walk, joins, events>>

LEMMA EndMoves ==
    ASSUME TypeOK, NEW s \in Server, NEW how \in {"died", "killed"}, EndOf(s, how),
           net' = net \ Unread(s), UNCHANGED <<answered, joined, walk, joins, events>>,
           how = "died" \/ s # Primary
    PROVE  Ends(s)
<1>1. th \in [Server -> [Thread -> State]]
    BY DEF TypeOK
<1> DEFINE after(r, t) == IF r = s THEN Idle
                          ELSE IF th[r][t].pc = "write" /\ th[r][t].conn = s
                          THEN [th[r][t] EXCEPT !.conn = Gone] ELSE th[r][t]
<1>2. th' = [r \in Server |-> [t \in Thread |-> after(r, t)]]
    BY DEF EndOf
<1>3. \A r \in Server, t \in Thread : after(r, t) \in State
  <2> TAKE r \in Server, t \in Thread
  <2>1. th[r][t] \in State /\ Gone \in 0 .. Gone
    BY <1>1, Constants
  <2>2. [th[r][t] EXCEPT !.conn = Gone] \in State
    BY <2>1 DEF State
  <2> QED BY <2>1, <2>2, IdleState
<1>4. \A r \in Server \ {s}, t \in Thread :
          /\ after(r, t).pc = th[r][t].pc /\ after(r, t).note = th[r][t].note
          /\ th[r][t] = Idle => after(r, t) = Idle
          /\ after(r, t).conn \in {th[r][t].conn, Gone}
          /\ after(r, t).conn # s \/ th[r][t].pc # "write"
          /\ after(r, t).conn = th[r][t].conn \/ th[r][t].conn = s
    BY <1>1, IdleState, Constants DEF State
<1>5. \A t \in Thread : after(s, t) = Idle
    OBVIOUS
<1>6. /\ \A r \in Server \ {s} : /\ nextIndex'[r] = nextIndex[r]
                                 /\ known'[r] = known[r] /\ followers'[r] = followers[r]
      /\ known'[s] = {} /\ followers'[s] = EmptyFollowers
    BY DEF EndOf, TypeOK
<1> HIDE DEF after
<1>7. th' \in [Server -> [Thread -> State]]
    BY <1>2, <1>3
<1>8. \A r \in Server, t \in Thread : th'[r][t] = after(r, t)
    BY <1>2
<1>9. /\ up' = up \ {s} /\ UNCHANGED <<joined, answered, walk, joins, events>>
      /\ spoiled \subseteq spoiled' /\ spoiled' \cap {"died", "killed"} # {}
      /\ s = Primary => "died" \in spoiled'
    BY DEF EndOf
<1>10. \A t \in Thread : th'[s][t] = Idle
    BY <1>5, <1>8
<1>11. \A r \in Server \ {s}, t \in Thread :
          /\ th'[r][t].pc = th[r][t].pc /\ th'[r][t].note = th[r][t].note
          /\ th[r][t] = Idle => th'[r][t] = Idle
          /\ th'[r][t].conn \in {th[r][t].conn, Gone}
          /\ th'[r][t].conn # s \/ th[r][t].pc # "write"
          /\ th'[r][t].conn = th[r][t].conn \/ th[r][t].conn = s
    BY <1>4, <1>8
<1> QED BY <1>6, <1>7, <1>9, <1>10, <1>11 DEF Ends

-----------------------------------------------------------------------------
(* The types.                                                               *)

TableType ==
    /\ known \in [Server -> SUBSET User]
    /\ sessions \in [Server -> [User -> Int]]
    /\ followers \in [Server -> [User -> Seq(User)]]

ThreadType == nextIndex \in [Server -> Server] /\ th \in [Server -> [Thread -> State]]

NetType == up \subseteq Server /\ net \subseteq [to : up, note : Notes]

CountType ==
    /\ walk \in (0 .. Users + 1) \X Nat
    /\ feSessions \in [User -> 0 .. MaxSessions]
    /\ events \in 0 .. MaxEvents /\ joins \in 0 .. MaxJoins /\ kills \in 0 .. MaxKills
    /\ answered \subseteq Notes /\ joined \subseteq Server
    /\ newest \in [Server -> 0 .. MaxEvents]
    /\ spoiled \subseteq {"raced", "overtaken", "missed", "died", "killed"}

LEMMA TypeParts ==
    /\ TypeOK <=> TableType /\ ThreadType /\ NetType /\ CountType
    /\ TypeOK' <=> TableType' /\ ThreadType' /\ NetType' /\ CountType'
    BY DEF TypeOK, TableType, ThreadType, NetType, CountType

LEMMA LoginTypes ==
    ASSUME TableType, NEW s \in Server, NEW u \in User, LoginAt(s, u)
    PROVE  TableType'
    BY DEF TableType, LoginAt

LEMMA LogoutTypes ==
    ASSUME TableType, NEW s \in Server, NEW u \in User, LogoutAt(s, u)
    PROVE  TableType'
    BY DEF TableType, LogoutAt

LEMMA FollowTypes ==
    ASSUME TableType, NEW s \in Server, NEW u \in User, NEW v \in User, FollowAt(s, u, v)
    PROVE  TableType'
<1>1. Append(followers[s][v], u) \in Seq(User)
    BY AppendProperties DEF TableType
<1> QED BY <1>1 DEF TableType, FollowAt

LEMMA EndTypes ==
    ASSUME TypeOK, NEW s \in Server, NEW how \in {"died", "killed"}, EndOf(s, how),
           net' = net \ Unread(s), UNCHANGED <<answered, joined, walk, joins, events>>,
           how = "died" \/ s # Primary
    PROVE  /\ TableType' /\ ThreadType' /\ NetType'
           /\ newest' \in [Server -> 0 .. MaxEvents]
           /\ spoiled' \subseteq {"raced", "overtaken", "missed", "died", "killed"}
<1>1. TableType'
  <2>1. EmptySessions \in [User -> Int] /\ EmptyFollowers \in [User -> Seq(User)]
    BY DEF EmptySessions, EmptyFollowers
  <2> QED BY <2>1 DEF EndOf, TypeOK, TableType
<1>2. ThreadType'
    BY EndMoves DEF EndOf, Ends, TypeOK, ThreadType
<1>3. NetType'
    BY DEF EndOf, TypeOK, NetType, Unread
<1>4. newest' \in [Server -> 0 .. MaxEvents]
    BY Constants DEF EndOf, TypeOK
<1>5. spoiled' \subseteq {"raced", "overtaken", "missed", "died", "killed"}
    BY DEF EndOf, TypeOK
<1> QED BY <1>1, <1>2, <1>3, <1>4, <1>5

LEMMA MetTypes ==
    /\ \A s : Met(s) \subseteq {"raced"}
    /\ \A s, n : MetBy(s, n) \subseteq {"raced"} /\ Late(s, n) \subseteq {"overtaken"}
    BY DEF Met, MetBy, Late

\* What is sent on, or done with.
LEMMA ForwardTypes ==
    ASSUME TypeOK, NEW s \in Server, NEW t \in Thread, NEW n \in Notes, Forward(s, t, n)
    PROVE  ThreadType'
    BY ForwardMoves DEF Forwards, Begins, ThreadIs, TypeOK, ThreadType

\* What is read has been sent to a server that runs.
LEMMA ReadMessage ==
    ASSUME TypeOK, SoundInv, NEW s \in Server, NEW t \in Pool, NEW m \in net, Reads(s, t, m)
    PROVE  /\ m.note \in Notes /\ Whole(m.note) /\ m.to = s /\ s \in up /\ th[s][t] = Idle
           /\ t \in Thread
           /\ m.note.id \in 0 .. MaxEvents
    BY Constants DEF TypeOK, SoundInv, Reads, Notes

LEMMA AppliedTypes ==
    ASSUME TypeOK, NEW s \in Server, NEW n \in Notes, Applied(s, n)
    PROVE  UNCHANGED <<up, walk, envVars, joined>> /\ (answered' = answered => CountType')
<1>1. n.id \in 0 .. MaxEvents
    BY DEF Notes
<1>2. newest' \in [Server -> 0 .. MaxEvents]
    BY <1>1 DEF Applied, Noted, TypeOK
<1>3. spoiled' \subseteq {"raced", "overtaken", "missed", "died", "killed"}
    BY MetTypes DEF Applied, TypeOK
<1> QED BY <1>2, <1>3 DEF Applied, TypeOK, CountType, envVars

LEMMA ReadTypes ==
    ASSUME TypeOK, SoundInv, NEW s \in Server, NEW t \in Pool, NEW m \in net,
           HandleReplication(s, t, m)
    PROVE  TypeOK'
<1> USE DEF Is
<1> DEFINE n == m.note
<1>0. /\ n \in Notes /\ n \in Notes /\ Whole(n) /\ t \in Thread /\ n.id \in 0 .. MaxEvents
      /\ n.author \in User /\ (n.command = "FOLLOW" => n.target \in User)
  <2>1. Reads(s, t, m)
    BY DEF HandleReplication, IgnoreOwn, HandleNewUser, ReadCount, LogoutUnknown, HandleAgreed,
           HandleFollow, FollowUnknown
  <2> QED BY <2>1, ReadMessage DEF Whole
<1>1. TableType /\ ThreadType /\ NetType /\ CountType
    BY TypeParts
<1>2. UNCHANGED up /\ Read(m) => NetType'
    BY <1>1 DEF NetType, Read
<1>3. CASE IgnoreOwn(s, t, m)
    BY <1>1, <1>2, <1>3, TypeParts DEF IgnoreOwn, TableType, ThreadType, CountType, tableVars,
       envVars, histVars
<1>4. CASE HandleNewUser(s, t, m)
    BY <1>0, <1>1, <1>2, <1>4, TypeParts, LoginTypes, ForwardTypes, AppliedTypes DEF HandleNewUser
<1>5. CASE ReadCount(s, t, m)
  <2> DEFINE w == [Idle EXCEPT !.pc = "count", !.note = n, !.count = sessions[s][n.author]]
  <2>1. w \in State
    BY <1>0, <1>1, IdleState DEF State, TableType
  <2>2. ThreadType'
    BY <1>0, <1>1, <1>5, <2>1, SetMoves DEF ReadCount, ThreadIs, ThreadType
  <2>3. CountType'
    <3>1. newest' \in [Server -> 0 .. MaxEvents]
      BY <1>0, <1>1, <1>5 DEF ReadCount, Noted, CountType
    <3>2. spoiled' \subseteq {"raced", "overtaken", "missed", "died", "killed"}
      BY <1>1, <1>5, MetTypes DEF ReadCount, CountType
    <3> QED BY <1>1, <1>5, <3>1, <3>2 DEF ReadCount, CountType, envVars
  <2>4. TableType' /\ UNCHANGED up
    BY <1>1, <1>5 DEF ReadCount, TableType, tableVars
  <2> QED BY <1>2, <1>5, <2>2, <2>3, <2>4, TypeParts DEF ReadCount
<1>6. CASE LogoutUnknown(s, t, m)
  <2>1. TableType'
    BY <1>1, <1>6 DEF LogoutUnknown, TableType, tableVars
  <2> QED BY <1>0, <1>2, <1>6, <2>1, TypeParts, ForwardTypes, AppliedTypes DEF LogoutUnknown
<1>7. CASE HandleAgreed(s, t, m)
  <2>1. CountType'
    BY <1>0, <1>1, <1>7 DEF HandleAgreed, CountType, envVars
  <2> QED BY <1>1, <1>2, <1>7, <2>1, TypeParts DEF HandleAgreed, TableType, ThreadType, tableVars
<1>8. CASE HandleFollow(s, t, m)
    BY <1>0, <1>1, <1>2, <1>8, TypeParts, FollowTypes, ForwardTypes, AppliedTypes
       DEF HandleFollow
<1>9. CASE FollowUnknown(s, t, m)
  <2>1. /\ TableType' /\ ThreadType' /\ NetType'
        /\ newest' \in [Server -> 0 .. MaxEvents]
        /\ spoiled' \subseteq {"raced", "overtaken", "missed", "died", "killed"}
    BY <1>9, EndTypes DEF FollowUnknown, envVars
  <2> QED BY <1>1, <1>9, <2>1, TypeParts DEF FollowUnknown, CountType, envVars
<1> QED BY <1>3, <1>4, <1>5, <1>6, <1>7, <1>8, <1>9 DEF HandleReplication

\* One round of a scan.
ScanOf(s, t) ==
    LET n == NextIdx(nextIndex[s]) IN
    /\ nextIndex' \in [Server -> Server] /\ nextIndex'[s] = n /\ n \in Server
    /\ \A r \in Server : r # s => nextIndex'[r] = nextIndex[r]
    /\ \/ /\ n = s \/ n \in up
          /\ \E w \in State :
                /\ w.pc = "write" /\ w.note = th[s][t].note
                /\ w.conn = IF n = s THEN Self ELSE n
                /\ ThreadIs(s, t, w)
       \/ n # s /\ n \notin up /\ UNCHANGED th

LEMMA NextServer ==
    ASSUME NEW i \in Server
    PROVE  NextIdx(i) \in Server
    BY Constants DEF NextIdx, Server

LEMMA ScanMoves ==
    ASSUME TypeOK, NEW s \in Server, NEW t \in Thread, ScanAdvance(s, t)
    PROVE  th[s][t].pc = "advance" /\ ScanOf(s, t)
<1> DEFINE n == NextIdx(nextIndex[s])
           w == [th[s][t] EXCEPT !.pc = "write", !.conn = IF n = s THEN Self ELSE n]
<1>1. n \in Server /\ th[s][t] \in State
    BY NextServer DEF TypeOK
<1>2. (IF n = s THEN Self ELSE n) \in 0 .. Gone
    BY <1>1, Constants
<1>3. /\ w \in State /\ w.pc = "write" /\ w.note = th[s][t].note
      /\ w.conn = IF n = s THEN Self ELSE n
    BY <1>1, <1>2 DEF State
<1>4. n = s \/ n \in up => ThreadIs(s, t, w)
    BY <1>3, SetMoves DEF ScanAdvance
<1>5. /\ nextIndex' \in [Server -> Server] /\ nextIndex'[s] = n
      /\ \A r \in Server : r # s => nextIndex'[r] = nextIndex[r]
    BY <1>1 DEF ScanAdvance, TypeOK
<1>6. th[s][t].pc = "advance" /\ (n # s /\ n \notin up => UNCHANGED th)
    BY DEF ScanAdvance
<1> HIDE DEF w
<1> QED BY <1>1, <1>3, <1>4, <1>5, <1>6 DEF ScanOf

LEMMA SentState == \A t \in Thread :
    /\ Sent(t) \in State /\ Sent(t).note = Blank /\ Sent(t).conn = Self
    /\ Sent(t).pc \in {"idle", "walk"}
    /\ t # "join" => Sent(t) = Idle
    BY IdleState DEF Sent, Idle, State

LEMMA SendTypes ==
    ASSUME TypeOK, SoundInv, NEW s \in Server, NEW t \in Thread, SendReplication(s, t)
    PROVE  TypeOK'
<1>1. TableType /\ ThreadType /\ NetType /\ CountType
    BY TypeParts
<1>2. CASE ScanAdvance(s, t)
  <2>1. ThreadType'
    BY <1>1, <1>2, ScanMoves DEF ScanOf, ThreadIs, ThreadType
  <2> QED BY <1>1, <1>2, <2>1, TypeParts DEF ScanAdvance, TableType, NetType, CountType,
             tableVars, envVars, histVars
<1>3. CASE Write(s, t)
  <2> DEFINE c == th[s][t].conn
             n == [th[s][t].note EXCEPT !.data = KeepReplicating(s, th[s][t].note)]
  <2>1. ThreadType'
    BY <1>1, <1>3, SetMoves, SentState DEF Write, ThreadIs, ThreadType
  <2>2. th[s][t] \in State /\ th[s][t].note \in Notes /\ c \in 0 .. Gone
    BY <1>1 DEF ThreadType, State
  <2>3. n \in Notes
    BY <2>2 DEF KeepReplicating, Notes
  <2>4. c # Gone => c \in up
    BY <1>3, <2>2, Constants DEF Write, SoundInv
  <2>5. NetType'
    BY <1>1, <1>3, <2>3, <2>4 DEF Write, NetType
  <2> QED BY <1>1, <1>3, <2>1, <2>5, TypeParts DEF Write, TableType, CountType,
             tableVars, envVars, histVars
<1>4. CASE WriteFails(s, t)
  <2>1. /\ TableType' /\ ThreadType' /\ NetType'
        /\ newest' \in [Server -> 0 .. MaxEvents]
        /\ spoiled' \subseteq {"raced", "overtaken", "missed", "died", "killed"}
    BY <1>4, EndTypes DEF WriteFails, envVars
  <2> QED BY <1>1, <1>4, <2>1, TypeParts DEF WriteFails, CountType, envVars
<1> QED BY <1>2, <1>3, <1>4 DEF SendReplication

LEMMA CountTypes ==
    ASSUME TypeOK, SoundInv, NEW s \in Server, NEW t \in Thread, WriteCount(s, t)
    PROVE  TypeOK'
<1>1. TableType /\ ThreadType /\ NetType /\ CountType
    BY TypeParts
<1>2. th[s][t] \in State /\ th[s][t].note \in Notes /\ th[s][t].note.author \in User
    BY <1>1 DEF ThreadType, State, SoundInv, Whole, WriteCount
<1>3. TableType'
    BY <1>1, <1>2 DEF WriteCount, Counted, TableType, State
<1>4. ThreadType'
    BY <1>2, ForwardTypes DEF WriteCount
<1>5. spoiled' \subseteq {"raced", "overtaken", "missed", "died", "killed"}
    BY <1>1, MetTypes DEF WriteCount, CountType
<1> QED BY <1>1, <1>3, <1>4, <1>5, TypeParts DEF WriteCount, NetType, CountType, envVars

LEMMA FromFETypes ==
    ASSUME TypeOK, NEW c \in Command, NEW u \in User, NEW v \in User \cup {Nobody},
           FromFE(c, u, v)
    PROVE  LET n == Notification(c, u, v, 1, events + 1)
           IN  /\ n \in Notes /\ n.command = c /\ n.author = u /\ n.target = v
               /\ n.data = 1 /\ n.id = events + 1
               /\ Begins(Primary, "fe", n) /\ ThreadType' /\ NetType'
               /\ events' \in 0 .. MaxEvents /\ events' = events + 1
               /\ spoiled' \subseteq {"raced", "overtaken", "missed", "died", "killed"}
<1> DEFINE n == Notification(c, u, v, 1, events + 1)
<1>1. events + 1 \in 0 .. MaxEvents
    BY Constants DEF FromFE, TypeOK
<1>2. /\ n \in Notes /\ n.command = c /\ n.author = u /\ n.target = v
      /\ n.data = 1 /\ n.id = events + 1
  <2>1. u \in 0 .. Users /\ v \in 0 .. Users
    BY Constants DEF User, Nobody
  <2> QED BY <1>1, <2>1 DEF Notification, Notes
<1>3. Begins(Primary, "fe", n)
  <2>1. Begin(Primary, "fe", n)
    BY DEF FromFE
  <2> HIDE DEF n
  <2> QED BY <1>2, <2>1, BeginMoves, Constants
<1>4. ThreadType' /\ NetType'
    BY <1>3 DEF Begins, ThreadIs, ThreadType, NetType, FromFE, TypeOK
<1>5. spoiled' \subseteq {"raced", "overtaken", "missed", "died", "killed"}
    BY MetTypes DEF FromFE, TypeOK
<1> QED BY <1>1, <1>2, <1>3, <1>4, <1>5 DEF FromFE

LEMMA FrontEndTypes ==
    ASSUME TypeOK, FrontEnd
    PROVE  TypeOK'
<1>1. TableType /\ ThreadType /\ NetType /\ CountType /\ Primary \in Server
    BY TypeParts, Constants
<1>2. Command = {"LOGIN", "LOGOUT", "FOLLOW"}
    BY DEF Command
<1>3. ASSUME NEW u \in User, Login(u)
      PROVE  TypeOK'
  <2>1. FromFE("LOGIN", u, Nobody)
    BY <1>3 DEF Login
  <2>2. /\ ThreadType' /\ NetType' /\ events' \in 0 .. MaxEvents
        /\ spoiled' \subseteq {"raced", "overtaken", "missed", "died", "killed"}
    BY <1>2, <2>1, FromFETypes
  <2>3. TableType'
    BY <1>1, <1>3, LoginTypes DEF Login
  <2>4. feSessions' \in [User -> 0 .. MaxSessions]
    BY <1>1, <1>3, Constants DEF Login, CountType
  <2> QED BY <1>1, <2>1, <2>2, <2>3, <2>4, TypeParts DEF FromFE, CountType
<1>4. ASSUME NEW u \in User, Logout(u)
      PROVE  TypeOK'
  <2>1. FromFE("LOGOUT", u, Nobody)
    BY <1>4 DEF Logout
  <2>2. /\ ThreadType' /\ NetType' /\ events' \in 0 .. MaxEvents
        /\ spoiled' \subseteq {"raced", "overtaken", "missed", "died", "killed"}
    BY <1>2, <2>1, FromFETypes
  <2>3. TableType'
    BY <1>1, <1>4, LogoutTypes DEF Logout
  <2>4. feSessions' \in [User -> 0 .. MaxSessions]
    BY <1>1, <1>4, Constants DEF Logout, CountType
  <2> QED BY <1>1, <2>1, <2>2, <2>3, <2>4, TypeParts DEF FromFE, CountType
<1>5. ASSUME NEW u \in User, NEW v \in User, Follow(u, v)
      PROVE  TypeOK'
  <2>1. FromFE("FOLLOW", u, v)
    BY <1>5 DEF Follow
  <2>2. /\ ThreadType' /\ NetType' /\ events' \in 0 .. MaxEvents
        /\ spoiled' \subseteq {"raced", "overtaken", "missed", "died", "killed"}
    BY <1>2, <2>1, FromFETypes
  <2>3. TableType'
    BY <1>1, <1>5, FollowTypes DEF Follow
  <2> QED BY <1>1, <1>5, <2>1, <2>2, <2>3, TypeParts DEF FromFE, Follow, CountType
<1> QED BY <1>3, <1>4, <1>5 DEF FrontEnd

LEMMA WholeNotification ==
    ASSUME NEW c \in Command, NEW u \in User, NEW v \in 0 .. Users, NEW d \in 0 .. 2,
           NEW id \in 0 .. MaxEvents, c = "FOLLOW" => v \in User
    PROVE  LET n == Notification(c, u, v, d, id)
           IN  /\ n \in Notes /\ Whole(n) /\ n.data = d
    BY Constants DEF Notification, Notes, Whole, User

\* What send_initial_replication sends.
LEMMA InitialNotes ==
    ASSUME TypeOK, NEW p \in Ahead
    PROVE  LET n == InitialNote(p)
           IN  /\ n \in Notes /\ Whole(n) /\ n.data = 2
               /\ p \in (0 .. Users + 1) \X Nat
<1>1. p[1] \in User /\ p[2] \in 0 .. MaxEvents /\ p[2] <= Len(followers[Primary][p[1]])
      /\ p = <<p[1], p[2]>>
    BY Constants DEF Ahead, TypeOK
<1>2. p \in (0 .. Users + 1) \X Nat
    BY <1>1, Constants DEF User
<1>3. 0 \in 0 .. MaxEvents /\ 2 \in 0 .. 2 /\ Nobody \in 0 .. Users /\ User \subseteq 0 .. Users
    BY Constants DEF Nobody, User
<1>4. CASE p[2] = 0
  <2>1. InitialNote(p) = Notification("LOGIN", p[1], Nobody, 2, 0) /\ "LOGIN" \in Command
    BY <1>4 DEF InitialNote, Command
  <2> QED BY <1>1, <1>2, <1>3, <2>1, WholeNotification
<1>5. CASE p[2] # 0
  <2> DEFINE u == followers[Primary][p[1]][p[2]]
  <2>1. InitialNote(p) = Notification("FOLLOW", u, p[1], 2, 0)
    BY <1>5 DEF InitialNote
  <2>2. followers[Primary][p[1]] \in Seq(User) /\ "FOLLOW" \in Command
    BY <1>1, Constants DEF TypeOK, Command
  <2>3. u \in User
    BY <1>1, <1>5, <2>2, Constants, ElementOfSeq
  <2> HIDE DEF u
  <2> QED BY <1>1, <1>2, <1>3, <2>1, <2>2, <2>3, WholeNotification
<1> QED BY <1>4, <1>5

\* What the joining of a server has the primary do.
Walks ==
    \/ \E n \in Notes : /\ Whole(n) /\ n.data = 2 /\ Begins(Primary, "join", n)
                        /\ Met(Primary) \subseteq spoiled'
    \/ ThreadIs(Primary, "join", Idle) /\ UNCHANGED nextIndex
    \/ \E w \in State : /\ w.pc = "walk" /\ w.note = Blank /\ w.conn = Self
                        /\ joined # {} /\ th[Primary]["join"] = Idle
                        /\ ThreadIs(Primary, "join", w) /\ UNCHANGED nextIndex

\* Where the walk gets to.
WalksOn ==
    \/ /\ th'[Primary]["join"].note = Blank /\ UNCHANGED nextIndex
       /\ UNCHANGED walk \/ (Ahead = {} /\ walk' = <<Users + 1, 0>>)
    \/ \E p \in Ahead :
          /\ \A q \in Ahead : p[1] < q[1] \/ (p[1] = q[1] /\ p[2] <= q[2])
          /\ walk' = p /\ Begins(Primary, "join", InitialNote(p))

LEMMA WalkMoves ==
    ASSUME TypeOK, Greet \/ SendInitialReplication
    PROVE  /\ Primary \in up
           /\ Walks /\ (Greet \/ th[Primary]["join"].pc = "walk") /\ WalksOn
           /\ UNCHANGED <<up, tableVars, net, envVars, answered, joined, newest>>
           /\ spoiled \subseteq spoiled'
           /\ walk' \in (0 .. Users + 1) \X Nat
           /\ TypeOK'
<1>1. TableType /\ ThreadType /\ NetType /\ CountType
    BY TypeParts
<1>2. CASE Greet
  <2> DEFINE w == [Idle EXCEPT !.pc = "walk"]
  <2>1. w \in State /\ w.pc = "walk" /\ w.note = Blank /\ w.conn = Self
    BY IdleState DEF Idle, State
  <2>2. ThreadIs(Primary, "join", w) /\ UNCHANGED nextIndex /\ th[Primary]["join"] = Idle
        /\ joined # {}
    BY <1>2, <2>1, SetMoves, Constants DEF Greet
  <2> HIDE DEF w
  <2>3. Walks /\ ThreadType' /\ WalksOn
    BY <1>1, <1>2, <2>1, <2>2 DEF Walks, ThreadIs, ThreadType, WalksOn, Greet
  <2>4. TypeOK'
    BY <1>1, <1>2, <2>3, TypeParts DEF Greet, TableType, NetType, CountType, tableVars, envVars,
       histVars
  <2> QED BY <1>1, <1>2, <2>3, <2>4 DEF Greet, histVars, CountType
<1>3. CASE Primary \in up /\ WalkSend
  <2>1. PICK p \in Ahead : /\ walk' = p /\ Begin(Primary, "join", InitialNote(p))
                           /\ \A q \in Ahead : p[1] < q[1] \/ (p[1] = q[1] /\ p[2] <= q[2])
    BY <1>3 DEF WalkSend
  <2> DEFINE n == InitialNote(p)
  <2>3. spoiled' = spoiled \cup Met(Primary)
    BY <1>3 DEF WalkSend
  <2>5. n \in Notes /\ Whole(n) /\ n.data = 2 /\ walk' \in (0 .. Users + 1) \X Nat
    BY <2>1, InitialNotes
  <2>6. Begin(Primary, "join", n)
    BY <2>1
  <2>8. n = InitialNote(p)
    OBVIOUS
  <2> HIDE DEF n
  <2>7. Begins(Primary, "join", n)
    BY <2>5, <2>6, BeginMoves, Constants
  <2>9. WalksOn
    BY <2>1, <2>7, <2>8 DEF WalksOn
  <2>2. Walks /\ ThreadType' /\ walk' \in (0 .. Users + 1) \X Nat
    BY <2>3, <2>5, <2>7 DEF Walks, Begins, ThreadIs, ThreadType
  <2>4. TypeOK'
    BY <1>1, <1>3, <2>2, <2>3, TypeParts, MetTypes DEF WalkSend, TableType, NetType, CountType,
       tableVars, envVars
  <2> QED BY <1>3, <2>2, <2>3, <2>4, <2>9 DEF WalkSend, Walking
<1>4. CASE Primary \in up /\ WalkEnd
  <2>1. ThreadIs(Primary, "join", Idle) /\ UNCHANGED nextIndex
    BY <1>4, SetMoves, IdleState, Constants DEF WalkEnd
  <2>2. Walks /\ ThreadType' /\ walk' \in (0 .. Users + 1) \X Nat
    BY <1>1, <1>4, <2>1, Constants DEF Walks, ThreadIs, ThreadType, WalkEnd
  <2>3. TypeOK'
    BY <1>1, <1>4, <2>2, TypeParts DEF WalkEnd, TableType, NetType, CountType,
       tableVars, envVars, histVars
  <2>4. WalksOn
    BY <1>4, <2>1, IdleState DEF WalkEnd, WalksOn, ThreadIs
  <2> QED BY <1>4, <2>1, <2>2, <2>3, <2>4 DEF WalkEnd, Walking, histVars
<1> QED BY <1>2, <1>3, <1>4 DEF SendInitialReplication

\* What the start of a server does.
Joins(s) ==
    /\ s \in Server \ up
    /\ up' = up \cup {s} /\ joined' = joined \cup {s}
    /\ UNCHANGED <<tableVars, nextIndex, th, net, events, answered, walk>>
    /\ spoiled \subseteq spoiled'
    /\ joins < MaxJoins /\ joins' = joins + 1 /\ Primary \in up
    /\ "missed" \in spoiled'
       \/ \A r \in up \ {Primary} : (Primary - s) % N <= (Primary - r) % N

LEMMA ComeAndGo ==
    ASSUME TypeOK, NEW s \in Server
    PROVE  /\ Join(s) => Joins(s) /\ TypeOK'
           /\ Kill(s) => Ends(s) /\ TypeOK'
<1>1. TableType /\ ThreadType /\ NetType /\ CountType
    BY TypeParts
<1>2. ASSUME Join(s) PROVE Joins(s) /\ TypeOK'
  <2>1. spoiled' = spoiled \/ spoiled' = spoiled \cup {"missed"}
    BY <1>2 DEF Join, Spoil
  <2>2. joins' \in 0 .. MaxJoins
    BY <1>1, <1>2, Constants DEF Join, CountType
  <2>3. joined' \subseteq Server
    BY <1>1, <1>2 DEF Join, CountType
  <2>4. spoiled' \subseteq {"raced", "overtaken", "missed", "died", "killed"}
    BY <1>1, <2>1 DEF CountType
  <2>5. CountType'
    BY <1>1, <1>2, <2>2, <2>3, <2>4 DEF Join, CountType
  <2>6. TypeOK'
    BY <1>1, <1>2, <2>5, TypeParts DEF Join, TableType, ThreadType, NetType, tableVars
  <2>7. "missed" \in spoiled'
        \/ \A r \in up \ {Primary} : (Primary - s) % N <= (Primary - r) % N
    <3>1. N \in Nat \ {0} /\ up \subseteq Server /\ Server \subseteq Int /\ Primary \in Int
      BY <1>1, ReplicationAssumption DEF NetType, Server
    <3>2. \A r \in up : (Primary - s) % N \in Int /\ (Primary - r) % N \in Int
      BY <3>1
    <3> QED BY <1>2, <3>2 DEF Join, Spoil
  <2> QED BY <1>2, <2>1, <2>6, <2>7 DEF Join, Joins
<1>3. ASSUME Kill(s) PROVE Ends(s) /\ TypeOK'
  <2>1. /\ EndOf(s, "killed") /\ net' = net \ Unread(s) /\ s # Primary
        /\ UNCHANGED <<answered, joined, walk, joins, events>>
    BY <1>3 DEF Kill
  <2>2. /\ TableType' /\ ThreadType' /\ NetType'
        /\ newest' \in [Server -> 0 .. MaxEvents]
        /\ spoiled' \subseteq {"raced", "overtaken", "missed", "died", "killed"}
    BY <2>1, EndTypes
  <2>3. CountType'
    BY <1>1, <1>3, <2>2, Constants DEF Kill, CountType
  <2> QED BY <2>1, <2>2, <2>3, TypeParts, EndMoves
<1> QED BY <1>2, <1>3

LEMMA TypeInit == Init => TypeOK
<1> SUFFICES ASSUME Init PROVE TypeOK
    OBVIOUS
<1>1. TableType
  <2>1. EmptySessions \in [User -> Int] /\ EmptyFollowers \in [User -> Seq(User)]
    BY DEF EmptySessions, EmptyFollowers
  <2> QED BY <2>1 DEF Init, TableType
<1>2. ThreadType
    BY IdleState DEF Init, ThreadType
<1>3. NetType
    BY Constants DEF Init, NetType
<1>4. CountType
    BY Constants DEF Init, CountType, EmptySessions
<1> QED BY <1>1, <1>2, <1>3, <1>4, TypeParts

LEMMA TypeNext == TypeOK /\ SoundInv /\ [Next]_vars => TypeOK'
<1> SUFFICES ASSUME TypeOK, SoundInv, [Next]_vars PROVE TypeOK'
    OBVIOUS
<1>1. CASE UNCHANGED vars
    BY <1>1, TypeParts DEF vars, tableVars, envVars, histVars, TableType, ThreadType, NetType,
       CountType
<1>2. CASE Next
    BY <1>2, FrontEndTypes, ReadTypes, SendTypes, CountTypes, WalkMoves, ComeAndGo
       DEF Next, Reading
<1> QED BY <1>1, <1>2

-----------------------------------------------------------------------------
(* What the steps do, as far as the other invariants can tell.              *)

\* The parts of a table once n is applied.
KnownAfter(K, n) == IF n.command = "LOGIN" THEN K \cup {n.author} ELSE K

Change(n) == IF n.command = "LOGIN" THEN 1 ELSE -1

SessionsAfter(K, S, n) ==
    IF n.command = "FOLLOW" THEN S
    ELSE IF n.author \in K THEN [S EXCEPT ![n.author] = @ + Change(n)]
    ELSE IF n.command = "LOGIN" THEN [S EXCEPT ![n.author] = 1] ELSE S

FollowersAfter(F, n) ==
    IF n.command = "FOLLOW" THEN [F EXCEPT ![n.target] = Append(@, n.author)] ELSE F

Becomes(s, n) ==
    /\ known'[s] = KnownAfter(known[s], n)
    /\ sessions'[s] = SessionsAfter(known[s], sessions[s], n)
    /\ followers'[s] = FollowersAfter(followers[s], n)
    /\ \A r \in Server \ {s} : /\ known'[r] = known[r] /\ sessions'[r] = sessions[r]
                               /\ followers'[r] = followers[r]

\* That, as far as most invariants can tell: who is known, and who follows.
Tables(s, n) ==
    /\ \A r \in Server : r # s => known'[r] = known[r] /\ followers'[r] = followers[r]
    /\ known[s] \subseteq known'[s]
    /\ known'[s] \subseteq known[s] \cup {n.author}
    /\ IF n.command = "LOGIN" THEN n.author \in known'[s] ELSE known'[s] = known[s]
    /\ \A u, v \in User :
          Contains(followers'[s][v], u) <=>
              \/ Contains(followers[s][v], u)
              \/ n.command = "FOLLOW" /\ u = n.author /\ v = n.target

LEMMA ContainsAppend ==
    ASSUME NEW q \in Seq(User), NEW u \in User, NEW v \in User
    PROVE  Contains(Append(q, u), v) <=> Contains(q, v) \/ v = u
<1>1. /\ Len(Append(q, u)) = Len(q) + 1 /\ Append(q, u)[Len(q) + 1] = u
      /\ \A i \in 1 .. Len(q) : Append(q, u)[i] = q[i]
      /\ Len(q) \in Nat
    BY AppendProperties, LenProperties
<1> QED BY <1>1 DEF Contains

LEMMA TablesMove ==
    ASSUME TypeOK, NEW s \in Server, NEW n \in Notes, n.author \in User
    PROVE  /\ n.command = "LOGIN" /\ LoginAt(s, n.author) => Tables(s, n)
           /\ n.command = "LOGOUT" /\ UNCHANGED <<known, followers>> => Tables(s, n)
           /\ /\ n.command = "FOLLOW" /\ n.target \in User
              /\ FollowAt(s, n.author, n.target)
              => Tables(s, n)
<1>1. ASSUME n.command = "LOGIN", LoginAt(s, n.author) PROVE Tables(s, n)
  <2>1. /\ \A r \in Server : r # s => known'[r] = known[r]
        /\ known'[s] = known[s] \cup {n.author} /\ followers' = followers
    BY <1>1 DEF LoginAt, TypeOK
  <2> QED BY <1>1, <2>1 DEF Tables
<1>2. ASSUME n.command = "LOGOUT", UNCHANGED <<known, followers>> PROVE Tables(s, n)
    BY <1>2 DEF Tables
<1>3. ASSUME n.command = "FOLLOW", n.target \in User, FollowAt(s, n.author, n.target)
      PROVE  Tables(s, n)
  <2>1. followers \in [Server -> [User -> Seq(User)]]
    BY DEF TypeOK
  <2>2. /\ known' = known
        /\ \A r \in Server : r # s => followers'[r] = followers[r]
        /\ \A v \in User \ {n.target} : followers'[s][v] = followers[s][v]
        /\ followers'[s][n.target] = Append(followers[s][n.target], n.author)
    BY <1>3, <2>1 DEF FollowAt
  <2>3. \A u \in User : Contains(followers'[s][n.target], u) <=>
                            Contains(followers[s][n.target], u) \/ u = n.author
    BY <1>3, <2>1, <2>2, ContainsAppend
  <2> QED BY <1>3, <2>2, <2>3 DEF Tables
<1> QED BY <1>1, <1>2, <1>3

TablesStay == \A r \in Server : known'[r] = known[r] /\ followers'[r] = followers[r]

SessionsStay == \A r \in Server : sessions'[r] = sessions[r]

LEMMA TablesBecome ==
    ASSUME TypeOK, NEW s \in Server, NEW n \in Notes, n.author \in User
    PROVE  /\ n.command = "LOGIN" /\ LoginAt(s, n.author) => Becomes(s, n)
           /\ n.command = "LOGOUT" /\ LogoutAt(s, n.author) => Becomes(s, n)
           /\ n.command = "LOGOUT" /\ n.author \notin known[s] /\ UNCHANGED tableVars
              => Becomes(s, n)
           /\ /\ n.command = "FOLLOW" /\ n.target \in User
              /\ FollowAt(s, n.author, n.target)
              => Becomes(s, n)
<1>1. TableType
    BY TypeParts
<1>2. CASE n.command = "LOGIN" /\ LoginAt(s, n.author)
  <2>1. /\ known'[s] = known[s] \cup {n.author} /\ followers' = followers
        /\ sessions'[s] = [sessions[s] EXCEPT ![n.author] =
                              IF n.author \in known[s] THEN @ + 1 ELSE 1]
        /\ \A r \in Server \ {s} : known'[r] = known[r] /\ sessions'[r] = sessions[r]
    BY <1>1, <1>2 DEF LoginAt, TableType
  <2> QED BY <1>1, <1>2, <2>1
          DEF Becomes, KnownAfter, SessionsAfter, FollowersAfter, Change, TableType
<1>3. CASE n.command = "LOGOUT" /\ LogoutAt(s, n.author)
  <2>1. /\ known' = known /\ followers' = followers
        /\ sessions'[s] = [sessions[s] EXCEPT ![n.author] =
                              IF n.author \in known[s] THEN @ - 1 ELSE @]
        /\ \A r \in Server \ {s} : sessions'[r] = sessions[r]
    BY <1>1, <1>3 DEF LogoutAt, TableType
  <2>2. sessions[s] \in [User -> Int]
    BY <1>1 DEF TableType
  <2>3. sessions'[s] = SessionsAfter(known[s], sessions[s], n)
    BY <1>3, <2>1, <2>2 DEF SessionsAfter, Change
  <2> QED BY <1>3, <2>1, <2>3 DEF Becomes, KnownAfter, FollowersAfter
<1>4. CASE n.command = "LOGOUT" /\ n.author \notin known[s] /\ UNCHANGED tableVars
    BY <1>4 DEF Becomes, KnownAfter, SessionsAfter, FollowersAfter, tableVars
<1>5. CASE n.command = "FOLLOW" /\ n.target \in User /\ FollowAt(s, n.author, n.target)
  <2>1. /\ known' = known /\ sessions' = sessions
        /\ followers'[s] = [followers[s] EXCEPT ![n.target] = Append(@, n.author)]
        /\ \A r \in Server \ {s} : followers'[r] = followers[r]
    BY <1>1, <1>5 DEF FollowAt, TableType
  <2> QED BY <1>5, <2>1 DEF Becomes, KnownAfter, SessionsAfter, FollowersAfter
<1> QED BY <1>2, <1>3, <1>4, <1>5

\* A notification from the front end.
Asks(n) ==
    /\ n \in Notes /\ Whole(n) /\ n.data = 1 /\ n.id = events + 1 /\ events' = events + 1
    /\ n.command = "FOLLOW" => n.target \in known[Primary]
    /\ Primary \in up /\ th[Primary]["fe"] = Idle
    /\ Begins(Primary, "fe", n) /\ Met(Primary) \subseteq spoiled'
    /\ Tables(Primary, n) /\ Becomes(Primary, n)
    /\ spoiled \subseteq spoiled'
    /\ n.command = "FOLLOW" => /\ n.author \in known[Primary]
                               /\ ~Contains(followers[Primary][n.target], n.author)
    /\ n.command = "LOGOUT" => feSessions[n.author] > 0
    /\ UNCHANGED <<up, net, answered, joined, newest, walk, joins>>

LEMMA FrontEndMoves ==
    ASSUME TypeOK, FrontEnd
    PROVE  \E n : Asks(n)
<1>1. Command = {"LOGIN", "LOGOUT", "FOLLOW"} /\ Primary \in Server
    BY Constants DEF Command
<1>2. ASSUME NEW c \in Command, NEW u \in User, NEW v \in User \cup {Nobody}, FromFE(c, u, v),
             c = "FOLLOW" => /\ v \in User /\ v \in known[Primary] /\ u \in known[Primary]
                             /\ ~Contains(followers[Primary][v], u),
             c = "LOGOUT" => feSessions[u] > 0,
             \A n \in Notes : n.command = c /\ n.author = u /\ n.target = v =>
                Tables(Primary, n) /\ Becomes(Primary, n)
      PROVE  \E n : Asks(n)
  <2> DEFINE n == Notification(c, u, v, 1, events + 1)
  <2>1. /\ n \in Notes /\ n.command = c /\ n.author = u /\ n.target = v
        /\ n.data = 1 /\ n.id = events + 1
        /\ Begins(Primary, "fe", n) /\ events' = events + 1
    BY <1>2, FromFETypes
  <2> HIDE DEF n
  <2>2. Whole(n)
    BY <1>2, <2>1 DEF Whole
  <2> QED BY <1>2, <2>1, <2>2 DEF FromFE, Asks
<1>3. ASSUME NEW u \in User, Login(u) PROVE \E n : Asks(n)
    BY <1>1, <1>2, <1>3, TablesMove, TablesBecome DEF Login
<1>4. ASSUME NEW u \in User, Logout(u) PROVE \E n : Asks(n)
  <2>1. \A n \in Notes : n.command = "LOGOUT" /\ n.author = u /\ n.target = Nobody =>
            Tables(Primary, n) /\ Becomes(Primary, n)
    BY <1>1, <1>4, TablesMove, TablesBecome DEF Logout, LogoutAt
  <2> QED BY <1>1, <1>2, <1>4, <2>1 DEF Logout
<1>5. ASSUME NEW u \in User, NEW v \in User, Follow(u, v) PROVE \E n : Asks(n)
    BY <1>1, <1>2, <1>5, TablesMove, TablesBecome DEF Follow
<1> QED BY <1>3, <1>4, <1>5 DEF FrontEnd

\* s has got as far as n, or n comes late.
GetsTo(s, n) == Noted(s, n) /\ Late(s, n) \subseteq spoiled'

\* A notification that is read: ignored, or its count read, or applied and forwarded.
Drops(s, m) ==
    /\ UNCHANGED <<th, nextIndex, newest>> /\ TablesStay /\ SessionsStay
    /\ \/ m.note.command \in {"LOGIN", "LOGOUT"} /\ s = Primary /\ UNCHANGED answered
       \/ /\ m.note.command = "FOLLOW" /\ m.note.data = 0
          /\ answered' = IF s = Primary THEN answered \cup {m.note} ELSE answered

Counts(s, t, n) ==
    /\ n.command \in {"LOGIN", "LOGOUT"} /\ n.author \in known[s] /\ s # Primary
    /\ \E w \in State : /\ w.pc = "count" /\ w.note = n /\ w.conn = Self
                        /\ w.count = sessions[s][n.author]
                        /\ ThreadIs(s, t, w)
    /\ TablesStay /\ SessionsStay /\ GetsTo(s, n) /\ UNCHANGED <<nextIndex, answered>>

Applies(s, t, n) ==
    /\ n.command \in {"LOGIN", "LOGOUT"} => s # Primary
    /\ n.command = "FOLLOW" => n.data # 0
    /\ Forwards(s, t, n) /\ MetBy(s, n) \subseteq spoiled'
    /\ n.command = "LOGIN" => n.author \notin known[s]
    /\ n.command = "LOGOUT" => n.author \notin known[s]
    /\ n.command = "FOLLOW" => n.target \in known[s]
    /\ Tables(s, n) /\ Becomes(s, n) /\ GetsTo(s, n) /\ UNCHANGED answered

Handles(s, t, m) ==
    /\ m.note \in Notes /\ Whole(m.note) /\ m.to = s /\ s \in up /\ t \in Pool /\ th[s][t] = Idle
    /\ Drops(s, m) \/ Counts(s, t, m.note) \/ Applies(s, t, m.note)
    /\ net' = net \ {m} /\ spoiled \subseteq spoiled'
    /\ UNCHANGED <<up, joined, events, walk, joins>>

LEMMA HandleMoves ==
    ASSUME TypeOK, SoundInv, NEW s \in Server, NEW t \in Pool, NEW m \in net,
           HandleReplication(s, t, m)
    PROVE  (Ends(s) /\ UNCHANGED events) \/ Handles(s, t, m)
<1> USE DEF Is, Read
<1> DEFINE n == m.note
<1>1. /\ m.note \in Notes /\ Whole(m.note) /\ m.to = s /\ s \in up /\ th[s][t] = Idle
      /\ t \in Thread /\ t \in Pool
      /\ n.author \in User /\ (n.command = "FOLLOW" => n.target \in User)
  <2>1. Reads(s, t, m)
    BY DEF HandleReplication, IgnoreOwn, HandleNewUser, ReadCount, LogoutUnknown, HandleAgreed,
           HandleFollow, FollowUnknown
  <2> QED BY <2>1, ReadMessage DEF Whole
<1>2. ASSUME Applied(s, n)
      PROVE  /\ UNCHANGED <<up, joined, events, walk, joins>>
             /\ spoiled \subseteq spoiled' /\ MetBy(s, n) \subseteq spoiled' /\ GetsTo(s, n)
    BY <1>2 DEF Applied, envVars, GetsTo
<1>3. CASE IgnoreOwn(s, t, m)
  <2>1. Drops(s, m)
    BY <1>3 DEF IgnoreOwn, Drops, TablesStay, SessionsStay, tableVars, histVars
  <2> QED BY <1>1, <1>3, <2>1 DEF IgnoreOwn, Handles, envVars, histVars
<1>4. CASE HandleNewUser(s, t, m)
  <2>1. Applies(s, t, n)
    BY <1>1, <1>2, <1>4, ForwardMoves, TablesMove, TablesBecome DEF HandleNewUser, Applies
  <2> QED BY <1>1, <1>2, <1>4, <2>1 DEF HandleNewUser, Handles
<1>5. CASE ReadCount(s, t, m)
  <2> DEFINE w == [Idle EXCEPT !.pc = "count", !.note = n, !.count = sessions[s][n.author]]
  <2>1. /\ w \in State /\ w.pc = "count" /\ w.note = n /\ w.conn = Self
        /\ w.count = sessions[s][n.author]
    <3>1. sessions[s][n.author] \in Int
      BY <1>1 DEF TypeOK
    <3> QED BY <1>1, <3>1, IdleState DEF State, Idle
  <2>2. ThreadIs(s, t, w)
    <3>1. Set(s, t, w)
      BY <1>5 DEF ReadCount
    <3> HIDE DEF w
    <3> QED BY <1>1, <2>1, <3>1, SetMoves
  <2> HIDE DEF w
  <2>3. Counts(s, t, n)
    BY <1>5, <2>1, <2>2 DEF ReadCount, Counts, TablesStay, SessionsStay, GetsTo, tableVars
  <2> QED BY <1>1, <1>5, <2>3 DEF ReadCount, Handles, envVars
<1>6. CASE LogoutUnknown(s, t, m)
  <2>1. Applies(s, t, n)
    <3>1. Tables(s, n) /\ Becomes(s, n)
      BY <1>1, <1>6, TablesMove, TablesBecome DEF LogoutUnknown, tableVars
    <3> QED BY <1>1, <1>2, <1>6, <3>1, ForwardMoves DEF LogoutUnknown, Applies
  <2> QED BY <1>1, <1>2, <1>6, <2>1 DEF LogoutUnknown, Handles
<1>7. CASE HandleAgreed(s, t, m)
  <2>1. Drops(s, m)
    BY <1>7 DEF HandleAgreed, Drops, TablesStay, SessionsStay, tableVars
  <2> QED BY <1>1, <1>7, <2>1 DEF HandleAgreed, Handles, envVars
<1>8. CASE HandleFollow(s, t, m)
  <2>1. Applies(s, t, n)
    BY <1>1, <1>2, <1>8, ForwardMoves, TablesMove, TablesBecome DEF HandleFollow, Applies
  <2> QED BY <1>1, <1>2, <1>8, <2>1 DEF HandleFollow, Handles
<1>9. CASE FollowUnknown(s, t, m)
    BY <1>9, EndMoves DEF FollowUnknown, envVars
<1> QED BY <1>3, <1>4, <1>5, <1>6, <1>7, <1>8, <1>9 DEF HandleReplication

\* What else stays when a thread scans or writes.
RestStays == /\ TablesStay /\ SessionsStay
             /\ UNCHANGED <<up, joined, events, answered, spoiled, newest, walk, joins>>

Scans(s, t) == th[s][t].pc = "advance" /\ ScanOf(s, t) /\ RestStays /\ UNCHANGED net

\* The notification n as thread t of s writes it.
Written(s, t, n) ==
    LET o == th[s][t].note IN
    /\ n \in Notes /\ n.command = o.command /\ n.author = o.author /\ n.target = o.target
    /\ n.id = o.id /\ n.data = KeepReplicating(s, o)

Writes(s, t) ==
    LET c == th[s][t].conn IN
    /\ th[s][t].pc = "write" /\ c # Self
    /\ ThreadIs(s, t, Sent(t))
    /\ RestStays /\ UNCHANGED nextIndex
    /\ IF c = Gone THEN UNCHANGED net
       ELSE \E n : Written(s, t, n) /\ net' = net \cup {[to |-> c, note |-> n]}

LEMMA SendMoves ==
    ASSUME TypeOK, NEW s \in Server, NEW t \in Thread, SendReplication(s, t)
    PROVE  Ends(s) \/ Scans(s, t) \/ Writes(s, t)
<1>1. CASE ScanAdvance(s, t)
    BY <1>1, ScanMoves DEF ScanAdvance, Scans, RestStays, TablesStay, SessionsStay, tableVars,
       envVars, histVars
<1>2. CASE Write(s, t)
  <2> DEFINE o == th[s][t].note
             n == [o EXCEPT !.data = KeepReplicating(s, o)]
             c == th[s][t].conn
  <2>1. o \in Notes
    BY DEF TypeOK, State
  <2>2. Written(s, t, n)
    BY <2>1 DEF Written, KeepReplicating, Notes
  <2>3. th[s][t].pc = "write" /\ c # Self /\ Set(s, t, Sent(t)) /\ UNCHANGED nextIndex
        /\ net' = IF c = Gone THEN net ELSE net \cup {[to |-> c, note |-> n]}
    BY <1>2 DEF Write
  <2>4. RestStays
    BY <1>2 DEF Write, RestStays, TablesStay, SessionsStay, tableVars, envVars, histVars
  <2> HIDE DEF n
  <2> QED BY <2>2, <2>3, <2>4, SetMoves, SentState DEF Writes
<1>3. CASE WriteFails(s, t)
    BY <1>3, EndMoves DEF WriteFails, envVars
<1> QED BY <1>1, <1>2, <1>3 DEF SendReplication

\* sessions_number is written and the notification sent on.
Recounts(s, t) ==
    LET n == th[s][t].note IN
    /\ th[s][t].pc = "count"
    /\ Forwards(s, t, n) /\ MetBy(s, n) \subseteq spoiled'
    /\ TablesStay /\ spoiled \subseteq spoiled'
    /\ Counted(s, t)
    /\ "raced" \in spoiled' \/ sessions[s][n.author] = th[s][t].count
    /\ UNCHANGED <<up, net, joined, events, answered, newest, walk, joins>>

LEMMA CountMoves ==
    ASSUME TypeOK, NEW s \in Server, NEW t \in Thread, WriteCount(s, t)
    PROVE  Recounts(s, t)
<1>1. th[s][t].note \in Notes
    BY DEF TypeOK, State
<1> QED BY <1>1, ForwardMoves DEF WriteCount, Recounts, TablesStay, envVars

WalkStep ==
    /\ Primary \in up /\ Walks /\ spoiled \subseteq spoiled'
    /\ \/ joined # {} /\ th[Primary]["join"] = Idle
       \/ th[Primary]["join"].pc = "walk"
    /\ TablesStay /\ SessionsStay /\ WalksOn
    /\ UNCHANGED <<up, net, joined, events, answered, newest, joins>>

LEMMA StepDoes ==
    ASSUME TypeOK, SoundInv, [Next]_vars
    PROVE  \/ UNCHANGED vars
           \/ \E s \in Server : Ends(s) \/ Joins(s)
           \/ \E n : Asks(n)
           \/ \E s \in Server, t \in Pool, m \in net : Handles(s, t, m)
           \/ \E s \in Server, t \in Thread : Scans(s, t) \/ Writes(s, t) \/ Recounts(s, t)
           \/ WalkStep
<1>1. ASSUME Greet \/ SendInitialReplication PROVE WalkStep
  <2>1. /\ Primary \in up
        /\ Walks /\ (Greet \/ th[Primary]["join"].pc = "walk") /\ WalksOn
        /\ UNCHANGED <<up, tableVars, net, envVars, answered, joined, newest>>
        /\ spoiled \subseteq spoiled'
    BY <1>1, WalkMoves
  <2> QED BY <2>1 DEF WalkStep, Greet, TablesStay, SessionsStay, tableVars, envVars
<1> QED BY <1>1, FrontEndMoves, HandleMoves, SendMoves, CountMoves, ComeAndGo DEF Next, Reading

-----------------------------------------------------------------------------
(* What is sent is whole, and goes to servers that run.                     *)

\* A thread that is done, or begins to send, or to count, or to walk.
SoundThread(s, w) ==
    /\ s \notin up => w = Idle
    /\ w.note = Blank \/ Whole(w.note)
    /\ w.pc \in {"advance", "write", "count"} => Whole(w.note)
    /\ w.pc \in {"idle", "walk"} => w.note = Blank
    /\ w.pc = "count" => w.note.command # "FOLLOW"
    /\ w.conn \in Server => w.pc = "write" /\ w.conn \in up \ {s}

LEMMA SoundThreads ==
    ASSUME NEW s \in Server, NEW t \in Thread, NEW w \in State, ThreadIs(s, t, w),
           SoundInv, UNCHANGED up, \A m \in net' : Whole(m.note), SoundThread(s, w)
    PROVE  SoundInv'
<1>1. \A r \in Server, j \in Thread : SoundThread(r, th'[r][j])
  <2>1. \A r \in Server, j \in Thread : SoundThread(r, th[r][j])
    BY DEF SoundInv, SoundThread
  <2> QED BY <2>1 DEF ThreadIs
<1> QED BY <1>1 DEF SoundInv, SoundThread

LEMMA SoundBegin ==
    ASSUME NEW s \in Server, s \in up, NEW n \in Notes, Whole(n)
    PROVE  SoundThread(s, Begun(n)) /\ Begun(n) \in State /\ SoundThread(s, Idle)
    BY BegunState, IdleState, Constants DEF SoundThread

LEMMA SoundForward ==
    ASSUME NEW s \in Server, NEW t \in Thread, NEW n \in Notes, Forwards(s, t, n),
           SoundInv, s \in up, Whole(n), UNCHANGED up, net' \subseteq net
    PROVE  SoundInv'
<1>1. \A m \in net' : Whole(m.note)
    BY DEF SoundInv
<1> QED BY <1>1, SoundBegin, SoundThreads, IdleState DEF Forwards, Begins

LEMMA SoundNext == TypeOK /\ SoundInv /\ [Next]_vars => SoundInv'
<1> SUFFICES ASSUME TypeOK, SoundInv, [Next]_vars PROVE SoundInv'
    OBVIOUS
<1>1. CASE UNCHANGED vars
    BY <1>1 DEF vars, SoundInv
<1>2. ASSUME NEW s \in Server, Ends(s) PROVE SoundInv'
  <2>1. \A r \in Server, t \in Thread : SoundThread(r, th[r][t])
    BY DEF SoundInv, SoundThread
  <2>2. \A r \in Server \ {s}, t \in Thread : SoundThread(r, th[r][t])'
    BY <1>2, <2>1, Constants DEF Ends, SoundThread
  <2>3. \A t \in Thread : SoundThread(s, th[s][t])'
    BY <1>2, IdleState, Constants DEF Ends, SoundThread
  <2>4. \A m \in net' : Whole(m.note)
    BY <1>2 DEF Ends, SoundInv
  <2> QED BY <2>2, <2>3, <2>4 DEF SoundInv, SoundThread
<1>3. ASSUME NEW s \in Server, Joins(s) PROVE SoundInv'
    BY <1>3 DEF Joins, SoundInv
<1>4. ASSUME NEW n, Asks(n) PROVE SoundInv'
  <2>1. SoundThread(Primary, Begun(n)) /\ Begun(n) \in State
    BY <1>4, SoundBegin, Constants DEF Asks
  <2>2. ThreadIs(Primary, "fe", Begun(n)) /\ \A m \in net' : Whole(m.note)
    BY <1>4 DEF Asks, Begins, SoundInv
  <2> QED BY <1>4, <2>1, <2>2, SoundThreads, Constants DEF Asks
<1>5. ASSUME NEW s \in Server, NEW t \in Pool, NEW m \in net, Handles(s, t, m) PROVE SoundInv'
  <2>1. /\ m.note \in Notes /\ Whole(m.note) /\ s \in up /\ t \in Thread
        /\ net' \subseteq net /\ UNCHANGED up
    BY <1>5, Constants DEF Handles
  <2>2. CASE Drops(s, m)
    BY <2>1, <2>2 DEF Drops, SoundInv
  <2>3. CASE Counts(s, t, m.note)
    <3>1. PICK w \in State : /\ w.pc = "count" /\ w.note = m.note /\ w.conn = Self
                             /\ ThreadIs(s, t, w) /\ w.note.command # "FOLLOW"
      BY <2>3 DEF Counts
    <3>2. SoundThread(s, w) /\ \A i \in net' : Whole(i.note)
      BY <2>1, <3>1, Constants DEF SoundThread, SoundInv
    <3> QED BY <2>1, <3>1, <3>2, SoundThreads
  <2>4. CASE Applies(s, t, m.note)
    BY <2>1, <2>4, SoundForward DEF Applies
  <2> QED BY <1>5, <2>2, <2>3, <2>4 DEF Handles
<1>6. ASSUME NEW s \in Server, NEW t \in Thread,
             Scans(s, t) \/ Writes(s, t) \/ Recounts(s, t)
      PROVE  SoundInv'
  <2>1. s \in up /\ Whole(th[s][t].note) /\ th[s][t].note \in Notes /\ UNCHANGED up
    BY <1>6, IdleState DEF SoundInv, Scans, Writes, Recounts, RestStays, TypeOK, State
  <2>2. CASE Scans(s, t)
    <3>1. CASE UNCHANGED th
      BY <2>1, <2>2, <3>1 DEF Scans, RestStays, SoundInv
    <3>2. CASE ~UNCHANGED th
      <4>1. PICK w \in State : /\ w.pc = "write" /\ w.note = th[s][t].note
                               /\ w.conn = Self \/ w.conn \in up \ {s}
                               /\ ThreadIs(s, t, w)
        BY <2>2, <3>2 DEF Scans, ScanOf
      <4>2. SoundThread(s, w) /\ \A m \in net' : Whole(m.note)
        BY <2>1, <2>2, <4>1, Constants DEF SoundThread, Scans, SoundInv
      <4> QED BY <2>1, <4>1, <4>2, SoundThreads
    <3> QED BY <3>1, <3>2
  <2>3. CASE Writes(s, t)
    <3>1. \A m \in net' : Whole(m.note)
      BY <2>1, <2>3 DEF Writes, Written, SoundInv, Whole
    <3>2. SoundThread(s, Sent(t))
      BY <2>1, SentState, Constants DEF SoundThread
    <3> QED BY <2>1, <2>3, <3>1, <3>2, SoundThreads, SentState DEF Writes
  <2>4. CASE Recounts(s, t)
    BY <2>1, <2>4, SoundForward DEF Recounts
  <2> QED BY <1>6, <2>2, <2>3, <2>4
<1>7. CASE WalkStep
  <2>1. Primary \in up /\ UNCHANGED up /\ \A m \in net' : Whole(m.note)
    BY <1>7 DEF WalkStep, SoundInv
  <2>2. \E w \in State : ThreadIs(Primary, "join", w) /\ SoundThread(Primary, w)
    BY <1>7, <2>1, SoundBegin, IdleState, Constants DEF WalkStep, Walks, Begins, SoundThread
  <2> QED BY <2>1, <2>2, SoundThreads, Constants
<1> QED BY <1>1, <1>2, <1>3, <1>4, <1>5, <1>6, <1>7, StepDoes

-----------------------------------------------------------------------------
(* Around the ring.                                                         *)

LEMMA HopsFacts ==
    /\ \A s \in Server : Hops(s) \in 0 .. N - 1 /\ (Hops(s) = 0 <=> s = Primary)
    /\ \A s, r \in Server : Hops(s) = Hops(r) => s = r
    /\ \A s \in Server :
          IF NextIdx(s) = Primary THEN Hops(s) = N - 1 ELSE Hops(NextIdx(s)) = Hops(s) + 1
    /\ \A s \in Server : Place(s) \in 1 .. N /\ Hops(s) <= Place(s)
    BY Constants, ReplicationAssumption DEF Hops, Place, NextIdx, Server

\* Nobody is there all along who was not, and nobody forgets a follower.
Lasting ==
    /\ Stayed' \subseteq Stayed /\ Stayed \subseteq Server
    /\ \A r \in Stayed' : \A u, v \in User :
          Contains(followers[r][v], u) => Contains(followers'[r][v], u)
    /\ spoiled \subseteq spoiled'

LEMMA StepLasting ==
    ASSUME TypeOK, SoundInv, [Next]_vars
    PROVE  Lasting
<1>1. Stayed \subseteq Server
    BY DEF Stayed, TypeOK
<1>2. CASE TablesStay /\ UNCHANGED <<up, joined>> /\ spoiled \subseteq spoiled'
    BY <1>1, <1>2 DEF TablesStay, Lasting, Stayed
<1>3. ASSUME NEW s \in Server, NEW n, Tables(s, n), UNCHANGED <<up, joined>>,
             spoiled \subseteq spoiled'
      PROVE  Lasting
    BY <1>1, <1>3 DEF Tables, Lasting, Stayed
<1>4. CASE UNCHANGED vars
    BY <1>1, <1>4 DEF vars, tableVars, histVars, Lasting, Stayed
<1>5. ASSUME NEW s \in Server, Ends(s) \/ Joins(s) PROVE Lasting
    BY <1>1, <1>5 DEF Ends, Joins, Lasting, Stayed, tableVars
<1>6. ASSUME NEW n, Asks(n) PROVE Lasting
    BY <1>3, <1>6, Constants DEF Asks
<1>7. ASSUME NEW s \in Server, NEW t \in Pool, NEW m \in net, Handles(s, t, m) PROVE Lasting
    BY <1>2, <1>3, <1>7 DEF Handles, Drops, Counts, Applies
<1>8. ASSUME NEW s \in Server, NEW t \in Thread,
             Scans(s, t) \/ Writes(s, t) \/ Recounts(s, t)
      PROVE  Lasting
    BY <1>2, <1>8 DEF Scans, Writes, Recounts, RestStays
<1>9. CASE WalkStep
    BY <1>2, <1>9 DEF WalkStep
<1> QED BY <1>4, <1>5, <1>6, <1>7, <1>8, <1>9, StepDoes

LEMMA ReplicatedStays ==
    ASSUME Lasting, NEW n, n.author \in User, n.target \in User, NEW k, Replicated(n, k)
    PROVE  Replicated(n, k)'
    BY DEF Lasting, Replicated

\* ScanInv for one process.
ScansOf(s) ==
    /\ \A t, j \in Scanning(s) : t = j
    /\ \A t \in Thread : th[s][t].pc = "advance" =>
          \A r \in Stayed : Hops(r) > Hops(s) => Hops(r) > Hops(nextIndex[s])
    /\ \A t \in Thread : th[s][t].conn \in Server => nextIndex[s] = th[s][t].conn

\* A thread that does not scan.
LEMMA ScanRest ==
    ASSUME ScanInv, Lasting, NEW s \in Server, NEW t \in Thread, NEW w, ThreadIs(s, t, w),
           w.pc \notin {"advance", "write"}, w.conn \notin Server, UNCHANGED nextIndex
    PROVE  ScanInv'
<1>1. \A r \in Server : Scanning(r)' \subseteq Scanning(r)
    BY DEF Scanning, ThreadIs
<1>2. \A r \in Server, j \in Thread : \/ th'[r][j] = th[r][j]
                                      \/ /\ th'[r][j].pc \notin {"advance", "write"}
                                         /\ th'[r][j].conn \notin Server
    BY DEF ThreadIs
<1> QED BY <1>1, <1>2 DEF ScanInv, Lasting

\* A scan that begins while no other is under way.
LEMMA ScanBegin ==
    ASSUME TypeOK, SoundInv, ScanInv, Lasting, NEW s \in Server, NEW t \in Thread, NEW n \in Notes,
           Begins(s, t, n), Met(s) \subseteq spoiled', "raced" \notin spoiled'
    PROVE  ScanInv'
<1>1. Scanning(s) = {}
    BY DEF Met
<1>2. \A r \in Server : r # s =>
          /\ Scanning(r)' = Scanning(r) /\ nextIndex'[r] = nextIndex[r]
          /\ \A j \in Thread : th'[r][j] = th[r][j]
    BY DEF Scanning, Begins, ThreadIs
<1>3. \A j \in Thread : j # t => /\ th'[s][j].pc \notin {"advance", "write"}
                                 /\ th'[s][j].conn \notin Server
    BY <1>1 DEF Scanning, Begins, ThreadIs, SoundInv
<1>4. th'[s][t] = Begun(n) /\ Begun(n).conn \notin Server /\ nextIndex'[s] = s
    BY BegunState, Constants DEF Begins, ThreadIs
<1>5. Scanning(s)' \subseteq {t}
    BY <1>3 DEF Scanning
<1>6. \A r \in Server : ScansOf(r)'
  <2>1. ScansOf(s)'
    BY <1>3, <1>4, <1>5 DEF ScansOf
  <2>2. ASSUME NEW r \in Server, r # s PROVE ScansOf(r)'
    BY <1>2, <2>2 DEF ScansOf, ScanInv, Lasting
  <2> QED BY <2>1, <2>2
<1> QED BY <1>6 DEF ScansOf, ScanInv

LEMMA ScanForward ==
    ASSUME TypeOK, SoundInv, ScanInv, Lasting, NEW s \in Server, NEW t \in Thread, NEW n \in Notes,
           Forwards(s, t, n), MetBy(s, n) \subseteq spoiled', "raced" \notin spoiled'
    PROVE  ScanInv'
<1>1. Idle.pc \notin {"advance", "write"} /\ Idle.conn \notin Server
    BY IdleState, Constants
<1> QED BY <1>1, ScanRest, ScanBegin DEF Forwards, MetBy

LEMMA ScanOn ==
    ASSUME TypeOK, SoundInv, ScanInv, Lasting, NEW s \in Server, NEW t \in Thread, Scans(s, t)
    PROVE  ScanInv'
<1> DEFINE x == nextIndex[s]
           n == NextIdx(x)
<1>1. /\ t \in Scanning(s) /\ Scanning(s) \subseteq {t} /\ x \in Server /\ n \in Server
      /\ th[s][t].conn \notin Server
      /\ \A j \in Thread : j # t => /\ th[s][j].pc \notin {"advance", "write"}
                                    /\ th[s][j].conn \notin Server
    BY NextServer DEF Scanning, Scans, ScanInv, SoundInv, TypeOK
<1>2. /\ \A r \in Server : r # s => nextIndex'[r] = nextIndex[r]
      /\ nextIndex'[s] = n /\ UNCHANGED <<up, joined>>
    BY DEF Scans, ScanOf, RestStays
<1>3. \A r \in Server, j \in Thread : r # s \/ j # t => th'[r][j] = th[r][j]
    BY DEF Scans, ScanOf, ThreadIs
<1>4. ASSUME NEW r \in Server, r # s PROVE ScansOf(r)'
  <2>1. Scanning(r)' = Scanning(r)
    BY <1>3, <1>4 DEF Scanning
  <2> QED BY <1>2, <1>3, <1>4, <2>1 DEF ScansOf, ScanInv, Lasting
<1>5. Scanning(s)' \subseteq {t}
    BY <1>1, <1>3 DEF Scanning
<1>6. CASE n = s \/ n \in up
  <2>1. th'[s][t].pc = "write" /\ (th'[s][t].conn \in Server => th'[s][t].conn = n)
    BY <1>6, Constants DEF Scans, ScanOf, ThreadIs
  <2>2. ScansOf(s)'
    BY <1>1, <1>2, <1>3, <1>5, <2>1 DEF ScansOf
  <2> QED BY <1>4, <2>2 DEF ScanInv, ScansOf
<1>7. CASE n # s /\ n \notin up
  <2>1. UNCHANGED th
    BY <1>7 DEF Scans, ScanOf
  <2>2. \A r \in Stayed' : Hops(r) > Hops(s) => Hops(r) > Hops(n)
    <3> SUFFICES ASSUME NEW r \in Stayed', Hops(r) > Hops(s) PROVE Hops(r) > Hops(n)
      OBVIOUS
    <3>1. r \in Stayed /\ r \in up /\ r \in Server /\ r # n
      BY <1>2, <1>7 DEF Stayed, TypeOK
    <3>2. Hops(r) > Hops(x)
      BY <3>1 DEF Scans, ScanInv
    <3>3. /\ Hops(r) \in 0 .. N - 1 /\ Hops(x) \in 0 .. N - 1 /\ Hops(n) # Hops(r)
          /\ Hops(n) \in 0 .. N - 1 /\ Hops(Primary) = 0
      BY <1>1, <3>1, HopsFacts, Constants
    <3>4. n # Primary /\ Hops(n) = Hops(x) + 1
      BY <1>1, <3>2, <3>3, HopsFacts, Constants
    <3> QED BY <3>2, <3>3, <3>4
  <2>3. ScansOf(s)'
    BY <1>1, <1>2, <1>5, <2>1, <2>2 DEF ScansOf
  <2> QED BY <1>4, <2>3 DEF ScanInv, ScansOf
<1> QED BY <1>6, <1>7

LEMMA ScanNext ==
    ASSUME TypeOK, SoundInv, ScanInv, [Next]_vars, "raced" \notin spoiled'
    PROVE  ScanInv'
<1>1. Lasting
    BY StepLasting
<1>2. Idle.pc \notin {"advance", "write"} /\ Idle.conn \notin Server
    BY IdleState, Constants
<1>3. CASE UNCHANGED <<up, joined, th, nextIndex>>
    BY <1>3 DEF ScanInv, Scanning, Stayed
<1>4. ASSUME NEW s \in Server, Ends(s) PROVE ScanInv'
  <2>1. \A r \in Server \ {s} : /\ Scanning(r)' = Scanning(r) /\ nextIndex'[r] = nextIndex[r]
                                /\ \A t \in Thread : /\ th'[r][t].pc = th[r][t].pc
                                                     /\ th'[r][t].conn \in {th[r][t].conn, Gone}
    BY <1>4 DEF Ends, Scanning
  <2>2. \A r \in Server \ {s} : ScansOf(r)'
    BY <1>1, <2>1, Constants DEF ScansOf, ScanInv, Lasting
  <2>3. ScansOf(s)'
    BY <1>2, <1>4 DEF Ends, ScansOf, Scanning
  <2> QED BY <2>2, <2>3 DEF ScanInv, ScansOf
<1>5. ASSUME NEW s \in Server, Joins(s) PROVE ScanInv'
    BY <1>1, <1>5 DEF Joins, ScanInv, Scanning, Lasting
<1>6. ASSUME NEW n, Asks(n) PROVE ScanInv'
    BY <1>1, <1>6, ScanBegin, Constants DEF Asks
<1>7. ASSUME NEW s \in Server, NEW t \in Pool, NEW m \in net, Handles(s, t, m) PROVE ScanInv'
  <2>1. m.note \in Notes /\ t \in Thread /\ UNCHANGED <<up, joined>>
    BY <1>7, Constants DEF Handles
  <2>2. CASE Drops(s, m)
    BY <1>3, <2>1, <2>2 DEF Drops
  <2>3. CASE Counts(s, t, m.note)
    BY <1>1, <2>1, <2>3, ScanRest, Constants DEF Counts
  <2>4. CASE Applies(s, t, m.note)
    BY <1>1, <2>1, <2>4, ScanForward DEF Applies
  <2> QED BY <1>7, <2>2, <2>3, <2>4 DEF Handles
<1>8. ASSUME NEW s \in Server, NEW t \in Thread,
             Scans(s, t) \/ Writes(s, t) \/ Recounts(s, t)
      PROVE  ScanInv'
  <2>1. CASE Writes(s, t)
    BY <1>1, <2>1, ScanRest, SentState, Constants DEF Writes
  <2>2. CASE Recounts(s, t)
    <3>1. th[s][t].note \in Notes
      BY DEF TypeOK, State
    <3> QED BY <1>1, <2>2, <3>1, ScanForward DEF Recounts
  <2> QED BY <1>1, <1>8, <2>1, <2>2, ScanOn
<1>9. CASE WalkStep
  <2>1. CASE \E n \in Notes : /\ Whole(n) /\ n.data = 2 /\ Begins(Primary, "join", n)
                              /\ Met(Primary) \subseteq spoiled'
    BY <1>1, <2>1, ScanBegin, Constants
  <2>2. CASE \E w \in State : /\ w.pc \in {"idle", "walk"} /\ w.conn = Self
                              /\ ThreadIs(Primary, "join", w) /\ UNCHANGED nextIndex
    BY <1>1, <2>2, ScanRest, Constants
  <2> QED BY <1>9, <2>1, <2>2, IdleState DEF WalkStep, Walks
<1> QED BY <1>3, <1>4, <1>5, <1>6, <1>7, <1>8, <1>9, StepDoes DEF vars, histVars

\* Where a FOLLOW is that thread t of s, with record w, sends.
HasBeen(s, w) ==
    GoesAround(w.note) => /\ w.pc = "advance" => Replicated(w.note, Hops(s) + 1)
                          /\ w.conn \in Server => Replicated(w.note, Place(w.conn))

LEMMA ThreadHasBeen ==
    ASSUME Lasting, NEW s \in Server, NEW w, HasBeen(s, w), w.note = Blank \/ Whole(w.note)
    PROVE  GoesAround(w.note) => /\ w.pc = "advance" => Replicated(w.note, Hops(s) + 1)'
                                 /\ w.conn \in Server => Replicated(w.note, Place(w.conn))'
<1> SUFFICES ASSUME GoesAround(w.note)
             PROVE  /\ w.pc = "advance" => Replicated(w.note, Hops(s) + 1)'
                    /\ w.conn \in Server => Replicated(w.note, Place(w.conn))'
    OBVIOUS
<1>1. w.note.author \in User /\ w.note.target \in User
    BY IdleState DEF GoesAround, Whole
<1> QED BY <1>1, ReplicatedStays DEF HasBeen

\* It is enough to look at the thread that moves, and at what it writes or has answered.
LEMMA RoundThreads ==
    ASSUME SoundInv, RoundInv, Lasting, NEW s \in Server, NEW t \in Thread,
           \A r \in Server, j \in Thread : r # s \/ j # t => th'[r][j] = th[r][j],
           HasBeen(s, th[s][t])',
           \A m \in net' \ net : GoesAround(m.note) => Replicated(m.note, Place(m.to))',
           \A n \in answered' \ answered :
              n.command = "FOLLOW" /\ Whole(n) /\ Replicated(n, N)'
    PROVE  RoundInv'
<1>1. \A m \in net' : GoesAround(m.note) => Replicated(m.note, Place(m.to))'
  <2> SUFFICES ASSUME NEW m \in net, GoesAround(m.note)
               PROVE  Replicated(m.note, Place(m.to))'
    OBVIOUS
  <2>1. m.note.author \in User /\ m.note.target \in User
    BY DEF SoundInv, Whole, GoesAround
  <2> QED BY <2>1, ReplicatedStays DEF RoundInv
<1>2. \A n \in answered' : n.command = "FOLLOW" /\ Whole(n) /\ Replicated(n, N)'
  <2> SUFFICES ASSUME NEW n \in answered
               PROVE  n.command = "FOLLOW" /\ Whole(n) /\ Replicated(n, N)'
    OBVIOUS
  <2>1. n.command = "FOLLOW" /\ Whole(n) /\ Replicated(n, N)
    BY DEF RoundInv
  <2> QED BY <2>1, ReplicatedStays DEF Whole
<1>3. \A r \in Server, j \in Thread : r # s \/ j # t => HasBeen(r, th[r][j])'
  <2> SUFFICES ASSUME NEW r \in Server, NEW j \in Thread, r # s \/ j # t
               PROVE  HasBeen(r, th[r][j])'
    OBVIOUS
  <2>1. HasBeen(r, th[r][j]) /\ (th[r][j].note = Blank \/ Whole(th[r][j].note))
    BY DEF HasBeen, RoundInv, SoundInv
  <2> QED BY <2>1, ThreadHasBeen DEF HasBeen
<1>4. \A r \in Server, j \in Thread : HasBeen(r, th[r][j])'
    BY <1>3
<1> QED BY <1>1, <1>2, <1>4 DEF RoundInv, HasBeen

LEMMA NothingSent ==
    ASSUME NEW s \in Server, th'[s] \in [Thread -> State], NEW t \in Thread,
           \/ th'[s][t].note = Blank \/ th'[s][t].note.data = 2
           \/ th'[s][t].pc = "count" /\ th'[s][t].conn = Self
    PROVE  HasBeen(s, th[s][t])'
    BY IdleState, Constants DEF HasBeen, GoesAround

LEMMA RoundForward ==
    ASSUME SoundInv, RoundInv, Lasting, NEW s \in Server, NEW t \in Thread, NEW n \in Notes,
           Forwards(s, t, n), n.command = "FOLLOW" => Replicated(n, Hops(s) + 1)',
           net' \subseteq net, UNCHANGED answered
    PROVE  RoundInv'
<1>1. HasBeen(s, th[s][t])'
  <2>1. CASE Begins(s, t, n)
    <3>1. th'[s][t] = Begun(n)
      BY <2>1 DEF Begins, ThreadIs
    <3> QED BY <3>1, BegunState, Constants DEF HasBeen, GoesAround
  <2>2. CASE ThreadIs(s, t, Idle)
    BY <2>2, IdleState, Constants DEF ThreadIs, HasBeen, GoesAround
  <2> QED BY <2>1, <2>2 DEF Forwards
<1>2. \A r \in Server, j \in Thread : r # s \/ j # t => th'[r][j] = th[r][j]
    BY DEF Forwards, Begins, ThreadIs
<1> QED BY <1>1, <1>2, RoundThreads

\* Having applied a FOLLOW, the server s is one more that has the follower.
LEMMA OneMoreReplica ==
    ASSUME TypeOK, Lasting, NEW s \in Server, NEW n \in Notes, Whole(n), n.command = "FOLLOW",
           Replicated(n, Place(s)) \/ s = Primary, Tables(s, n)
    PROVE  Replicated(n, Hops(s) + 1)'
<1> SUFFICES ASSUME NEW r \in Stayed', Hops(r) < Hops(s) + 1
             PROVE  Contains(followers'[r][n.target], n.author)
    BY DEF Replicated
<1>1. n.author \in User /\ n.target \in User /\ r \in Stayed /\ r \in Server
    BY DEF Whole, Lasting
<1>2. CASE r = s
    BY <1>1, <1>2 DEF Tables
<1>3. CASE r # s
  <2>1. Hops(r) < Hops(s) /\ Hops(s) # 0
    BY <1>1, <1>3, HopsFacts
  <2>2. Contains(followers[r][n.target], n.author)
    BY <1>1, <2>1, HopsFacts DEF Replicated, Place
  <2> QED BY <1>1, <2>2 DEF Lasting
<1> QED BY <1>2, <1>3

\* A scan passes nobody that was there all along.
LEMMA NobodyPassed ==
    ASSUME TypeOK, ScanInv, NEW s \in Server, NEW t \in Thread, th[s][t].pc = "advance",
           NEW r \in Stayed
    PROVE  LET n == NextIdx(nextIndex[s])
           IN  /\ Hops(r) < Place(n) => Hops(r) < Hops(s) + 1
               /\ Hops(r) > Hops(s) => n # Primary /\ Place(n) <= Hops(r)
<1> DEFINE x == nextIndex[s]
           n == NextIdx(x)
<1>1. x \in Server /\ n \in Server /\ r \in Server
    BY NextServer DEF TypeOK, Stayed
<1>2. Hops(r) > Hops(s) => Hops(r) > Hops(x)
    BY DEF ScanInv
<1>3. /\ Hops(r) \in 0 .. N - 1 /\ Hops(x) \in 0 .. N - 1 /\ Hops(s) \in 0 .. N - 1
      /\ IF n = Primary THEN Hops(x) = N - 1 ELSE Hops(n) = Hops(x) + 1
    BY <1>1, HopsFacts
<1> QED BY <1>2, <1>3, Constants DEF Place

LEMMA RoundSend ==
    ASSUME TypeOK, SoundInv, ScanInv, RoundInv, Lasting, NEW s \in Server, NEW t \in Thread,
           Scans(s, t) \/ Writes(s, t)
    PROVE  RoundInv'
<1>0. PICK o, n, c : o = th[s][t].note /\ n = NextIdx(nextIndex[s]) /\ c = th[s][t].conn
    OBVIOUS
<1>1. /\ \A r \in Server, j \in Thread : r # s \/ j # t => th'[r][j] = th[r][j]
      /\ UNCHANGED <<up, joined, answered>>
    BY DEF Scans, ScanOf, Writes, ThreadIs, RestStays
<1>2. o \in Notes /\ HasBeen(s, th[s][t]) /\ Whole(o) /\ (o.command = "FOLLOW" => o.target \in User)
      /\ o.author \in User
    BY <1>0 DEF Scans, Writes, SoundInv, Whole, TypeOK, State, RoundInv, HasBeen
<1>3. CASE Scans(s, t)
  <2>1. UNCHANGED net
    BY <1>3 DEF Scans
  <2>2. CASE UNCHANGED th
    <3>1. HasBeen(s, th[s][t])'
      <4>1. PICK w : w = th[s][t] /\ w = th'[s][t]
        BY <2>2
      <4>2. HasBeen(s, w) /\ Whole(w.note)
        BY <1>0, <1>2, <4>1
      <4> QED BY <4>1, <4>2, ThreadHasBeen DEF HasBeen
    <3> QED BY <1>1, <2>1, <3>1, RoundThreads
  <2>3. CASE ~UNCHANGED th
    <3>1. PICK w \in State : /\ w.pc = "write" /\ w.note = o
                             /\ w.conn = IF n = s THEN Self ELSE n
                             /\ ThreadIs(s, t, w)
      BY <1>0, <1>3, <2>3 DEF Scans, ScanOf
    <3>2. GoesAround(o) => Replicated(o, Place(n))
      BY <1>0, <1>2, <1>3, NobodyPassed DEF Scans, HasBeen, Replicated
    <3>3. GoesAround(o) => Replicated(o, Place(n))'
      BY <1>2, <3>2, ReplicatedStays DEF GoesAround
    <3>4. HasBeen(s, th[s][t])'
      BY <3>1, <3>3, Constants DEF ThreadIs, HasBeen
    <3> QED BY <1>1, <2>1, <3>4, RoundThreads
  <2> QED BY <2>2, <2>3
<1>4. CASE Writes(s, t)
  <2>1. HasBeen(s, th[s][t])'
    BY <1>4, SentState, IdleState, Constants DEF Writes, ThreadIs, HasBeen, GoesAround
  <2>2. CASE c = Gone
    BY <1>0, <1>1, <1>4, <2>1, <2>2, RoundThreads DEF Writes
  <2>3. CASE c # Gone
    <3>1. c \in Server
      BY <1>0, <1>4, <2>3, Constants DEF Writes, TypeOK, State
    <3>2. PICK m : Written(s, t, m) /\ net' = net \cup {[to |-> c, note |-> m]}
      BY <1>0, <1>4, <2>3 DEF Writes
    <3>3. GoesAround(m) => GoesAround(o)
      BY <1>0, <3>2 DEF Written, KeepReplicating, GoesAround
    <3>4. GoesAround(m) => Replicated(o, Place(c))'
      BY <1>0, <1>2, <3>1, <3>3, ReplicatedStays DEF HasBeen, GoesAround
    <3>5. GoesAround(m) => Replicated(m, Place(c))'
      BY <1>0, <3>2, <3>4 DEF Written, Replicated, GoesAround
    <3>6. \A i \in net' \ net : GoesAround(i.note) => Replicated(i.note, Place(i.to))'
      BY <3>2, <3>5
    <3> QED BY <1>1, <2>1, <3>6, RoundThreads
  <2> QED BY <2>2, <2>3
<1> QED BY <1>3, <1>4

LEMMA RoundNext ==
    ASSUME TypeOK, SoundInv, ScanInv, RoundInv, [Next]_vars
    PROVE  RoundInv'
<1>1. Lasting
    BY StepLasting
<1>2. CASE UNCHANGED vars
    BY <1>2 DEF vars, histVars, tableVars, RoundInv, Replicated, Stayed
<1>3. ASSUME NEW s \in Server, Joins(s) PROVE RoundInv'
  <2>1. HasBeen(s, th[s]["fe"])'
    BY <1>3, IdleState, Constants DEF Joins, SoundInv, HasBeen, GoesAround
  <2> QED BY <1>1, <1>3, <2>1, RoundThreads, Constants DEF Joins
<1>4. ASSUME NEW s \in Server, Ends(s) PROVE RoundInv'
  <2>1. \A r \in Server \ {s}, t \in Thread : HasBeen(r, th[r][t])'
    <3> SUFFICES ASSUME NEW r \in Server \ {s}, NEW t \in Thread
                 PROVE  HasBeen(r, th[r][t])'
      OBVIOUS
    <3>0. PICK w : w = th[r][t]
      OBVIOUS
    <3>1. th'[r][t].pc = w.pc /\ th'[r][t].note = w.note /\ th'[r][t].conn \in {w.conn, Gone}
      BY <1>4, <3>0 DEF Ends
    <3>2. HasBeen(r, w) /\ (w.note = Blank \/ Whole(w.note))
      BY <3>0 DEF HasBeen, RoundInv, SoundInv
    <3>3. GoesAround(w.note) => /\ w.pc = "advance" => Replicated(w.note, Hops(r) + 1)'
                                /\ w.conn \in Server => Replicated(w.note, Place(w.conn))'
      BY <1>1, <3>2, ThreadHasBeen
    <3> QED BY <3>1, <3>3, Constants DEF HasBeen
  <2>2. \A t \in Thread : HasBeen(s, th[s][t])'
    BY <1>4, IdleState DEF Ends, HasBeen, GoesAround
  <2>3. \A m \in net' : GoesAround(m.note) => Replicated(m.note, Place(m.to))'
    <3> SUFFICES ASSUME NEW m \in net, GoesAround(m.note)
                 PROVE  Replicated(m.note, Place(m.to))'
      BY <1>4 DEF Ends
    <3> QED BY <1>1, ReplicatedStays DEF SoundInv, Whole, GoesAround, RoundInv
  <2>4. \A n \in answered' : n.command = "FOLLOW" /\ Whole(n) /\ Replicated(n, N)'
    BY <1>1, <1>4, ReplicatedStays DEF Ends, RoundInv, Whole
  <2> QED BY <2>1, <2>2, <2>3, <2>4 DEF RoundInv, HasBeen
<1>5. ASSUME NEW n, Asks(n) PROVE RoundInv'
  <2>1. /\ n \in Notes /\ Whole(n) /\ n.data = 1 /\ Begins(Primary, "fe", n)
        /\ Tables(Primary, n) /\ UNCHANGED <<net, answered>>
    BY <1>5 DEF Asks
  <2>2. n.command = "FOLLOW" => Replicated(n, Hops(Primary) + 1)'
    BY <1>1, <2>1, OneMoreReplica, Constants
  <2>3. Forwards(Primary, "fe", n)
    BY <2>1 DEF Forwards
  <2> QED BY <1>1, <2>1, <2>2, <2>3, RoundForward, Constants
<1>6. ASSUME NEW s \in Server, NEW t \in Pool, NEW m \in net, Handles(s, t, m) PROVE RoundInv'
  <2>1. /\ m.note \in Notes /\ Whole(m.note) /\ m.to = s /\ t \in Thread
        /\ net' = net \ {m} /\ th[s][t] = Idle
    BY <1>6, Constants DEF Handles
  <2>2. GoesAround(m.note) => Replicated(m.note, Place(s))
    BY <2>1 DEF RoundInv
  <2>3. CASE Drops(s, m)
    <3>1. HasBeen(s, th[s][t])'
      BY <2>1, <2>3, IdleState DEF Drops, HasBeen, GoesAround
    <3>2. \A n \in answered' \ answered :
             n.command = "FOLLOW" /\ Whole(n) /\ Replicated(n, N)'
      <4> SUFFICES ASSUME NEW n \in answered' \ answered
                   PROVE  n.command = "FOLLOW" /\ Whole(n) /\ Replicated(n, N)'
        OBVIOUS
      <4>1. n = m.note /\ n.command = "FOLLOW" /\ n.data = 0 /\ s = Primary
        BY <2>3 DEF Drops
      <4>2. Replicated(n, N)
        BY <2>2, <4>1 DEF GoesAround, Place
      <4> QED BY <1>1, <2>1, <4>1, <4>2, ReplicatedStays DEF Whole
    <3> QED BY <1>1, <2>1, <2>3, <3>1, <3>2, RoundThreads DEF Drops
  <2>4. CASE Counts(s, t, m.note)
    <3>1. m.note.command # "FOLLOW" /\ th'[s][t].note = m.note /\ UNCHANGED answered
          /\ \A r \in Server, j \in Thread : r # s \/ j # t => th'[r][j] = th[r][j]
      BY <2>4 DEF Counts, ThreadIs
    <3>2. HasBeen(s, th[s][t])'
      BY <3>1 DEF HasBeen, GoesAround
    <3> QED BY <1>1, <2>1, <3>1, <3>2, RoundThreads
  <2>5. CASE Applies(s, t, m.note)
    <3>1. CASE m.note.data = 2
      <4>1. ThreadIs(s, t, Idle) /\ UNCHANGED answered
        BY <2>5, <3>1 DEF Applies, Forwards
      <4>2. HasBeen(s, th[s][t])'
        BY <4>1, IdleState DEF ThreadIs, HasBeen, GoesAround
      <4> QED BY <1>1, <2>1, <4>1, <4>2, RoundThreads DEF ThreadIs
    <3>2. CASE m.note.data # 2
      <4>1. m.note.command = "FOLLOW" => Replicated(m.note, Hops(s) + 1)'
        BY <1>1, <2>1, <2>2, <2>5, <3>2, OneMoreReplica DEF Applies, GoesAround
      <4> QED BY <1>1, <2>1, <2>5, <4>1, RoundForward DEF Applies
    <3> QED BY <3>1, <3>2
  <2> QED BY <1>6, <2>3, <2>4, <2>5 DEF Handles
<1>7. ASSUME NEW s \in Server, NEW t \in Thread,
             Scans(s, t) \/ Writes(s, t) \/ Recounts(s, t)
      PROVE  RoundInv'
  <2>1. CASE Recounts(s, t)
    <3>1. th[s][t].note \in Notes /\ th[s][t].note.command # "FOLLOW"
      BY <2>1 DEF Recounts, SoundInv, TypeOK, State
    <3> QED BY <1>1, <2>1, <3>1, RoundForward DEF Recounts
  <2> QED BY <1>1, <1>7, <2>1, RoundSend
<1>8. CASE WalkStep
  <2>1. /\ \A r \in Server, j \in Thread : r # Primary \/ j # "join" => th'[r][j] = th[r][j]
        /\ th'[Primary]["join"].note = Blank \/ th'[Primary]["join"].note.data = 2
        /\ UNCHANGED <<net, answered>>
    BY <1>8, BegunState, IdleState DEF WalkStep, Walks, Begins, ThreadIs
  <2>2. HasBeen(Primary, th[Primary]["join"])'
    BY <2>1, IdleState DEF HasBeen, GoesAround
  <2> QED BY <1>1, <2>1, <2>2, RoundThreads, Constants
<1> QED BY <1>2, <1>3, <1>4, <1>5, <1>6, <1>7, <1>8, StepDoes

-----------------------------------------------------------------------------
(* On its way until it is answered.                                         *)

\* LastHop, but for the connections to a server that has ended.
Hopping ==
    /\ \A m \in net : IF m.to = Primary THEN m.note.data = 0 ELSE m.note.data # 0
    /\ \A s \in Server, t \in Thread :
          LET w == th[s][t] IN
          /\ w.pc \in {"advance", "write", "count"} => w.note.data # 0
          /\ w.note.data = 2 /\ w.pc \in {"advance", "write"} => s = Primary

LEMMA HoppingNext ==
    ASSUME TypeOK, SoundInv, ScanInv, Hopping, [Next]_vars
    PROVE  Hopping'
<1> DEFINE Hop(s, w) == /\ w.pc \in {"advance", "write", "count"} => w.note.data # 0
                        /\ w.note.data = 2 /\ w.pc \in {"advance", "write"} => s = Primary
           Told(m) == IF m.to = Primary THEN m.note.data = 0 ELSE m.note.data # 0
<1>1. /\ \A m \in net : Told(m)
      /\ \A s \in Server, t \in Thread : Hop(s, th[s][t])
    BY DEF Hopping
<1>2. ASSUME \A m \in net' : Told(m), \A s \in Server, t \in Thread : Hop(s, th'[s][t])
      PROVE  Hopping'
    BY <1>2 DEF Hopping
<1>3. \A s \in Server : Hop(s, Idle)
    BY IdleState
<1>4. \A s \in Server, n \in Notes : n.data = 1 \/ (n.data = 2 /\ s = Primary) => Hop(s, Begun(n))
    BY BegunState
<1>5. ASSUME NEW s \in Server, NEW t \in Thread, NEW w \in State, ThreadIs(s, t, w), Hop(s, w),
             \A m \in net' : Told(m)
      PROVE  Hopping'
    BY <1>1, <1>2, <1>5 DEF ThreadIs
<1>6. ASSUME NEW s \in Server, NEW t \in Thread, NEW n \in Notes, Forwards(s, t, n),
             \A m \in net' : Told(m)
      PROVE  Hopping'
    BY <1>3, <1>4, <1>5, <1>6, BegunState, IdleState DEF Forwards, Begins
<1>7. CASE UNCHANGED <<th, net>>
    BY <1>1, <1>2, <1>7
<1>8. ASSUME NEW n, Asks(n) PROVE Hopping'
    BY <1>1, <1>4, <1>5, <1>8, BegunState, Constants DEF Asks, Begins
<1>9. ASSUME NEW s \in Server, NEW t \in Pool, NEW m \in net, Handles(s, t, m) PROVE Hopping'
  <2>1. /\ m.note \in Notes /\ t \in Thread /\ Told(m) /\ m.to = s
        /\ \A i \in net' : Told(i)
    BY <1>1, <1>9, Constants DEF Handles
  <2>2. CASE Drops(s, m)
    BY <1>1, <1>2, <2>1, <2>2 DEF Drops
  <2>3. CASE Counts(s, t, m.note)
    <3>1. PICK w \in State : /\ w.pc = "count" /\ w.note = m.note /\ w.conn = Self
                             /\ ThreadIs(s, t, w) /\ s # Primary
      BY <2>3 DEF Counts
    <3>2. Hop(s, w)
      BY <2>1, <3>1
    <3> QED BY <1>5, <2>1, <3>1, <3>2
  <2>4. CASE Applies(s, t, m.note)
    BY <1>6, <2>1, <2>4 DEF Applies
  <2> QED BY <1>9, <2>2, <2>3, <2>4 DEF Handles
<1>10. ASSUME NEW s \in Server, NEW t \in Thread, Scans(s, t) PROVE Hopping'
  <2>1. CASE UNCHANGED th
    BY <1>7, <1>10, <2>1 DEF Scans
  <2>2. CASE ~UNCHANGED th
    <3>1. PICK w \in State : w.pc = "write" /\ w.note = th[s][t].note /\ ThreadIs(s, t, w)
      BY <1>10, <2>2 DEF Scans, ScanOf
    <3>2. Hop(s, w)
      BY <1>1, <1>10, <3>1 DEF Scans
    <3> QED BY <1>1, <1>5, <1>10, <3>1, <3>2 DEF Scans
  <2> QED BY <2>1, <2>2
<1>11. ASSUME NEW s \in Server, NEW t \in Thread, Writes(s, t) PROVE Hopping'
  <2> DEFINE c == th[s][t].conn
             o == th[s][t].note
  <2>1. \A m \in net' : Told(m)
    <3>1. CASE c = Gone
      BY <1>1, <1>11, <3>1 DEF Writes
    <3>2. CASE c # Gone
      <4>1. /\ th[s][t].pc = "write" /\ c # Self /\ Hop(s, th[s][t])
            /\ o \in Notes /\ c \in 0 .. Gone
        BY <1>1, <1>11 DEF Writes, TypeOK, State
      <4>2. c \in Server /\ c # s /\ nextIndex[s] = c
        BY <3>2, <4>1, Constants DEF SoundInv, ScanInv
      <4>3. PICK n : Written(s, t, n) /\ net' = net \cup {[to |-> c, note |-> n]}
        BY <1>11, <3>2 DEF Writes
      <4>4. IF c = Primary THEN n.data = 0 ELSE n.data # 0
        BY <4>1, <4>2, <4>3 DEF Written, KeepReplicating
      <4> QED BY <1>1, <4>3, <4>4
    <3> QED BY <3>1, <3>2
  <2>2. Hop(s, Sent(t)) /\ Sent(t) \in State
    BY SentState, IdleState
  <2> QED BY <1>5, <1>11, <2>1, <2>2 DEF Writes
<1>12. ASSUME NEW s \in Server, NEW t \in Thread, Recounts(s, t) PROVE Hopping'
  <2>1. th[s][t].note \in Notes
    BY DEF TypeOK, State
  <2> QED BY <1>1, <1>6, <1>12, <2>1 DEF Recounts
<1>13. CASE WalkStep
    BY <1>1, <1>3, <1>4, <1>5, <1>13, BegunState, IdleState, Constants
       DEF WalkStep, Walks, Begins
<1>14. ASSUME NEW s \in Server, Ends(s) PROVE Hopping'
  <2>1. \A r \in Server, t \in Thread : Hop(r, th'[r][t])
    BY <1>1, <1>3, <1>14 DEF Ends
  <2> QED BY <1>1, <1>2, <1>14, <2>1 DEF Ends
<1> QED BY <1>7, <1>8, <1>9, <1>10, <1>11, <1>12, <1>13, <1>14, StepDoes DEF vars, Joins

LEMMA LastHopNext ==
    ASSUME TypeOK, SoundInv, ScanInv, LastHop, [Next]_vars, spoiled' \cap {"died", "killed"} = {}
    PROVE  LastHop'
<1>1. Hopping /\ \A s \in Server, t \in Thread : th[s][t].conn # Gone
    BY DEF LastHop, Hopping
<1>2. ASSUME NEW s \in Server, NEW t \in Thread, NEW w, ThreadIs(s, t, w), w.conn # Gone
      PROVE  \A r \in Server, j \in Thread : th'[r][j].conn # Gone
    BY <1>1, <1>2 DEF ThreadIs
<1>3. Idle.conn # Gone /\ \A n \in Notes : Begun(n).conn # Gone
    BY IdleState, BegunState, Constants
<1>4. ASSUME NEW s \in Server, NEW t \in Thread, NEW n \in Notes, Forwards(s, t, n)
      PROVE  \A r \in Server, j \in Thread : th'[r][j].conn # Gone
    BY <1>2, <1>3, <1>4 DEF Forwards, Begins
<1>5. ASSUME NEW n, Asks(n) PROVE \A r \in Server, j \in Thread : th'[r][j].conn # Gone
    BY <1>2, <1>3, <1>5, Constants DEF Asks, Begins
<1>6. ASSUME NEW s \in Server, NEW t \in Pool, NEW m \in net, Handles(s, t, m)
      PROVE  \A r \in Server, j \in Thread : th'[r][j].conn # Gone
    BY <1>1, <1>2, <1>4, <1>6, Constants DEF Handles, Drops, Counts, Applies
<1>7. ASSUME NEW s \in Server, NEW t \in Thread, Scans(s, t)
      PROVE  \A r \in Server, j \in Thread : th'[r][j].conn # Gone
    BY <1>1, <1>2, <1>7, Constants DEF Scans, ScanOf
<1>8. ASSUME NEW s \in Server, NEW t \in Thread, Writes(s, t)
      PROVE  \A r \in Server, j \in Thread : th'[r][j].conn # Gone
    BY <1>2, <1>8, SentState, Constants DEF Writes
<1>9. ASSUME NEW s \in Server, NEW t \in Thread, Recounts(s, t)
      PROVE  \A r \in Server, j \in Thread : th'[r][j].conn # Gone
  <2>1. th[s][t].note \in Notes
    BY DEF TypeOK, State
  <2> QED BY <1>4, <1>9, <2>1 DEF Recounts
<1>10. ASSUME WalkStep PROVE \A r \in Server, j \in Thread : th'[r][j].conn # Gone
  <2>1. \E w : ThreadIs(Primary, "join", w) /\ w.conn # Gone
    BY <1>3, <1>10, Constants DEF WalkStep, Walks, Begins
  <2> QED BY <1>2, <2>1, Constants
<1>11. \A s \in Server : ~Ends(s)
    BY DEF Ends
<1>12. ASSUME UNCHANGED th PROVE \A r \in Server, j \in Thread : th'[r][j].conn # Gone
    BY <1>1, <1>12
<1>13. \A r \in Server, j \in Thread : th'[r][j].conn # Gone
    BY <1>5, <1>6, <1>7, <1>8, <1>9, <1>10, <1>11, <1>12, StepDoes DEF vars, Joins
<1>14. Hopping'
    BY <1>1, HoppingNext
<1> QED BY <1>13, <1>14 DEF LastHop, Hopping

Carries(n, u, v) == GoesAround(n) /\ n.author = u /\ n.target = v

Answered(u, v) == \E n \in answered : n.author = u /\ n.target = v

LEMMA CarriedOn ==
    ASSUME TypeOK, SoundInv, LastHop, [Next]_vars, spoiled' \cap {"died", "killed"} = {},
           NEW u, NEW v, OnItsWay(u, v) \/ Answered(u, v)
    PROVE  OnItsWay(u, v)' \/ Answered(u, v)'
<1>1. /\ OnItsWay(u, v) <=> \/ \E m \in net : Carries(m.note, u, v)
                            \/ \E s \in up, t \in Thread : Carries(th[s][t].note, u, v)
      /\ OnItsWay(u, v)' <=> \/ \E m \in net' : Carries(m.note, u, v)
                             \/ \E s \in up', t \in Thread : Carries(th'[s][t].note, u, v)
    BY DEF OnItsWay, Carries, GoesAround
<1>2. ~Carries(Blank, u, v) /\ Idle.note = Blank /\ up \subseteq Server
    BY IdleState DEF Carries, GoesAround, TypeOK
<1>3. ASSUME NEW s \in Server, NEW t \in Thread, NEW w, ThreadIs(s, t, w),
             ~Carries(th[s][t].note, u, v), net \subseteq net', UNCHANGED <<up, answered>>
      PROVE  OnItsWay(u, v)' \/ Answered(u, v)'
    BY <1>1, <1>2, <1>3 DEF ThreadIs, Answered
<1>4. CASE UNCHANGED <<th, net, answered>> /\ up \subseteq up'
    BY <1>1, <1>4 DEF Answered
<1>5. ASSUME NEW n, Asks(n) PROVE OnItsWay(u, v)' \/ Answered(u, v)'
    BY <1>2, <1>3, <1>5, Constants DEF Asks, Begins
<1>6. ASSUME NEW s \in Server, NEW t \in Pool, NEW m \in net, Handles(s, t, m)
      PROVE  OnItsWay(u, v)' \/ Answered(u, v)'
  <2>1. /\ t \in Thread /\ m.note \in Notes /\ m.to = s /\ s \in up /\ th[s][t] = Idle
        /\ net' = net \ {m} /\ UNCHANGED up
        /\ IF s = Primary THEN m.note.data = 0 ELSE m.note.data # 0
    BY <1>6, Constants DEF Handles, LastHop
  <2>2. answered \subseteq answered'
    BY <1>6 DEF Handles, Drops, Counts, Applies
  <2>3. \A r \in Server, j \in Thread : r # s \/ j # t => th'[r][j] = th[r][j]
    BY <1>6 DEF Handles, Drops, Counts, Applies, Forwards, Begins, ThreadIs
  <2>4. CASE Carries(m.note, u, v)
    <3>1. CASE Drops(s, m)
      BY <2>1, <2>4, <3>1 DEF Drops, Carries, GoesAround, Answered
    <3>2. CASE Counts(s, t, m.note)
      BY <2>4, <3>2 DEF Counts, Carries, GoesAround
    <3>3. CASE Applies(s, t, m.note)
      <4>1. m.note.data = 1
        BY <2>1, <2>4, <3>3 DEF Applies, Carries, GoesAround, Notes
      <4>2. th'[s][t] = Begun(m.note)
        BY <3>3, <4>1 DEF Applies, Forwards, Begins, ThreadIs
      <4> QED BY <1>1, <2>1, <2>4, <4>2, BegunState
    <3> QED BY <1>6, <3>1, <3>2, <3>3 DEF Handles
  <2>5. CASE ~Carries(m.note, u, v)
    <3>1. CASE \E i \in net : Carries(i.note, u, v)
      BY <1>1, <2>1, <2>5, <3>1
    <3>2. CASE \E r \in up, j \in Thread : Carries(th[r][j].note, u, v)
      BY <1>1, <1>2, <2>1, <2>3, <3>2
    <3>3. CASE Answered(u, v)
      BY <2>2, <3>3 DEF Answered
    <3> QED BY <1>1, <3>1, <3>2, <3>3
  <2> QED BY <2>4, <2>5
<1>7. ASSUME NEW s \in Server, NEW t \in Thread, Scans(s, t)
      PROVE  OnItsWay(u, v)' \/ Answered(u, v)'
  <2>1. /\ UNCHANGED <<net, up, answered>>
        /\ \A r \in Server, j \in Thread : th'[r][j].note = th[r][j].note
    BY <1>7 DEF Scans, ScanOf, RestStays, ThreadIs
  <2> QED BY <1>1, <1>2, <2>1 DEF Answered
<1>8. ASSUME NEW s \in Server, NEW t \in Thread, Writes(s, t)
      PROVE  OnItsWay(u, v)' \/ Answered(u, v)'
  <2>1. th[s][t].conn # Gone /\ UNCHANGED <<up, answered>> /\ ThreadIs(s, t, Sent(t))
    BY <1>8 DEF Writes, LastHop, RestStays
  <2>2. PICK n : Written(s, t, n) /\ net' = net \cup {[to |-> th[s][t].conn, note |-> n]}
    BY <1>8, <2>1 DEF Writes
  <2>3. CASE Carries(th[s][t].note, u, v)
    <3>1. Carries(n, u, v)
      BY <2>2, <2>3 DEF Written, KeepReplicating, Carries, GoesAround
    <3> DEFINE m == [to |-> th[s][t].conn, note |-> n]
    <3>2. m \in net' /\ m.note = n
      BY <2>2
    <3> HIDE DEF m
    <3> QED BY <1>1, <3>1, <3>2
  <2>4. CASE ~Carries(th[s][t].note, u, v)
    BY <1>3, <2>1, <2>2, <2>4
  <2> QED BY <2>3, <2>4
<1>9. ASSUME NEW s \in Server, NEW t \in Thread, Recounts(s, t)
      PROVE  OnItsWay(u, v)' \/ Answered(u, v)'
  <2>1. ~Carries(th[s][t].note, u, v)
    BY <1>9 DEF Recounts, SoundInv, Carries, GoesAround
  <2> QED BY <1>3, <1>9, <2>1 DEF Recounts, Forwards, Begins
<1>10. CASE WalkStep
  <2>1. ~Carries(th[Primary]["join"].note, u, v)
    BY <1>2, <1>10, Constants DEF WalkStep, SoundInv
  <2> QED BY <1>3, <1>10, <2>1, Constants DEF WalkStep, Walks, Begins
<1>11. \A s \in Server : ~Ends(s)
    BY DEF Ends
<1> QED BY <1>4, <1>5, <1>6, <1>7, <1>8, <1>9, <1>10, <1>11, StepDoes DEF vars, histVars, Joins

\* A new follower has just been asked for, at the primary.
LEMMA FollowersAsked ==
    ASSUME TypeOK, SoundInv, LastHop, [Next]_vars, spoiled' \cap {"died", "killed"} = {},
           NEW u \in User, NEW v \in User, Contains(followers'[Primary][v], u)
    PROVE  Contains(followers[Primary][v], u) \/ OnItsWay(u, v)'
<1>1. CASE TablesStay
    BY <1>1, Constants DEF TablesStay
<1>2. ASSUME NEW s \in Server \ {Primary}, NEW n, Tables(s, n)
      PROVE  Contains(followers[Primary][v], u)
    BY <1>2, Constants DEF Tables
<1>3. ASSUME NEW n, Asks(n) PROVE Contains(followers[Primary][v], u) \/ OnItsWay(u, v)'
  <2>1. CASE n.command = "FOLLOW" /\ u = n.author /\ v = n.target
    <3>1. th'[Primary]["fe"] = Begun(n) /\ Primary \in up' /\ n.data = 1 /\ n \in Notes
      BY <1>3, Constants DEF Asks, Begins, ThreadIs
    <3> QED BY <2>1, <3>1, BegunState, Constants DEF OnItsWay, GoesAround
  <2>2. CASE ~(n.command = "FOLLOW" /\ u = n.author /\ v = n.target)
    BY <1>3, <2>2, Constants DEF Asks, Tables
  <2> QED BY <2>1, <2>2
<1>4. ASSUME NEW s \in Server, NEW t \in Pool, NEW m \in net, Handles(s, t, m)
      PROVE  Contains(followers[Primary][v], u) \/ OnItsWay(u, v)'
  <2>1. CASE Drops(s, m) \/ Counts(s, t, m.note)
    BY <1>1, <2>1 DEF Drops, Counts
  <2>2. CASE Applies(s, t, m.note)
    <3>1. m.to = s /\ (s = Primary => m.note.data = 0) /\ Whole(m.note)
      BY <1>4 DEF Handles, LastHop
    <3>2. s # Primary \/ m.note.command \notin {"LOGIN", "LOGOUT", "FOLLOW"}
      BY <2>2, <3>1 DEF Applies
    <3>3. s # Primary
      BY <3>1, <3>2 DEF Whole, Command
    <3> QED BY <1>2, <2>2, <3>3 DEF Applies
  <2> QED BY <1>4, <2>1, <2>2 DEF Handles
<1>5. ASSUME NEW s \in Server, NEW t \in Thread, Scans(s, t) \/ Writes(s, t) \/ Recounts(s, t)
      PROVE  Contains(followers[Primary][v], u)
    BY <1>1, <1>5, Constants DEF Scans, Writes, Recounts, RestStays, TablesStay
<1>6. \A s \in Server : ~Ends(s)
    BY DEF Ends
<1> QED BY <1>1, <1>3, <1>4, <1>5, <1>6, StepDoes
       DEF vars, tableVars, Joins, WalkStep, TablesStay

AnswersPending == \A u, v \in User : Contains(followers[Primary][v], u) =>
                      OnItsWay(u, v) \/ Answered(u, v)

LEMMA AnswerNext ==
    ASSUME TypeOK, SoundInv, ScanInv, AnswerInv, [Next]_vars,
           spoiled' \cap {"died", "killed"} = {}
    PROVE  AnswerInv'
<1>1. LastHop /\ AnswersPending
    BY DEF AnswerInv, AnswersPending, Answered
<1>2. LastHop'
    BY <1>1, LastHopNext
<1>3. AnswersPending'
    BY <1>1, FollowersAsked, CarriedOn DEF AnswersPending
<1> QED BY <1>2, <1>3 DEF AnswerInv, AnswersPending, Answered

-----------------------------------------------------------------------------
(* Whom a FOLLOW names is known, or on its way.                             *)

Knows(s, user, id) == user \in known[s] \/ Coming(s, user, id)

\* No table is being sent to a server that joined.
NoWalk ==
    /\ \A s \in Server : th[s]["join"] = Idle /\ \A t \in Thread : th[s][t].note.data # 2
    /\ \A m \in net : m.note.data # 2

Older(n, user, id) == n.command = "LOGIN" /\ n.author = user /\ n.id < id

ComingBy(r, w, s, user, id) ==
    /\ Older(w.note, user, id) /\ Hops(r) < Hops(s)
    /\ w.conn \in Server => Place(w.conn) <= Hops(s)

LEMMA ComingWays ==
    ASSUME NEW s, NEW user, NEW id
    PROVE  /\ Coming(s, user, id) <=>
                 \/ \E m \in net : Older(m.note, user, id) /\ Place(m.to) <= Hops(s)
                 \/ \E r \in up, t \in Thread : ComingBy(r, th[r][t], s, user, id)
           /\ Coming(s, user, id)' <=>
                 \/ \E m \in net' : Older(m.note, user, id) /\ Place(m.to) <= Hops(s)
                 \/ \E r \in up', t \in Thread : ComingBy(r, th'[r][t], s, user, id)
    BY DEF Coming, Older, ComingBy

\* All that happens while no server comes or goes.
SettledStep ==
    \/ \E n : Asks(n)
    \/ \E s \in Server, t \in Pool, m \in net : Handles(s, t, m)
    \/ \E s \in Server, t \in Thread : Scans(s, t) \/ Writes(s, t) \/ Recounts(s, t)

LEMMA NobodyJoined ==
    ASSUME TypeOK, SoundInv, [Next]_vars, spoiled' \cap {"died", "killed"} = {}, joined' = {}
    PROVE  joined = {}
<1>1. \A s \in Server : ~Ends(s) /\ ~Joins(s)
    BY DEF Ends, Joins
<1> QED BY <1>1, StepDoes DEF vars, histVars, Asks, Handles, Scans, Writes, Recounts, RestStays,
           WalkStep

LEMMA SettledDoes ==
    ASSUME TypeOK, SoundInv, NoWalk, [Next]_vars, spoiled' \cap {"died", "killed"} = {},
           joined' = {}
    PROVE  UNCHANGED vars \/ SettledStep
<1>1. \A s \in Server : ~Ends(s) /\ ~Joins(s)
    BY DEF Ends, Joins
<1>2. joined = {} => ~WalkStep
    BY IdleState, Constants DEF WalkStep, NoWalk
<1> QED BY <1>1, <1>2, NobodyJoined, StepDoes DEF SettledStep

LEMMA KnowsStays ==
    ASSUME TypeOK, SoundInv, ScanInv, LastHop, NoWalk, joined = {}, SettledStep,
           NEW s \in up, NEW user, NEW id, Knows(s, user, id)
    PROVE  Knows(s, user, id)' /\ s \in up'
<1> DEFINE Goal == Knows(s, user, id)' /\ s \in up'
<1>1. s \in Server /\ up \subseteq Server /\ s \in Stayed
    BY DEF TypeOK, Stayed
<1>2. Idle.note = Blank /\ ~Older(Blank, user, id)
    BY IdleState DEF Older
<1>3. ASSUME UNCHANGED up, known[s] \subseteq known'[s],
             NEW r \in Server, NEW j \in Thread,
             \A q \in Server, i \in Thread : q # r \/ i # j => th'[q][i] = th[q][i],
             ComingBy(r, th[r][j], s, user, id) =>
                \/ ComingBy(r, th'[r][j], s, user, id)
                \/ \E m \in net' : Older(m.note, user, id) /\ Place(m.to) <= Hops(s),
             \A m \in net \ net' : Older(m.note, user, id) /\ Place(m.to) <= Hops(s) =>
                Knows(s, user, id)'
      PROVE  Goal
  <2>1. CASE user \in known[s]
    BY <1>3, <2>1 DEF Knows
  <2>2. CASE \E m \in net : Older(m.note, user, id) /\ Place(m.to) <= Hops(s)
    BY <1>3, <2>2, ComingWays DEF Knows
  <2>3. ASSUME NEW q \in up, NEW i \in Thread, ComingBy(q, th[q][i], s, user, id) PROVE Goal
    <3>1. q \in Server /\ q \in up'
      BY <1>1, <1>3
    <3>2. CASE q = r /\ i = j
      BY <1>3, <2>3, <3>1, <3>2, ComingWays DEF Knows
    <3>3. CASE q # r \/ i # j
      BY <1>3, <2>3, <3>1, <3>3, ComingWays DEF Knows
    <3> QED BY <3>2, <3>3
  <2> QED BY <2>1, <2>2, <2>3, ComingWays DEF Knows
<1>4. ASSUME NEW n, Asks(n) PROVE Goal
  <2>1. ~ComingBy(Primary, th[Primary]["fe"], s, user, id)
    BY <1>2, <1>4 DEF Asks, ComingBy
  <2>2. known[s] \subseteq known'[s] /\ UNCHANGED <<up, net>>
    BY <1>1, <1>4 DEF Asks, Tables
  <2>3. \A q \in Server, i \in Thread : q # Primary \/ i # "fe" => th'[q][i] = th[q][i]
    BY <1>4 DEF Asks, Begins, ThreadIs
  <2> QED BY <1>3, <2>1, <2>2, <2>3, Constants
<1>5. ASSUME NEW r \in Server, NEW t \in Pool, NEW m \in net, Handles(r, t, m) PROVE Goal
  <2>1. /\ t \in Thread /\ m.note \in Notes /\ m.to = r /\ r \in up /\ th[r][t] = Idle
        /\ net' = net \ {m} /\ UNCHANGED up
    BY <1>5, Constants DEF Handles
  <2>2. ~ComingBy(r, th[r][t], s, user, id)
    BY <1>2, <2>1 DEF ComingBy
  <2>3. known[s] \subseteq known'[s]
    BY <1>1, <1>5 DEF Handles, Drops, Counts, Applies, TablesStay, Tables
  <2>4. \A q \in Server, i \in Thread : q # r \/ i # t => th'[q][i] = th[q][i]
    BY <1>5 DEF Handles, Drops, Counts, Applies, Forwards, Begins, ThreadIs
  <2>5. ASSUME Older(m.note, user, id), Place(r) <= Hops(s) PROVE Knows(s, user, id)'
    <3>1. r # Primary /\ Place(r) = Hops(r) /\ (Hops(r) = Hops(s) => r = s) /\ Hops(r) <= Hops(s)
      BY <1>1, <2>1, <2>5, HopsFacts, Constants DEF Place
    <3>2. m.note.data = 1 /\ m.note.command = "LOGIN" /\ m.note.author = user
      BY <2>1, <2>5, <3>1 DEF LastHop, NoWalk, Notes, Older
    <3>3. ASSUME user \in known'[r], th'[r][t].note = m.note, th'[r][t].conn = Self
          PROVE  Knows(s, user, id)'
      <4>1. CASE r = s
        BY <3>3, <4>1 DEF Knows
      <4>2. CASE r # s
        <5>1. Hops(r) < Hops(s)
          BY <1>1, <3>1, <4>2, HopsFacts
        <5>2. ComingBy(r, th'[r][t], s, user, id)
          BY <2>5, <3>3, <5>1, Constants DEF ComingBy
        <5> QED BY <2>1, <5>2, ComingWays DEF Knows
      <4> QED BY <4>1, <4>2
    <3>4. CASE Drops(r, m)
      BY <3>1, <3>2, <3>4 DEF Drops
    <3>5. CASE Counts(r, t, m.note)
      BY <3>2, <3>3, <3>5 DEF Counts, ThreadIs, TablesStay
    <3>6. CASE Applies(r, t, m.note)
      <4>1. user \in known'[r]
        BY <3>2, <3>6 DEF Applies, Tables
      <4>2. th'[r][t] = Begun(m.note)
        BY <3>2, <3>6 DEF Applies, Forwards, Begins, ThreadIs
      <4> QED BY <2>1, <3>3, <4>1, <4>2, BegunState
    <3> QED BY <1>5, <3>4, <3>5, <3>6 DEF Handles
  <2> QED BY <1>3, <2>1, <2>2, <2>3, <2>4, <2>5
<1>6. ASSUME NEW r \in Server, NEW t \in Thread, Scans(r, t) PROVE Goal
  <2>1. /\ \A q \in Server, i \in Thread : q # r \/ i # t => th'[q][i] = th[q][i]
        /\ UNCHANGED <<up, net>> /\ known[s] \subseteq known'[s]
    BY <1>1, <1>6 DEF Scans, ScanOf, ThreadIs, RestStays, TablesStay
  <2>2. ASSUME ComingBy(r, th[r][t], s, user, id)
        PROVE  ComingBy(r, th'[r][t], s, user, id)
    <3>1. CASE UNCHANGED th
      BY <2>2, <3>1
    <3>2. CASE ~UNCHANGED th
      <4>1. /\ th'[r][t].note = th[r][t].note
            /\ th'[r][t].conn \in Server => th'[r][t].conn = NextIdx(nextIndex[r])
        BY <1>6, <3>2, Constants DEF Scans, ScanOf, ThreadIs
      <4>2. Hops(s) > Hops(r)
        BY <1>1, <2>2, HopsFacts DEF ComingBy
      <4>3. Place(NextIdx(nextIndex[r])) <= Hops(s)
        BY <1>1, <1>6, <4>2, NobodyPassed DEF Scans
      <4> QED BY <2>2, <4>1, <4>3 DEF ComingBy
    <3> QED BY <3>1, <3>2
  <2> QED BY <1>3, <2>1, <2>2
<1>7. ASSUME NEW r \in Server, NEW t \in Thread, Writes(r, t) PROVE Goal
  <2> DEFINE c == th[r][t].conn
  <2>1. /\ \A q \in Server, i \in Thread : q # r \/ i # t => th'[q][i] = th[q][i]
        /\ UNCHANGED up /\ known[s] \subseteq known'[s]
        /\ c # Gone /\ c # Self
    BY <1>1, <1>7 DEF Writes, ThreadIs, RestStays, TablesStay, LastHop
  <2>2. c \in Server
    BY <2>1, Constants DEF TypeOK, State
  <2>3. PICK n : Written(r, t, n) /\ net' = net \cup {[to |-> c, note |-> n]}
    BY <1>7, <2>1 DEF Writes
  <2>4. ASSUME ComingBy(r, th[r][t], s, user, id)
        PROVE  \E m \in net' : Older(m.note, user, id) /\ Place(m.to) <= Hops(s)
    <3> DEFINE m == [to |-> c, note |-> n]
    <3>1. m \in net' /\ m.note = n /\ m.to = c
      BY <2>3
    <3>2. Older(n, user, id) /\ Place(c) <= Hops(s)
      BY <2>2, <2>3, <2>4 DEF ComingBy, Written, Older
    <3> HIDE DEF m, c
    <3> QED BY <3>1, <3>2
  <2>5. net \subseteq net'
    BY <2>3
  <2> QED BY <1>3, <2>1, <2>4, <2>5
<1>8. ASSUME NEW r \in Server, NEW t \in Thread, Recounts(r, t) PROVE Goal
  <2>1. /\ UNCHANGED <<up, net>> /\ known[s] \subseteq known'[s]
        /\ th[r][t].note \in Notes /\ th[r][t].note.data = 1
    <3>1. UNCHANGED <<up, net>> /\ known[s] \subseteq known'[s] /\ th[r][t].pc = "count"
      BY <1>1, <1>8 DEF Recounts, TablesStay
    <3>2. th[r][t].note \in Notes
      BY DEF TypeOK, State
    <3>3. th[r][t].note.data # 0 /\ th[r][t].note.data # 2
      BY <3>1 DEF LastHop, NoWalk
    <3> QED BY <3>1, <3>2, <3>3 DEF Notes
  <2>2. ThreadIs(r, t, Begun(th[r][t].note))
    BY <1>8, <2>1 DEF Recounts, Forwards, Begins
  <2>3. ComingBy(r, th[r][t], s, user, id) => ComingBy(r, th'[r][t], s, user, id)
    BY <2>1, <2>2, BegunState, Constants DEF ThreadIs, ComingBy
  <2> QED BY <1>3, <2>1, <2>2, <2>3 DEF ThreadIs
<1> QED BY <1>4, <1>5, <1>6, <1>7, <1>8 DEF SettledStep

LEMMA LearnsStays ==
    ASSUME TypeOK, SoundInv, ScanInv, LastHop, NoWalk, joined = {}, SettledStep,
           NEW user, NEW id, KnowsOrLearns(user, id)
    PROVE  KnowsOrLearns(user, id)'
<1>1. \A s \in up : Knows(s, user, id)
    BY DEF KnowsOrLearns, Knows
<1>2. up' \subseteq up
    BY DEF SettledStep, Asks, Handles, Scans, Writes, Recounts, RestStays
<1> QED BY <1>1, <1>2, KnowsStays DEF KnowsOrLearns, Knows

LEMMA NoWalkNext ==
    ASSUME TypeOK, NoWalk, SettledStep
    PROVE  NoWalk'
<1> DEFINE Still(w) == w.note.data # 2
<1>1. /\ \A s \in Server, t \in Thread : Still(th[s][t])
      /\ \A s \in Server : th[s]["join"] = Idle
      /\ \A m \in net : m.note.data # 2
    BY DEF NoWalk
<1>2. ASSUME NEW s \in Server, NEW t \in Thread \ {"join"}, NEW w, ThreadIs(s, t, w), Still(w),
             \A m \in net' : m.note.data # 2
      PROVE  NoWalk'
  <2>1. \A r \in Server : th'[r]["join"] = th[r]["join"]
    BY <1>2, Constants DEF ThreadIs
  <2>2. \A r \in Server, j \in Thread : th'[r][j] = w \/ th'[r][j] = th[r][j]
    BY <1>2 DEF ThreadIs
  <2>3. \A r \in Server, j \in Thread : th'[r][j].note.data # 2
    BY <1>1, <1>2, <2>2
  <2> QED BY <1>1, <1>2, <2>1, <2>3 DEF NoWalk
<1>3. Still(Idle) /\ \A n \in Notes : n.data = 1 => Still(Begun(n))
    BY IdleState, BegunState
<1>4. ASSUME NEW s \in Server, NEW t \in Thread \ {"join"}, NEW n \in Notes, Forwards(s, t, n),
             \A m \in net' : m.note.data # 2
      PROVE  NoWalk'
    BY <1>2, <1>3, <1>4 DEF Forwards, Begins
<1>5. ASSUME NEW n, Asks(n) PROVE NoWalk'
    BY <1>1, <1>2, <1>3, <1>5, Constants DEF Asks, Begins
<1>6. ASSUME NEW s \in Server, NEW t \in Pool, NEW m \in net, Handles(s, t, m) PROVE NoWalk'
  <2>1. m.note \in Notes /\ t \in Thread \ {"join"} /\ \A i \in net' : i.note.data # 2
    BY <1>1, <1>6, Constants DEF Handles
  <2>2. CASE Drops(s, m)
    BY <1>1, <2>1, <2>2 DEF Drops, NoWalk
  <2>3. CASE Counts(s, t, m.note)
    <3>1. PICK w \in State : w.pc = "count" /\ w.note = m.note /\ ThreadIs(s, t, w)
      BY <2>3 DEF Counts
    <3>2. Still(w)
      BY <1>1, <3>1
    <3> QED BY <1>2, <2>1, <3>1, <3>2
  <2>4. CASE Applies(s, t, m.note)
    BY <1>4, <2>1, <2>4 DEF Applies
  <2> QED BY <1>6, <2>2, <2>3, <2>4 DEF Handles
<1>7. ASSUME NEW s \in Server, NEW t \in Thread \ {"join"}, Scans(s, t) PROVE NoWalk'
  <2>1. UNCHANGED net
    BY <1>7 DEF Scans
  <2>2. CASE UNCHANGED th
    BY <1>1, <2>1, <2>2 DEF NoWalk
  <2>3. CASE ~UNCHANGED th
    <3>1. PICK w \in State : w.pc = "write" /\ w.note = th[s][t].note /\ ThreadIs(s, t, w)
      BY <1>7, <2>3 DEF Scans, ScanOf
    <3>2. Still(w)
      BY <1>1, <3>1
    <3> QED BY <1>1, <1>2, <2>1, <3>1, <3>2
  <2> QED BY <2>2, <2>3
<1>8. ASSUME NEW s \in Server, NEW t \in Thread \ {"join"}, Writes(s, t) PROVE NoWalk'
  <2>1. \A m \in net' : m.note.data # 2
    BY <1>1, <1>8 DEF Writes, Written, KeepReplicating
  <2> QED BY <1>2, <1>3, <1>8, <2>1, SentState DEF Writes
<1>9. ASSUME NEW s \in Server, NEW t \in Thread \ {"join"}, Recounts(s, t) PROVE NoWalk'
  <2>1. th[s][t].note \in Notes
    BY DEF TypeOK, State
  <2> QED BY <1>1, <1>4, <1>9, <2>1 DEF Recounts
<1>10. ASSUME NEW s \in Server, NEW t \in Thread, Scans(s, t) \/ Writes(s, t) \/ Recounts(s, t)
       PROVE  t # "join"
    BY <1>1, <1>10, IdleState DEF Scans, Writes, Recounts
<1> QED BY <1>5, <1>6, <1>7, <1>8, <1>9, <1>10 DEF SettledStep

TargetsKnown ==
    /\ \A user \in known[Primary] : KnowsOrLearns(user, events + 1)
    /\ \A m \in net : m.note.command = "FOLLOW" => KnowsOrLearns(m.note.target, m.note.id)
    /\ \A s \in Server, t \in Thread :
          LET n == th[s][t].note IN n.command = "FOLLOW" => KnowsOrLearns(n.target, n.id)

LEMMA TargetParts ==
    /\ TargetInv <=> NoWalk /\ TargetsKnown
    /\ TargetInv' <=> NoWalk' /\ TargetsKnown'
    BY DEF TargetInv, NoWalk, TargetsKnown, Is

LEMMA LearnsLater ==
    ASSUME TypeOK, NEW user, NEW i \in Nat, NEW j \in Nat, i <= j, KnowsOrLearns(user, i)'
    PROVE  TypeOK' => KnowsOrLearns(user, j)'
<1> SUFFICES ASSUME TypeOK', NEW s \in up', Knows(s, user, i)' PROVE Knows(s, user, j)'
    BY DEF KnowsOrLearns, Knows
<1>1. /\ \A m \in net' : m.note.id \in Nat
      /\ \A r \in up', t \in Thread : th'[r][t].note.id \in Nat
  <2>1. MaxEvents \in Nat /\ up' \subseteq Server
    BY Constants DEF TypeOK
  <2>2. \A m \in net' : m.note \in Notes
    BY DEF TypeOK
  <2>3. \A r \in up', t \in Thread : th'[r][t] \in State
    BY <2>1 DEF TypeOK
  <2>4. \A r \in up', t \in Thread : th'[r][t].note \in Notes
    BY <2>3 DEF State
  <2>5. \A n \in Notes : n.id \in Nat
    BY <2>1 DEF Notes
  <2> QED BY <2>2, <2>4, <2>5
<1>2. /\ \A m \in net' : Older(m.note, user, i) => Older(m.note, user, j)
      /\ \A r \in up', t \in Thread :
            Older(th'[r][t].note, user, i) => Older(th'[r][t].note, user, j)
    BY <1>1 DEF Older
<1> QED BY <1>2, ComingWays DEF Knows, ComingBy

LEMMA TargetNext ==
    ASSUME TypeOK, SoundInv, ScanInv, LastHop, TargetInv, joined = {}, SettledStep, TypeOK'
    PROVE  TargetInv'
<1>1. NoWalk /\ TargetsKnown /\ NoWalk'
    BY TargetParts, NoWalkNext
<1>2. events \in Nat /\ events' \in Nat /\ (events' = events \/ events' = events + 1)
    BY Constants DEF SettledStep, Asks, Handles, Scans, Writes, Recounts, RestStays, TypeOK
<1>3. \A user, id : KnowsOrLearns(user, id) => KnowsOrLearns(user, id)'
    BY <1>1, LearnsStays
<1>4. ASSUME NEW user \in known'[Primary], NEW e, e = events' + 1
      PROVE  KnowsOrLearns(user, e)'
  <2>1. CASE user \in known[Primary]
    <3>1. PICK i : i = events + 1
      OBVIOUS
    <3>2. i \in Nat /\ e \in Nat /\ i <= e
      BY <1>2, <1>4, <3>1
    <3>3. KnowsOrLearns(user, i)
      BY <1>1, <2>1, <3>1 DEF TargetsKnown
    <3>4. KnowsOrLearns(user, i)'
      BY <1>3, <3>3
    <3> QED BY <3>2, <3>4, LearnsLater
  <2>2. CASE user \notin known[Primary]
    <3>1. ASSUME NEW s \in Server, NEW t \in Pool, NEW m \in net, Handles(s, t, m)
          PROVE  known'[Primary] = known[Primary]
      BY <3>1, Constants DEF Handles, Drops, Counts, Applies, Tables, TablesStay
    <3>2. ASSUME NEW s \in Server, NEW t \in Thread, Scans(s, t) \/ Writes(s, t) \/ Recounts(s, t)
          PROVE  known'[Primary] = known[Primary]
      BY <3>2, Constants DEF Scans, Writes, Recounts, RestStays, TablesStay
    <3>3. PICK n : Asks(n)
      BY <2>2, <3>1, <3>2 DEF SettledStep
    <3>4. n.command = "LOGIN" /\ n.author = user /\ n.id = events + 1 /\ events' = events + 1
      BY <2>2, <3>3 DEF Asks, Tables
    <3>5. n \in Notes /\ Primary \in up' /\ th'[Primary]["fe"] = Begun(n)
      BY <3>3, Constants DEF Asks, Begins, ThreadIs
    <3>6. SUFFICES ASSUME NEW s \in up' PROVE Knows(s, user, e)'
      BY DEF KnowsOrLearns, Knows
    <3>7. CASE s = Primary
      BY <3>7 DEF Knows
    <3>8. CASE s # Primary
      <4>0. s \in Server
        BY DEF TypeOK
      <4>1. Hops(Primary) < Hops(s)
        BY <3>8, <4>0, HopsFacts, Constants
      <4>2. ComingBy(Primary, th'[Primary]["fe"], s, user, e)
        BY <1>2, <1>4, <3>4, <3>5, <4>1, BegunState, Constants DEF ComingBy, Older
      <4> QED BY <3>5, <4>2, ComingWays, Constants DEF Knows
    <3> QED BY <3>7, <3>8
  <2> QED BY <2>1, <2>2
<1>5. ASSUME NEW m \in net', m.note.command = "FOLLOW", m \notin net
      PROVE  KnowsOrLearns(m.note.target, m.note.id)'
  <2>1. PICK s \in Server, t \in Thread : Writes(s, t)
    BY <1>5 DEF SettledStep, Asks, Handles, Scans, Recounts
  <2>2. Written(s, t, m.note)
    BY <1>5, <2>1 DEF Writes
  <2> QED BY <1>1, <1>3, <1>5, <2>2 DEF Written, TargetsKnown
<1>6. ASSUME NEW s \in Server, NEW t \in Thread, th'[s][t].note.command = "FOLLOW",
             th'[s][t].note # th[s][t].note
      PROVE  KnowsOrLearns(th'[s][t].note.target, th'[s][t].note.id)
  <2>1. Idle.note.command # "FOLLOW" /\ Blank.command # "FOLLOW"
    BY IdleState
  <2>2. ASSUME NEW r \in Server, NEW j \in Thread, Scans(r, j) \/ Writes(r, j) \/ Recounts(r, j)
        PROVE  FALSE
    <3>1. th[r][j].note \in Notes
      BY DEF TypeOK, State
    <3> QED BY <1>6, <2>1, <2>2, <3>1, BegunState, SentState
           DEF Scans, ScanOf, Writes, Recounts, Forwards, Begins, ThreadIs
  <2>3. ASSUME NEW n, Asks(n)
        PROVE  KnowsOrLearns(th'[s][t].note.target, th'[s][t].note.id)
    <3>1. th'[s][t].note = n
      BY <1>6, <2>3, BegunState DEF Asks, Begins, ThreadIs
    <3> QED BY <1>1, <1>6, <2>3, <3>1 DEF Asks, TargetsKnown
  <2>4. ASSUME NEW r \in Server, NEW j \in Pool, NEW m \in net, Handles(r, j, m)
        PROVE  KnowsOrLearns(th'[s][t].note.target, th'[s][t].note.id)
    <3>1. m.note \in Notes /\ j \in Thread
      BY <2>4, Constants DEF Handles
    <3>2. th'[s][t].note = m.note
      BY <1>6, <2>1, <2>4, <3>1, BegunState
         DEF Handles, Drops, Counts, Applies, Forwards, Begins, ThreadIs
    <3> QED BY <1>1, <1>6, <3>2 DEF TargetsKnown
  <2> QED BY <2>2, <2>3, <2>4 DEF SettledStep
<1>7. \A m \in net' : m.note.command = "FOLLOW" => KnowsOrLearns(m.note.target, m.note.id)'
    BY <1>1, <1>3, <1>5 DEF TargetsKnown
<1>8. ASSUME NEW s \in Server, NEW t \in Thread, th'[s][t].note.command = "FOLLOW"
      PROVE  KnowsOrLearns(th[s][t].note.target, th[s][t].note.id)'
  <2>1. PICK n : n = th'[s][t].note
    OBVIOUS
  <2>2. KnowsOrLearns(n.target, n.id)
    BY <1>1, <1>6, <1>8, <2>1 DEF TargetsKnown
  <2>3. KnowsOrLearns(n.target, n.id)'
    BY <1>3, <2>2
  <2> QED BY <2>1, <2>3 DEF KnowsOrLearns, Coming
<1>9. TargetsKnown'
  <2>1. PICK e : e = events' + 1
    OBVIOUS
  <2>2. \A user \in known'[Primary] : KnowsOrLearns(user, e)'
    BY <1>4, <2>1
  <2>3. (\A user \in known[Primary] : KnowsOrLearns(user, events + 1))'
    BY <2>1, <2>2 DEF KnowsOrLearns, Coming
  <2> QED BY <1>7, <1>8, <2>3 DEF TargetsKnown
<1> QED BY <1>1, <1>9, TargetParts

-----------------------------------------------------------------------------
(***************************************************************************)
(* What a server that joined is still to get.  User u is known to a server *)
(* (v = Nobody) or follows v there; whatever the primary's table says, the *)
(* joiner's says too, or the primary is sending it to the joiner, or       *)
(* send_initial_replication has not got there yet.                         *)
(***************************************************************************)
Has(s, u, v) == IF v = Nobody THEN u \in known[s] ELSE Contains(followers[s][v], u)

Adds(n, u, v) == IF v = Nobody THEN n.command = "LOGIN" /\ n.author = u
                 ELSE n.command = "FOLLOW" /\ n.author = u /\ n.target = v

UserOrNot == User \cup {Nobody}

\* Only what the primary's table says is sent, or in another table.
Sourced == \A u \in User, v \in UserOrNot :
    /\ \A s \in Server : Has(s, u, v) => Has(Primary, u, v)
    /\ \A m \in net : Adds(m.note, u, v) => Has(Primary, u, v)
    /\ \A s \in Server, t \in Thread : Adds(th[s][t].note, u, v) => Has(Primary, u, v)

\* The first server to join is the only one.
JoinsOnce ==
    /\ joined = {} => walk = <<0, 0>> /\ th[Primary]["join"] = Idle
    /\ joined # {} => joins = 1 /\ \E s \in Server : joined = {s}

\* The walk goes over all of the table.
Walkable == \A v \in User : /\ Len(followers[Primary][v]) <= events
                            /\ followers[Primary][v] # << >> => v \in known[Primary]

Nearest == \A s \in joined \cap up :
              s # Primary /\ \A r \in up \ {Primary} : Hops(s) <= Hops(r)

\* The scan of w's thread at the primary has not passed s.
Heading(s, w) == \/ w.pc = "advance" /\ Hops(nextIndex[Primary]) < Hops(s)
                 \/ w.pc = "write" /\ w.conn = s

Bound(s, u, v) == \/ \E m \in net : m.to = s /\ Adds(m.note, u, v)
                  \/ \E t \in Thread : Adds(th[Primary][t].note, u, v) /\ Heading(s, th[Primary][t])

Follows(a, b) == b[1] > a[1] \/ (b[1] = a[1] /\ b[2] > a[2])

\* The place of the table that says so.
Says(p, u, v) == IF v = Nobody THEN p = <<u, 0>>
                 ELSE \E i \in 1 .. Len(followers[Primary][v]) :
                         p = <<v, i>> /\ followers[Primary][v][i] = u

Yet(u, v) == \E p : Says(p, u, v) /\ Follows(walk, p)

Awaited == \A s \in joined \cap up : \A u \in User, v \in UserOrNot :
              Has(Primary, u, v) => Has(s, u, v) \/ Bound(s, u, v) \/ Yet(u, v)

JoinInv == /\ Primary \in up /\ Hopping /\ Sourced
           /\ JoinsOnce /\ Walkable /\ Nearest /\ Awaited

LEMMA HasStays ==
    ASSUME TablesStay, NEW r \in Server, NEW u, NEW v
    PROVE  Has(r, u, v)' <=> Has(r, u, v)
    BY DEF TablesStay, Has

LEMMA HasMoves ==
    ASSUME TypeOK, NEW s \in Server, NEW n, Tables(s, n), NEW u \in User, NEW v \in UserOrNot
    PROVE  /\ \A r \in Server : r # s => (Has(r, u, v)' <=> Has(r, u, v))
           /\ Has(s, u, v)' <=> Has(s, u, v) \/ Adds(n, u, v)
<1>1. v # Nobody => v \in User
    BY DEF UserOrNot
<1>2. \A r \in Server : r # s => (Has(r, u, v)' <=> Has(r, u, v))
    BY DEF Tables, Has
<1>3. CASE v = Nobody
    BY <1>2, <1>3 DEF Tables, Has, Adds
<1>4. CASE v # Nobody
    BY <1>1, <1>2, <1>4 DEF Tables, Has, Adds
<1> QED BY <1>3, <1>4

\* What is written says what its thread was to send.
LEMMA WrittenAdds ==
    ASSUME NEW s, NEW t, NEW n, Written(s, t, n), NEW u, NEW v
    PROVE  Adds(n, u, v) <=> Adds(th[s][t].note, u, v)
    BY DEF Written, Adds

LEMMA BlankAdds == \A u, v : ~Adds(Blank, u, v)
    BY IdleState DEF Adds

\* The primary's table changes only when the front end asks.
LEMMA OnlyAsked ==
    ASSUME TypeOK, SoundInv, Hopping, NEW s \in Server, NEW t \in Pool, NEW m \in net,
           Handles(s, t, m), Applies(s, t, m.note)
    PROVE  s # Primary
    BY DEF Handles, Applies, Hopping, Whole, Command

\* A step, once the primary is known to live.
LEMMA PrimaryStays ==
    ASSUME TypeOK, SoundInv, [Next]_vars, Primary \in up, "died" \notin spoiled'
    PROVE  Primary \in up'
<1>1. ASSUME NEW s \in Server, Ends(s) PROVE Primary \in up'
    BY <1>1 DEF Ends
<1> QED BY <1>1, StepDoes DEF vars, Joins, Asks, Handles, Scans, Writes, Recounts, RestStays,
       WalkStep

LEMMA JoinsOnceNext ==
    ASSUME TypeOK, SoundInv, JoinsOnce, [Next]_vars
    PROVE  JoinsOnce'
<1>1. joins \in Nat /\ MaxJoins \in {0, 1}
    BY ReplicationAssumption DEF TypeOK
<1>2. ASSUME UNCHANGED <<joined, joins, walk>>, joined = {} => th'[Primary]["join"] = Idle
      PROVE  JoinsOnce'
    BY <1>2 DEF JoinsOnce
<1>3. ASSUME NEW s \in Server, Joins(s) PROVE JoinsOnce'
  <2>1. joins = 0 /\ joins' = 1 /\ joined' = joined \cup {s}
    BY <1>1, <1>3 DEF Joins
  <2>2. joined = {}
    BY <2>1 DEF JoinsOnce
  <2> QED BY <2>1, <2>2 DEF JoinsOnce
<1>4. ASSUME NEW s \in Server, Ends(s) PROVE JoinsOnce'
  <2>1. th[Primary]["join"] = Idle => th'[Primary]["join"] = Idle
    BY <1>4, Constants DEF Ends
  <2> QED BY <1>2, <1>4, <2>1 DEF Ends, JoinsOnce
<1>5. ASSUME NEW n, Asks(n) PROVE JoinsOnce'
    BY <1>2, <1>5, Constants DEF Asks, Begins, ThreadIs, JoinsOnce
<1>6. ASSUME NEW s \in Server, NEW t \in Pool, NEW m \in net, Handles(s, t, m) PROVE JoinsOnce'
  <2>1. th'[Primary]["join"] = th[Primary]["join"]
    BY <1>6, Constants DEF Handles, Drops, Counts, Applies, Forwards, Begins, ThreadIs
  <2> QED BY <1>2, <1>6, <2>1 DEF Handles, JoinsOnce
<1>7. ASSUME NEW s \in Server, NEW t \in Thread, Scans(s, t) \/ Writes(s, t) \/ Recounts(s, t)
      PROVE  JoinsOnce'
  <2>1. th[s][t].pc \in {"advance", "write", "count"}
    BY <1>7 DEF Scans, Writes, Recounts
  <2>2. \A r \in Server, j \in Thread : r # s \/ j # t => th'[r][j] = th[r][j]
    BY <1>7 DEF Scans, ScanOf, Writes, Recounts, Forwards, Begins, ThreadIs
  <2>3. joined = {} => th'[Primary]["join"] = Idle
    BY <2>1, <2>2, IdleState, Constants DEF JoinsOnce
  <2> QED BY <1>2, <1>7, <2>3 DEF Scans, Writes, Recounts, RestStays
<1>8. CASE WalkStep
    BY <1>8, IdleState DEF WalkStep, JoinsOnce
<1>9. CASE UNCHANGED vars
    BY <1>2, <1>9 DEF vars, envVars, histVars, JoinsOnce
<1> QED BY <1>3, <1>4, <1>5, <1>6, <1>7, <1>8, <1>9, StepDoes

LEMMA NearestNext ==
    ASSUME TypeOK, SoundInv, JoinsOnce, Nearest, Primary \in up, [Next]_vars,
           "missed" \notin spoiled'
    PROVE  Nearest'
<1>1. CASE up' \subseteq up /\ UNCHANGED joined
    BY <1>1 DEF Nearest
<1>2. ASSUME NEW s \in Server, Joins(s) PROVE Nearest'
  <2>1. joined' = {s} /\ up' = up \cup {s} /\ s # Primary
    BY <1>2, ReplicationAssumption DEF Joins, JoinsOnce, TypeOK
  <2>2. \A r \in Server : Hops(r) = (Primary - r) % N
    BY ReplicationAssumption DEF Hops, Server
  <2>3. \A r \in up \ {Primary} : Hops(s) <= Hops(r)
    BY <1>2, <2>2 DEF Joins, TypeOK
  <2>4. Hops(s) <= Hops(s)
    BY HopsFacts
  <2> QED BY <2>1, <2>3, <2>4 DEF Nearest
<1> QED BY <1>1, <1>2, StepDoes DEF vars, histVars, Ends, Asks, Handles, Scans, Writes, Recounts,
       RestStays, WalkStep

\* What is there of the primary's table stays where it is.
Grows ==
    /\ \A u \in User, v \in UserOrNot : Has(Primary, u, v) => Has(Primary, u, v)'
    /\ \A v \in User : \A i \in 1 .. Len(followers[Primary][v]) :
          /\ i \in 1 .. Len(followers'[Primary][v])
          /\ followers'[Primary][v][i] = followers[Primary][v][i]

LEMMA AskedGrows ==
    ASSUME TypeOK, NEW n, Asks(n)
    PROVE  /\ Grows
           /\ \A v \in User : \/ followers'[Primary][v] = followers[Primary][v]
                              \/ /\ Len(followers'[Primary][v]) = Len(followers[Primary][v]) + 1
                                 /\ v \in known[Primary]
<1>1. /\ followers[Primary] \in [User -> Seq(User)] /\ Primary \in Server
      /\ n.author \in User
      /\ n.command = "FOLLOW" => n.target \in User /\ n.target \in known[Primary]
    BY Constants DEF TypeOK, Asks, Whole
<1>2. \A u \in User, v \in UserOrNot : Has(Primary, u, v) => Has(Primary, u, v)'
    BY <1>1, HasMoves DEF Asks
<1>3. followers'[Primary] = FollowersAfter(followers[Primary], n)
    BY DEF Asks, Becomes
<1>4. ASSUME NEW v \in User
      PROVE  /\ \/ followers'[Primary][v] = followers[Primary][v]
                \/ /\ Len(followers'[Primary][v]) = Len(followers[Primary][v]) + 1
                   /\ v \in known[Primary]
             /\ \A i \in 1 .. Len(followers[Primary][v]) :
                   /\ i \in 1 .. Len(followers'[Primary][v])
                   /\ followers'[Primary][v][i] = followers[Primary][v][i]
  <2>1. followers[Primary][v] \in Seq(User) /\ Len(followers[Primary][v]) \in Nat
    BY <1>1, LenProperties
  <2>2. CASE n.command = "FOLLOW" /\ v = n.target
    <3>1. followers'[Primary][v] = Append(followers[Primary][v], n.author)
      BY <1>1, <1>3, <2>2 DEF FollowersAfter
    <3> QED BY <1>1, <2>1, <2>2, <3>1, AppendProperties
  <2>3. CASE ~(n.command = "FOLLOW" /\ v = n.target)
    <3>1. followers'[Primary][v] = followers[Primary][v]
      BY <1>1, <1>3, <2>3 DEF FollowersAfter
    <3> QED BY <3>1
  <2> QED BY <2>2, <2>3
<1> QED BY <1>2, <1>4 DEF Grows

\* The note of the thread that moves; the others stay.
LEMMA ThreadNotes ==
    ASSUME NEW s \in Server, NEW t \in Thread, NEW w, ThreadIs(s, t, w)
    PROVE  \A r \in Server, j \in Thread : th'[r][j].note \in {th[r][j].note, w.note}
    BY DEF ThreadIs

LEMMA SourcedNext ==
    ASSUME TypeOK, SoundInv, Hopping, Sourced, [Next]_vars, Primary \in up,
           "died" \notin spoiled'
    PROVE  Sourced'
<1> SUFFICES ASSUME NEW u \in User, NEW v \in UserOrNot
             PROVE  /\ \A s \in Server : Has(s, u, v)' => Has(Primary, u, v)'
                    /\ \A m \in net' : Adds(m.note, u, v) => Has(Primary, u, v)'
                    /\ \A s \in Server, t \in Thread :
                          Adds(th'[s][t].note, u, v) => Has(Primary, u, v)'
    BY DEF Sourced
<1> DEFINE P == Has(Primary, u, v)
           Goal == /\ \A s \in Server : Has(s, u, v)' => P'
                   /\ \A m \in net' : Adds(m.note, u, v) => P'
                   /\ \A s \in Server, t \in Thread : Adds(th'[s][t].note, u, v) => P'
           Told(n) == Adds(n, u, v) => P'
<1>1. /\ \A s \in Server : Has(s, u, v) => P
      /\ \A m \in net : Adds(m.note, u, v) => P
      /\ \A s \in Server, t \in Thread : Adds(th[s][t].note, u, v) => P
    BY DEF Sourced
<1>2. Primary \in Server /\ ~Adds(Blank, u, v) /\ Idle.note = Blank
    BY Constants, BlankAdds, IdleState
<1>3. ASSUME P => P', \A s \in Server : Has(s, u, v)' => Has(s, u, v) \/ P',
             \A m \in net' : m \in net \/ Told(m.note),
             \A s \in Server, t \in Thread : th'[s][t].note = th[s][t].note \/ Told(th'[s][t].note)
      PROVE  Goal
    BY <1>1, <1>3
<1>4. ASSUME TablesStay PROVE (P => P') /\ \A s \in Server : Has(s, u, v)' => Has(s, u, v)
    BY <1>2, <1>4, HasStays
<1>5. ASSUME NEW s \in Server, NEW n, Tables(s, n), s = Primary \/ Told(n)
      PROVE  (P => P') /\ \A r \in Server : Has(r, u, v)' => Has(r, u, v) \/ P'
    BY <1>2, <1>5, HasMoves
<1>6. CASE UNCHANGED vars
    BY <1>1, <1>6 DEF vars, tableVars, Has
<1>7. ASSUME NEW n, Asks(n) PROVE Goal
  <2>1. Told(n)
    BY <1>2, <1>7, HasMoves DEF Asks
  <2>2. \A s \in Server, t \in Thread : th'[s][t].note = th[s][t].note \/ Told(th'[s][t].note)
    BY <1>7, <2>1, BegunState, Constants DEF Asks, Begins, ThreadIs
  <2> QED BY <1>2, <1>3, <1>5, <1>7, <2>1, <2>2 DEF Asks
<1>8. ASSUME NEW s \in Server, NEW t \in Pool, NEW m \in net, Handles(s, t, m) PROVE Goal
  <2>0. t \in Thread /\ net' \subseteq net
    BY <1>8, Constants DEF Handles
  <2>1. CASE Drops(s, m)
    BY <1>3, <1>4, <2>0, <2>1 DEF Drops
  <2>2. CASE Counts(s, t, m.note)
    <3>1. P => P'
      BY <1>4, <2>2 DEF Counts
    <3>2. \A r \in Server, j \in Thread :
             th'[r][j].note = th[r][j].note \/ Told(th'[r][j].note)
      BY <1>1, <2>0, <2>2, <3>1 DEF Counts, ThreadIs
    <3> QED BY <1>3, <1>4, <2>0, <2>2, <3>1, <3>2 DEF Counts
  <2>3. CASE Applies(s, t, m.note)
    <3>1. s # Primary
      BY <1>8, <2>3, OnlyAsked
    <3>2. P => P'
      BY <1>2, <2>3, <3>1, HasMoves DEF Applies
    <3>3. Told(m.note)
      BY <1>1, <3>2
    <3>4. \A r \in Server, j \in Thread :
             th'[r][j].note = th[r][j].note \/ Told(th'[r][j].note)
      BY <1>2, <1>8, <2>0, <2>3, <3>3, BegunState
         DEF Applies, Forwards, Begins, ThreadIs, Handles
    <3> QED BY <1>3, <1>5, <2>0, <2>3, <3>2, <3>3, <3>4 DEF Applies
  <2> QED BY <1>8, <2>1, <2>2, <2>3 DEF Handles
<1>9. ASSUME NEW s \in Server, NEW t \in Thread, Scans(s, t) PROVE Goal
  <2>1. \A r \in Server, j \in Thread : th'[r][j].note = th[r][j].note
    BY <1>9 DEF Scans, ScanOf, ThreadIs
  <2> QED BY <1>3, <1>4, <1>9, <2>1 DEF Scans, RestStays
<1>10. ASSUME NEW s \in Server, NEW t \in Thread, Writes(s, t) PROVE Goal
  <2>1. \A r \in Server, j \in Thread :
             th'[r][j].note = th[r][j].note \/ Told(th'[r][j].note)
    BY <1>2, <1>10, SentState DEF Writes, ThreadIs
  <2>2. P => P'
    BY <1>4, <1>10 DEF Writes, RestStays
  <2>3. \A m \in net' : m \in net \/ Told(m.note)
    BY <1>1, <1>10, <2>2, WrittenAdds DEF Writes
  <2> QED BY <1>3, <1>4, <1>10, <2>1, <2>2, <2>3 DEF Writes, RestStays
<1>11. ASSUME NEW s \in Server, NEW t \in Thread, Recounts(s, t) PROVE Goal
  <2>1. th[s][t].note \in Notes
    BY DEF TypeOK, State
  <2>2. P => P'
    BY <1>4, <1>11 DEF Recounts
  <2>3. \A r \in Server, j \in Thread :
             th'[r][j].note = th[r][j].note \/ Told(th'[r][j].note)
    BY <1>2, <1>11, <2>1, BegunState DEF Recounts, Forwards, Begins, ThreadIs
  <2> QED BY <1>3, <1>4, <1>11, <2>2, <2>3 DEF Recounts
<1>12. CASE WalkStep
  <2>1. (P => P') /\ UNCHANGED net
    BY <1>4, <1>12 DEF WalkStep
  <2>2. Told(th'[Primary]["join"].note)
    <3>1. CASE th'[Primary]["join"].note = Blank
      BY <1>2, <3>1
    <3>2. ASSUME NEW p \in Ahead, Begins(Primary, "join", InitialNote(p))
          PROVE  Told(th'[Primary]["join"].note)
      <4>1. th'[Primary]["join"].note = InitialNote(p)
        <5>1. PICK n : n = InitialNote(p)
          OBVIOUS
        <5>2. n \in Notes
          BY <5>1, InitialNotes
        <5> QED BY <3>2, <5>1, <5>2, BegunState DEF Begins, ThreadIs
      <4>2. p[1] \in known[Primary] /\ p[2] \in 0 .. MaxEvents
            /\ p[2] <= Len(followers[Primary][p[1]]) /\ p[1] \in User
        BY <1>2 DEF Ahead, TypeOK
      <4>3. p[2] # 0 => Contains(followers[Primary][p[1]], followers[Primary][p[1]][p[2]])
        BY <4>2, Constants DEF Contains
      <4>4. Adds(InitialNote(p), u, v) => P
        BY <4>2, <4>3, Constants
           DEF InitialNote, Notification, Adds, Has, UserOrNot, Nobody, User
      <4> QED BY <2>1, <4>1, <4>4
    <3> QED BY <1>12, <3>1, <3>2 DEF WalkStep, WalksOn
  <2>3. \A r \in Server, j \in Thread :
             th'[r][j].note = th[r][j].note \/ Told(th'[r][j].note)
    BY <1>12, <2>2 DEF WalkStep, Walks, Begins, ThreadIs
  <2> QED BY <1>3, <1>4, <1>12, <2>1, <2>3 DEF WalkStep
<1>13. ASSUME NEW s \in Server, Ends(s) PROVE Goal
  <2>1. s # Primary
    BY <1>13 DEF Ends
  <2>2. /\ \A r \in Server \ {s} : Has(r, u, v)' <=> Has(r, u, v)
        /\ ~Has(s, u, v)'
    BY <1>13 DEF Ends, Has, UserOrNot, EmptyFollowers, Contains
  <2>3. \A r \in Server, j \in Thread : th'[r][j].note \in {th[r][j].note, Blank}
    BY <1>2, <1>13 DEF Ends
  <2>4. net' \subseteq net
    BY <1>13 DEF Ends
  <2> QED BY <1>2, <1>3, <2>1, <2>2, <2>3, <2>4
<1>14. ASSUME NEW s \in Server, Joins(s) PROVE Goal
    BY <1>1, <1>14 DEF Joins, tableVars, Has
<1> HIDE DEF Goal
<1>15. Goal
    BY <1>6, <1>7, <1>8, <1>9, <1>10, <1>11, <1>12, <1>13, <1>14, StepDoes DEF Goal
<1> QED BY <1>15 DEF Goal

LEMMA WalkableNext ==
    ASSUME TypeOK, SoundInv, Hopping, Walkable, [Next]_vars, Primary \in up,
           "died" \notin spoiled'
    PROVE  Walkable'
<1>1. ASSUME UNCHANGED events, known'[Primary] = known[Primary],
             followers'[Primary] = followers[Primary]
      PROVE  Walkable'
    BY <1>1 DEF Walkable
<1>2. ASSUME NEW n, Asks(n) PROVE Walkable'
  <2>1. events \in Nat /\ events' = events + 1 /\ known[Primary] \subseteq known'[Primary]
    BY <1>2, Constants DEF Asks, TypeOK, Tables
  <2>2. \A v \in User : Len(followers[Primary][v]) \in Nat
    BY Constants, LenProperties DEF TypeOK
  <2> QED BY <1>2, <2>1, <2>2, AskedGrows DEF Walkable
<1>3. ASSUME NEW s \in Server, NEW t \in Pool, NEW m \in net, Handles(s, t, m) PROVE Walkable'
  <2>1. known'[Primary] = known[Primary] /\ followers'[Primary] = followers[Primary]
    BY <1>3, OnlyAsked, Constants DEF Handles, Drops, Counts, Applies, TablesStay, Tables
  <2> QED BY <1>1, <1>3, <2>1 DEF Handles
<1>4. ASSUME NEW s \in Server, Ends(s) PROVE Walkable'
    BY <1>1, <1>4, Constants DEF Ends
<1> QED BY <1>1, <1>2, <1>3, <1>4, StepDoes, Constants DEF vars, tableVars, envVars, Joins, Scans,
       Writes, Recounts, RestStays, WalkStep, TablesStay

LEMMA YetStays ==
    ASSUME Grows, UNCHANGED walk, NEW u \in User, NEW v \in UserOrNot, Yet(u, v)
    PROVE  Yet(u, v)'
<1>1. PICK p : Says(p, u, v) /\ Follows(walk, p)
    BY DEF Yet
<1>2. v # Nobody => v \in User
    BY DEF UserOrNot
<1>3. Says(p, u, v)'
    BY <1>1, <1>2 DEF Says, Grows
<1> QED BY <1>1, <1>3 DEF Yet, Follows

LEMMA GrowsNot ==
    ASSUME known'[Primary] = known[Primary], followers'[Primary] = followers[Primary]
    PROVE  Grows /\ \A u \in User, v \in UserOrNot : Has(Primary, u, v)' <=> Has(Primary, u, v)
    BY DEF Grows, Has

\* What is still to come in the walk is ahead.
LEMMA YetAhead ==
    ASSUME TypeOK, Walkable, NEW u \in User, NEW v \in UserOrNot, Has(Primary, u, v),
           NEW p, Says(p, u, v), Follows(walk, p)
    PROVE  /\ p \in Ahead
           /\ p[1] \in Nat /\ p[2] \in Nat /\ p = <<p[1], p[2]>>
           /\ Adds(InitialNote(p), u, v)
<1>1. CASE v = Nobody
  <2>1. p = <<u, 0>> /\ u \in known[Primary] /\ u \in Nat
    BY <1>1, Constants DEF Says, Has, User
  <2>2. followers[Primary][u] \in Seq(User)
    BY Constants DEF TypeOK
  <2>3. Len(followers[Primary][u]) \in Nat /\ 0 \in 0 .. MaxEvents
    BY <2>2, LenProperties, Constants
  <2> QED BY <1>1, <2>1, <2>3 DEF Ahead, Follows, InitialNote, Adds, Notification
<1>2. CASE v # Nobody
  <2>1. v \in User
    BY <1>2 DEF UserOrNot
  <2>2. PICK i \in 1 .. Len(followers[Primary][v]) : p = <<v, i>> /\ followers[Primary][v][i] = u
    BY <1>2 DEF Says
  <2>3. followers[Primary][v] \in Seq(User)
    BY <2>1, Constants DEF TypeOK
  <2>4. Len(followers[Primary][v]) \in Nat /\ followers[Primary][v] # << >>
    BY <2>2, <2>3, LenProperties
  <2>5. v \in known[Primary] /\ Len(followers[Primary][v]) <= events /\ v \in Nat
    BY <2>1, <2>4, Constants DEF Walkable, User
  <2>6. events \in 0 .. MaxEvents
    BY DEF TypeOK
  <2>7. i \in 0 .. MaxEvents /\ i # 0
    BY <2>2, <2>4, <2>5, <2>6, Constants
  <2> QED BY <1>2, <2>2, <2>5, <2>7 DEF Ahead, Follows, InitialNote, Adds, Notification
<1> QED BY <1>1, <1>2

\* A notification that the primary begins to send is on its way to whoever joined.
LEMMA BegunBound ==
    ASSUME NEW s \in Server, s # Primary, NEW t \in Thread, NEW n \in Notes,
           Begins(Primary, t, n), NEW u, NEW v, Adds(n, u, v)
    PROVE  Bound(s, u, v)'
<1>1. /\ Adds(th'[Primary][t].note, u, v) /\ th'[Primary][t].pc = "advance"
      /\ nextIndex'[Primary] = Primary
    BY BegunState DEF Begins, ThreadIs
<1>2. Hops(Primary) < Hops(s)
    BY HopsFacts, Constants
<1> QED BY <1>1, <1>2 DEF Bound, Heading

\* While no scan of the primary is under way, nothing of it is on its way.
LEMMA BoundAfter ==
    ASSUME NEW s, NEW u, NEW v, Bound(s, u, v), Met(Primary) \subseteq spoiled',
           "raced" \notin spoiled', UNCHANGED net
    PROVE  Bound(s, u, v)'
    BY DEF Bound, Heading, Met, Scanning

\* What is on its way while the primary's other threads go on.
LEMMA BoundStays ==
    ASSUME NEW s, NEW u, NEW v, Bound(s, u, v), UNCHANGED <<net, nextIndex>>,
           \A j \in Thread : Adds(th[Primary][j].note, u, v) =>
                                \/ th'[Primary][j] = th[Primary][j]
                                \/ th[Primary][j].pc \notin {"advance", "write"}
    PROVE  Bound(s, u, v)'
    BY DEF Bound, Heading

LEMMA AwaitedRead ==
    ASSUME TypeOK, SoundInv, ScanInv, Hopping, NEW s \in up, s # Primary,
           NEW u \in User, NEW v \in UserOrNot,
           NEW r \in Server, NEW t \in Pool, NEW m \in net, Handles(r, t, m),
           Has(s, u, v) \/ Bound(s, u, v), "raced" \notin spoiled'
    PROVE  Has(s, u, v)' \/ Bound(s, u, v)'
<1>0. s \in Server /\ t \in Thread /\ Primary \in Server
    BY Constants DEF TypeOK
<1>1. ASSUME Has(s, u, v) PROVE Has(s, u, v)'
    BY <1>0, <1>1, HasStays, HasMoves DEF Handles, Drops, Counts, Applies
<1>2. ASSUME m.to = s, Adds(m.note, u, v) PROVE Has(s, u, v)'
  <2>1. r = s /\ m.note.data # 0 /\ m.note.command \in {"LOGIN", "FOLLOW"}
    BY <1>2 DEF Handles, Hopping, Adds
  <2>2. CASE Drops(r, m)
    BY <2>1, <2>2 DEF Drops
  <2>3. CASE Counts(r, t, m.note)
    <3>1. Has(s, u, v)
      BY <1>2, <2>1, <2>3 DEF Counts, Adds, Has
    <3> QED BY <1>1, <3>1
  <2>4. CASE Applies(r, t, m.note)
    BY <1>0, <1>2, <2>1, <2>4, HasMoves DEF Applies
  <2> QED BY <2>2, <2>3, <2>4 DEF Handles
<1>3. ASSUME NEW i \in net, i # m, i.to = s, Adds(i.note, u, v) PROVE Bound(s, u, v)'
    BY <1>3 DEF Handles, Bound
<1>4. ASSUME NEW j \in Thread, Adds(th[Primary][j].note, u, v), Heading(s, th[Primary][j])
      PROVE  Bound(s, u, v)'
  <2>1. r # Primary \/ j # t
    BY <1>4, IdleState, BlankAdds DEF Handles
  <2>2. th'[Primary][j] = th[Primary][j]
    BY <1>0, <1>4, <2>1 DEF Handles, Drops, Counts, Applies, Forwards, Begins, ThreadIs
  <2>3. nextIndex'[Primary] = nextIndex[Primary]
    <3>1. CASE Applies(r, t, m.note)
      <4>1. r # Primary
        BY <3>1, OnlyAsked
      <4> QED BY <1>0, <3>1, <4>1 DEF Applies, Forwards, Begins
    <3> QED BY <3>1 DEF Handles, Drops, Counts
  <2> QED BY <1>4, <2>2, <2>3 DEF Bound, Heading
<1> QED BY <1>1, <1>2, <1>3, <1>4 DEF Bound

LEMMA AwaitedSend ==
    ASSUME TypeOK, SoundInv, ScanInv, Nearest, NEW s \in joined \cap up,
           NEW u \in User, NEW v \in UserOrNot,
           NEW r \in Server, NEW t \in Thread, Scans(r, t) \/ Writes(r, t), Bound(s, u, v)
    PROVE  Bound(s, u, v)'
<1>0. /\ s \in Server /\ s # Primary /\ Primary \in Server /\ s # Gone
      /\ \A n \in up \ {Primary} : Hops(s) <= Hops(n)
    BY Constants DEF TypeOK, Nearest
<1>1. ASSUME NEW m \in net, m.to = s, Adds(m.note, u, v) PROVE Bound(s, u, v)'
    BY <1>1 DEF Scans, Writes, Bound
<1>2. ASSUME NEW j \in Thread, Adds(th[Primary][j].note, u, v), Heading(s, th[Primary][j]),
             nextIndex'[Primary] = nextIndex[Primary], th'[Primary][j] = th[Primary][j]
      PROVE  Bound(s, u, v)'
    BY <1>2 DEF Bound, Heading
<1>3. ASSUME NEW j \in Thread, Adds(th[Primary][j].note, u, v), Heading(s, th[Primary][j]),
             Scans(Primary, t), r = Primary
      PROVE  Bound(s, u, v)'
  <2>1. j = t
    BY <1>0, <1>3 DEF ScanInv, Scanning, Scans, Heading
  <2>2. th[Primary][t].pc = "advance" /\ Hops(nextIndex[Primary]) < Hops(s)
    BY <1>3, <2>1 DEF Scans, Heading
  <2> DEFINE n == NextIdx(nextIndex[Primary])
  <2>3. nextIndex[Primary] \in Server /\ n \in Server /\ nextIndex'[Primary] = n
    BY <1>0, <1>3 DEF TypeOK, Scans, ScanOf
  <2>4. n # Primary /\ Hops(n) = Hops(nextIndex[Primary]) + 1 /\ Hops(n) <= Hops(s)
    BY <1>0, <2>2, <2>3, HopsFacts, Constants
  <2>5. CASE n \in up
    <3>1. n = s
      BY <1>0, <2>3, <2>4, <2>5, HopsFacts
    <3>2. PICK w \in State : /\ w.pc = "write" /\ w.note = th[Primary][t].note /\ w.conn = s
                             /\ ThreadIs(Primary, t, w)
      BY <1>3, <2>4, <2>5, <3>1 DEF Scans, ScanOf
    <3> QED BY <1>3, <2>1, <3>2 DEF Bound, Heading, ThreadIs
  <2>6. CASE n \notin up
    <3>1. th' = th /\ n # s
      BY <1>3, <2>4, <2>6 DEF Scans, ScanOf
    <3>2. Hops(n) < Hops(s)
      BY <1>0, <2>3, <2>4, <3>1, HopsFacts
    <3> QED BY <1>3, <2>1, <2>2, <2>3, <3>1, <3>2 DEF Bound, Heading
  <2> QED BY <2>5, <2>6
<1>4. ASSUME Adds(th[Primary][t].note, u, v), Heading(s, th[Primary][t]), Writes(Primary, t)
      PROVE  Bound(s, u, v)'
  <2>1. th[Primary][t].conn = s
    BY <1>4 DEF Writes, Heading
  <2>2. PICK n : Written(Primary, t, n) /\ net' = net \cup {[to |-> s, note |-> n]}
    BY <1>0, <1>4, <2>1 DEF Writes
  <2>3. Adds(n, u, v) /\ [to |-> s, note |-> n] \in net'
    BY <1>4, <2>2, WrittenAdds
  <2> QED BY <2>3 DEF Bound
<1>5. ASSUME NEW j \in Thread, Adds(th[Primary][j].note, u, v), Heading(s, th[Primary][j])
      PROVE  Bound(s, u, v)'
  <2>1. CASE r # Primary
    <3>1. nextIndex'[Primary] = nextIndex[Primary] /\ th'[Primary][j] = th[Primary][j]
      BY <1>0, <2>1 DEF Scans, ScanOf, Writes, ThreadIs
    <3> QED BY <1>2, <1>5, <3>1
  <2>2. CASE r = Primary /\ Writes(Primary, t) /\ j # t
    <3>1. nextIndex'[Primary] = nextIndex[Primary] /\ th'[Primary][j] = th[Primary][j]
      BY <1>0, <2>2 DEF Writes, ThreadIs
    <3> QED BY <1>2, <1>5, <3>1
  <2> QED BY <1>3, <1>4, <1>5, <2>1, <2>2
<1> QED BY <1>1, <1>5 DEF Bound

LEMMA AwaitedWalk ==
    ASSUME TypeOK, SoundInv, Walkable, NEW s \in up, s # Primary, NEW u \in User,
           NEW v \in UserOrNot, Has(Primary, u, v), WalkStep, "raced" \notin spoiled',
           Bound(s, u, v) \/ Yet(u, v)
    PROVE  Bound(s, u, v)' \/ Yet(u, v)'
<1>0. Primary \in Server /\ s \in Server /\ net' = net /\ "join" \in Thread
    BY Constants DEF TypeOK, WalkStep
<1>1. Grows
    BY <1>0, GrowsNot DEF WalkStep, TablesStay
<1>2. th[Primary]["join"].note = Blank /\ th[Primary]["join"].pc \in {"idle", "walk"}
    BY <1>0, IdleState DEF WalkStep, SoundInv
<1>3. CASE /\ th'[Primary]["join"].note = Blank /\ UNCHANGED nextIndex
           /\ UNCHANGED walk \/ (Ahead = {} /\ walk' = <<Users + 1, 0>>)
  <2>1. ASSUME Bound(s, u, v) PROVE Bound(s, u, v)'
    <3>1. \A j \in Thread : j # "join" => th'[Primary][j] = th[Primary][j]
      BY <1>0 DEF WalkStep, Walks, Begins, ThreadIs
    <3> QED BY <1>0, <1>2, <1>3, <2>1, <3>1, BoundStays
  <2>2. ASSUME Yet(u, v) PROVE Yet(u, v)'
    <3>1. PICK p : Says(p, u, v) /\ Follows(walk, p)
      BY <2>2 DEF Yet
    <3>2. p \in Ahead
      BY <3>1, YetAhead
    <3> QED BY <1>1, <1>3, <2>2, <3>2, YetStays
  <2> QED BY <2>1, <2>2
<1>4. ASSUME NEW o \in Ahead, \A q \in Ahead : o[1] < q[1] \/ (o[1] = q[1] /\ o[2] <= q[2]),
             walk' = o, Begins(Primary, "join", InitialNote(o))
      PROVE  Bound(s, u, v)' \/ Yet(u, v)'
  <2>1. PICK n : n = InitialNote(o)
    OBVIOUS
  <2>2. n \in Notes
    BY <2>1, InitialNotes
  <2>3. Begins(Primary, "join", n)
    BY <1>4, <2>1
  <2>4. Met(Primary) \subseteq spoiled'
    BY <1>0, <2>2, <2>3, BegunState, IdleState DEF WalkStep, Walks, Begins, ThreadIs
  <2>5. ASSUME Bound(s, u, v) PROVE Bound(s, u, v)'
    BY <1>0, <2>4, <2>5, BoundAfter
  <2>6. ASSUME Yet(u, v) PROVE Bound(s, u, v)' \/ Yet(u, v)'
    <3>1. PICK p : Says(p, u, v) /\ Follows(walk, p)
      BY <2>6 DEF Yet
    <3>2. /\ p \in Ahead /\ p[1] \in Nat /\ p[2] \in Nat /\ p = <<p[1], p[2]>>
          /\ Adds(InitialNote(p), u, v)
      BY <3>1, YetAhead
    <3>3. o[1] \in Nat /\ o[2] \in Nat /\ o = <<o[1], o[2]>>
      <4>1. o \in (0 .. Users + 1) \X Nat
        BY InitialNotes
      <4> QED BY <4>1, Constants
    <3>4. p = o \/ Follows(o, p)
      BY <1>4, <3>2, <3>3 DEF Follows
    <3>5. CASE p = o
      BY <1>0, <2>1, <2>2, <2>3, <3>2, <3>5, BegunBound
    <3>6. CASE Follows(o, p)
      <4>1. Says(p, u, v)'
        BY <3>1, <1>0 DEF Says, WalkStep, TablesStay
      <4> QED BY <1>4, <3>6, <4>1 DEF Yet, Follows
    <3> QED BY <3>4, <3>5, <3>6
  <2> QED BY <2>5, <2>6
<1> QED BY <1>3, <1>4 DEF WalkStep, WalksOn

LEMMA AwaitedNext ==
    ASSUME TypeOK, SoundInv, ScanInv, JoinInv, [Next]_vars,
           spoiled' \cap {"raced", "missed", "died"} = {}
    PROVE  Awaited'
<1>0. Primary \in Server /\ Primary \in up /\ "raced" \notin spoiled' /\ Hopping /\ Walkable
    BY Constants DEF JoinInv
<1>1. ASSUME NEW s \in Server, Joins(s) PROVE Awaited'
  <2>1. joined = {} /\ walk = <<0, 0>> /\ walk' = walk /\ joined' = {s}
    BY <1>1, ReplicationAssumption DEF Joins, JoinInv, JoinsOnce, TypeOK
  <2>2. ASSUME NEW u \in User, NEW v \in UserOrNot, Has(Primary, u, v)' PROVE Yet(u, v)'
    <3>1. Has(Primary, u, v) /\ followers' = followers
      BY <1>1, <2>2 DEF Joins, tableVars, Has
    <3>2. CASE v = Nobody
      <4>1. Says(<<u, 0>>, u, v)' /\ Follows(<<0, 0>>, <<u, 0>>)
        BY <3>2, Constants DEF Says, Follows, User
      <4> QED BY <2>1, <4>1 DEF Yet
    <3>3. CASE v # Nobody
      <4>1. v \in User /\ followers[Primary][v] \in Seq(User)
        BY <1>0, <3>3 DEF UserOrNot, TypeOK
      <4>2. PICK i \in 1 .. Len(followers[Primary][v]) : followers[Primary][v][i] = u
        BY <3>1, <3>3, <4>1 DEF Has, Contains
      <4>3. Says(<<v, i>>, u, v)' /\ Follows(<<0, 0>>, <<v, i>>)
        BY <3>1, <3>3, <4>1, <4>2, Constants DEF Says, Follows, User
      <4> QED BY <2>1, <4>3 DEF Yet
    <3> QED BY <3>2, <3>3
  <2> QED BY <2>2 DEF Awaited
<1>2. ASSUME UNCHANGED joined, up' \subseteq up,
             \A s \in joined \cap up : s \in Server /\ s # Primary =>
                \A u \in User, v \in UserOrNot :
                   s \in up' /\ Has(Primary, u, v)'
                     /\ (Has(Primary, u, v) => Has(s, u, v) \/ Bound(s, u, v) \/ Yet(u, v))
                   => Has(s, u, v)' \/ Bound(s, u, v)' \/ Yet(u, v)'
      PROVE  Awaited'
    BY <1>2 DEF Awaited, JoinInv, Nearest, TypeOK
<1>3. ASSUME known'[Primary] = known[Primary], followers'[Primary] = followers[Primary],
             UNCHANGED <<joined, walk>>, up' \subseteq up,
             \A s \in joined \cap up : s \in Server /\ s # Primary =>
                \A u \in User, v \in UserOrNot :
                   s \in up' /\ (Has(s, u, v) \/ Bound(s, u, v)) => Has(s, u, v)' \/ Bound(s, u, v)'
      PROVE  Awaited'
    BY <1>2, <1>3, GrowsNot, YetStays
<1>4. ASSUME NEW n, Asks(n) PROVE Awaited'
  <2>1. Grows /\ n \in Notes /\ "fe" \in Thread
    BY <1>4, AskedGrows, Constants DEF Asks
  <2>2. ASSUME NEW s \in joined \cap up, s \in Server, s # Primary, NEW u \in User,
               NEW v \in UserOrNot, Has(Primary, u, v)',
               Has(Primary, u, v) => Has(s, u, v) \/ Bound(s, u, v) \/ Yet(u, v)
        PROVE  Has(s, u, v)' \/ Bound(s, u, v)' \/ Yet(u, v)'
    <3>1. CASE Adds(n, u, v)
      BY <1>4, <2>1, <2>2, <3>1, BegunBound DEF Asks
    <3>2. CASE ~Adds(n, u, v)
      <4>1. Has(Primary, u, v) /\ (Has(s, u, v) => Has(s, u, v)')
        BY <1>0, <1>4, <2>2, <3>2, HasMoves DEF Asks
      <4>2. Bound(s, u, v) => Bound(s, u, v)'
        BY <1>0, <1>4, BoundAfter DEF Asks
      <4>3. Yet(u, v) => Yet(u, v)'
        BY <1>4, <2>1, YetStays DEF Asks
      <4> QED BY <2>2, <4>1, <4>2, <4>3
    <3> QED BY <3>1, <3>2
  <2> QED BY <1>2, <1>4, <2>2 DEF Asks
<1>5. ASSUME NEW r \in Server, NEW t \in Pool, NEW m \in net, Handles(r, t, m) PROVE Awaited'
  <2>1. known'[Primary] = known[Primary] /\ followers'[Primary] = followers[Primary]
    BY <1>0, <1>5, OnlyAsked DEF Handles, Drops, Counts, Applies, TablesStay, Tables
  <2> QED BY <1>0, <1>3, <1>5, <2>1, AwaitedRead DEF Handles
<1>6. ASSUME NEW r \in Server, NEW t \in Thread, Scans(r, t) \/ Writes(r, t) PROVE Awaited'
  <2>1. /\ known'[Primary] = known[Primary] /\ followers'[Primary] = followers[Primary]
        /\ UNCHANGED <<joined, walk, up>> /\ TablesStay
    BY <1>0, <1>6 DEF Scans, Writes, RestStays, TablesStay
  <2> QED BY <1>3, <1>6, <2>1, HasStays, AwaitedSend DEF JoinInv
<1>7. ASSUME NEW r \in Server, NEW t \in Thread, Recounts(r, t) PROVE Awaited'
  <2>1. /\ known'[Primary] = known[Primary] /\ followers'[Primary] = followers[Primary]
        /\ UNCHANGED <<joined, walk, up, net>> /\ TablesStay
    BY <1>0, <1>7 DEF Recounts, TablesStay
  <2>2. ASSUME NEW s, NEW u, NEW v, Bound(s, u, v) PROVE Bound(s, u, v)'
    <3>1. \A j \in Thread : r # Primary \/ j # t => th'[Primary][j] = th[Primary][j]
      BY <1>0, <1>7 DEF Recounts, Forwards, Begins, ThreadIs
    <3>2. th[r][t].pc \notin {"advance", "write"}
      BY <1>7 DEF Recounts
    <3>3. CASE nextIndex'[Primary] = nextIndex[Primary]
      BY <2>1, <2>2, <3>1, <3>2, <3>3 DEF Bound, Heading
    <3>4. CASE nextIndex'[Primary] # nextIndex[Primary]
      <4>1. Met(Primary) \subseteq spoiled'
        BY <1>0, <1>7, <3>4 DEF Recounts, Forwards, Begins, MetBy
      <4> QED BY <1>0, <2>1, <2>2, <4>1, BoundAfter
    <3> QED BY <3>3, <3>4
  <2> QED BY <1>3, <2>1, <2>2, HasStays
<1>8. CASE WalkStep
  <2>1. TablesStay /\ UNCHANGED <<up, joined>>
    BY <1>8 DEF WalkStep
  <2> QED BY <1>0, <1>2, <1>8, <2>1, HasStays, AwaitedWalk
<1>9. ASSUME NEW r \in Server, Ends(r) PROVE Awaited'
  <2>1. r # Primary
    BY <1>9 DEF Ends
  <2>2. ASSUME NEW s \in Server, s # r, NEW u \in User, NEW v \in UserOrNot, Bound(s, u, v)
        PROVE  Bound(s, u, v)'
    <3>1. ASSUME NEW m \in net, m.to = s, Adds(m.note, u, v) PROVE Bound(s, u, v)'
      BY <1>9, <2>2, <3>1 DEF Ends, Unread, Bound
    <3>2. ASSUME NEW j \in Thread, Adds(th[Primary][j].note, u, v), Heading(s, th[Primary][j])
          PROVE  Bound(s, u, v)'
      BY <1>0, <1>9, <2>1, <2>2, <3>2 DEF Ends, Bound, Heading
    <3> QED BY <2>2, <3>1, <3>2 DEF Bound
  <2>3. \A s \in Server \ {r} : \A u \in User, v \in UserOrNot : Has(s, u, v)' <=> Has(s, u, v)
    BY <1>9 DEF Ends, Has
  <2> QED BY <1>0, <1>3, <1>9, <2>1, <2>2, <2>3 DEF Ends
<1>10. CASE UNCHANGED vars
    BY <1>3, <1>10 DEF vars, tableVars, histVars, Has, Bound, Heading
<1> QED BY <1>1, <1>4, <1>5, <1>6, <1>7, <1>8, <1>9, <1>10, StepDoes

-----------------------------------------------------------------------------
(***************************************************************************)
(* A copy of the table, and what is on its way to it.  While no server     *)
(* comes or goes and nothing meets or overtakes, the primary's table is a  *)
(* follower's with the notifications applied that the follower is still to *)
(* get: the users that are logged in, the sessions that are counted and,   *)
(* in the order in which they were asked for, the followers.               *)
(***************************************************************************)
\* The scan of a thread of s, and what it found, is beyond s; what is counted
\* is counted by a follower, for a user that it knows.
Forwarding == \A s \in Server, t \in Thread :
    LET w == th[s][t] IN
    /\ w.pc = "advance" => Hops(nextIndex[s]) >= Hops(s)
    /\ w.conn \in Server => Place(w.conn) > Hops(s)
    /\ w.pc = "count" => s # Primary /\ w.note.author \in known[s]

\* A notification is in one place at a time.
CarriedOnce ==
    /\ \A m \in net : m.note.id \in 1 .. events
    /\ \A s \in Server, t \in Thread : th[s][t].note # Blank => th[s][t].note.id \in 1 .. events
    /\ \A m, o \in net : m.note.id = o.note.id => m = o
    /\ \A s \in Server, t \in Thread : \A m \in net : th[s][t].note.id # m.note.id
    /\ \A s, r \in Server : \A t, j \in Thread :
          th[s][t].note # Blank /\ th[s][t].note.id = th[r][j].note.id => s = r /\ t = j

\* What a thread of r is to send reaches s.
Reaches(r, w, s) == /\ w.note # Blank /\ Hops(r) < Hops(s)
                    /\ w.conn \in Server => Place(w.conn) <= Hops(s)

\* What is on its way to s, and what s has read and not yet applied.
Pending(s) == {n \in Notes : \/ \E m \in net : m.note = n /\ Place(m.to) <= Hops(s)
                             \/ \E r \in Server, t \in Thread :
                                   th[r][t].note = n /\ Reaches(r, th[r][t], s)}

Counting(s) == {n \in Notes : \E t \in Thread : th[s][t].pc = "count" /\ th[s][t].note = n}

Due(s) == Pending(s) \cup Counting(s)

\* What they do to the number of a user's sessions.
Of(D, command, u) == {n \in D : n.command = command /\ n.author = u}

Balance(D, u) == Cardinality(Of(D, "LOGIN", u)) - Cardinality(Of(D, "LOGOUT", u))

\* Nothing that was sent before what s has applied is still on its way to s.
InStep(s) == \A n \in Pending(s) : n.id >= newest[s]

LogsIn(n, u) == n.command = "LOGIN" /\ n.author = u

Learns(s) ==
    /\ \A u \in known[Primary] : u \in known[s] \/ \E l \in Pending(s) : LogsIn(l, u)
    /\ \A n \in Pending(s) : n.command = "LOGOUT" =>
          \/ n.author \in known[s]
          \/ \E l \in Pending(s) : LogsIn(l, n.author) /\ l.id < n.id

\* The followers that are on their way to s have been asked for in this order.
InOrder(s) == \A n, o \in Pending(s) :
    n.command = "FOLLOW" /\ o.command = "FOLLOW" /\ n.target = o.target /\ n.id < o.id =>
        LET q == followers[Primary][n.target]
        IN  \A i, j \in 1 .. Len(q) : q[i] = n.author /\ q[j] = o.author => i < j

SessionsCopied(s) == \A u \in User : sessions[Primary][u] = sessions[s][u] + Balance(Due(s), u)

\* The notifications in D make the followers f of v into g.
Completes(D, v, f, g) ==
    /\ Len(f) <= Len(g) /\ \A i \in 1 .. Len(f) : f[i] = g[i]
    /\ \A i \in Len(f) + 1 .. Len(g) :
          \E n \in D : n.command = "FOLLOW" /\ n.target = v /\ n.author = g[i]
    /\ \A n \in D : n.command = "FOLLOW" /\ n.target = v =>
          \E i \in Len(f) + 1 .. Len(g) : g[i] = n.author

FollowersCopied(s) == \A v \in User :
    Completes(Pending(s), v, followers[s][v], followers[Primary][v])

Copied(s) == /\ IsFiniteSet(Due(s)) /\ Learns(s) /\ InOrder(s)
             /\ InStep(s) => SessionsCopied(s) /\ FollowersCopied(s)

\* Who has a session is known, and who is not known has none.
LoggedIn == /\ \A u \in User : feSessions[u] > 0 => u \in known[Primary]
            /\ \A s \in Server : \A u \in User \ known[s] : sessions[s][u] = 0

\* Nobody follows twice.
FollowOnce == \A v \in User :
    LET q == followers[Primary][v] IN \A i, j \in 1 .. Len(q) : q[i] = q[j] => i = j

CopyInv == /\ Primary \in up /\ Sourced /\ Forwarding /\ CarriedOnce /\ LoggedIn /\ FollowOnce
           /\ \A s \in up \ {Primary} : Copied(s)

\* Where the notifications are while no server comes or goes.
Settled == /\ TypeOK /\ SoundInv /\ ScanInv /\ LastHop /\ NoWalk /\ joined = {}
           /\ Primary \in up /\ Forwarding /\ CarriedOnce

LEMMA SettledNotes ==
    ASSUME Settled
    PROVE  /\ \A m \in net : /\ m.note \in Notes /\ Whole(m.note) /\ m.to \in Server
                             /\ m.note # Blank /\ (m.to # Primary => m.note.data = 1)
                             /\ (m.to = Primary => m.note.data = 0)
           /\ \A s \in Server, t \in Thread :
                 /\ th[s][t].note \in Notes
                 /\ th[s][t].note # Blank => th[s][t].note.data = 1 /\ Whole(th[s][t].note)
                 /\ th[s][t].conn \in Server \cup {Self}
                 /\ th[s][t].conn = Self \/ th[s][t].pc = "write"
<1>1. /\ th \in [Server -> [Thread -> State]] /\ net \subseteq [to : up, note : Notes]
      /\ up \subseteq Server
    BY DEF Settled, TypeOK
<1>2. ASSUME NEW m \in net
      PROVE  /\ m.note \in Notes /\ Whole(m.note) /\ m.to \in Server
             /\ m.note # Blank /\ (m.to # Primary => m.note.data = 1)
             /\ (m.to = Primary => m.note.data = 0)
  <2>1. m.note \in Notes /\ Whole(m.note) /\ m.to \in Server
    BY <1>1 DEF Settled, SoundInv
  <2>2. m.note # Blank
    BY <2>1, IdleState DEF Whole, Command
  <2>3. m.note.data # 2 /\ IF m.to = Primary THEN m.note.data = 0 ELSE m.note.data # 0
    BY DEF Settled, NoWalk, LastHop
  <2> QED BY <2>1, <2>2, <2>3 DEF Notes
<1>3. ASSUME NEW s \in Server, NEW t \in Thread
      PROVE  /\ th[s][t].note \in Notes
             /\ th[s][t].note # Blank => th[s][t].note.data = 1 /\ Whole(th[s][t].note)
             /\ th[s][t].conn \in Server \cup {Self}
             /\ th[s][t].conn = Self \/ th[s][t].pc = "write"
  <2>1. th[s][t].note \in Notes /\ th[s][t].conn \in 0 .. Gone
        /\ th[s][t].pc \in {"idle", "advance", "write", "walk", "count"}
    BY <1>1 DEF State
  <2>2. th[s][t].conn # Gone /\ th[s][t].note.data # 2
        /\ (th[s][t].pc \in {"advance", "write", "count"} => th[s][t].note.data # 0)
    BY DEF Settled, LastHop, NoWalk
  <2>3. /\ th[s][t].note = Blank \/ Whole(th[s][t].note)
        /\ th[s][t].pc \in {"idle", "walk"} => th[s][t].note = Blank
        /\ th[s][t].conn \in Server => th[s][t].pc = "write"
    BY DEF Settled, SoundInv
  <2> QED BY <2>1, <2>2, <2>3, Constants DEF Notes
<1> QED BY <1>2, <1>3

\* A message that brings n, and a thread but that one that sends it.
NetTo(s, n) == \E m \in net : m.note = n /\ Place(m.to) <= Hops(s)

Elsewhere(s, n, q, i) == \E r \in Server, t \in Thread :
    /\ r # q \/ t # i
    /\ th[r][t].note = n /\ Reaches(r, th[r][t], s)

\* What is on its way, when thread i of q moves to w.
LEMMA Whence ==
    ASSUME NEW q \in Server, NEW i \in Thread, NEW w, ThreadIs(q, i, w), NEW s, NEW n \in Notes
    PROVE  /\ n \in Pending(s) <=> \/ NetTo(s, n)
                                   \/ th[q][i].note = n /\ Reaches(q, th[q][i], s)
                                   \/ Elsewhere(s, n, q, i)
           /\ n \in Pending(s)' <=> \/ NetTo(s, n)'
                                    \/ w.note = n /\ Reaches(q, w, s)
                                    \/ Elsewhere(s, n, q, i)
<1>1. n \in Pending(s) <=> \/ NetTo(s, n)
                           \/ th[q][i].note = n /\ Reaches(q, th[q][i], s)
                           \/ Elsewhere(s, n, q, i)
    BY DEF Pending, NetTo, Elsewhere
<1>2. Elsewhere(s, n, q, i)' <=> Elsewhere(s, n, q, i)
    BY DEF Elsewhere, ThreadIs, Reaches
<1>3. n \in Pending(s)' <=> \/ NetTo(s, n)'
                            \/ th'[q][i].note = n /\ Reaches(q, th'[q][i], s)
                            \/ Elsewhere(s, n, q, i)'
    BY DEF Pending, NetTo, Elsewhere, Reaches
<1> QED BY <1>1, <1>2, <1>3 DEF ThreadIs

\* What is counted, when thread i of q moves to w.
LEMMA CountedWhence ==
    ASSUME NEW q \in Server, NEW i \in Thread, NEW w, ThreadIs(q, i, w), NEW s \in Server
    PROVE  /\ s # q => Counting(s)' = Counting(s)
           /\ th[q][i].pc # "count" /\ w.pc # "count" => Counting(s)' = Counting(s)
    BY DEF Counting, ThreadIs

LEMMA PendingAsked ==
    ASSUME Settled, NEW s \in Server \ {Primary}, NEW n, Asks(n)
    PROVE  Pending(s)' = Pending(s) \cup {n} /\ Counting(s)' = Counting(s)
<1>1. /\ ThreadIs(Primary, "fe", Begun(n)) /\ "fe" \in Thread /\ Primary \in Server
      /\ n \in Notes /\ n # Blank /\ th[Primary]["fe"] = Idle /\ UNCHANGED net
    BY Constants, IdleState DEF Asks, Begins, Whole, Command
<1>2. ~Reaches(Primary, Idle, s) /\ Reaches(Primary, Begun(n), s)
    BY <1>1, IdleState, BegunState, HopsFacts, Constants DEF Reaches
<1>3. ASSUME NEW o \in Notes PROVE o \in Pending(s)' <=> o \in Pending(s) \/ o = n
  <2>1. NetTo(s, o)' <=> NetTo(s, o)
    BY <1>1 DEF NetTo
  <2> QED BY <1>1, <1>2, <2>1, Whence, BegunState
<1>4. Pending(s)' = Pending(s) \cup {n}
  <2>1. Pending(s) \subseteq Notes /\ Pending(s)' \subseteq Notes
    BY DEF Pending
  <2> QED BY <1>1, <1>3, <2>1
<1>5. Counting(s)' = Counting(s)
    BY <1>1, CountedWhence, IdleState, BegunState
<1> QED BY <1>4, <1>5

\* A follower forwards what it reads, or counts and then forwards it.
LEMMA FollowerReads ==
    ASSUME Settled, NEW r \in Server, NEW t \in Pool, NEW m \in net, Handles(r, t, m)
    PROVE  /\ t \in Thread /\ m.to = r /\ th[r][t] = Idle /\ net' = net \ {m} /\ UNCHANGED up
           /\ r = Primary => UNCHANGED <<th, nextIndex>> /\ TablesStay /\ SessionsStay
                             /\ UNCHANGED newest
           /\ r # Primary =>
                 \E w \in State : /\ ThreadIs(r, t, w) /\ w.note = m.note /\ w.conn = Self
                                  /\ \/ Counts(r, t, m.note) /\ w.pc = "count"
                                     \/ Applies(r, t, m.note) /\ w.pc = "advance"
<1>1. /\ t \in Thread /\ m.to = r /\ th[r][t] = Idle /\ net' = net \ {m} /\ UNCHANGED up
      /\ m.note \in Notes
    BY Constants DEF Handles
<1>2. TypeOK /\ SoundInv /\ Hopping
    BY DEF Settled, LastHop, Hopping
<1>3. CASE r = Primary
  <2>1. Drops(r, m)
    BY <1>2, <1>3, OnlyAsked DEF Handles, Counts
  <2> QED BY <1>1, <1>3, <2>1 DEF Drops
<1>4. CASE r # Primary
  <2>1. m.note.data = 1
    BY <1>1, <1>4, SettledNotes
  <2>2. ~Drops(r, m)
    BY <1>4, <2>1 DEF Drops
  <2>3. CASE Counts(r, t, m.note)
    BY <1>1, <1>4, <2>3 DEF Counts
  <2>4. CASE Applies(r, t, m.note)
    <3>1. ThreadIs(r, t, Begun(m.note))
      BY <2>1, <2>4 DEF Applies, Forwards, Begins
    <3> QED BY <1>1, <1>4, <2>4, <3>1, BegunState
  <2> QED BY <2>2, <2>3, <2>4 DEF Handles
<1> QED BY <1>1, <1>3, <1>4

LEMMA PendingRead ==
    ASSUME Settled, NEW s \in Server \ {Primary},
           NEW r \in Server, NEW t \in Pool, NEW m \in net, Handles(r, t, m)
    PROVE  /\ r # s => Pending(s)' = Pending(s) /\ Counting(s)' = Counting(s)
           /\ r = s => /\ m.note \in Pending(s) /\ m.note \notin Counting(s)
                       /\ Pending(s)' = Pending(s) \ {m.note}
                       /\ Counts(s, t, m.note) => Counting(s)' = Counting(s) \cup {m.note}
                       /\ Applies(s, t, m.note) => Counting(s)' = Counting(s)
<1>1. /\ t \in Thread /\ m.to = r /\ th[r][t] = Idle /\ net' = net \ {m} /\ UNCHANGED up
      /\ m.note \in Notes /\ m.note # Blank
    BY FollowerReads, SettledNotes
<1>2. Pending(s) \subseteq Notes /\ Pending(s)' \subseteq Notes
    BY DEF Pending
<1>3. CASE r = Primary
  <2>1. Place(r) > Hops(s) /\ th' = th
    BY <1>3, FollowerReads, HopsFacts, Constants DEF Place
  <2>2. \A n : NetTo(s, n)' <=> NetTo(s, n)
    BY <1>1, <2>1, HopsFacts DEF NetTo
  <2>3. \A n \in Notes : n \in Pending(s)' <=> n \in Pending(s)
    BY <2>1, <2>2 DEF Pending, NetTo, Reaches
  <2>4. Counting(s)' = Counting(s)
    BY <2>1 DEF Counting
  <2> QED BY <1>2, <1>3, <2>3, <2>4
<1>4. CASE r # Primary
  <2>1. PICK w \in State : /\ ThreadIs(r, t, w) /\ w.note = m.note /\ w.conn = Self
                           /\ \/ Counts(r, t, m.note) /\ w.pc = "count"
                              \/ Applies(r, t, m.note) /\ w.pc = "advance"
    BY <1>4, FollowerReads
  <2>2. Reaches(r, w, s) <=> Hops(r) < Hops(s)
    BY <1>1, <2>1, Constants DEF Reaches
  <2>3. ~Reaches(r, th[r][t], s) /\ Place(r) = Hops(r) /\ th[r][t].pc = "idle"
    BY <1>1, <1>4, IdleState DEF Reaches, Place
  <2>4. CASE r # s
    <3>1. Place(r) <= Hops(s) <=> Hops(r) < Hops(s)
      BY <2>3, <2>4, HopsFacts
    <3>2. \A n : NetTo(s, n) => NetTo(s, n)' \/ (n = m.note /\ Hops(r) < Hops(s))
      BY <1>1, <3>1 DEF NetTo
    <3>3. \A n : NetTo(s, n)' => NetTo(s, n)
      BY <1>1 DEF NetTo
    <3>4. Hops(r) < Hops(s) => NetTo(s, m.note)
      BY <1>1, <3>1 DEF NetTo
    <3>5. ASSUME NEW n \in Notes PROVE n \in Pending(s)' <=> n \in Pending(s)
      BY <2>1, <2>2, <2>3, <3>2, <3>3, <3>4, <1>1, Whence
    <3>6. Counting(s)' = Counting(s)
      BY <1>1, <2>1, <2>4, CountedWhence
    <3> QED BY <1>2, <2>4, <3>5, <3>6
  <2>5. CASE r = s
    <3>1. NetTo(s, m.note) /\ ~Reaches(r, w, s)
      BY <1>1, <2>2, <2>3, <2>5, HopsFacts DEF NetTo
    <3>2. ~NetTo(s, m.note)'
      BY <1>1 DEF NetTo, Settled, CarriedOnce
    <3>3. \A q \in Server, j \in Thread : th[q][j].note # m.note
      BY DEF Settled, CarriedOnce
    <3>4. \A n : n # m.note => (NetTo(s, n)' <=> NetTo(s, n))
      BY <1>1 DEF NetTo
    <3>5. ~Elsewhere(s, m.note, r, t)
      BY <3>3 DEF Elsewhere
    <3>6. ASSUME NEW n \in Notes
          PROVE  n \in Pending(s)' <=> n \in Pending(s) /\ n # m.note
      BY <1>1, <2>1, <2>3, <3>1, <3>2, <3>4, <3>5, Whence
    <3>7. m.note \in Pending(s)
      BY <1>1, <2>1, <3>1, Whence
    <3>8. m.note \notin Counting(s)
      BY <3>3, <2>5 DEF Counting
    <3>9. Counts(s, t, m.note) => Counting(s)' = Counting(s) \cup {m.note}
      <4>1. Counts(s, t, m.note) => w.pc = "count"
        BY <2>1, <2>5, BegunState, Constants DEF Counts, ThreadIs
      <4> QED BY <1>1, <2>1, <2>3, <2>5, <4>1 DEF Counting, ThreadIs
    <3>10. Applies(s, t, m.note) => Counting(s)' = Counting(s)
      <4>1. Applies(s, t, m.note) => w.pc # "count"
        BY <1>1, <2>1, <2>5, BegunState, IdleState DEF Applies, Forwards, Begins, ThreadIs
      <4> QED BY <1>1, <2>1, <2>3, <2>5, <4>1, CountedWhence
    <3> QED BY <1>2, <2>5, <3>6, <3>7, <3>8, <3>9, <3>10
  <2> QED BY <2>4, <2>5
<1> QED BY <1>3, <1>4

\* A scan finds no server that is beyond one that is there.
LEMMA PendingScanned ==
    ASSUME Settled, NEW s \in up, s # Primary, NEW r \in Server, NEW t \in Thread, Scans(r, t)
    PROVE  Pending(s)' = Pending(s) /\ \A q \in Server : Counting(q)' = Counting(q)
<1>1. /\ Pending(s) \subseteq Notes /\ Pending(s)' \subseteq Notes
      /\ s \in Server /\ s \in Stayed
    BY DEF Pending, Settled, Stayed, TypeOK
<1>2. CASE UNCHANGED th
  <2>1. UNCHANGED net
    BY DEF Scans
  <2> QED BY <1>2, <2>1 DEF Pending, Counting, Reaches
<1>3. CASE ~UNCHANGED th
  <2>1. PICK w \in State : /\ w.pc = "write" /\ w.note = th[r][t].note /\ ThreadIs(r, t, w)
                           /\ w.conn = Self \/ w.conn = NextIdx(nextIndex[r])
    BY <1>3 DEF Scans, ScanOf
  <2>2. th[r][t].conn = Self /\ th[r][t].pc = "advance" /\ ScanOf(r, t) /\ UNCHANGED net
    BY SettledNotes DEF Scans
  <2>3. Hops(r) < Hops(s) => Place(NextIdx(nextIndex[r])) <= Hops(s)
    <3>1. SoundInv /\ ScanInv /\ TypeOK
      BY DEF Settled
    <3>2. Hops(r) < Hops(s) => Hops(s) > Hops(r)
      BY <1>1, HopsFacts
    <3> QED BY <1>1, <2>2, <3>1, <3>2, NobodyPassed
  <2>4. Reaches(r, w, s) <=> Reaches(r, th[r][t], s)
    BY <2>1, <2>2, <2>3, Constants DEF Reaches
  <2>5. \A n \in Notes : n \in Pending(s)' <=> n \in Pending(s)
    BY <2>1, <2>2, <2>4, Whence DEF NetTo
  <2>6. \A q \in Server : Counting(q)' = Counting(q)
    BY <2>1, <2>2, CountedWhence
  <2> QED BY <1>1, <2>5, <2>6
<1> QED BY <1>2, <1>3

LEMMA PendingWritten ==
    ASSUME Settled, NEW s \in Server \ {Primary}, NEW r \in Server, NEW t \in Thread, Writes(r, t)
    PROVE  Pending(s)' = Pending(s) /\ \A q \in Server : Counting(q)' = Counting(q)
<1> DEFINE c == th[r][t].conn
           o == th[r][t].note
<1>1. Pending(s) \subseteq Notes /\ Pending(s)' \subseteq Notes
    BY DEF Pending
<1>2. /\ th[r][t].pc = "write" /\ c \in Server /\ ThreadIs(r, t, Sent(t))
      /\ o \in Notes /\ (o # Blank => o.data = 1) /\ c # Gone
    BY SettledNotes, Constants DEF Writes
<1>3. o # Blank /\ nextIndex[r] = c /\ Place(c) > Hops(r)
    BY <1>2, IdleState DEF Settled, SoundInv, ScanInv, Forwarding, Whole, Command
<1>4. PICK n : Written(r, t, n) /\ net' = net \cup {[to |-> c, note |-> n]}
    BY <1>2 DEF Writes
<1>5. c # Primary => n = o
  <2>1. c # Primary => n.data = o.data
    BY <1>2, <1>3, <1>4 DEF Written, KeepReplicating
  <2> QED BY <1>2, <1>4, <2>1 DEF Written, Notes
<1>6. c = Primary => Place(c) > Hops(s)
    BY HopsFacts, Constants DEF Place
<1>7. Reaches(r, th[r][t], s) <=> Place(c) <= Hops(s)
    BY <1>2, <1>3, HopsFacts DEF Reaches
<1>8. ~Reaches(r, Sent(t), s)
    BY SentState DEF Reaches
<1>9. ASSUME NEW p \in Notes PROVE p \in Pending(s)' <=> p \in Pending(s)
  <2>1. NetTo(s, p)' <=> NetTo(s, p) \/ (p = n /\ Place(c) <= Hops(s))
    <3> DEFINE x == [to |-> c, note |-> n]
    <3>1. net' = net \cup {x} /\ x.to = c /\ x.note = n
      BY <1>4
    <3> HIDE DEF x, c
    <3> QED BY <3>1 DEF NetTo
  <2>2. p = n /\ Place(c) <= Hops(s) <=> p = o /\ Place(c) <= Hops(s)
    BY <1>2, <1>5, <1>6, HopsFacts
  <2> QED BY <1>2, <1>7, <1>8, <2>1, <2>2, Whence
<1>10. \A q \in Server : Counting(q)' = Counting(q)
    BY <1>2, SentState, CountedWhence
<1> QED BY <1>1, <1>9, <1>10

LEMMA PendingCounted ==
    ASSUME Settled, NEW s \in Server \ {Primary}, NEW r \in Server, NEW t \in Thread,
           Recounts(r, t)
    PROVE  LET o == th[r][t].note IN
           /\ Pending(s)' = Pending(s)
           /\ r # s => Counting(s)' = Counting(s)
           /\ r = s => /\ o \in Counting(s) /\ o \notin Pending(s)
                       /\ Counting(s)' = Counting(s) \ {o}
<1> DEFINE o == th[r][t].note
<1>1. Pending(s) \subseteq Notes /\ Pending(s)' \subseteq Notes
    BY DEF Pending
<1>2. /\ th[r][t].pc = "count" /\ th[r][t].conn = Self /\ o \in Notes /\ o # Blank
      /\ o.data = 1 /\ UNCHANGED net
  <2>1. th[r][t].pc = "count" /\ UNCHANGED net
    BY DEF Recounts
  <2>2. o # Blank
    BY <2>1, IdleState DEF Settled, SoundInv, Whole, Command
  <2> QED BY <2>1, <2>2, SettledNotes
<1>3. ThreadIs(r, t, Begun(o))
    BY <1>2 DEF Recounts, Forwards, Begins
<1>4. Reaches(r, Begun(o), s) <=> Reaches(r, th[r][t], s)
    BY <1>2, BegunState, Constants DEF Reaches
<1>5. \A n \in Notes : n \in Pending(s)' <=> n \in Pending(s)
    BY <1>2, <1>3, <1>4, BegunState, Whence DEF NetTo
<1>6. r # s => Counting(s)' = Counting(s)
    BY <1>3, CountedWhence
<1>7. ASSUME r = s
      PROVE  o \in Counting(s) /\ o \notin Pending(s) /\ Counting(s)' = Counting(s) \ {o}
  <2>1. \A q \in Server, j \in Thread : th[q][j].note = o => q = r /\ j = t
    BY <1>2 DEF Settled, CarriedOnce
  <2>2. \A m \in net : m.note # o
    BY DEF Settled, CarriedOnce
  <2>3. ~Reaches(r, th[r][t], s)
    BY <1>7, HopsFacts DEF Reaches
  <2>4. o \notin Pending(s)
    BY <2>1, <2>2, <2>3 DEF Pending
  <2>5. o \in Counting(s)
    BY <1>2, <1>7 DEF Counting
  <2>6. Counting(s)' = Counting(s) \ {o}
    BY <1>3, <1>7, <2>1, BegunState, <1>2 DEF Counting, ThreadIs
  <2> QED BY <2>4, <2>5, <2>6
<1> QED BY <1>1, <1>5, <1>6, <1>7

-----------------------------------------------------------------------------
(* One place at a time, and onwards.                                        *)

LEMMA ForwardingNext ==
    ASSUME Settled, SettledStep, TypeOK', \A s \in Server : known[s] \subseteq known'[s],
           "raced" \notin spoiled'
    PROVE  Forwarding'
<1> DEFINE On(s, w) == /\ w.conn \in Server => Place(w.conn) > Hops(s)
                       /\ w.pc = "count" => s # Primary /\ w.note.author \in known'[s]
           Scan(s) == \A j \in Thread : th[s][j].pc = "advance" => Hops(nextIndex[s]) >= Hops(s)
<1>1. \A s \in Server, t \in Thread : On(s, th[s][t])
    BY DEF Settled, Forwarding
<1>2. \A s \in Server : Scan(s)
    BY DEF Settled, Forwarding
<1>3. ASSUME \A s \in Server : Scan(s)', \A s \in Server, t \in Thread : On(s, th'[s][t])
      PROVE  Forwarding'
    BY <1>3 DEF Forwarding
<1>4. ASSUME NEW q \in Server, NEW i \in Thread, NEW w, ThreadIs(q, i, w), On(q, w),
             \A s \in Server : Scan(s)'
      PROVE  Forwarding'
    BY <1>1, <1>3, <1>4 DEF ThreadIs
<1>5. ASSUME NEW q \in Server, NEW i \in Thread, NEW w, ThreadIs(q, i, w), UNCHANGED nextIndex,
             w.pc = "advance" => th[q][i].pc = "advance"
      PROVE  \A s \in Server : Scan(s)'
    BY <1>2, <1>5 DEF ThreadIs
<1>6. ASSUME NEW q \in Server, NEW i \in Thread, NEW n \in Notes, Begins(q, i, n)
      PROVE  Forwarding'
  <2>1. /\ ThreadIs(q, i, Begun(n)) /\ nextIndex'[q] = q
        /\ \A s \in Server \ {q} : /\ nextIndex'[s] = nextIndex[s]
                                   /\ \A j \in Thread : th'[s][j] = th[s][j]
    BY <1>6 DEF Begins, ThreadIs
  <2>2. \A s \in Server : Scan(s)'
    BY <1>2, <2>1, HopsFacts
  <2>3. On(q, Begun(n))
    BY BegunState, Constants
  <2> QED BY <1>4, <2>1, <2>2, <2>3
<1>7. ASSUME NEW q \in Server, NEW i \in Thread, NEW n \in Notes, Forwards(q, i, n)
      PROVE  Forwarding'
  <2>1. CASE n.data = 1
    BY <1>6, <1>7, <2>1 DEF Forwards
  <2>2. CASE n.data # 1
    <3>1. ThreadIs(q, i, Idle) /\ UNCHANGED nextIndex /\ On(q, Idle) /\ Idle.pc = "idle"
      BY <1>7, <2>2, IdleState, Constants DEF Forwards
    <3> QED BY <1>4, <1>5, <3>1
  <2> QED BY <2>1, <2>2
<1>8. ASSUME UNCHANGED <<th, nextIndex>> PROVE Forwarding'
    BY <1>1, <1>2, <1>3, <1>8
<1>9. ASSUME NEW n, Asks(n) PROVE Forwarding'
    BY <1>6, <1>9, Constants DEF Asks
<1>10. ASSUME NEW r \in Server, NEW t \in Pool, NEW m \in net, Handles(r, t, m)
       PROVE  Forwarding'
  <2>1. m.note \in Notes /\ t \in Thread
    BY <1>10, FollowerReads DEF Handles
  <2>2. CASE Drops(r, m)
    BY <1>8, <2>2 DEF Drops
  <2>3. CASE Counts(r, t, m.note)
    <3>1. PICK w \in State : w.pc = "count" /\ w.note = m.note /\ w.conn = Self
                             /\ ThreadIs(r, t, w)
      BY <2>3 DEF Counts
    <3>2. On(r, w) /\ UNCHANGED nextIndex
      BY <2>3, <3>1, Constants DEF Counts
    <3> QED BY <1>4, <1>5, <2>1, <3>1, <3>2
  <2>4. CASE Applies(r, t, m.note)
    BY <1>7, <2>1, <2>4 DEF Applies
  <2> QED BY <1>10, <2>2, <2>3, <2>4 DEF Handles
<1>11. ASSUME NEW r \in Server, NEW t \in Thread, Scans(r, t) PROVE Forwarding'
  <2> DEFINE n == NextIdx(nextIndex[r])
  <2>1. /\ th[r][t].pc = "advance" /\ n \in Server /\ nextIndex[r] \in Server
        /\ nextIndex'[r] = n /\ \A s \in Server \ {r} : nextIndex'[s] = nextIndex[s]
    BY <1>11 DEF Scans, ScanOf, Settled, TypeOK
  <2>2. Hops(nextIndex[r]) >= Hops(r) /\ \A j \in Thread \ {t} : th[r][j].pc # "advance"
    <3>1. \A i, j \in Scanning(r) : i = j
      BY DEF Settled, ScanInv
    <3> QED BY <1>2, <2>1, <3>1 DEF Scanning
  <2>3. n # Primary => Hops(n) >= Hops(r) /\ Hops(n) > Hops(r)
    BY <2>1, <2>2, HopsFacts
  <2>4. n # r => Place(n) > Hops(r)
    BY <2>1, <2>3, HopsFacts DEF Place
  <2>5. CASE UNCHANGED th
    <3>1. n # Primary
      BY <1>11, <2>1, <2>5, IdleState DEF Scans, ScanOf, Settled, ThreadIs
    <3>2. \A s \in Server : Scan(s)'
      BY <1>2, <2>1, <2>3, <2>5, <3>1
    <3> QED BY <1>1, <1>3, <2>5, <3>2
  <2>6. CASE ~UNCHANGED th
    <3>1. PICK w \in State : /\ w.pc = "write" /\ ThreadIs(r, t, w)
                             /\ w.conn = IF n = r THEN Self ELSE n
      BY <1>11, <2>6 DEF Scans, ScanOf
    <3>2. On(r, w)
      BY <2>4, <3>1, Constants
    <3>3. \A s \in Server : Scan(s)'
      BY <1>2, <2>1, <2>2, <3>1 DEF ThreadIs
    <3> QED BY <1>4, <3>1, <3>2, <3>3
  <2> QED BY <2>5, <2>6
<1>12. ASSUME NEW r \in Server, NEW t \in Thread, Writes(r, t) PROVE Forwarding'
  <2>1. ThreadIs(r, t, Sent(t)) /\ UNCHANGED nextIndex
    BY <1>12 DEF Writes
  <2>2. On(r, Sent(t)) /\ Sent(t).pc # "advance"
    BY SentState, Constants
  <2> QED BY <1>4, <1>5, <2>1, <2>2
<1>13. ASSUME NEW r \in Server, NEW t \in Thread, Recounts(r, t) PROVE Forwarding'
    BY <1>7, <1>13, SettledNotes DEF Recounts
<1> QED BY <1>9, <1>10, <1>11, <1>12, <1>13 DEF SettledStep

\* A thread takes up a notification that nobody else has, or none.
LEMMA CarriedMoves ==
    ASSUME CarriedOnce, NEW q \in Server, NEW i \in Thread, NEW w, ThreadIs(q, i, w),
           events \in Nat, events' \in Nat, events' >= events,
           \A m \in net' : m.note.id \in 1 .. events',
           \A m, o \in net' : m.note.id = o.note.id => m = o,
           \A r \in Server, j \in Thread : r # q \/ j # i =>
              \A m \in net' : th[r][j].note.id # m.note.id,
           \A m \in net' : w.note.id # m.note.id,
           w.note # Blank =>
              /\ w.note.id \in 1 .. events'
              /\ \A r \in Server, j \in Thread : r # q \/ j # i => th[r][j].note.id # w.note.id
    PROVE  CarriedOnce'
<1>1. /\ th'[q][i] = w
      /\ \A r \in Server, j \in Thread : r # q \/ j # i => th'[r][j] = th[r][j]
    BY DEF ThreadIs
<1>2. \A s \in Server, t \in Thread : th'[s][t].note # Blank => th'[s][t].note.id \in 1 .. events'
    BY <1>1 DEF CarriedOnce
<1>3. \A s \in Server, t \in Thread : \A m \in net' : th'[s][t].note.id # m.note.id
    BY <1>1
<1>4. \A s \in Server, t \in Thread : th[s][t].note.id = 0 \/ th[s][t].note # Blank
    BY IdleState
<1>5. ASSUME NEW s \in Server, NEW t \in Thread, th'[s][t].note # Blank,
             NEW r \in Server, NEW j \in Thread, th'[s][t].note.id = th'[r][j].note.id
      PROVE  s = r /\ t = j
  <2>1. CASE s = q /\ t = i
    BY <1>1, <1>5, <2>1
  <2>2. CASE ~(s = q /\ t = i) /\ r = q /\ j = i
    <3>1. th'[s][t] = th[s][t] /\ th[s][t].note.id \in 1 .. events /\ w.note.id = th[s][t].note.id
      BY <1>1, <1>5, <2>2 DEF CarriedOnce
    <3>2. w.note # Blank
      BY <3>1, IdleState
    <3> QED BY <2>2, <3>1, <3>2
  <2>3. CASE ~(s = q /\ t = i) /\ ~(r = q /\ j = i)
    BY <1>1, <1>5, <2>3 DEF CarriedOnce
  <2> QED BY <2>1, <2>2, <2>3
<1> QED BY <1>2, <1>3, <1>5 DEF CarriedOnce

LEMMA CarriedNext ==
    ASSUME Settled, SettledStep, TypeOK'
    PROVE  CarriedOnce'
<1>0. /\ CarriedOnce /\ events \in Nat /\ events' \in Nat /\ Blank.id = 0 /\ Idle.note = Blank
      /\ \A m \in net : m.note.id \in 1 .. events
      /\ \A s \in Server, t \in Thread : th[s][t].note.id \in 0 .. events
  <2>1. CarriedOnce /\ events \in Nat /\ events' \in Nat /\ Blank.id = 0 /\ Idle.note = Blank
    BY IdleState, Constants DEF Settled, TypeOK
  <2>2. \A m \in net : m.note.id \in 1 .. events
    BY <2>1 DEF CarriedOnce
  <2>3. ASSUME NEW s \in Server, NEW t \in Thread PROVE th[s][t].note.id \in 0 .. events
    <3>1. CASE th[s][t].note = Blank
      BY <2>1, <3>1
    <3>2. CASE th[s][t].note # Blank
      BY <2>1, <3>2 DEF CarriedOnce
    <3> QED BY <3>1, <3>2
  <2> QED BY <2>1, <2>2, <2>3
<1>1. ASSUME NEW n, Asks(n) PROVE CarriedOnce'
  <2>1. ThreadIs(Primary, "fe", Begun(n)) /\ UNCHANGED net /\ n.id = events + 1
        /\ events' = events + 1 /\ n \in Notes
    BY <1>1 DEF Asks, Begins
  <2>2. /\ \A m \in net' : m.note.id \in 1 .. events' /\ m.note.id # n.id
        /\ \A r \in Server, j \in Thread : th[r][j].note.id # n.id
        /\ n.id \in 1 .. events'
    BY <1>0, <2>1
  <2>3. /\ \A m, o \in net' : m.note.id = o.note.id => m = o
        /\ \A r \in Server, j \in Thread : \A m \in net' : th[r][j].note.id # m.note.id
    BY <2>1 DEF Settled, CarriedOnce
  <2>4. Begun(n).note = n /\ "fe" \in Thread /\ Primary \in Server /\ events' >= events
    BY <1>0, <2>1, BegunState, Constants
  <2> QED BY <1>0, <2>1, <2>2, <2>3, <2>4, CarriedMoves
<1>2. ASSUME NEW r \in Server, NEW t \in Pool, NEW m \in net, Handles(r, t, m)
      PROVE  CarriedOnce'
  <2>1. t \in Thread /\ th[r][t] = Idle /\ net' = net \ {m} /\ events' = events
    BY <1>2, FollowerReads DEF Handles
  <2>2. CASE r = Primary
    <3>1. th' = th
      BY <1>2, <2>2, FollowerReads
    <3> QED BY <1>0, <2>1, <3>1 DEF CarriedOnce
  <2>3. CASE r # Primary
    <3>1. PICK w : ThreadIs(r, t, w) /\ w.note = m.note
      BY <1>2, <2>3, FollowerReads
    <3>2. \A o \in net' : w.note.id # o.note.id
      BY <1>0, <2>1, <3>1 DEF CarriedOnce
    <3> QED BY <1>0, <2>1, <3>1, <3>2, CarriedMoves DEF CarriedOnce
  <2> QED BY <2>2, <2>3
<1>3. ASSUME NEW r \in Server, NEW t \in Thread, NEW w, ThreadIs(r, t, w),
             w.note = th[r][t].note, UNCHANGED <<net, events>>
      PROVE  CarriedOnce'
    BY <1>0, <1>3, CarriedMoves DEF CarriedOnce
<1>4. ASSUME NEW r \in Server, NEW t \in Thread, Scans(r, t) PROVE CarriedOnce'
  <2>1. UNCHANGED <<net, events>>
    BY <1>4 DEF Scans, RestStays
  <2>2. CASE UNCHANGED th
    BY <1>0, <2>1, <2>2 DEF CarriedOnce
  <2>3. CASE ~UNCHANGED th
    BY <1>3, <1>4, <2>1, <2>3 DEF Scans, ScanOf
  <2> QED BY <2>2, <2>3
<1>5. ASSUME NEW r \in Server, NEW t \in Thread, Writes(r, t) PROVE CarriedOnce'
  <2>1. /\ ThreadIs(r, t, Sent(t)) /\ events' = events /\ Sent(t).note = Blank
        /\ th[r][t].note # Blank /\ th[r][t].conn # Gone
    BY <1>5, SentState, IdleState
       DEF Writes, RestStays, Settled, SoundInv, LastHop, Whole, Command
  <2>2. PICK n : /\ Written(r, t, n)
                 /\ net' = net \cup {[to |-> th[r][t].conn, note |-> n]}
    BY <1>5, <2>1 DEF Writes
  <2> DEFINE x == [to |-> th[r][t].conn, note |-> n]
  <2>3. net' = net \cup {x} /\ x.note.id = th[r][t].note.id
    BY <2>2 DEF Written
  <2> HIDE DEF x
  <2>4. th[r][t].note.id \in 1 .. events
    BY <2>1 DEF Settled, CarriedOnce
  <2>5. \A m \in net' : m.note.id \in 1 .. events'
    BY <1>0, <2>1, <2>3, <2>4
  <2>6. \A m, o \in net' : m.note.id = o.note.id => m = o
    BY <2>3 DEF Settled, CarriedOnce
  <2>7. \A q \in Server, j \in Thread : q # r \/ j # t =>
           \A m \in net' : th[q][j].note.id # m.note.id
    BY <2>1, <2>3 DEF Settled, CarriedOnce
  <2>8. \A m \in net' : Sent(t).note.id # m.note.id
    BY <1>0, <2>1, <2>5
  <2> QED BY <1>0, <2>1, <2>5, <2>6, <2>7, <2>8, CarriedMoves
<1>6. ASSUME NEW r \in Server, NEW t \in Thread, Recounts(r, t) PROVE CarriedOnce'
  <2>1. th[r][t].note \in Notes /\ th[r][t].note # Blank /\ th[r][t].note.data = 1
    <3>1. th[r][t].note # Blank
      BY <1>6, IdleState DEF Recounts, Settled, SoundInv, Whole, Command
    <3> QED BY <3>1, SettledNotes
  <2>2. ThreadIs(r, t, Begun(th[r][t].note)) /\ UNCHANGED <<net, events>>
    BY <1>6, <2>1 DEF Recounts, Forwards, Begins
  <2> QED BY <1>3, <2>1, <2>2, BegunState
<1> QED BY <1>1, <1>2, <1>4, <1>5, <1>6 DEF SettledStep

-----------------------------------------------------------------------------
(* What is due makes up for what is missing.                                *)

\* What n does to the number of u's sessions.
Worth(n, u) == IF n.author # u THEN 0
               ELSE IF n.command = "LOGIN" THEN 1 ELSE IF n.command = "LOGOUT" THEN -1 ELSE 0

LEMMA OfFinite ==
    ASSUME NEW D, IsFiniteSet(D), NEW c, NEW u
    PROVE  IsFiniteSet(Of(D, c, u)) /\ Cardinality(Of(D, c, u)) \in Nat
<1>1. Of(D, c, u) \subseteq D
    BY DEF Of
<1>2. IsFiniteSet(Of(D, c, u))
    BY <1>1, FS_Subset
<1> QED BY <1>2, FS_CardinalityType

LEMMA OfMore ==
    ASSUME NEW D, IsFiniteSet(D), NEW n, n \notin D, NEW c, NEW u
    PROVE  Cardinality(Of(D \cup {n}, c, u)) =
              Cardinality(Of(D, c, u)) + IF n.command = c /\ n.author = u THEN 1 ELSE 0
<1> DEFINE one == n.command = c /\ n.author = u
<1>1. PICK O : O = Of(D, c, u)
    OBVIOUS
<1>2. n \notin O /\ Of(D \cup {n}, c, u) = IF one THEN O \cup {n} ELSE O
    BY <1>1 DEF Of
<1>3. IsFiniteSet(O) /\ Cardinality(O) \in Nat
    BY <1>1, OfFinite
<1>4. Cardinality(O \cup {n}) = Cardinality(O) + 1
    BY <1>2, <1>3, FS_AddElement
<1> QED BY <1>1, <1>2, <1>3, <1>4

LEMMA OfLess ==
    ASSUME NEW D, IsFiniteSet(D), NEW n \in D, NEW c, NEW u
    PROVE  Cardinality(Of(D \ {n}, c, u)) =
              Cardinality(Of(D, c, u)) - IF n.command = c /\ n.author = u THEN 1 ELSE 0
<1> DEFINE one == n.command = c /\ n.author = u
<1>1. PICK O : O = Of(D, c, u)
    OBVIOUS
<1>2. (one <=> n \in O) /\ Of(D \ {n}, c, u) = IF one THEN O \ {n} ELSE O
    BY <1>1 DEF Of
<1>3. IsFiniteSet(O) /\ Cardinality(O) \in Nat
    BY <1>1, OfFinite
<1>4. n \in O => Cardinality(O \ {n}) = Cardinality(O) - 1
    BY <1>3, FS_RemoveElement
<1> QED BY <1>1, <1>2, <1>3, <1>4

LEMMA BalanceMore ==
    ASSUME NEW D, IsFiniteSet(D), NEW n, n \notin D, NEW u
    PROVE  Balance(D \cup {n}, u) = Balance(D, u) + Worth(n, u)
<1>1. /\ Cardinality(Of(D, "LOGIN", u)) \in Nat /\ Cardinality(Of(D, "LOGOUT", u)) \in Nat
      /\ Cardinality(Of(D \cup {n}, "LOGIN", u)) = Cardinality(Of(D, "LOGIN", u)) +
            IF n.command = "LOGIN" /\ n.author = u THEN 1 ELSE 0
      /\ Cardinality(Of(D \cup {n}, "LOGOUT", u)) = Cardinality(Of(D, "LOGOUT", u)) +
            IF n.command = "LOGOUT" /\ n.author = u THEN 1 ELSE 0
    BY OfFinite, OfMore
<1> QED BY <1>1 DEF Balance, Worth

LEMMA BalanceLess ==
    ASSUME NEW D, IsFiniteSet(D), NEW n \in D, NEW u
    PROVE  Balance(D \ {n}, u) = Balance(D, u) - Worth(n, u)
<1>1. /\ Cardinality(Of(D, "LOGIN", u)) \in Nat /\ Cardinality(Of(D, "LOGOUT", u)) \in Nat
      /\ Cardinality(Of(D \ {n}, "LOGIN", u)) = Cardinality(Of(D, "LOGIN", u)) -
            IF n.command = "LOGIN" /\ n.author = u THEN 1 ELSE 0
      /\ Cardinality(Of(D \ {n}, "LOGOUT", u)) = Cardinality(Of(D, "LOGOUT", u)) -
            IF n.command = "LOGOUT" /\ n.author = u THEN 1 ELSE 0
    BY OfFinite, OfLess
<1> QED BY <1>1 DEF Balance, Worth

LEMMA BalanceType ==
    ASSUME NEW D, IsFiniteSet(D), NEW u
    PROVE  Balance(D, u) \in Int
<1>1. Cardinality(Of(D, "LOGIN", u)) \in Nat /\ Cardinality(Of(D, "LOGOUT", u)) \in Nat
    BY OfFinite
<1> QED BY <1>1 DEF Balance

\* What is applied is worth what it says.
LEMMA SessionsMove ==
    ASSUME TypeOK, NEW s \in Server, NEW n \in Notes, Whole(n), Becomes(s, n),
           \A u \in User \ known[s] : sessions[s][u] = 0
    PROVE  /\ (n.command = "LOGOUT" => n.author \in known[s]) =>
                 \A u \in User : sessions'[s][u] = sessions[s][u] + Worth(n, u)
           /\ \A u \in User \ known'[s] : sessions'[s][u] = 0
<1>1. /\ sessions[s] \in [User -> Int] /\ known[s] \subseteq User /\ n.author \in User
      /\ n.command \in {"LOGIN", "LOGOUT", "FOLLOW"}
    BY DEF TypeOK, Whole, Command
<1>2. /\ known'[s] = KnownAfter(known[s], n)
      /\ sessions'[s] = SessionsAfter(known[s], sessions[s], n)
    BY DEF Becomes
<1>3. CASE n.command = "FOLLOW"
    BY <1>1, <1>2, <1>3 DEF SessionsAfter, KnownAfter, Worth
<1>4. CASE n.command = "LOGIN"
  <2>1. sessions'[s] = [sessions[s] EXCEPT ![n.author] = IF n.author \in known[s] THEN @ + 1 ELSE 1]
    BY <1>1, <1>2, <1>4 DEF SessionsAfter, Change
  <2>2. \A u \in User : sessions'[s][u] = sessions[s][u] + Worth(n, u)
    BY <1>1, <1>4, <2>1 DEF Worth
  <2> QED BY <1>1, <1>2, <1>4, <2>1, <2>2 DEF KnownAfter
<1>5. CASE n.command = "LOGOUT"
  <2>1. CASE n.author \in known[s]
    <3>1. sessions'[s] = [sessions[s] EXCEPT ![n.author] = @ - 1] /\ known'[s] = known[s]
      BY <1>1, <1>2, <1>5, <2>1 DEF SessionsAfter, KnownAfter, Change
    <3> QED BY <1>1, <1>5, <2>1, <3>1 DEF Worth
  <2>2. CASE n.author \notin known[s]
    BY <1>1, <1>2, <1>5, <2>2 DEF SessionsAfter, KnownAfter
  <2> QED BY <2>1, <2>2
<1> QED BY <1>1, <1>3, <1>4, <1>5

LEMMA PendingNotes ==
    ASSUME Settled, NEW s \in Server
    PROVE  /\ \A n \in Pending(s) : n \in Notes /\ Whole(n) /\ n.id \in 1 .. events
           /\ \A n \in Due(s) : n.id \in 1 .. events
           /\ \A n, o \in Pending(s) : n.id = o.id => n = o
           /\ Sourced => \A n \in Pending(s) : n.command = "FOLLOW" =>
                             Contains(followers[Primary][n.target], n.author)
<1>1. ASSUME NEW n \in Pending(s)
      PROVE  /\ n \in Notes /\ Whole(n) /\ n.id \in 1 .. events
             /\ Sourced => (n.command = "FOLLOW" =>
                               Contains(followers[Primary][n.target], n.author))
  <2>1. CASE \E m \in net : m.note = n
    <3>1. PICK m \in net : m.note = n
      BY <2>1
    <3>2. n \in Notes /\ Whole(n) /\ n.id \in 1 .. events
      BY <3>1, SettledNotes DEF Settled, CarriedOnce
    <3>3. Sourced /\ n.command = "FOLLOW" => Has(Primary, n.author, n.target)
      BY <3>1, <3>2 DEF Sourced, Adds, Whole, UserOrNot, User, Nobody
    <3> QED BY <3>2, <3>3 DEF Has, Whole, User, Nobody
  <2>2. CASE \E r \in Server, t \in Thread : th[r][t].note = n /\ n # Blank
    <3>1. PICK r \in Server, t \in Thread : th[r][t].note = n /\ n # Blank
      BY <2>2
    <3>2. n \in Notes /\ Whole(n) /\ n.id \in 1 .. events
      BY <3>1, SettledNotes DEF Settled, CarriedOnce
    <3>3. Sourced /\ n.command = "FOLLOW" => Has(Primary, n.author, n.target)
      BY <3>1, <3>2 DEF Sourced, Adds, Whole, UserOrNot, User, Nobody
    <3> QED BY <3>2, <3>3 DEF Has, Whole, User, Nobody
  <2> QED BY <2>1, <2>2 DEF Pending, Reaches
<1>2. ASSUME NEW n \in Counting(s) PROVE n.id \in 1 .. events
  <2>1. PICK t \in Thread : th[s][t].pc = "count" /\ th[s][t].note = n
    BY DEF Counting
  <2>2. n # Blank
    BY <2>1, IdleState DEF Settled, SoundInv, Whole, Command
  <2> QED BY <2>1, <2>2 DEF Settled, CarriedOnce
<1>3. ASSUME NEW n \in Pending(s), NEW o \in Pending(s), n.id = o.id PROVE n = o
  <2>1. ASSUME NEW p \in Pending(s)
        PROVE  \/ \E m \in net : m.note = p
               \/ \E r \in Server, t \in Thread : th[r][t].note = p /\ p # Blank
    BY DEF Pending, Reaches
  <2> QED BY <1>3, <2>1 DEF Settled, CarriedOnce
<1> QED BY <1>1, <1>2, <1>3 DEF Due

\* Whose table a step changes, and that nobody is forgotten.
LEMMA SettledTables ==
    ASSUME Settled, SettledStep
    PROVE  /\ \A s \in Server : known[s] \subseteq known'[s]
           /\ up' = up
           /\ \A n : Asks(n) => \A s \in Server \ {Primary} :
                 known'[s] = known[s] /\ sessions'[s] = sessions[s] /\ followers'[s] = followers[s]
           /\ \A r \in Server, t \in Pool, m \in net : Handles(r, t, m) =>
                 \A s \in Server : s # r \/ s = Primary =>
                    /\ known'[s] = known[s] /\ sessions'[s] = sessions[s]
                    /\ followers'[s] = followers[s]
<1>1. ASSUME NEW r \in Server, NEW n, Tables(r, n)
      PROVE  \A s \in Server : known[s] \subseteq known'[s]
    BY <1>1 DEF Tables
<1>2. \A s \in Server : known[s] \subseteq known'[s]
    BY <1>1, Constants DEF SettledStep, Asks, Handles, Drops, Counts, Applies, Scans, Writes,
       Recounts, RestStays, TablesStay
<1>3. up' = up
    BY DEF SettledStep, Asks, Handles, Scans, Writes, Recounts, RestStays
<1>4. ASSUME NEW n, Asks(n), NEW s \in Server \ {Primary}
      PROVE  known'[s] = known[s] /\ sessions'[s] = sessions[s] /\ followers'[s] = followers[s]
    BY <1>4 DEF Asks, Becomes
<1>5. ASSUME NEW r \in Server, NEW t \in Pool, NEW m \in net, Handles(r, t, m),
             NEW s \in Server, s # r \/ s = Primary
      PROVE  known'[s] = known[s] /\ sessions'[s] = sessions[s] /\ followers'[s] = followers[s]
  <2>1. CASE r = Primary
    BY <1>5, <2>1, FollowerReads DEF TablesStay, SessionsStay
  <2>2. CASE r # Primary
    BY <1>5, <2>2, FollowerReads DEF Counts, Applies, Becomes, TablesStay, SessionsStay
  <2> QED BY <2>1, <2>2
<1> QED BY <1>2, <1>3, <1>4, <1>5

\* The sessions the front end has announced change only when it logs in or out.
LEMMA Announced ==
    ASSUME TypeOK, SoundInv, [Next]_vars
    PROVE  \A u \in User : feSessions'[u] > 0 =>
              feSessions[u] > 0 \/ (Login(u) /\ u \in known'[Primary])
<1>1. feSessions \in [User -> 0 .. MaxSessions] /\ known \in [Server -> SUBSET User]
      /\ Primary \in Server
    BY Constants DEF TypeOK
<1>2. CASE UNCHANGED feSessions
    BY <1>2
<1>3. ASSUME NEW v \in User, Login(v)
      PROVE  \A u \in User : feSessions'[u] > 0 =>
                feSessions[u] > 0 \/ (Login(u) /\ u \in known'[Primary])
    BY <1>1, <1>3 DEF Login, LoginAt
<1>4. ASSUME NEW v \in User, Logout(v)
      PROVE  \A u \in User : feSessions'[u] > 0 => feSessions[u] > 0
    BY <1>1, <1>4 DEF Logout
<1>5. ASSUME FrontEnd PROVE UNCHANGED feSessions \/ \E v \in User : Login(v) \/ Logout(v)
    BY <1>5 DEF FrontEnd, Follow
<1>6. ASSUME NEW s \in Server, Reading(s) PROVE UNCHANGED feSessions
  <2>1. PICK t \in Pool, m \in net : HandleReplication(s, t, m)
    BY <1>6 DEF Reading
  <2> QED BY <2>1 DEF HandleReplication, IgnoreOwn, HandleNewUser, ReadCount, LogoutUnknown,
          HandleAgreed, HandleFollow, FollowUnknown, Applied, envVars
<1>7. ASSUME NEW s \in Server, NEW t \in Thread, SendReplication(s, t) \/ WriteCount(s, t)
      PROVE  UNCHANGED feSessions
    BY <1>7 DEF SendReplication, ScanAdvance, Write, WriteFails, WriteCount, envVars
<1>8. ASSUME Greet \/ SendInitialReplication PROVE UNCHANGED feSessions
    BY <1>8 DEF Greet, SendInitialReplication, WalkSend, WalkEnd, envVars
<1>9. ASSUME NEW s \in Server, Join(s) \/ Kill(s) PROVE UNCHANGED feSessions
    BY <1>9 DEF Join, Kill
<1>10. UNCHANGED feSessions \/ \E v \in User : Login(v) \/ Logout(v)
    BY <1>5, <1>6, <1>7, <1>8, <1>9 DEF Next, vars, envVars
<1> QED BY <1>2, <1>3, <1>4, <1>10

LEMMA LoggedInNext ==
    ASSUME Settled, LoggedIn, SettledStep, [Next]_vars, "raced" \notin spoiled'
    PROVE  LoggedIn'
<1>1. TypeOK /\ SoundInv /\ Primary \in Server
    BY Constants DEF Settled
<1>2. \A u \in User : feSessions'[u] > 0 => u \in known'[Primary]
    BY <1>1, Announced, SettledTables DEF LoggedIn
<1> DEFINE Zero(s) == \A u \in User \ known[s] : sessions[s][u] = 0
<1>3. \A s \in Server : Zero(s)
    BY DEF LoggedIn
<1>4. ASSUME NEW s \in Server, known'[s] = known[s], sessions'[s] = sessions[s] PROVE Zero(s)'
    BY <1>3, <1>4
<1>5. ASSUME NEW s \in Server, NEW n \in Notes, Whole(n), Becomes(s, n) PROVE Zero(s)'
    BY <1>1, <1>3, <1>5, SessionsMove
<1>6. ASSUME NEW n, Asks(n), NEW s \in Server PROVE Zero(s)'
    BY <1>4, <1>5, <1>6, SettledTables DEF Asks
<1>7. ASSUME NEW r \in Server, NEW t \in Pool, NEW m \in net, Handles(r, t, m), NEW s \in Server
      PROVE  Zero(s)'
  <2>1. CASE s # r \/ s = Primary
    BY <1>4, <1>7, <2>1, SettledTables
  <2>2. CASE s = r /\ s # Primary
    <3>1. Counts(r, t, m.note) \/ Applies(r, t, m.note)
      BY <1>7, <2>2, FollowerReads
    <3>2. CASE Counts(r, t, m.note)
      BY <1>4, <2>2, <3>2 DEF Counts, TablesStay, SessionsStay
    <3>3. CASE Applies(r, t, m.note)
      BY <1>5, <1>7, <2>2, <3>3 DEF Applies, Handles
    <3> QED BY <3>1, <3>2, <3>3
  <2> QED BY <2>1, <2>2
<1>8. ASSUME NEW r \in Server, NEW t \in Thread, Scans(r, t) \/ Writes(r, t), NEW s \in Server
      PROVE  Zero(s)'
    BY <1>4, <1>8 DEF Scans, Writes, RestStays, TablesStay, SessionsStay
<1>9. ASSUME NEW r \in Server, NEW t \in Thread, Recounts(r, t), NEW s \in Server
      PROVE  Zero(s)'
  <2>1. th[r][t].note.author \in known[r] /\ known'[s] = known[s]
    BY <1>9 DEF Recounts, TablesStay, Settled, Forwarding
  <2>2. \A u \in User \ known[s] : sessions'[s][u] = sessions[s][u]
    BY <1>1, <1>9, <2>1 DEF Recounts, Counted, TypeOK
  <2> QED BY <1>3, <2>1, <2>2
<1>10. \A s \in Server : Zero(s)'
    BY <1>6, <1>7, <1>8, <1>9 DEF SettledStep
<1> QED BY <1>2, <1>10 DEF LoggedIn

\* Only what the front end asks for changes the primary's table.
LEMMA PrimaryTable ==
    ASSUME Settled, SettledStep
    PROVE  (\E n : Asks(n)) \/ /\ known'[Primary] = known[Primary]
                               /\ sessions'[Primary] = sessions[Primary]
                               /\ followers'[Primary] = followers[Primary]
<1>1. TypeOK /\ Primary \in Server
    BY Constants DEF Settled
<1>2. ASSUME NEW r \in Server, NEW t \in Thread, Recounts(r, t)
      PROVE  /\ known'[Primary] = known[Primary] /\ sessions'[Primary] = sessions[Primary]
             /\ followers'[Primary] = followers[Primary]
  <2>1. r # Primary
    BY <1>2 DEF Recounts, Settled, Forwarding
  <2> QED BY <1>1, <1>2, <2>1 DEF Recounts, TablesStay, Counted, TypeOK
<1> QED BY <1>1, <1>2, SettledTables
        DEF SettledStep, Scans, Writes, RestStays, TablesStay, SessionsStay

LEMMA FollowOnceNext ==
    ASSUME Settled, FollowOnce, SettledStep
    PROVE  FollowOnce'
<1>1. ASSUME NEW n, Asks(n) PROVE FollowOnce'
  <2>1. /\ followers[Primary] \in [User -> Seq(User)]
        /\ followers'[Primary] = FollowersAfter(followers[Primary], n)
    BY <1>1, Constants DEF Settled, TypeOK, Asks, Becomes
  <2>2. ASSUME NEW v \in User PROVE LET q == followers'[Primary][v] IN
                                    \A i, j \in 1 .. Len(q) : q[i] = q[j] => i = j
    <3> DEFINE q == followers[Primary][v]
    <3>1. CASE followers'[Primary][v] = q
      BY <3>1 DEF FollowOnce
    <3>2. CASE followers'[Primary][v] # q
      <4>1. followers'[Primary][v] = Append(q, n.author) /\ ~Contains(q, n.author)
            /\ q \in Seq(User) /\ n.author \in User
        BY <1>1, <2>1, <3>2 DEF FollowersAfter, Asks, Whole
      <4>2. /\ \A i \in 1 .. Len(q) : Append(q, n.author)[i] = q[i] /\ q[i] # n.author
            /\ Len(q) \in Nat /\ Len(Append(q, n.author)) = Len(q) + 1
            /\ Append(q, n.author)[Len(q) + 1] = n.author
        BY <4>1, AppendProperties, LenProperties DEF Contains
      <4>3. \A i, j \in 1 .. Len(q) : q[i] = q[j] => i = j
        BY DEF FollowOnce
      <4> HIDE DEF q
      <4> QED BY <4>1, <4>2, <4>3
    <3> QED BY <3>1, <3>2
  <2> QED BY <2>2 DEF FollowOnce
<1> QED BY <1>1, PrimaryTable DEF FollowOnce

-----------------------------------------------------------------------------
(* A copy stays a copy.                                                     *)

\* Nothing happens to the copy, to what is due to it or to the primary's table.
LEMMA CopiedCalm ==
    ASSUME NEW s, Copied(s), Pending(s)' = Pending(s), Counting(s)' = Counting(s),
           \A r \in {s, Primary} :
              known'[r] = known[r] /\ sessions'[r] = sessions[r] /\ followers'[r] = followers[r],
           newest'[s] = newest[s]
    PROVE  Copied(s)'
<1>1. Due(s)' = Due(s)
    BY DEF Due
<1>2. Learns(s)' <=> Learns(s)
    BY DEF Learns
<1>3. InOrder(s)' <=> InOrder(s)
    BY DEF InOrder
<1>4. InStep(s)' <=> InStep(s)
    BY DEF InStep
<1>5. SessionsCopied(s)' <=> SessionsCopied(s)
    BY <1>1 DEF SessionsCopied
<1>6. FollowersCopied(s)' <=> FollowersCopied(s)
  <2>1. followers'[s] = followers[s] /\ followers'[Primary] = followers[Primary]
    OBVIOUS
  <2> QED BY <2>1 DEF FollowersCopied
<1> QED BY <1>1, <1>2, <1>3, <1>4, <1>5, <1>6 DEF Copied

LEMMA AppendMoves ==
    ASSUME NEW q \in Seq(User), NEW a \in User, NEW p, p = Append(q, a)
    PROVE  /\ Len(q) \in Nat /\ Len(p) = Len(q) + 1 /\ p[Len(q) + 1] = a
           /\ \A i \in 1 .. Len(q) : p[i] = q[i] /\ i \in 1 .. Len(p)
    BY AppendProperties, LenProperties

\* The front end asks for n: it is in the primary's table, and due.
LEMMA LearnsAsked ==
    ASSUME Settled, LoggedIn, NEW s \in Server \ {Primary}, Learns(s), NEW n, Asks(n)
    PROVE  Learns(s)'
<1>1. /\ Pending(s)' = Pending(s) \cup {n} /\ known'[s] = known[s]
      /\ \A l \in Pending(s) : l.id < n.id
  <2>1. events \in Nat /\ n.id = events + 1
    BY DEF Settled, TypeOK, Asks
  <2>2. \A l \in Pending(s) : l.id \in 1 .. events
    BY PendingNotes
  <2> QED BY <2>1, <2>2, PendingAsked, SettledTables DEF SettledStep
<1>2. known'[Primary] = KnownAfter(known[Primary], n)
    BY DEF Asks, Becomes
<1>3. \A u \in known'[Primary] : u \in known'[s] \/ \E l \in Pending(s)' : LogsIn(l, u)
    BY <1>1, <1>2 DEF KnownAfter, Learns, LogsIn
<1>4. n.command = "LOGOUT" => n.author \in known[Primary]
    BY DEF Asks, Whole, LoggedIn
<1>5. ASSUME NEW o \in Pending(s)', o.command = "LOGOUT"
      PROVE  \/ o.author \in known'[s]
             \/ \E l \in Pending(s)' : LogsIn(l, o.author) /\ l.id < o.id
  <2>1. CASE o \in Pending(s)
    BY <1>1, <1>5, <2>1 DEF Learns
  <2>2. CASE o = n
    BY <1>1, <1>4, <1>5, <2>2 DEF Learns
  <2> QED BY <1>1, <2>1, <2>2
<1> QED BY <1>3, <1>5 DEF Learns

LEMMA InOrderAsked ==
    ASSUME Settled, Sourced, NEW s \in Server \ {Primary}, InOrder(s), NEW n, Asks(n)
    PROVE  InOrder(s)'
<1>1. /\ Pending(s)' = Pending(s) \cup {n} /\ n \in Notes /\ n.author \in User
      /\ \A l \in Pending(s) : l.id < n.id /\ Whole(l)
      /\ \A l \in Pending(s) : l.command = "FOLLOW" =>
            Contains(followers[Primary][l.target], l.author)
  <2>1. events \in Nat /\ n.id = events + 1 /\ n \in Notes /\ n.author \in User
    BY DEF Settled, TypeOK, Asks, Whole
  <2>2. /\ \A l \in Pending(s) : l.id \in 1 .. events /\ Whole(l)
        /\ \A l \in Pending(s) : l.command = "FOLLOW" =>
              Contains(followers[Primary][l.target], l.author)
    BY PendingNotes
  <2> QED BY <2>1, <2>2, PendingAsked
<1>2. followers[Primary] \in [User -> Seq(User)]
    BY Constants DEF Settled, TypeOK
<1>3. followers'[Primary] = FollowersAfter(followers[Primary], n)
    BY DEF Asks, Becomes
<1> SUFFICES ASSUME NEW a \in Pending(s)', NEW b \in Pending(s)', a.command = "FOLLOW",
                    b.command = "FOLLOW", a.target = b.target, a.id < b.id,
                    NEW i \in 1 .. Len(followers'[Primary][a.target]),
                    NEW j \in 1 .. Len(followers'[Primary][a.target]),
                    followers'[Primary][a.target][i] = a.author,
                    followers'[Primary][a.target][j] = b.author
             PROVE  i < j
    BY DEF InOrder
<1> DEFINE q == followers[Primary][a.target]
           p == followers'[Primary][a.target]
<1>4. a \in Pending(s) /\ (b \in Pending(s) \/ b = n) /\ a.target \in User
  <2>1. a # n
    <3>1. n.id \in Nat /\ \A l \in Pending(s) : l.id < n.id
      BY <1>1 DEF Notes
    <3>2. b = n \/ b \in Pending(s)
      BY <1>1
    <3>3. b \in Notes
      BY <1>1, <3>2 DEF Pending
    <3> QED BY <3>1, <3>2, <3>3 DEF Notes
  <2> QED BY <1>1, <2>1 DEF Whole
<1>5. q \in Seq(User) /\ (p = q \/ (p = Append(q, n.author) /\ n.command = "FOLLOW"
                                    /\ n.target = a.target /\ ~Contains(q, n.author)))
    BY <1>2, <1>3, <1>4 DEF FollowersAfter, Asks
<1>6. CASE p = q
  <2>1. b \in Pending(s)
    <3>1. ASSUME b = n PROVE p # q
      <4>1. p = Append(q, n.author)
        BY <1>2, <1>3, <1>4, <3>1 DEF FollowersAfter
      <4> HIDE DEF p, q
      <4>2. Len(p) = Len(q) + 1 /\ Len(q) \in Nat
        BY <1>1, <1>5, <4>1, AppendMoves
      <4> QED BY <4>2
    <3> QED BY <1>4, <1>6, <3>1
  <2> QED BY <1>4, <1>6, <2>1 DEF InOrder
<1>7. CASE p # q
  <2>1. /\ Contains(q, a.author) /\ ~Contains(q, n.author) /\ p = Append(q, n.author)
        /\ q \in Seq(User) /\ p[i] = a.author /\ p[j] = b.author
        /\ (b \in Pending(s) => Contains(q, b.author))
        /\ i \in 1 .. Len(p) /\ j \in 1 .. Len(p)
    BY <1>1, <1>4, <1>5, <1>7
  <2>2. b \in Pending(s) => \A k, l \in 1 .. Len(q) : q[k] = a.author /\ q[l] = b.author => k < l
    BY <1>4 DEF InOrder
  <2> HIDE DEF p, q
  <2>3. /\ Len(q) \in Nat /\ Len(p) = Len(q) + 1 /\ p[Len(q) + 1] = n.author
        /\ \A k \in 1 .. Len(q) : p[k] = q[k]
    BY <1>1, <2>1, AppendMoves
  <2>4. a.author # n.author /\ i \in 1 .. Len(q) /\ q[i] = a.author
    BY <2>1, <2>3 DEF Contains
  <2>5. CASE b = n
    <3>1. \A k \in 1 .. Len(q) : q[k] # n.author
      BY <2>1 DEF Contains
    <3>2. j = Len(q) + 1
      BY <2>1, <2>3, <2>5, <3>1
    <3> QED BY <2>3, <2>4, <3>2
  <2>6. CASE b \in Pending(s)
    <3>1. b.author # n.author
      BY <2>1, <2>6 DEF Contains
    <3>2. j \in 1 .. Len(q) /\ q[j] = b.author
      BY <2>1, <2>3, <3>1
    <3> QED BY <2>2, <2>4, <2>6, <3>2
  <2> QED BY <1>4, <2>5, <2>6
<1> QED BY <1>6, <1>7

LEMMA SessionsAsked ==
    ASSUME Settled, LoggedIn, NEW s \in Server \ {Primary}, IsFiniteSet(Due(s)), NEW n, Asks(n)
    PROVE  IsFiniteSet(Due(s)') /\ (SessionsCopied(s) => SessionsCopied(s)')
<1>1. TypeOK /\ Primary \in Server /\ events \in Nat
    BY Constants DEF Settled, TypeOK
<1>2. /\ n \in Notes /\ Whole(n) /\ n.id = events + 1 /\ Becomes(Primary, n)
      /\ n.command = "LOGOUT" => n.author \in known[Primary]
    BY DEF Asks, Whole, LoggedIn
<1>3. n \notin Due(s)
    BY <1>1, <1>2, PendingNotes
<1>4. Due(s)' = Due(s) \cup {n}
    BY PendingAsked DEF Due
<1>5. sessions'[s] = sessions[s]
    BY SettledTables DEF SettledStep
<1>6. \A u \in User : sessions'[Primary][u] = sessions[Primary][u] + Worth(n, u)
    BY <1>1, <1>2, SessionsMove DEF LoggedIn
<1>7. IsFiniteSet(Due(s)')
    BY <1>4, FS_AddElement
<1>8. ASSUME SessionsCopied(s), NEW u \in User
      PROVE  sessions'[Primary][u] = sessions'[s][u] + Balance(Due(s)', u)
  <2>1. Balance(Due(s)', u) = Balance(Due(s), u) + Worth(n, u)
    BY <1>3, <1>4, BalanceMore
  <2>2. Balance(Due(s), u) \in Int /\ Worth(n, u) \in Int
    BY BalanceType DEF Worth
  <2>3. sessions[s][u] \in Int /\ sessions[Primary][u] = sessions[s][u] + Balance(Due(s), u)
    BY <1>1, <1>8 DEF TypeOK, SessionsCopied
  <2> QED BY <1>5, <1>6, <2>1, <2>2, <2>3
<1> QED BY <1>7, <1>8 DEF SessionsCopied

LEMMA FollowersDue ==
    ASSUME Settled, NEW s \in Server \ {Primary}, FollowersCopied(s), NEW n, Asks(n)
    PROVE  FollowersCopied(s)'
<1>1. /\ Pending(s)' = Pending(s) \cup {n} /\ n.author \in User /\ followers'[s] = followers[s]
      /\ followers[Primary] \in [User -> Seq(User)] /\ followers[s] \in [User -> Seq(User)]
      /\ followers'[Primary] = FollowersAfter(followers[Primary], n)
    BY PendingAsked, SettledTables, Constants
       DEF SettledStep, Asks, Becomes, Whole, Settled, TypeOK
<1> SUFFICES ASSUME NEW v \in User
             PROVE  Completes(Pending(s)', v, followers'[s][v], followers'[Primary][v])
    BY DEF FollowersCopied
<1> DEFINE f == followers[s][v]
           g == followers[Primary][v]
           h == followers'[Primary][v]
           Asked(o) == o.command = "FOLLOW" /\ o.target = v
<1>2. /\ Len(f) <= Len(g) /\ \A i \in 1 .. Len(f) : f[i] = g[i]
      /\ \A i \in Len(f) + 1 .. Len(g) : \E o \in Pending(s) : Asked(o) /\ o.author = g[i]
      /\ \A o \in Pending(s) : Asked(o) => \E i \in Len(f) + 1 .. Len(g) : g[i] = o.author
    BY DEF FollowersCopied, Completes
<1>3. IF Asked(n) THEN h = Append(g, n.author) ELSE h = g
    BY <1>1 DEF FollowersAfter
<1>4. f \in Seq(User) /\ g \in Seq(User) /\ f = followers'[s][v] /\ Len(f) \in Nat
  <2>1. f \in Seq(User) /\ g \in Seq(User) /\ f = followers'[s][v]
    BY <1>1
  <2> QED BY <2>1, LenProperties
<1> HIDE DEF f, g, h
<1>5. CASE ~Asked(n)
  <2>1. h = g /\ \A o \in Pending(s)' : Asked(o) => o \in Pending(s)
    BY <1>1, <1>3, <1>5
  <2>2. /\ Len(f) <= Len(h) /\ \A i \in 1 .. Len(f) : f[i] = h[i]
        /\ \A i \in Len(f) + 1 .. Len(h) : \E o \in Pending(s)' : Asked(o) /\ o.author = h[i]
    BY <1>1, <1>2, <2>1
  <2>3. \A o \in Pending(s)' : Asked(o) => \E i \in Len(f) + 1 .. Len(h) : h[i] = o.author
    BY <1>2, <2>1
  <2> QED BY <1>4, <2>2, <2>3 DEF h, Completes
<1>6. CASE Asked(n)
  <2>0. h = Append(g, n.author)
    BY <1>3, <1>6
  <2>1. /\ Len(g) \in Nat /\ Len(h) = Len(g) + 1 /\ h[Len(g) + 1] = n.author
        /\ \A i \in 1 .. Len(g) : h[i] = g[i]
    BY <1>1, <1>4, <2>0, AppendMoves
  <2>2. Len(f) <= Len(h) /\ \A i \in 1 .. Len(f) : f[i] = h[i]
    <3>1. Len(f) <= Len(g)
      BY <1>2
    <3>2. ASSUME NEW i \in 1 .. Len(f) PROVE f[i] = h[i]
      <4>1. f[i] = g[i] /\ i \in 1 .. Len(g)
        BY <1>2, <1>4, <2>1, <3>1
      <4> QED BY <2>1, <4>1
    <3> QED BY <1>4, <2>1, <3>1, <3>2
  <2>3. ASSUME NEW i \in Len(f) + 1 .. Len(h)
        PROVE  \E o \in Pending(s)' : Asked(o) /\ o.author = h[i]
    <3>1. CASE i = Len(g) + 1
      BY <1>1, <1>6, <2>1, <3>1
    <3>2. CASE i # Len(g) + 1
      <4>1. i \in Len(f) + 1 .. Len(g) /\ h[i] = g[i]
        BY <1>4, <2>1, <2>3, <3>2
      <4> QED BY <1>1, <1>2, <4>1
    <3> QED BY <3>1, <3>2
  <2>4. ASSUME NEW o \in Pending(s)', Asked(o)
        PROVE  \E i \in Len(f) + 1 .. Len(h) : h[i] = o.author
    <3>1. CASE o = n
      <4>1. Len(g) + 1 \in Len(f) + 1 .. Len(h)
        BY <1>2, <1>4, <2>1
      <4> QED BY <2>1, <3>1, <4>1
    <3>2. CASE o \in Pending(s)
      <4>1. PICK i \in Len(f) + 1 .. Len(g) : g[i] = o.author
        BY <1>2, <2>4, <3>2
      <4>2. i \in Len(f) + 1 .. Len(h) /\ h[i] = g[i]
        BY <1>4, <2>1, <4>1
      <4> QED BY <4>1, <4>2
    <3> QED BY <1>1, <3>1, <3>2
  <2> QED BY <1>4, <2>2, <2>3, <2>4 DEF h, Completes
<1> QED BY <1>5, <1>6

LEMMA CopiedAsked ==
    ASSUME Settled, Sourced, LoggedIn, NEW s \in Server \ {Primary}, Copied(s), NEW n, Asks(n)
    PROVE  Copied(s)'
<1>1. InStep(s)' => InStep(s)
    BY PendingAsked DEF InStep, Asks
<1>2. Learns(s)' /\ InOrder(s)' /\ IsFiniteSet(Due(s)')
    BY LearnsAsked, InOrderAsked, SessionsAsked DEF Copied
<1>3. InStep(s)' => SessionsCopied(s)' /\ FollowersCopied(s)'
    BY <1>1, SessionsAsked, FollowersDue DEF Copied
<1> QED BY <1>2, <1>3 DEF Copied

\* What s reads it has got as far as, and reads in step only in its turn.
LEMMA ReadInTurn ==
    ASSUME Settled, NEW s \in Server \ {Primary}, NEW t \in Pool, NEW m \in net,
           Handles(s, t, m), "overtaken" \notin spoiled'
    PROVE  /\ Counts(s, t, m.note) \/ Applies(s, t, m.note)
           /\ m.note.command = "LOGIN" => m.note.author \in known'[s]
           /\ InStep(s)' => InStep(s) /\ \A o \in Pending(s)' : o.id > m.note.id
<1> DEFINE n == m.note
<1>1. /\ n \in Pending(s) /\ Pending(s)' = Pending(s) \ {n} /\ n \in Notes /\ n.data = 1
      /\ Counts(s, t, n) \/ Applies(s, t, n)
    BY PendingRead, FollowerReads, SettledNotes
<1>2. newest'[s] = n.id /\ n.id >= newest[s]
  <2>1. GetsTo(s, n) /\ newest \in [Server -> 0 .. MaxEvents] /\ n.id \in 0 .. MaxEvents
    BY <1>1 DEF Counts, Applies, Settled, TypeOK, Notes
  <2>2. ~(n.id < newest[s])
    BY <1>1, <2>1 DEF GetsTo, Late
  <2>3. newest'[s] = IF n.id > newest[s] THEN n.id ELSE newest[s]
    BY <2>1 DEF GetsTo, Noted
  <2> QED BY <2>1, <2>2, <2>3, Constants
<1>3. n.command = "LOGIN" => n.author \in known'[s]
    BY <1>1 DEF Counts, Applies, Tables, TablesStay
<1>4. ASSUME InStep(s)', NEW o \in Pending(s)' PROVE o.id > n.id
  <2>1. o.id >= n.id
    BY <1>2, <1>4 DEF InStep
  <2>2. o \in Pending(s) /\ o # n /\ o \in Notes
    BY <1>1 DEF Pending
  <2>3. o.id # n.id
    BY <1>1, <2>2, PendingNotes
  <2> QED BY <1>1, <2>1, <2>2, <2>3 DEF Notes
<1>5. ASSUME InStep(s)' PROVE InStep(s)
  <2>1. \A o \in Pending(s) : o = n \/ o.id > n.id
    BY <1>1, <1>4, <1>5
  <2>2. newest[s] \in Nat /\ n.id \in Nat /\ \A o \in Pending(s) : o.id \in Nat
    <3>1. newest[s] \in 0 .. MaxEvents
      BY DEF Settled, TypeOK
    <3>2. \A o \in Notes : o.id \in Nat
      BY DEF Notes
    <3> QED BY <1>1, <3>1, <3>2 DEF Pending
  <2> QED BY <1>2, <2>1, <2>2 DEF InStep
<1> QED BY <1>1, <1>3, <1>4, <1>5

LEMMA CopiedCounts ==
    ASSUME Settled, NEW s \in Server \ {Primary}, Copied(s), NEW t \in Pool, NEW m \in net,
           Handles(s, t, m), Counts(s, t, m.note), "overtaken" \notin spoiled'
    PROVE  Copied(s)'
<1> DEFINE n == m.note
<1>1. /\ n \in Pending(s) /\ Pending(s)' = Pending(s) \ {n} /\ n.command # "FOLLOW"
      /\ Counting(s)' = Counting(s) \cup {n} /\ n.author \in known[s]
      /\ \A r \in Server : known'[r] = known[r] /\ sessions'[r] = sessions[r]
                           /\ followers'[r] = followers[r]
      /\ Primary \in Server
    BY PendingRead, Constants DEF Counts, TablesStay, SessionsStay
<1>2. Due(s)' = Due(s)
    BY <1>1 DEF Due
<1>3. Learns(s)'
  <2>1. \A u : u \notin known[s] => \A l \in Pending(s) : LogsIn(l, u) => l \in Pending(s)'
    BY <1>1 DEF LogsIn
  <2>2. \A u \in known[Primary] : u \in known'[s] \/ \E l \in Pending(s)' : LogsIn(l, u)
    BY <1>1, <2>1 DEF Copied, Learns
  <2>3. ASSUME NEW o \in Pending(s)', o.command = "LOGOUT"
        PROVE  \/ o.author \in known'[s]
               \/ \E l \in Pending(s)' : LogsIn(l, o.author) /\ l.id < o.id
    BY <1>1, <2>1, <2>3 DEF Copied, Learns
  <2> QED BY <1>1, <2>2, <2>3 DEF Learns
<1>4. InOrder(s)'
    BY <1>1 DEF Copied, InOrder
<1>5. InStep(s)' => InStep(s)
    BY ReadInTurn
<1>6. SessionsCopied(s) => SessionsCopied(s)'
    BY <1>1, <1>2 DEF SessionsCopied
<1>7. FollowersCopied(s) => FollowersCopied(s)'
  <2>1. ASSUME NEW v, NEW f, NEW g, Completes(Pending(s), v, f, g)
        PROVE  Completes(Pending(s)', v, f, g)
    BY <1>1, <2>1 DEF Completes
  <2> QED BY <1>1, <2>1 DEF FollowersCopied
<1> QED BY <1>2, <1>3, <1>4, <1>5, <1>6, <1>7 DEF Copied

\* The next follower in the primary's table is the first that s reads of.
LEMMA FollowerInTurn ==
    ASSUME Settled, FollowOnce, NEW s \in Server \ {Primary}, InOrder(s), NEW n \in Pending(s),
           n.command = "FOLLOW", \A o \in Pending(s) : o = n \/ o.id > n.id,
           NEW f \in Seq(User),
           Completes(Pending(s), n.target, f, followers[Primary][n.target])
    PROVE  Completes(Pending(s) \ {n}, n.target, Append(f, n.author), followers[Primary][n.target])
<1> DEFINE g == followers[Primary][n.target]
           h == Append(f, n.author)
           Asked(o) == o.command = "FOLLOW" /\ o.target = n.target
<1>1. /\ Len(f) \in Nat /\ Len(h) = Len(f) + 1 /\ h[Len(f) + 1] = n.author
      /\ \A i \in 1 .. Len(f) : h[i] = f[i]
      /\ g \in Seq(User) /\ Len(g) \in Nat /\ n.target \in User
  <2>1. n.author \in User /\ n.target \in User
    BY PendingNotes DEF Whole
  <2>2. g \in Seq(User)
    BY <2>1, Constants DEF Settled, TypeOK
  <2> QED BY <2>1, <2>2, AppendMoves, LenProperties
<1>2. /\ Len(f) <= Len(g) /\ \A i \in 1 .. Len(f) : f[i] = g[i]
      /\ \A i \in Len(f) + 1 .. Len(g) : \E o \in Pending(s) : Asked(o) /\ o.author = g[i]
      /\ \A o \in Pending(s) : Asked(o) => \E i \in Len(f) + 1 .. Len(g) : g[i] = o.author
    BY DEF Completes
<1>3. \A i, j \in 1 .. Len(g) : g[i] = g[j] => i = j
    BY <1>1 DEF FollowOnce
<1>4. ASSUME NEW o \in Pending(s), o # n, Asked(o)
      PROVE  \A i, j \in 1 .. Len(g) : g[i] = n.author /\ g[j] = o.author => i < j
    BY <1>4 DEF InOrder
<1> HIDE DEF g, h
<1>5. PICK k \in Len(f) + 1 .. Len(g) : g[k] = n.author
    BY <1>2
<1>6. k = Len(f) + 1
  <2>1. PICK o \in Pending(s) : Asked(o) /\ o.author = g[Len(f) + 1]
    BY <1>1, <1>2, <1>5
  <2>2. o # n => k < Len(f) + 1
    BY <1>1, <1>4, <1>5, <2>1
  <2>3. o = n
    BY <1>1, <1>5, <2>2
  <2> QED BY <1>1, <1>3, <1>5, <2>1, <2>3
<1>7. Len(h) <= Len(g) /\ \A i \in 1 .. Len(h) : h[i] = g[i]
    BY <1>1, <1>2, <1>5, <1>6
<1>8. ASSUME NEW i \in Len(h) + 1 .. Len(g)
      PROVE  \E o \in Pending(s) \ {n} : Asked(o) /\ o.author = g[i]
  <2>1. i \in Len(f) + 1 .. Len(g) /\ i # k /\ i \in 1 .. Len(g) /\ k \in 1 .. Len(g)
    BY <1>1, <1>5, <1>6
  <2>2. PICK o \in Pending(s) : Asked(o) /\ o.author = g[i]
    BY <1>2, <2>1
  <2>3. o # n
    BY <1>3, <1>5, <2>1, <2>2
  <2> QED BY <2>2, <2>3
<1>9. ASSUME NEW o \in Pending(s) \ {n}, Asked(o)
      PROVE  \E i \in Len(h) + 1 .. Len(g) : g[i] = o.author
  <2>1. PICK i \in Len(f) + 1 .. Len(g) : g[i] = o.author
    BY <1>2, <1>9
  <2>2. k < i
    <3>1. i \in 1 .. Len(g) /\ k \in 1 .. Len(g)
      BY <1>1, <1>5, <2>1
    <3> QED BY <1>4, <1>5, <1>9, <2>1, <3>1
  <2>3. i \in Len(h) + 1 .. Len(g)
    BY <1>1, <1>6, <2>1, <2>2
  <2> QED BY <2>1, <2>3
<1> QED BY <1>7, <1>8, <1>9 DEF Completes, g, h

LEMMA CopiedApplies ==
    ASSUME Settled, LoggedIn, FollowOnce, NEW s \in Server \ {Primary}, Copied(s),
           NEW t \in Pool, NEW m \in net, Handles(s, t, m), Applies(s, t, m.note),
           "overtaken" \notin spoiled'
    PROVE  Copied(s)'
<1> DEFINE n == m.note
<1>1. /\ n \in Pending(s) /\ Pending(s)' = Pending(s) \ {n} /\ n \in Notes /\ Whole(n)
      /\ Counting(s)' = Counting(s) /\ n \notin Counting(s)
      /\ known'[Primary] = known[Primary] /\ sessions'[Primary] = sessions[Primary]
      /\ followers'[Primary] = followers[Primary] /\ known[s] \subseteq known'[s]
      /\ Primary \in Server /\ TypeOK
    BY PendingRead, SettledTables, Constants DEF SettledStep, Handles, Settled
<1>2. Due(s)' = Due(s) \ {n} /\ n \in Due(s)
    BY <1>1 DEF Due
<1>3. Becomes(s, n) /\ (n.command = "LOGOUT" => n.author \notin known[s])
    BY DEF Applies
<1>4. Learns(s)'
  <2>1. \A u, l : l \in Pending(s) /\ LogsIn(l, u) => l \in Pending(s)' \/ u \in known'[s]
    BY <1>1, ReadInTurn DEF LogsIn
  <2>2. \A u \in known[Primary] : u \in known'[s] \/ \E l \in Pending(s)' : LogsIn(l, u)
    BY <1>1, <2>1 DEF Copied, Learns
  <2>3. ASSUME NEW o \in Pending(s)', o.command = "LOGOUT"
        PROVE  \/ o.author \in known'[s]
               \/ \E l \in Pending(s)' : LogsIn(l, o.author) /\ l.id < o.id
    BY <1>1, <2>1, <2>3 DEF Copied, Learns
  <2> QED BY <1>1, <2>2, <2>3 DEF Learns
<1>5. InOrder(s)'
    BY <1>1 DEF Copied, InOrder
<1>6. IsFiniteSet(Due(s)) /\ IsFiniteSet(Due(s)')
  <2>1. IsFiniteSet(Due(s))
    BY DEF Copied
  <2> QED BY <1>2, <2>1, FS_Subset
<1>7. InStep(s)' => InStep(s) /\ \A o \in Pending(s)' : o.id > n.id
    BY ReadInTurn
<1>8. ASSUME InStep(s)' PROVE SessionsCopied(s)'
  <2>1. n.command # "LOGOUT"
    <3>1. ASSUME n.command = "LOGOUT" PROVE FALSE
      <4>1. PICK l \in Pending(s) : l.id < n.id
        BY <1>1, <1>3, <3>1 DEF Copied, Learns
      <4>2. l \in Notes /\ ~(l.id > n.id) /\ l # n
        BY <1>1, <4>1 DEF Pending, Notes
      <4> QED BY <1>1, <1>7, <1>8, <4>1, <4>2
    <3> QED BY <3>1
  <2>2. \A u \in User : sessions'[s][u] = sessions[s][u] + Worth(n, u)
    BY <1>1, <1>3, <2>1, SessionsMove DEF LoggedIn
  <2>3. ASSUME NEW u \in User
        PROVE  sessions[Primary][u] = sessions'[s][u] + Balance(Due(s)', u)
    <3>1. Balance(Due(s)', u) = Balance(Due(s), u) - Worth(n, u)
      BY <1>2, <1>6, BalanceLess
    <3>2. Balance(Due(s), u) \in Int /\ Worth(n, u) \in Int
      BY <1>6, BalanceType DEF Worth
    <3>3. sessions[s][u] \in Int /\ sessions[Primary][u] = sessions[s][u] + Balance(Due(s), u)
      BY <1>1, <1>7, <1>8 DEF TypeOK, Copied, SessionsCopied
    <3> QED BY <2>2, <3>1, <3>2, <3>3
  <2> QED BY <1>1, <2>3 DEF SessionsCopied
<1>9. ASSUME InStep(s)' PROVE FollowersCopied(s)'
  <2>1. /\ followers'[s] = FollowersAfter(followers[s], n)
        /\ followers[s] \in [User -> Seq(User)]
        /\ n.command = "FOLLOW" => n.target \in User
    BY <1>1, <1>3 DEF Becomes, TypeOK, Whole
  <2>2. \A o \in Pending(s) : o = n \/ o.id > n.id
    BY <1>1, <1>7, <1>9
  <2>3. InOrder(s) /\ FollowersCopied(s)
    BY <1>7, <1>9 DEF Copied
  <2>4. ASSUME NEW v \in User
        PROVE  Completes(Pending(s)', v, followers'[s][v], followers[Primary][v])
    <3>1. Completes(Pending(s), v, followers[s][v], followers[Primary][v])
      BY <2>3 DEF FollowersCopied
    <3>2. CASE n.command = "FOLLOW" /\ n.target = v
      <4>1. followers'[s][v] = Append(followers[s][v], n.author) /\ followers[s][v] \in Seq(User)
        BY <2>1, <3>2 DEF FollowersAfter
      <4>2. Completes(Pending(s), n.target, followers[s][v], followers[Primary][n.target])
        BY <3>1, <3>2
      <4> HIDE DEF n
      <4>3. Completes(Pending(s) \ {n}, n.target, Append(followers[s][v], n.author),
                      followers[Primary][n.target])
        BY <1>1, <2>2, <2>3, <3>2, <4>1, <4>2, FollowerInTurn
      <4> QED BY <1>1, <3>2, <4>1, <4>3
    <3>3. CASE ~(n.command = "FOLLOW" /\ n.target = v)
      <4>1. followers'[s][v] = followers[s][v]
        BY <2>1, <3>3 DEF FollowersAfter
      <4> QED BY <1>1, <3>1, <3>3, <4>1 DEF Completes
    <3> QED BY <3>2, <3>3
  <2> QED BY <1>1, <2>4 DEF FollowersCopied
<1> QED BY <1>4, <1>5, <1>6, <1>8, <1>9 DEF Copied

LEMMA CopiedRecounts ==
    ASSUME Settled, NEW s \in Server \ {Primary}, Copied(s), NEW t \in Thread, Recounts(s, t),
           "raced" \notin spoiled'
    PROVE  Copied(s)'
<1> DEFINE o == th[s][t].note
<1>1. /\ Pending(s)' = Pending(s) /\ o \in Counting(s) /\ o \notin Pending(s)
      /\ Counting(s)' = Counting(s) \ {o} /\ UNCHANGED newest
      /\ \A r \in Server : known'[r] = known[r] /\ followers'[r] = followers[r]
      /\ Primary \in Server /\ TypeOK
    BY PendingCounted, Constants DEF Recounts, TablesStay, Settled
<1>2. Due(s)' = Due(s) \ {o} /\ o \in Due(s)
    BY <1>1 DEF Due
<1>3. IsFiniteSet(Due(s)) /\ IsFiniteSet(Due(s)')
  <2>1. IsFiniteSet(Due(s))
    BY DEF Copied
  <2> QED BY <1>2, <2>1, FS_Subset
<1>4. /\ o.author \in User /\ o.command \in {"LOGIN", "LOGOUT"}
      /\ sessions[s][o.author] = th[s][t].count
    BY DEF Recounts, Settled, SoundInv, Whole, Command
<1>5. /\ sessions'[Primary] = sessions[Primary]
      /\ \A u \in User : sessions'[s][u] = sessions[s][u] + Worth(o, u)
  <2>1. sessions \in [Server -> [User -> Int]]
    BY <1>1 DEF TypeOK
  <2>2. sessions' = [sessions EXCEPT ![s][o.author] =
                        sessions[s][o.author] + (IF o.command = "LOGIN" THEN 1 ELSE -1)]
    BY <1>4 DEF Recounts, Counted
  <2> HIDE DEF o
  <2> QED BY <1>1, <1>4, <2>1, <2>2 DEF Worth
<1>6. Learns(s)' /\ InOrder(s)' /\ (InStep(s)' => InStep(s))
  <2>1. Learns(s) /\ InOrder(s)
    BY DEF Copied
  <2>2. /\ known'[s] = known[s] /\ known'[Primary] = known[Primary]
        /\ followers'[Primary] = followers[Primary] /\ newest'[s] = newest[s]
    BY <1>1
  <2>3. Learns(s)'
    BY <1>1, <2>1, <2>2 DEF Learns
  <2>4. InOrder(s)'
    BY <1>1, <2>1, <2>2 DEF InOrder
  <2> QED BY <1>1, <2>2, <2>3, <2>4 DEF InStep
<1>7. ASSUME SessionsCopied(s), NEW u \in User
      PROVE  sessions[Primary][u] = sessions'[s][u] + Balance(Due(s)', u)
  <2>1. Balance(Due(s)', u) = Balance(Due(s), u) - Worth(o, u)
    BY <1>2, <1>3, BalanceLess
  <2>2. Balance(Due(s), u) \in Int /\ Worth(o, u) \in Int
    BY <1>3, BalanceType DEF Worth
  <2>3. sessions[s][u] \in Int /\ sessions[Primary][u] = sessions[s][u] + Balance(Due(s), u)
    BY <1>1, <1>7 DEF TypeOK, SessionsCopied
  <2> QED BY <1>5, <2>1, <2>2, <2>3
<1>8. SessionsCopied(s) => SessionsCopied(s)'
    BY <1>5, <1>7 DEF SessionsCopied
<1>9. FollowersCopied(s) => FollowersCopied(s)'
    BY <1>1 DEF FollowersCopied
<1> QED BY <1>3, <1>6, <1>8, <1>9 DEF Copied

LEMMA CopiedNext ==
    ASSUME Settled, Sourced, LoggedIn, FollowOnce, NEW s \in up \ {Primary}, Copied(s),
           SettledStep, spoiled' = {}
    PROVE  Copied(s)'
<1>1. s \in Server \ {Primary} /\ Primary \in Server
    BY Constants DEF Settled, TypeOK
<1>2. ASSUME NEW n, Asks(n) PROVE Copied(s)'
    BY <1>1, <1>2, CopiedAsked
<1>3. ASSUME NEW r \in Server, NEW t \in Pool, NEW m \in net, Handles(r, t, m) PROVE Copied(s)'
  <2>1. CASE r = s
    <3>1. Counts(s, t, m.note) \/ Applies(s, t, m.note)
      BY <1>1, <1>3, <2>1, ReadInTurn
    <3> QED BY <1>1, <1>3, <2>1, <3>1, CopiedCounts, CopiedApplies
  <2>2. CASE r # s
    <3>1. Pending(s)' = Pending(s) /\ Counting(s)' = Counting(s)
      BY <1>1, <1>3, <2>2, PendingRead
    <3>2. \A q \in {s, Primary} : /\ known'[q] = known[q] /\ sessions'[q] = sessions[q]
                                  /\ followers'[q] = followers[q]
      BY <1>1, <1>3, <2>2, SettledTables DEF SettledStep
    <3>3. newest'[s] = newest[s]
      <4>1. newest \in [Server -> 0 .. MaxEvents]
        BY DEF Settled, TypeOK
      <4> QED BY <1>1, <1>3, <2>2, <4>1 DEF Handles, Drops, Counts, Applies, GetsTo, Noted
    <3> QED BY <3>1, <3>2, <3>3, CopiedCalm
  <2> QED BY <2>1, <2>2
<1>4. ASSUME NEW r \in Server, NEW t \in Thread, Scans(r, t) \/ Writes(r, t) PROVE Copied(s)'
  <2>1. Pending(s)' = Pending(s) /\ Counting(s)' = Counting(s)
    BY <1>1, <1>4, PendingScanned, PendingWritten
  <2>2. RestStays
    BY <1>4 DEF Scans, Writes
  <2> QED BY <1>1, <2>1, <2>2, CopiedCalm DEF RestStays, TablesStay, SessionsStay
<1>5. ASSUME NEW r \in Server, NEW t \in Thread, Recounts(r, t) PROVE Copied(s)'
  <2>1. CASE r = s
    BY <1>1, <1>5, <2>1, CopiedRecounts
  <2>2. CASE r # s
    <3>1. Pending(s)' = Pending(s) /\ Counting(s)' = Counting(s)
      BY <1>1, <1>5, <2>2, PendingCounted
    <3>2. r # Primary
      BY <1>5 DEF Recounts, Settled, Forwarding
    <3>3. sessions'[s] = sessions[s] /\ sessions'[Primary] = sessions[Primary]
      BY <1>1, <1>5, <2>2, <3>2 DEF Recounts, Counted, Settled, TypeOK
    <3>4. TablesStay /\ newest'[s] = newest[s]
      BY <1>5 DEF Recounts
    <3> QED BY <1>1, <3>1, <3>3, <3>4, CopiedCalm DEF TablesStay
  <2> QED BY <2>1, <2>2
<1> QED BY <1>2, <1>3, <1>4, <1>5 DEF SettledStep

LEMMA CopyNext ==
    ASSUME TypeOK, SoundInv, ScanInv, LastHop, NoWalk, joined = {}, CopyInv, [Next]_vars,
           TypeOK', spoiled' = {}, joined' = {}
    PROVE  CopyInv'
<1>1. Settled /\ Sourced /\ LoggedIn /\ FollowOnce /\ \A s \in up \ {Primary} : Copied(s)
    BY DEF CopyInv, Settled
<1>2. Sourced'
  <2>1. Hopping /\ Primary \in up
    BY <1>1 DEF LastHop, Hopping, Settled
  <2> QED BY <1>1, <2>1, SourcedNext
<1>3. CASE SettledStep
  <2>1. up' = up /\ \A s \in Server : known[s] \subseteq known'[s]
    BY <1>1, <1>3, SettledTables
  <2>2. Forwarding' /\ CarriedOnce'
    BY <1>1, <1>3, <2>1, ForwardingNext, CarriedNext
  <2>3. LoggedIn' /\ FollowOnce'
    BY <1>1, <1>3, LoggedInNext, FollowOnceNext
  <2>4. \A s \in up' \ {Primary} : Copied(s)'
    BY <1>1, <1>3, <2>1, CopiedNext
  <2> QED BY <1>1, <1>2, <2>1, <2>2, <2>3, <2>4 DEF CopyInv, Settled
<1>4. CASE UNCHANGED vars
  <2>1. UNCHANGED <<up, known, sessions, followers, nextIndex, th, net, feSessions, events, newest>>
    BY <1>4 DEF vars, tableVars, envVars, histVars
  <2>2. Forwarding' /\ CarriedOnce'
    BY <1>1, <2>1 DEF Forwarding, CarriedOnce, Settled
  <2>3. LoggedIn' /\ FollowOnce'
    BY <1>1, <2>1 DEF LoggedIn, FollowOnce
  <2>4. ASSUME NEW s \in up \ {Primary} PROVE Copied(s)'
    <3>1. Pending(s)' = Pending(s) /\ Counting(s)' = Counting(s)
      BY <2>1 DEF Pending, Counting, Reaches
    <3> QED BY <1>1, <2>1, <3>1, CopiedCalm
  <2> QED BY <1>1, <1>2, <2>1, <2>2, <2>3, <2>4 DEF CopyInv, Settled
<1> QED BY <1>1, <1>3, <1>4, SettledDoes DEF Settled

LEMMA BalanceOfNone == \A u : Balance({}, u) = 0
<1>1. \A c, u : Of({}, c, u) = {}
    BY DEF Of
<1>2. \A c, u : Cardinality(Of({}, c, u)) = 0
    BY <1>1, FS_EmptySet
<1> QED BY <1>2 DEF Balance

LEMMA SameFollowers ==
    ASSUME NEW v, NEW f \in Seq(User), NEW g \in Seq(User), Completes({}, v, f, g)
    PROVE  f = g
<1>1. /\ Len(f) \in Nat /\ Len(g) \in Nat /\ Len(f) <= Len(g)
      /\ \A i \in 1 .. Len(f) : f[i] = g[i]
      /\ \A i \in Len(f) + 1 .. Len(g) : FALSE
    BY LenProperties DEF Completes
<1>2. Len(f) = Len(g)
    BY <1>1
<1> QED BY <1>1, <1>2, SeqEqual

-----------------------------------------------------------------------------
(* The theorems.                                                            *)

LEMMA RoundInit == Init => SoundInv /\ ScanInv /\ RoundInv
<1> SUFFICES ASSUME Init PROVE SoundInv /\ ScanInv /\ RoundInv
    OBVIOUS
<1>1. net = {} /\ answered = {} /\ \A s \in Server, t \in Thread : th[s][t] = Idle
    BY DEF Init
<1>2. /\ Idle.pc = "idle" /\ Idle.note = Blank /\ Idle.conn \notin Server
      /\ ~GoesAround(Blank)
    BY IdleState, Constants DEF GoesAround
<1> QED BY <1>1, <1>2 DEF SoundInv, ScanInv, Scanning, RoundInv

ReplicaInv == SoundInv /\ ("raced" \notin spoiled => ScanInv /\ RoundInv)

LEMMA ReplicaNext == TypeOK /\ ReplicaInv /\ [Next]_vars => ReplicaInv'
<1> SUFFICES ASSUME TypeOK, ReplicaInv, [Next]_vars PROVE ReplicaInv'
    OBVIOUS
<1>1. SoundInv /\ SoundInv'
    BY SoundNext DEF ReplicaInv
<1>2. spoiled \subseteq spoiled'
    BY <1>1, StepLasting DEF Lasting
<1>3. ASSUME "raced" \notin spoiled' PROVE ScanInv' /\ RoundInv'
    BY <1>1, <1>2, <1>3, ScanNext, RoundNext DEF ReplicaInv
<1> QED BY <1>1, <1>3 DEF ReplicaInv

(***************************************************************************)
(* The types, and what is sent: every connection leads to a server that    *)
(* runs or is known to be gone, no thread outlives its process, and what   *)
(* is read was whole when it was written.                                  *)
(***************************************************************************)
THEOREM ReplicationTypes == Spec => [](TypeOK /\ SoundInv)
<1>1. Init => TypeOK /\ SoundInv
    BY TypeInit, RoundInit
<1>2. TypeOK /\ SoundInv /\ [Next]_vars => (TypeOK /\ SoundInv)'
    BY TypeNext, SoundNext
<1> QED BY <1>1, <1>2, PTL DEF Spec

(***************************************************************************)
(* "Sending for agreement and response will go after every replication"    *)
(* (server.c:269): when a FOLLOW is answered, every server that was there  *)
(* all along has the new follower, whoever died meanwhile.                 *)
(***************************************************************************)
THEOREM AnswerComesLast == Spec => []AnsweredMeansReplicated
<1>1. Init => TypeOK /\ ReplicaInv
    BY TypeInit, RoundInit DEF ReplicaInv
<1>2. TypeOK /\ ReplicaInv /\ [Next]_vars => (TypeOK /\ ReplicaInv)'
    BY TypeNext, ReplicaNext DEF ReplicaInv
<1>3. ASSUME TypeOK, ReplicaInv PROVE AnsweredMeansReplicated
  <2> SUFFICES ASSUME "raced" \notin spoiled, NEW n \in answered, NEW s \in up \ joined
               PROVE  Contains(followers[s][n.target], n.author)
    BY DEF AnsweredMeansReplicated
  <2>1. Replicated(n, N) /\ s \in Stayed /\ s \in Server
    BY <1>3 DEF ReplicaInv, RoundInv, Stayed, TypeOK
  <2>2. Hops(s) < N
    BY <2>1, HopsFacts, Constants
  <2> QED BY <2>1, <2>2 DEF Replicated
<1> QED BY <1>1, <1>2, <1>3, PTL DEF Spec

FollowInv == "raced" \notin spoiled =>
                (spoiled \cap {"died", "killed"} = {} => AnswerInv)

(***************************************************************************)
(* "Primary received back replication": whoever asked to follow is         *)
(* answered.  When nothing is on its way, every follower in the primary's  *)
(* table has had his answer, unless scans met or a server ended.           *)
(***************************************************************************)
THEOREM NobodyWaits == Spec => []FollowAnswered
<1>1. Init => TypeOK /\ ReplicaInv /\ FollowInv
  <2> SUFFICES ASSUME Init PROVE AnswerInv
    BY TypeInit, RoundInit DEF ReplicaInv, FollowInv
  <2>1. net = {} /\ \A s \in Server, t \in Thread : th[s][t] = Idle
    BY DEF Init
  <2>2. \A v \in User : followers[Primary][v] = << >>
    BY Constants DEF Init, EmptyFollowers
  <2>3. Idle.pc = "idle" /\ Idle.note = Blank /\ Idle.conn # Gone
    BY IdleState, Constants
  <2>4. LastHop
    BY <2>1, <2>3 DEF LastHop
  <2>5. \A u, v \in User : ~Contains(followers[Primary][v], u)
    BY <2>2 DEF Contains
  <2> QED BY <2>4, <2>5 DEF AnswerInv
<1>2. TypeOK /\ ReplicaInv /\ FollowInv /\ [Next]_vars => (TypeOK /\ ReplicaInv /\ FollowInv)'
  <2> SUFFICES ASSUME TypeOK, ReplicaInv, FollowInv, [Next]_vars
               PROVE  (TypeOK /\ ReplicaInv /\ FollowInv)'
    OBVIOUS
  <2>1. TypeOK' /\ ReplicaInv'
    BY TypeNext, ReplicaNext DEF ReplicaInv
  <2>2. spoiled \subseteq spoiled'
    BY StepLasting DEF Lasting, ReplicaInv
  <2>3. ASSUME "raced" \notin spoiled', spoiled' \cap {"died", "killed"} = {} PROVE AnswerInv'
    BY <2>2, <2>3, AnswerNext DEF ReplicaInv, FollowInv
  <2> QED BY <2>1, <2>3 DEF FollowInv
<1>3. ASSUME TypeOK, FollowInv PROVE FollowAnswered
  <2> SUFFICES ASSUME Quiet, spoiled \cap {"raced", "died", "killed"} = {},
                      NEW v \in User, NEW u \in Range(followers[Primary][v])
               PROVE  \E n \in answered : n.author = u /\ n.target = v
    BY DEF FollowAnswered
  <2>1. followers[Primary][v] \in Seq(User)
    BY <1>3, Constants DEF TypeOK
  <2>2. u \in User /\ Contains(followers[Primary][v], u)
    BY <2>1 DEF Range, Contains
  <2>3. ~OnItsWay(u, v)
    BY IdleState DEF Quiet, OnItsWay, GoesAround
  <2> QED BY <1>3, <2>2, <2>3 DEF FollowInv, AnswerInv
<1> QED BY <1>1, <1>2, <1>3, PTL DEF Spec

AimInv == "raced" \notin spoiled =>
              (spoiled \cap {"died", "killed"} = {} /\ joined = {} => LastHop /\ TargetInv)

LEMMA AimInit == Init => TypeOK /\ ReplicaInv /\ AimInv
<1> SUFFICES ASSUME Init PROVE LastHop /\ TargetInv
    BY TypeInit, RoundInit DEF ReplicaInv, AimInv
<1>1. net = {} /\ \A s \in Server, t \in Thread : th[s][t] = Idle
    BY DEF Init
<1>2. known[Primary] = {}
    BY Constants DEF Init
<1>3. /\ Idle.pc = "idle" /\ Idle.note = Blank /\ Idle.conn # Gone
      /\ Blank.data # 2 /\ Blank.command # "FOLLOW"
    BY IdleState, Constants
<1>4. LastHop
    BY <1>1, <1>3 DEF LastHop
<1>5. NoWalk /\ TargetsKnown
    BY <1>1, <1>2, <1>3, Constants DEF NoWalk, TargetsKnown
<1> QED BY <1>4, <1>5, TargetParts

LEMMA AimNext ==
    TypeOK /\ ReplicaInv /\ AimInv /\ [Next]_vars => (TypeOK /\ ReplicaInv /\ AimInv)'
<1> SUFFICES ASSUME TypeOK, ReplicaInv, AimInv, [Next]_vars
             PROVE  (TypeOK /\ ReplicaInv /\ AimInv)'
    OBVIOUS
<1>1. TypeOK' /\ ReplicaInv'
    BY TypeNext, ReplicaNext DEF ReplicaInv
<1>2. spoiled \subseteq spoiled'
    BY StepLasting DEF Lasting, ReplicaInv
<1>3. ASSUME "raced" \notin spoiled', spoiled' \cap {"died", "killed"} = {}, joined' = {}
      PROVE  (LastHop /\ TargetInv)'
  <2>1. joined = {}
    BY <1>3, NobodyJoined DEF ReplicaInv
  <2>2. SoundInv /\ ScanInv /\ LastHop /\ TargetInv /\ NoWalk
    BY <1>2, <1>3, <2>1, TargetParts DEF ReplicaInv, AimInv
  <2>3. LastHop'
    BY <1>3, <2>2, LastHopNext
  <2>4. UNCHANGED vars \/ SettledStep
    BY <1>3, <2>2, SettledDoes
  <2>5. CASE SettledStep
    BY <1>1, <2>1, <2>2, <2>3, <2>5, TargetNext
  <2>6. CASE UNCHANGED vars
    <3>1. UNCHANGED <<up, known, nextIndex, th, net, events>>
      BY <2>6 DEF vars, tableVars, envVars
    <3> QED BY <2>2, <3>1 DEF LastHop, TargetInv, KnowsOrLearns, Coming
  <2> QED BY <2>3, <2>4, <2>5, <2>6
<1> QED BY <1>1, <1>3 DEF AimInv

(***************************************************************************)
(* The pointer that handle_replication_FOLLOW uses without a test          *)
(* (server.c:533): a FOLLOW on its way to a server that does not know its  *)
(* target left the primary after a LOGIN of the target that is still on    *)
(* its way, unless scans met or a server came or went.                     *)
(***************************************************************************)
THEOREM TargetIsAhead == Spec => []TargetOnItsWay
<1>1. ASSUME TypeOK, AimInv PROVE TargetOnItsWay
  <2> SUFFICES ASSUME spoiled \cap {"raced", "died", "killed"} = {}, joined = {},
                      NEW m \in net, Is(m, "FOLLOW"), m.note.target \notin known[m.to]
               PROVE  \E n \in {i.note : i \in net} \cup {th[s][t].note : s \in up, t \in Thread} :
                         n.command = "LOGIN" /\ n.author = m.note.target /\ n.id < m.note.id
    BY DEF TargetOnItsWay
  <2>1. TargetsKnown /\ m.to \in up /\ m.note.command = "FOLLOW"
    BY <1>1, TargetParts DEF AimInv, TypeOK, Is
  <2>2. Coming(m.to, m.note.target, m.note.id)
    BY <2>1 DEF TargetsKnown, KnowsOrLearns
  <2> QED BY <2>2 DEF Coming
<1> QED BY <1>1, AimInit, AimNext, PTL DEF Spec

CopyInvariant == spoiled = {} /\ joined = {} => CopyInv

(***************************************************************************)
(* send_replication, handle_replication: when nothing is on its way every  *)
(* server has the primary's table, as long as no two scans or counts of a  *)
(* process met, no notification overtook another and no server came or     *)
(* went.                                                                   *)
(***************************************************************************)
THEOREM EveryCopyAgrees == Spec => []CopiesAgree
<1>1. Init => TypeOK /\ ReplicaInv /\ AimInv /\ CopyInvariant
  <2> SUFFICES ASSUME Init PROVE AimInv /\ CopyInv
    BY TypeInit, RoundInit DEF ReplicaInv, CopyInvariant
  <2>1. /\ net = {} /\ Primary \in up /\ up \subseteq Server /\ events = 0
        /\ \A s \in Server, t \in Thread : th[s][t] = Idle
        /\ \A s \in Server : /\ known[s] = {} /\ nextIndex[s] = s /\ newest[s] = 0
                             /\ \A u \in User : sessions[s][u] = 0 /\ followers[s][u] = << >>
        /\ \A u \in User : feSessions[u] = 0
    BY Constants DEF Init, EmptyFollowers, EmptySessions
  <2>2. /\ Idle.pc = "idle" /\ Idle.note = Blank /\ Idle.conn = Self /\ Self \notin Server
        /\ Primary \in Server
    BY IdleState, Constants
  <2>3. AimInv
    BY AimInit
  <2>4. Sourced
    <3>1. \A s \in Server, u \in User, v \in UserOrNot : ~Has(s, u, v)
      BY <2>1 DEF Has, UserOrNot, Contains
    <3> QED BY <2>1, <2>2, <3>1, BlankAdds DEF Sourced
  <2>5. Forwarding /\ CarriedOnce /\ LoggedIn /\ FollowOnce
    BY <2>1, <2>2 DEF Forwarding, CarriedOnce, LoggedIn, FollowOnce
  <2>6. ASSUME NEW s \in up \ {Primary} PROVE Copied(s)
    <3>1. Pending(s) = {} /\ Counting(s) = {} /\ Due(s) = {} /\ s \in Server
      BY <2>1, <2>2 DEF Pending, Counting, Due, Reaches
    <3>2. IsFiniteSet(Due(s)) /\ \A u : Balance(Due(s), u) = 0
      BY <3>1, BalanceOfNone, FS_EmptySet
    <3>3. Learns(s) /\ InOrder(s) /\ SessionsCopied(s)
      BY <2>1, <2>2, <3>1, <3>2 DEF Learns, InOrder, SessionsCopied
    <3>4. FollowersCopied(s)
      BY <2>1, <2>2, <3>1 DEF FollowersCopied, Completes
    <3> QED BY <3>2, <3>3, <3>4 DEF Copied
  <2> QED BY <2>1, <2>3, <2>4, <2>5, <2>6 DEF CopyInv
<1>2. TypeOK /\ ReplicaInv /\ AimInv /\ CopyInvariant /\ [Next]_vars =>
          (TypeOK /\ ReplicaInv /\ AimInv /\ CopyInvariant)'
  <2> SUFFICES ASSUME TypeOK, ReplicaInv, AimInv, CopyInvariant, [Next]_vars
               PROVE  (TypeOK /\ ReplicaInv /\ AimInv /\ CopyInvariant)'
    OBVIOUS
  <2>1. TypeOK' /\ ReplicaInv' /\ AimInv'
    BY TypeNext, ReplicaNext, AimNext DEF ReplicaInv
  <2>2. spoiled \subseteq spoiled'
    BY StepLasting DEF Lasting, ReplicaInv
  <2>3. ASSUME spoiled' = {}, joined' = {} PROVE CopyInv'
    <3>1. spoiled = {} /\ joined = {}
      BY <2>2, <2>3, NobodyJoined DEF ReplicaInv
    <3>2. SoundInv /\ ScanInv /\ LastHop /\ NoWalk /\ CopyInv
      BY <3>1, TargetParts DEF ReplicaInv, AimInv, CopyInvariant
    <3> QED BY <2>1, <2>3, <3>1, <3>2, CopyNext
  <2> QED BY <2>1, <2>3 DEF CopyInvariant
<1>3. ASSUME TypeOK, ReplicaInv, CopyInvariant PROVE CopiesAgree
  <2> SUFFICES ASSUME Quiet, spoiled = {}, joined = {}, NEW s \in up
               PROVE  /\ known[s] = known[Primary] /\ sessions[s] = sessions[Primary]
                      /\ followers[s] = followers[Primary]
    BY DEF CopiesAgree
  <2>1. /\ s \in Server /\ Primary \in Server /\ CopyInv
        /\ known[s] \subseteq User /\ known[Primary] \subseteq User
        /\ sessions[s] \in [User -> Int] /\ sessions[Primary] \in [User -> Int]
        /\ followers[s] \in [User -> Seq(User)] /\ followers[Primary] \in [User -> Seq(User)]
    BY <1>3, Constants DEF TypeOK, CopyInvariant
  <2>2. CASE s = Primary
    BY <2>2
  <2>3. CASE s # Primary
    <3>1. Copied(s) /\ Sourced
      BY <2>1, <2>3 DEF CopyInv
    <3>2. Pending(s) = {} /\ Counting(s) = {}
      <4>1. net = {} /\ \A r \in Server, t \in Thread : th[r][t] = Idle
        BY <1>3 DEF Quiet, ReplicaInv, SoundInv
      <4> QED BY <2>1, <4>1, IdleState DEF Pending, Counting, Reaches
    <3>3. Due(s) = {} /\ \A u : Balance(Due(s), u) = 0
      BY <3>2, BalanceOfNone DEF Due
    <3>4. SessionsCopied(s) /\ FollowersCopied(s) /\ Learns(s)
      BY <3>1, <3>2 DEF Copied, InStep
    <3>5. known[s] = known[Primary]
      <4>1. \A u \in known[s] : u \in known[Primary]
        BY <2>1, <3>1 DEF Sourced, UserOrNot, Has
      <4> QED BY <3>2, <3>4, <4>1 DEF Learns
    <3>6. sessions[s] = sessions[Primary]
      <4>1. \A u \in User : sessions[Primary][u] = sessions[s][u]
        BY <2>1, <3>3, <3>4 DEF SessionsCopied
      <4> QED BY <2>1, <4>1
    <3>7. followers[s] = followers[Primary]
      <4>1. ASSUME NEW v \in User PROVE followers[s][v] = followers[Primary][v]
        <5>1. Completes({}, v, followers[s][v], followers[Primary][v])
          BY <3>2, <3>4 DEF FollowersCopied
        <5>2. followers[s][v] \in Seq(User) /\ followers[Primary][v] \in Seq(User)
          BY <2>1
        <5> QED BY <5>1, <5>2, SameFollowers
      <4> QED BY <2>1, <4>1
    <3> QED BY <3>5, <3>6, <3>7
  <2> QED BY <2>2, <2>3
<1> QED BY <1>1, <1>2, <1>3, PTL DEF Spec

CaughtInv == spoiled \cap {"raced", "missed", "died"} = {} => JoinInv

(***************************************************************************)
(* send_initial_replication: a server that joins where the primary's scans *)
(* find it has every user and every follower of the primary's table once   *)
(* nothing is on its way, whatever the front end asked for meanwhile and   *)
(* whichever followers were stopped.                                       *)
(***************************************************************************)
THEOREM JoinerIsCaughtUp == Spec => []JoinerCatchesUp
<1>1. Init => TypeOK /\ ReplicaInv /\ CaughtInv
  <2> SUFFICES ASSUME Init PROVE JoinInv
    BY TypeInit, RoundInit DEF ReplicaInv, CaughtInv
  <2>1. /\ Primary \in up /\ net = {} /\ joined = {} /\ walk = <<0, 0>> /\ events = 0
        /\ \A s \in Server, t \in Thread : th[s][t] = Idle
        /\ \A s \in Server : known[s] = {} /\ \A v \in User : followers[s][v] = << >>
    BY Constants DEF Init, EmptyFollowers
  <2>2. \A s \in Server, u \in User, v \in UserOrNot : ~Has(s, u, v)
    BY <2>1 DEF Has, UserOrNot, Contains
  <2>3. Idle.pc = "idle" /\ Idle.note = Blank /\ \A u, v : ~Adds(Blank, u, v)
    BY IdleState, BlankAdds
  <2>4. Hopping /\ Sourced
    BY <2>1, <2>2, <2>3 DEF Hopping, Sourced
  <2>5. JoinsOnce /\ Nearest /\ Awaited /\ Walkable
    BY <2>1, Constants DEF JoinsOnce, Nearest, Awaited, Walkable
  <2> QED BY <2>1, <2>4, <2>5 DEF JoinInv
<1>2. TypeOK /\ ReplicaInv /\ CaughtInv /\ [Next]_vars => (TypeOK /\ ReplicaInv /\ CaughtInv)'
  <2> SUFFICES ASSUME TypeOK, ReplicaInv, CaughtInv, [Next]_vars
               PROVE  (TypeOK /\ ReplicaInv /\ CaughtInv)'
    OBVIOUS
  <2>1. TypeOK' /\ ReplicaInv'
    BY TypeNext, ReplicaNext DEF ReplicaInv
  <2>2. spoiled \subseteq spoiled'
    BY StepLasting DEF Lasting, ReplicaInv
  <2>3. ASSUME spoiled' \cap {"raced", "missed", "died"} = {} PROVE JoinInv'
    <3>1. /\ SoundInv /\ ScanInv /\ JoinInv
          /\ Primary \in up /\ Hopping /\ Sourced /\ JoinsOnce /\ Walkable /\ Nearest
          /\ "died" \notin spoiled' /\ "missed" \notin spoiled'
      BY <2>2, <2>3 DEF ReplicaInv, CaughtInv, JoinInv
    <3>2. Primary \in up'
      BY <3>1, PrimaryStays
    <3>3. Hopping' /\ Sourced'
      BY <3>1, HoppingNext, SourcedNext
    <3>4. JoinsOnce' /\ Walkable' /\ Nearest'
      BY <3>1, JoinsOnceNext, WalkableNext, NearestNext
    <3>5. Awaited'
      BY <2>3, <3>1, AwaitedNext
    <3> QED BY <3>2, <3>3, <3>4, <3>5 DEF JoinInv
  <2> QED BY <2>1, <2>3 DEF CaughtInv
<1>3. ASSUME TypeOK, CaughtInv PROVE JoinerCatchesUp
  <2> SUFFICES ASSUME Quiet, Primary \in up, spoiled \cap {"raced", "missed", "died"} = {},
                      NEW s \in joined \cap up
               PROVE  /\ known[s] = known[Primary]
                      /\ \A v \in User : Range(followers[s][v]) = Range(followers[Primary][v])
    BY DEF JoinerCatchesUp
  <2>1. s \in Server /\ Primary \in Server /\ Sourced /\ Awaited /\ walk[1] > Users
    BY <1>3, Constants DEF CaughtInv, JoinInv, TypeOK, Quiet
  <2>2. \A u, v : ~Bound(s, u, v)
    BY BlankAdds, IdleState DEF Quiet, Bound
  <2>3. ASSUME NEW u \in User, NEW v \in UserOrNot, NEW p, Says(p, u, v) PROVE ~Follows(walk, p)
    <3>1. p[1] \in User
      BY <2>3 DEF Says, UserOrNot
    <3>2. walk[1] \in Nat /\ p[1] \in Nat /\ p[1] <= Users
      BY <1>3, <3>1, Constants DEF TypeOK, User
    <3> QED BY <2>1, <3>2, Constants DEF Follows
  <2>4. \A u \in User, v \in UserOrNot : Has(s, u, v) <=> Has(Primary, u, v)
    BY <2>1, <2>2, <2>3 DEF Sourced, Awaited, Yet
  <2>5. known[s] = known[Primary]
    <3>1. known[s] \subseteq User /\ known[Primary] \subseteq User
      BY <1>3, <2>1 DEF TypeOK
    <3>2. \A u \in User : u \in known[s] <=> u \in known[Primary]
      BY <2>4 DEF UserOrNot, Has
    <3> QED BY <3>1, <3>2
  <2>6. ASSUME NEW v \in User PROVE Range(followers[s][v]) = Range(followers[Primary][v])
    <3>1. followers[s][v] \in Seq(User) /\ followers[Primary][v] \in Seq(User)
      BY <1>3, <2>1 DEF TypeOK
    <3>2. \A q \in Seq(User) : Range(q) \subseteq User
                               /\ \A u : u \in Range(q) <=> Contains(q, u)
      BY DEF Range, Contains
    <3>3. v # Nobody
      BY DEF User, Nobody
    <3>4. \A u \in User : Contains(followers[s][v], u) <=> Contains(followers[Primary][v], u)
      BY <2>4, <3>3 DEF UserOrNot, Has
    <3> QED BY <3>1, <3>2, <3>4
  <2> QED BY <2>5, <2>6
<1> QED BY <1>1, <1>2, <1>3, PTL DEF Spec

=============================================================================
