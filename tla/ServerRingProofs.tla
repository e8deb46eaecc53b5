-------------------------- MODULE ServerRingProofs --------------------------
(***************************************************************************)
(* What TLAPS proves of ServerRing, for every number of ports, every pool  *)
(* of threads and every number of boots and kills.                         *)
(***************************************************************************)
EXTENDS ServerRing, TLAPS

-----------------------------------------------------------------------------
(***************************************************************************)
(* Why: the inductive invariant.  A server has passed the servers its scan *)
(* was refused by.  Refusing takes a server that does not listen yet and   *)
(* has therefore passed nobody, so no two servers ever pass each other,    *)
(* and a primary has passed all the others.                                *)
(***************************************************************************)
\* Walking down from s to n, with wrap-around, t comes strictly in between.
Between(s, n, t) == IF n < s THEN n < t /\ t < s ELSE t < s \/ t > n

Passed(s, t) ==
    LET pc == th[s]["main"].pc
        n  == nextIndex[s]
    IN  /\ t # s
        /\ \/ pc \in {"connect", "decide", "run"} /\ n = s
           \/ pc \in {"advance", "connect"} /\ n # s /\ Between(s, n, t)
           \/ pc = "advance" /\ n = t

\* The main thread of s, its answer and its ring.
MainInv(s) ==
    LET m == th[s]["main"] IN
    /\ m.pc \in {"idle", "bound", "reset", "advance", "connect", "decide", "wait", "run"}
    /\ m.pc \in {"advance", "connect", "decide"} => nextIndex[s] \in Server
    /\ m.pc = "connect" => m.addr = nextIndex[s]
    /\ m.pc = "wait" => nextIndex[s] # s
    /\ m.sock # Gone
    /\ m.data # NoIdx => isPrimary[m.data]
    /\ m.pc = "run" => primaryIdx[s] \in Server /\ isPrimary[primaryIdx[s]]
    /\ isPrimary[s] => m.pc = "run" /\ nextIndex[s] = s

\* Any other thread of s watches a primary.
WatchInv(s, k) ==
    \/ th[s][k].job = "none" /\ th[s][k].pc = "idle" /\ th[s][k].sock = NoIdx
    \/ /\ th[s][k].job = "keepalive"
       /\ Running(s)
       /\ \/ th[s][k].pc = "dial" /\ th[s][k].sock = NoIdx
          \/ /\ th[s][k].pc \in {"greet", "beat"}
             /\ th[s][k].sock \in Server /\ isPrimary[th[s][k].sock]

BootInv ==
    ~died => /\ \A s \in Server : MainInv(s)
             /\ \A s \in Server, k \in Pool : WatchInv(s, k)
             /\ \A s, t \in Server : ~(Passed(s, t) /\ Passed(t, s))

-----------------------------------------------------------------------------
Threads == [Server -> [Tid -> Thread]]

-----------------------------------------------------------------------------
(* Records and tables of threads.                                           *)

\* A fresh thread has the type of a thread.
LEMMA NewThreadType ==
    ASSUME NEW j \in Job, NEW l \in Pc
    PROVE  /\ NewThread(j, l) \in Thread
           /\ NewThread(j, l).job = j /\ NewThread(j, l).pc = l
           /\ NewThread(j, l).sock = NoIdx /\ NewThread(j, l).data = NoIdx
    BY DEF NewThread, Thread

LEMMA IdleType ==
    Idle \in Thread /\ Idle.job = "none" /\ Idle.pc = "idle" /\ Idle.sock = NoIdx
    BY NewThreadType DEF Idle, Job, Pc

\* What the updates of a single field, and of fields together, keep.
LEMMA SetPc ==
    ASSUME NEW r \in Thread, NEW l \in Pc
    PROVE  LET u == [r EXCEPT !.pc = l] IN
           /\ u \in Thread /\ u.pc = l /\ u.job = r.job
           /\ u.sock = r.sock /\ u.data = r.data /\ u.addr = r.addr
    BY DEF Thread

LEMMA SetData ==
    ASSUME NEW r \in Thread, NEW d \in Server \cup {NoIdx}
    PROVE  LET u == [r EXCEPT !.data = d] IN
           /\ u \in Thread /\ u.pc = r.pc /\ u.job = r.job /\ u.sock = r.sock /\ u.data = d
    BY DEF Thread

LEMMA SetSock ==
    ASSUME NEW r \in Thread, NEW x \in Server \cup {NoIdx, Gone}
    PROVE  [r EXCEPT !.sock = x] \in Thread
    BY DEF Thread

LEMMA SetPcAddr ==
    ASSUME NEW r \in Thread, NEW l \in Pc, NEW a \in Server \cup {NoIdx}
    PROVE  LET u == [r EXCEPT !.pc = l, !.addr = a] IN
           /\ u \in Thread /\ u.pc = l /\ u.addr = a
           /\ u.job = r.job /\ u.sock = r.sock /\ u.data = r.data
    BY DEF Thread

LEMMA SetPcSock ==
    ASSUME NEW r \in Thread, NEW l \in Pc, NEW x \in Server \cup {NoIdx, Gone}
    PROVE  LET u == [r EXCEPT !.pc = l, !.sock = x] IN
           /\ u \in Thread /\ u.pc = l /\ u.sock = x /\ u.job = r.job
    BY DEF Thread

LEMMA SetPcAddrSock ==
    ASSUME NEW r \in Thread, NEW l \in Pc, NEW a \in Server \cup {NoIdx},
           NEW x \in Server \cup {NoIdx, Gone}
    PROVE  LET u == [r EXCEPT !.pc = l, !.addr = a, !.sock = x] IN
           /\ u \in Thread /\ u.pc = l /\ u.sock = x /\ u.job = r.job
           /\ u.data = r.data
    BY DEF Thread

LEMMA SetPcMsg ==
    ASSUME NEW r \in Thread, NEW l \in Pc, NEW m \in {"ELECTION", "ELECTED"}
    PROVE  [r EXCEPT !.pc = l, !.msg = m] \in Thread
    BY DEF Thread

LEMMA SetPcMsgData ==
    ASSUME NEW r \in Thread, NEW l \in Pc, NEW m \in {"ELECTION", "ELECTED"},
           NEW d \in Server \cup {NoIdx}
    PROVE  [r EXCEPT !.pc = l, !.msg = m, !.data = d] \in Thread
    BY DEF Thread

LEMMA SetMsgData ==
    ASSUME NEW r \in Thread, NEW m \in {"ELECTION", "ELECTED"}, NEW d \in Server \cup {NoIdx}
    PROVE  [r EXCEPT !.msg = m, !.data = d] \in Thread
    BY DEF Thread

\* Replacing one thread of a table.
LEMMA Put ==
    ASSUME NEW T \in Threads, NEW s \in Server, NEW k \in Tid, NEW r \in Thread
    PROVE  /\ [T EXCEPT ![s][k] = r] \in Threads
           /\ \A t \in Server, j \in Tid :
                [T EXCEPT ![s][k] = r][t][j] = IF t = s /\ j = k THEN r ELSE T[t][j]
    BY DEF Threads

LEMMA NextIdxType ==
    ASSUME NEW i \in Server \cup {NoIdx}
    PROVE  NextIdx(i) \in Server
    BY RingAssumption DEF NextIdx, Server, NoIdx

LEMMA TidFacts == "main" \in Tid /\ Pool \subseteq Tid
    BY DEF Tid

-----------------------------------------------------------------------------
(* Type correctness, action by action.                                      *)

LEMMA TypeThread ==
    ASSUME TypeOK, NEW s \in Server, NEW k \in Tid
    PROVE  /\ th \in Threads /\ th[s][k] \in Thread
           /\ th[s][k].data \in Server \cup {NoIdx}
           /\ th[s][k].addr \in Server \cup {NoIdx}
           /\ th[s][k].sock \in Server \cup {NoIdx, Gone}
           /\ th[s][k].job \in Job
<1>1. th \in Threads /\ th[s][k] \in Thread
    BY DEF TypeOK, Threads
<1> QED BY <1>1 DEF Thread

LEMMA TypeInit == Init => TypeOK
<1> SUFFICES ASSUME Init PROVE TypeOK
    OBVIOUS
<1>1. th \in Threads
    BY IdleType DEF Init, Threads
<1>2. /\ isPrimary  \in [Server -> BOOLEAN]
      /\ primaryIdx \in [Server -> Server \cup {NoIdx}]
      /\ inElection \in [Server -> BOOLEAN]
      /\ nextIndex  \in [Server -> Server \cup {NoIdx}]
      /\ kaTid \in [Server -> Pool \cup {"unset"}]
    BY DEF Init
<1>3. boots \in 0 .. MaxBoots /\ kills \in 0 .. MaxKills /\ died \in BOOLEAN
  <2>1. boots = 0 /\ kills = 0 /\ died \in BOOLEAN
    BY DEF Init
  <2>2. MaxBoots \in Nat /\ MaxKills \in Nat
    BY RingAssumption
  <2>3. 0 \in 0 .. MaxBoots /\ 0 \in 0 .. MaxKills
    BY <2>2
  <2> QED BY <2>1, <2>3
<1> QED BY <1>1, <1>2, <1>3 DEF TypeOK, Threads

LEMMA TypeScan ==
    ASSUME TypeOK, NEW s \in Server, NEW k \in Tid, Scan(s, k)
    PROVE  TypeOK'
<1>1. th \in Threads /\ th[s][k] \in Thread /\ th[s][k].addr \in Server \cup {NoIdx}
    BY TypeThread
<1>2. {"advance", "connect", "decide"} \subseteq Pc /\ NoIdx \in Server \cup {NoIdx}
    BY DEF Pc
<1>3. CASE ScanReset(s, k)
  <2>1. th' = [th EXCEPT ![s][k] = [th[s][k] EXCEPT !.pc = "advance"]]
    BY <1>1, <1>3 DEF ScanReset, Threads
  <2>2. th' \in Threads
    BY <1>1, <1>2, <2>1, SetPc, Put
  <2> QED BY <1>3, <2>2 DEF TypeOK, Threads, ScanReset, envVars
<1>4. CASE ScanAdvance(s, k)
  <2>1. NextIdx(nextIndex[s]) \in Server
    BY NextIdxType DEF TypeOK
  <2>2. th' = [th EXCEPT ![s][k] =
                  [th[s][k] EXCEPT !.pc = "connect", !.addr = NextIdx(nextIndex[s])]]
    BY <1>1, <1>4 DEF ScanAdvance, Threads
  <2>3. th' \in Threads
    BY <1>1, <1>2, <2>1, <2>2, SetPcAddr, Put
  <2> QED BY <1>4, <2>1, <2>3 DEF TypeOK, Threads, ScanAdvance, envVars
<1>5. CASE ScanConnect(s, k)
  <2> SUFFICES th' \in Threads
    BY <1>5 DEF TypeOK, Threads, ScanConnect, envVars, ringVars
  <2>1. CASE th' = [th EXCEPT ![s][k].pc = "decide", ![s][k].addr = NoIdx]
    <3>1. th' = [th EXCEPT ![s][k] = [th[s][k] EXCEPT !.pc = "decide", !.addr = NoIdx]]
      BY <1>1, <2>1 DEF Threads
    <3> QED BY <1>1, <1>2, <3>1, SetPcAddr, Put
  <2>2. CASE th' = [th EXCEPT ![s][k].pc = "decide", ![s][k].addr = NoIdx,
                              ![s][k].sock = th[s][k].addr]
    <3>1. th' = [th EXCEPT ![s][k] = [th[s][k] EXCEPT !.pc = "decide", !.addr = NoIdx,
                                                      !.sock = th[s][k].addr]]
      BY <1>1, <2>2 DEF Threads
    <3>2. th[s][k].addr \in Server \cup {NoIdx, Gone}
      BY <1>1
    <3> QED BY <1>1, <1>2, <3>1, <3>2, SetPcAddrSock, Put
  <2>3. CASE th' = [th EXCEPT ![s][k].pc = "advance", ![s][k].addr = NoIdx]
    <3>1. th' = [th EXCEPT ![s][k] = [th[s][k] EXCEPT !.pc = "advance", !.addr = NoIdx]]
      BY <1>1, <2>3 DEF Threads
    <3> QED BY <1>1, <1>2, <3>1, SetPcAddr, Put
  <2> QED BY <1>5, <2>1, <2>2, <2>3 DEF ScanConnect
<1> QED BY <1>3, <1>4, <1>5 DEF Scan

LEMMA TypeDie ==
    ASSUME TypeOK, NEW s \in Server, Die(s, th),
           boots' \in 0 .. MaxBoots, kills' \in 0 .. MaxKills
    PROVE  TypeOK'
<1>1. \A t \in Server, k \in Tid :
        /\ th[t][k] \in Thread
        /\ Idle \in Thread
        /\ [th[t][k] EXCEPT !.sock = Gone] \in Thread
    BY TypeThread, IdleType, SetSock
<1> DEFINE left(t, k) == IF t = s THEN Idle
                         ELSE IF th[t][k].sock = s THEN [th[t][k] EXCEPT !.sock = Gone]
                         ELSE th[t][k]
<1>2. \A t \in Server, k \in Tid : left(t, k) \in Thread
    BY <1>1
<1>3. th' = [t \in Server |-> [k \in Tid |-> left(t, k)]]
    BY DEF Die
<1>4. th' \in Threads
    <2> HIDE DEF left
    <2> QED BY <1>2, <1>3 DEF Threads
<1>5. /\ isPrimary'  \in [Server -> BOOLEAN]
      /\ inElection' \in [Server -> BOOLEAN]
    BY DEF TypeOK, Die
<1>6. /\ primaryIdx' \in [Server -> Server \cup {NoIdx}]
      /\ nextIndex'  \in [Server -> Server \cup {NoIdx}]
    BY DEF TypeOK, Die
<1>7. kaTid' \in [Server -> Pool \cup {"unset"}]
    BY DEF TypeOK, Die
<1>8. died' \in BOOLEAN
    BY DEF Die
<1> HIDE DEF left
<1> QED BY <1>4, <1>5, <1>6, <1>7, <1>8 DEF TypeOK, Threads

LEMMA TypeExit ==
    ASSUME TypeOK, NEW s \in Server, Exit(s)
    PROVE  TypeOK'
    BY TypeDie DEF Exit, TypeOK


\* Kill.
LEMMA TypeKill ==
    ASSUME TypeOK, NEW s \in Server, Kill(s)
    PROVE  TypeOK'
<1>1. kills \in Nat /\ kills + 1 \in 0 .. MaxKills
  <2>1. kills \in 0 .. MaxKills /\ kills < MaxKills
    BY DEF TypeOK, Kill
  <2>2. MaxKills \in Nat
    BY RingAssumption
  <2> QED BY <2>1, <2>2
<1> QED BY <1>1, TypeDie DEF Kill, TypeOK

LEMMA TypeBoot ==
    ASSUME TypeOK, NEW s \in Server, Boot(s)
    PROVE  TypeOK'
<1>1. boots + 1 \in 0 .. MaxBoots
  <2>1. boots \in 0 .. MaxBoots /\ boots < MaxBoots
    BY DEF TypeOK, Boot
  <2>2. MaxBoots \in Nat
    BY RingAssumption
  <2> QED BY <2>1, <2>2
<1>2. NewThread("boot", "bound") \in Thread
    BY NewThreadType DEF Job, Pc
<1>3. th' \in Threads
    BY <1>2, TypeThread, Put, TidFacts DEF Boot
<1> QED BY <1>1, <1>3 DEF TypeOK, Threads, Boot, ringVars

\* The steps of the main thread.
LEMMA TypeMain ==
    ASSUME TypeOK, NEW s \in Server, MainStep(s)
    PROVE  TypeOK'
<1> DEFINE me == th[s]["main"]
<1>1. th \in Threads /\ me \in Thread /\ "main" \in Tid /\ me.data \in Server \cup {NoIdx}
    BY TypeThread, TidFacts
<1>2. {"reset", "run", "wait", "dial"} \subseteq Pc /\ {"boot", "keepalive"} \subseteq Job
    BY DEF Pc, Job
<1>3. CASE Scan(s, "main")
    BY <1>1, <1>3, TypeScan
<1>4. CASE Listen(s)
  <2>1. th' = [th EXCEPT ![s]["main"] = [me EXCEPT !.pc = "reset"]]
    BY <1>1, <1>4 DEF Listen, Threads
  <2>2. th' \in Threads
    BY <1>1, <1>2, <2>1, SetPc, Put
  <2> QED BY <1>4, <2>2 DEF TypeOK, Threads, Listen, ringVars, envVars
<1>5. CASE BootAlone(s)
  <2>1. th' = [th EXCEPT ![s]["main"] = [me EXCEPT !.pc = "run"]]
    BY <1>1, <1>5 DEF BootAlone, Threads
  <2>2. th' \in Threads
    BY <1>1, <1>2, <2>1, SetPc, Put
  <2>3. isPrimary' \in [Server -> BOOLEAN]
    BY <1>5 DEF TypeOK, BootAlone
  <2>4. primaryIdx' \in [Server -> Server \cup {NoIdx}]
    BY <1>5 DEF TypeOK, BootAlone
  <2> QED BY <1>5, <2>2, <2>3, <2>4 DEF TypeOK, Threads, BootAlone, envVars
<1>6. CASE BootAsk(s)
  <2>1. CASE Exit(s)
    BY <2>1, TypeExit
  <2>2. CASE th' = [th EXCEPT ![s]["main"].pc = "wait"] /\ UNCHANGED <<ringVars, envVars>>
    <3>1. th' = [th EXCEPT ![s]["main"] = [me EXCEPT !.pc = "wait"]]
      BY <1>1, <2>2 DEF Threads
    <3>2. th' \in Threads
      BY <1>1, <1>2, <3>1, SetPc, Put
    <3> QED BY <2>2, <3>2 DEF TypeOK, Threads, ringVars, envVars
  <2> QED BY <1>6, <2>1, <2>2 DEF BootAsk
<1>7. CASE BootFollow(s)
  <2>1. PICK k \in Free(s) :
          /\ kaTid' = [kaTid EXCEPT ![s] = k]
          /\ th' = [th EXCEPT ![s]["main"] = NewThread("boot", "run"),
                              ![s][k] = NewThread("keepalive", "dial")]
    BY <1>7 DEF BootFollow
  <2>2. k \in Pool /\ k \in Tid
    BY TidFacts DEF Free
  <2>3. NewThread("boot", "run") \in Thread /\ NewThread("keepalive", "dial") \in Thread
    BY <1>2, NewThreadType
  <2> DEFINE t1 == [th EXCEPT ![s]["main"] = NewThread("boot", "run")]
  <2>4. t1 \in Threads
    BY <1>1, <2>3, Put
  <2>5. th' = [t1 EXCEPT ![s][k] = NewThread("keepalive", "dial")]
    BY <2>1
  <2>6. th' \in Threads
    <3> HIDE DEF t1
    <3> QED BY <2>2, <2>3, <2>4, <2>5, Put
  <2>7. kaTid' \in [Server -> Pool \cup {"unset"}]
    BY <2>1, <2>2 DEF TypeOK
  <2>8. primaryIdx' \in [Server -> Server \cup {NoIdx}]
    BY <1>1, <1>7 DEF TypeOK, BootFollow
  <2> QED BY <1>7, <2>6, <2>7, <2>8 DEF TypeOK, Threads, BootFollow, envVars
<1>8. CASE BootUnanswered(s)
    BY <1>8, TypeExit DEF BootUnanswered
<1>9. ASSUME NEW t \in Server, AnswerLeaderQuestion(t, s)
      PROVE  TypeOK'
  <2>1. primaryIdx[t] \in Server \cup {NoIdx}
    BY DEF TypeOK
  <2>2. th' = [th EXCEPT ![s]["main"] = [me EXCEPT !.data = primaryIdx[t]]]
    BY <1>1, <1>9 DEF AnswerLeaderQuestion, Threads
  <2>3. th' \in Threads
    BY <1>1, <2>1, <2>2, SetData, Put
  <2> QED BY <1>9, <2>3 DEF TypeOK, Threads, AnswerLeaderQuestion, ringVars, envVars
<1> QED BY <1>3, <1>4, <1>5, <1>6, <1>7, <1>8, <1>9 DEF MainStep

LEMMA TypeKeepalive ==
    ASSUME TypeOK, NEW s \in Server, NEW k \in Pool, KeepaliveStep(s, k)
    PROVE  TypeOK'
<1>1. th \in Threads /\ th[s][k] \in Thread /\ k \in Tid
    BY TypeThread, TidFacts
<1>2. {"greet", "beat", "hungup", "begin"} \subseteq Pc /\ "start" \in Job
    BY DEF Pc, Job
<1>3. CASE Exit(s)
    BY <1>3, TypeExit
<1>4. CASE th' \in Threads /\ UNCHANGED <<ringVars, envVars>>
    BY <1>4 DEF TypeOK, Threads, ringVars, envVars
<1>5. CASE KeepaliveDial(s, k) /\ ~Exit(s)
  <2>1. primaryIdx[s] \in Server \cup {NoIdx, Gone}
    BY DEF TypeOK
  <2>2. th' = [th EXCEPT ![s][k] = [th[s][k] EXCEPT !.pc = "greet", !.sock = primaryIdx[s]]]
    BY <1>1, <1>5 DEF KeepaliveDial, Threads
  <2>3. th' \in Threads
    BY <1>1, <1>2, <2>1, <2>2, SetPcSock, Put
  <2> QED BY <1>4, <1>5, <2>3 DEF KeepaliveDial
<1>6. CASE KeepaliveServe(s, k)
  <2>1. PICK l \in Pc : th' = [th EXCEPT ![s][k].pc = l]
    BY <1>2, <1>6 DEF KeepaliveServe
  <2>2. th' = [th EXCEPT ![s][k] = [th[s][k] EXCEPT !.pc = l]]
    BY <1>1, <2>1 DEF Threads
  <2>3. th' \in Threads
    BY <1>1, <2>2, SetPc, Put
  <2> QED BY <1>4, <1>6, <2>3 DEF KeepaliveServe
<1>7. CASE KeepaliveLost(s, k) /\ ~Exit(s)
  <2>1. th' = [th EXCEPT ![s][k] = NewThread("start", "begin")]
    BY <1>7 DEF KeepaliveLost
  <2>2. th' \in Threads
    BY <1>1, <1>2, <2>1, NewThreadType, Put
  <2> QED BY <1>4, <1>7, <2>2 DEF KeepaliveLost
<1> QED BY <1>3, <1>5, <1>6, <1>7 DEF KeepaliveStep

\* Send, with a thread that goes on as c.
LEMMA TypeSend ==
    ASSUME TypeOK, NEW s \in Server, NEW k \in Pool, NEW c \in Thread, Send(s, k, c)
    PROVE  TypeOK'
<1>1. th \in Threads /\ th[s][k] \in Thread /\ k \in Tid
      /\ th[s][k].data \in Server \cup {NoIdx}
    BY TypeThread, TidFacts
<1> DEFINE t0 == [th EXCEPT ![s][k] = c]
<1>2. t0 \in Threads
    BY <1>1, Put
<1>3. CASE Exit(s)
    BY <1>3, TypeExit
<1>4. CASE th' \in Threads /\ UNCHANGED <<ringVars, envVars>>
    BY <1>4 DEF TypeOK, Threads, ringVars, envVars
<1>5. CASE th' = t0 /\ UNCHANGED <<ringVars, envVars>>
    BY <1>2, <1>4, <1>5
<1>6. CASE /\ th[s][k].sock \in Server
           /\ Delivered(t0, th[s][k].sock, Outgoing(s, k))
           /\ UNCHANGED <<ringVars, envVars>>
  <2> DEFINE r == Outgoing(s, k)
             t == th[s][k].sock
             n == [NewThread(r[1], "begin") EXCEPT !.data = r[2]]
  <2>1. r[1] \in Job /\ r[2] \in Server \cup {NoIdx}
    BY <1>1 DEF Outgoing, Job
  <2>2. n \in Thread
    BY <2>1, NewThreadType, SetData DEF Pc
  <2>3. PICK j \in Free(t) : th' = [t0 EXCEPT ![t][j] = n]
    BY <1>6 DEF Delivered
  <2>4. j \in Tid /\ t \in Server
    BY <1>6, <2>3, TidFacts DEF Free
  <2>5. th' \in Threads
    <3> HIDE DEF n, t0, t
    <3> QED BY <1>2, <2>2, <2>3, <2>4, Put
  <2> QED BY <1>4, <1>6, <2>5
<1> QED BY <1>3, <1>5, <1>6 DEF Send

LEMMA TypeLead ==
    ASSUME TypeOK, NEW s \in Server, NEW k \in Pool,
           LeadAlone(s, k) \/ LeadSettle(s, k) \/ GoOnToSend(s, k)
    PROVE  TypeOK'
<1>1. th \in Threads /\ th[s][k] \in Thread /\ k \in Tid
    BY TypeThread, TidFacts
<1>2. {"lead", "send"} \subseteq Pc
    BY DEF Pc
<1>3. CASE LeadAlone(s, k)
  <2>1. th' = [th EXCEPT ![s][k] = [th[s][k] EXCEPT !.pc = "lead"]]
    BY <1>1, <1>3 DEF LeadAlone, Threads
  <2>2. th' \in Threads
    BY <1>1, <1>2, <2>1, SetPc, Put
  <2>3. isPrimary' \in [Server -> BOOLEAN]
    BY <1>3 DEF TypeOK, LeadAlone
  <2> QED BY <1>3, <2>2, <2>3 DEF TypeOK, Threads, LeadAlone, envVars
<1>4. CASE LeadSettle(s, k)
  <2>1. th' \in Threads
    BY <1>1, <1>4, IdleType, Put DEF LeadSettle
  <2>2. inElection' \in [Server -> BOOLEAN]
    BY <1>4 DEF TypeOK, LeadSettle
  <2>3. primaryIdx' \in [Server -> Server \cup {NoIdx}]
    BY <1>4 DEF TypeOK, LeadSettle
  <2> QED BY <1>4, <2>1, <2>2, <2>3 DEF TypeOK, Threads, LeadSettle, envVars
<1>5. CASE GoOnToSend(s, k)
  <2>1. th' = [th EXCEPT ![s][k] = [th[s][k] EXCEPT !.pc = "send"]]
    BY <1>1, <1>5 DEF GoOnToSend, Threads
  <2>2. th' \in Threads
    BY <1>1, <1>2, <2>1, SetPc, Put
  <2> QED BY <1>5, <2>2 DEF TypeOK, Threads, GoOnToSend, ringVars, envVars
<1> QED BY <1>3, <1>4, <1>5

LEMMA TypeStart ==
    ASSUME TypeOK, NEW s \in Server, NEW k \in Pool, StartElection(s, k)
    PROVE  TypeOK'
<1>1. th \in Threads /\ k \in Tid
    BY TypeThread, TidFacts
<1>2. CASE StartBegin(s, k)
  <2> DEFINE n == [NewThread("start", "reset") EXCEPT !.msg = "ELECTION", !.data = s]
  <2>1. n \in Thread
    <3>1. NewThread("start", "reset") \in Thread
      BY NewThreadType DEF Job, Pc
    <3>2. s \in Server \cup {NoIdx}
      OBVIOUS
    <3> QED BY <3>1, <3>2, SetMsgData
  <2>2. th' = [th EXCEPT ![s][k] = n] \/ th' = [th EXCEPT ![s][k] = Idle]
    BY <1>2 DEF StartBegin
  <2>3. th' \in Threads
    <3> HIDE DEF n
    <3> QED BY <1>1, <2>1, <2>2, IdleType, Put
  <2>4. inElection' \in [Server -> BOOLEAN]
    BY <1>2 DEF TypeOK, StartBegin
  <2> QED BY <1>2, <2>3, <2>4 DEF TypeOK, Threads, StartBegin, envVars
<1>3. CASE StartDecide(s, k)
    BY <1>3, TypeLead DEF StartDecide
<1>4. CASE StartSend(s, k)
    BY <1>4, TypeSend, IdleType DEF StartSend
<1> QED BY <1>2, <1>3, <1>4 DEF StartElection

LEMMA CancelledType ==
    ASSUME TypeOK, NEW s \in Server
    PROVE  Cancelled(s) \in Threads
<1>1. th \in Threads
    BY DEF TypeOK, Threads
<1>2. CASE kaTid[s] \in Pool
    BY <1>1, <1>2, IdleType, TidFacts, Put DEF Cancelled
<1>3. CASE kaTid[s] \notin Pool
    BY <1>1, <1>3 DEF Cancelled
<1> QED BY <1>2, <1>3

LEMMA TypeElection ==
    ASSUME TypeOK, NEW s \in Server, NEW k \in Pool, HandleElection(s, k)
    PROVE  TypeOK'
<1>1. th \in Threads /\ th[s][k] \in Thread /\ k \in Tid
      /\ th[s][k].data \in Server \cup {NoIdx}
    BY TypeThread, TidFacts
<1>2. {"check", "enter", "reset"} \subseteq Pc
    BY DEF Pc
<1>3. CASE th' \in Threads /\ UNCHANGED <<ringVars, envVars>>
    BY <1>3 DEF TypeOK, Threads, ringVars, envVars
<1>4. CASE ElectionBegin(s, k)
  <2> DEFINE T == Cancelled(s)
  <2>1. T \in Threads /\ T[s][k] \in Thread
    BY <1>1, CancelledType DEF Threads
  <2>2. CASE th' = [T EXCEPT ![s][k] = Idle] /\ UNCHANGED <<ringVars, envVars>>
    <3>1. th' \in Threads
      <4> HIDE DEF T
      <4> QED BY <1>1, <2>1, <2>2, IdleType, Put
    <3> QED BY <1>3, <2>2, <3>1
  <2>3. CASE th' = [T EXCEPT ![s][k].pc = "check"] /\ UNCHANGED <<ringVars, envVars>>
    <3>1. th' \in Threads
      <4> HIDE DEF T
      <4>1. th' = [T EXCEPT ![s][k] = [T[s][k] EXCEPT !.pc = "check"]]
        BY <1>1, <2>1, <2>3 DEF Threads
      <4> QED BY <1>1, <1>2, <2>1, <4>1, SetPc, Put
    <3> QED BY <1>3, <2>3, <3>1
  <2>4. CASE Exit(s)
    BY <2>4, TypeExit
  <2> QED BY <1>4, <2>2, <2>3, <2>4 DEF ElectionBegin
<1>5. CASE ElectionCheck(s, k)
  <2> DEFINE n == IF th[s][k].data < s /\ inElection[s] THEN Idle
                  ELSE [th[s][k] EXCEPT !.pc = "enter"]
  <2>1. n \in Thread
    BY <1>1, <1>2, IdleType, SetPc
  <2>2. th' = [th EXCEPT ![s][k] = n]
    BY <1>5 DEF ElectionCheck
  <2>3. th' \in Threads
    <3> HIDE DEF n
    <3> QED BY <1>1, <2>1, <2>2, Put
  <2> QED BY <1>3, <1>5, <2>3 DEF ElectionCheck
<1>6. CASE ElectionEnter(s, k)
  <2>1. CASE th' = [th EXCEPT ![s][k].pc = "reset", ![s][k].msg = "ELECTED"]
             /\ isPrimary' = [isPrimary EXCEPT ![s] = TRUE]
    <3>1. th' = [th EXCEPT ![s][k] = [th[s][k] EXCEPT !.pc = "reset", !.msg = "ELECTED"]]
      BY <1>1, <2>1 DEF Threads
    <3>2. th' \in Threads
      BY <1>1, <1>2, <3>1, SetPcMsg, Put
    <3>3. isPrimary' \in [Server -> BOOLEAN]
      BY <2>1 DEF TypeOK
    <3>4. inElection' \in [Server -> BOOLEAN]
      BY <1>6 DEF TypeOK, ElectionEnter
    <3> QED BY <1>6, <3>2, <3>3, <3>4 DEF TypeOK, Threads, ElectionEnter, envVars
  <2>2. CASE /\ th' = [th EXCEPT ![s][k].pc = "reset", ![s][k].msg = "ELECTION",
                   ![s][k].data = IF s > th[s][k].data THEN s ELSE th[s][k].data]
             /\ UNCHANGED isPrimary
    <3> DEFINE d == IF s > th[s][k].data THEN s ELSE th[s][k].data
    <3>1. d \in Server \cup {NoIdx}
      BY <1>1
    <3>2. th' = [th EXCEPT ![s][k] =
                    [th[s][k] EXCEPT !.pc = "reset", !.msg = "ELECTION", !.data = d]]
      <4>1. th' = [th EXCEPT ![s][k].pc = "reset", ![s][k].msg = "ELECTION",
                             ![s][k].data = d]
        BY <2>2
      <4> HIDE DEF d
      <4> QED BY <1>1, <4>1 DEF Threads
    <3>3. th' \in Threads
      <4> HIDE DEF d
      <4> QED BY <1>1, <1>2, <3>1, <3>2, SetPcMsgData, Put
    <3>4. inElection' \in [Server -> BOOLEAN]
      BY <1>6 DEF TypeOK, ElectionEnter
    <3> QED BY <1>6, <2>2, <3>3, <3>4 DEF TypeOK, Threads, ElectionEnter, envVars
  <2> QED BY <1>6, <2>1, <2>2 DEF ElectionEnter
<1>7. CASE ElectionDecide(s, k)
    BY <1>7, TypeLead DEF ElectionDecide
<1>8. CASE ElectionSend(s, k)
    BY <1>8, TypeSend, IdleType DEF ElectionSend
<1> QED BY <1>4, <1>5, <1>6, <1>7, <1>8 DEF HandleElection

LEMMA TypeElected ==
    ASSUME TypeOK, NEW s \in Server, NEW k \in Pool, HandleElected(s, k)
    PROVE  TypeOK'
<1>1. th \in Threads /\ th[s][k] \in Thread /\ k \in Tid
      /\ th[s][k].data \in Server \cup {NoIdx}
    BY TypeThread, TidFacts
<1>2. {"enter", "reset", "resume", "dial"} \subseteq Pc /\ {"elected", "keepalive"} \subseteq Job
    BY DEF Pc, Job
<1>3. CASE ElectedBegin(s, k)
  <2> DEFINE n == IF th[s][k].data = s \/ ~inElection[s] THEN Idle
                  ELSE [th[s][k] EXCEPT !.pc = "enter"]
  <2>1. n \in Thread
    BY <1>1, <1>2, IdleType, SetPc
  <2>2. th' = [th EXCEPT ![s][k] = n]
    BY <1>3 DEF ElectedBegin
  <2>3. th' \in Threads
    <3> HIDE DEF n
    <3> QED BY <1>1, <2>1, <2>2, Put
  <2> QED BY <1>3, <2>3 DEF TypeOK, Threads, ElectedBegin, ringVars, envVars
<1>4. CASE ElectedAdopt(s, k)
  <2>1. th' = [th EXCEPT ![s][k] = [th[s][k] EXCEPT !.pc = "reset", !.msg = "ELECTED"]]
    BY <1>1, <1>4 DEF ElectedAdopt, Threads
  <2>2. th' \in Threads
    BY <1>1, <1>2, <2>1, SetPcMsg, Put
  <2>3. primaryIdx' \in [Server -> Server \cup {NoIdx}]
    BY <1>1, <1>4 DEF TypeOK, ElectedAdopt
  <2>4. inElection' \in [Server -> BOOLEAN]
    BY <1>4 DEF TypeOK, ElectedAdopt
  <2> QED BY <1>4, <2>2, <2>3, <2>4 DEF TypeOK, Threads, ElectedAdopt, envVars
<1>5. CASE ElectedDecide(s, k)
    BY <1>5, TypeExit, TypeLead DEF ElectedDecide
<1>6. CASE ElectedSend(s, k)
    BY <1>2, <1>6, TypeSend, NewThreadType DEF ElectedSend
<1>7. CASE ElectedResume(s, k)
  <2>1. th' \in Threads
    BY <1>1, <1>2, <1>7, NewThreadType, Put DEF ElectedResume
  <2>2. kaTid' \in [Server -> Pool \cup {"unset"}]
    BY <1>7 DEF TypeOK, ElectedResume
  <2> QED BY <1>7, <2>1, <2>2 DEF TypeOK, Threads, ElectedResume, envVars
<1> QED BY <1>3, <1>4, <1>5, <1>6, <1>7 DEF HandleElected

LEMMA TypeNext ==
    ASSUME TypeOK, [Next]_vars
    PROVE  TypeOK'
<1>1. CASE UNCHANGED vars
    BY <1>1 DEF TypeOK, vars, ringVars, envVars
<1>2. ASSUME NEW s \in Server, Boot(s) \/ Kill(s) \/ MainStep(s)
      PROVE  TypeOK'
    BY <1>2, TypeBoot, TypeKill, TypeMain
<1>3. ASSUME NEW s \in Server, NEW k \in Pool, ThreadStep(s, k)
      PROVE  TypeOK'
    BY <1>3, TidFacts, TypeScan, TypeLead, TypeKeepalive, TypeStart, TypeElection, TypeElected
    DEF ThreadStep
<1> QED BY <1>1, <1>2, <1>3 DEF Next

(***************************************************************************)
(* Every variable keeps its type, through boots, deaths and elections: in  *)
(* particular every index a thread computes, receives or adopts is the     *)
(* index of a port of the list, or not set.                                *)
(***************************************************************************)
THEOREM TypeCorrect == Spec => []TypeOK
<1>1. Init => TypeOK
    BY TypeInit
<1>2. TypeOK /\ [Next]_vars => TypeOK'
    BY TypeNext
<1> QED BY <1>1, <1>2, PTL DEF Spec

-----------------------------------------------------------------------------
(* Before the first death: the inductive invariant BootInv.                 *)

LEMMA MainIsNotInPool == "main" \notin Pool
    BY RingAssumption

\* Only a server that listens has passed anybody.
LEMMA PassedListens ==
    ASSUME NEW s \in Server, NEW t \in Server, Passed(s, t)
    PROVE  Listening(s)
    BY DEF Passed, Listening, Exists

\* A step of the main thread of s alone, that ends no process.
LEMMA MainMoves ==
    ASSUME TypeOK, BootInv, ~died, NEW s \in Server, NEW r \in Thread,
           th' = [th EXCEPT ![s]["main"] = r],
           \A t \in Server \ {s} : /\ nextIndex'[t] = nextIndex[t]
                                   /\ primaryIdx'[t] = primaryIdx[t]
                                   /\ isPrimary'[t] = isPrimary[t],
           isPrimary[s] => isPrimary'[s],
           Running(s) => r.pc = "run",
           MainInv(s)',
           \A t \in Server : Passed(s, t)' => Passed(s, t) \/ ~Listening(t)
    PROVE  BootInv'
<1>1. /\ \A t \in Server : t # s => th'[t]["main"] = th[t]["main"]
      /\ th'[s]["main"] = r
      /\ \A t \in Server, k \in Pool : th'[t][k] = th[t][k]
  <2>1. th \in Threads /\ "main" \in Tid /\ \A k \in Pool : k \in Tid /\ k # "main"
    BY TypeThread, TidFacts, MainIsNotInPool
  <2>2. \A t \in Server, j \in Tid :
          th'[t][j] = IF t = s /\ j = "main" THEN r ELSE th[t][j]
    BY <2>1, Put
  <2> QED BY <2>1, <2>2
<1>2. \A t \in Server : isPrimary[t] => isPrimary'[t]
    OBVIOUS
<1>3. ASSUME NEW t \in Server PROVE MainInv(t)'
  <2>1. CASE t = s
    BY <2>1
  <2>2. CASE t # s
    <3>1. MainInv(t)
      BY DEF BootInv
    <3>2. /\ th'[t]["main"] = th[t]["main"] /\ nextIndex'[t] = nextIndex[t]
          /\ primaryIdx'[t] = primaryIdx[t] /\ isPrimary'[t] = isPrimary[t]
      BY <1>1, <2>2
    <3>3. th[t]["main"].data \in Server \cup {NoIdx}
      BY TypeThread, TidFacts
    <3> QED BY <1>2, <3>1, <3>2, <3>3 DEF MainInv
  <2> QED BY <2>1, <2>2
<1>4. ASSUME NEW t \in Server, NEW k \in Pool PROVE WatchInv(t, k)'
  <2>1. WatchInv(t, k)
    BY DEF BootInv
  <2>2. Running(t) => Running(t)'
    BY <1>1 DEF Running
  <2> QED BY <1>1, <1>2, <2>1, <2>2 DEF WatchInv
<1>5. ASSUME NEW t \in Server, NEW u \in Server, Passed(t, u)', Passed(u, t)' PROVE FALSE
  <2>1. t # u
    BY <1>5 DEF Passed
  <2>2. \A v \in Server, w \in Server : v # s => (Passed(v, w)' <=> Passed(v, w))
    BY <1>1 DEF Passed
  <2>3. ~(Passed(t, u) /\ Passed(u, t))
    BY DEF BootInv
  <2>4. CASE t = s
    BY <1>5, <2>1, <2>2, <2>3, <2>4, PassedListens
  <2>5. CASE u = s
    BY <1>5, <2>1, <2>2, <2>3, <2>5, PassedListens
  <2>6. CASE t # s /\ u # s
    BY <1>5, <2>2, <2>3, <2>6
  <2> QED BY <2>4, <2>5, <2>6
<1> QED BY <1>3, <1>4, <1>5 DEF BootInv

\* The index the scan tries next, against what it has passed already.
LEMMA BetweenNext ==
    ASSUME NEW s \in Server, NEW n \in Server, NEW t \in Server, t # s
    PROVE  /\ NextIdx(s) # s => ~Between(s, NextIdx(s), t)
           /\ n # s /\ NextIdx(n) # s /\ Between(s, NextIdx(n), t) => Between(s, n, t) \/ t = n
           /\ n # s /\ NextIdx(n) = s => Between(s, n, t) \/ t = n
           /\ NextIdx(s) # s
    BY RingAssumption DEF NextIdx, Between, Server

LEMMA BootScan ==
    ASSUME TypeOK, BootInv, ~died, NEW s \in Server, Scan(s, "main")
    PROVE  BootInv'
<1> DEFINE m == th[s]["main"]
<1>1. /\ th \in Threads /\ m \in Thread /\ "main" \in Tid
      /\ m.addr \in Server \cup {NoIdx} /\ m.data \in Server \cup {NoIdx}
    BY TypeThread, TidFacts
<1>2. MainInv(s)
    BY DEF BootInv
<1>3. {"advance", "connect", "decide"} \subseteq Pc /\ NoIdx \in Server \cup {NoIdx}
    BY DEF Pc
<1>4. CASE ScanReset(s, "main")
  <2> DEFINE r == [m EXCEPT !.pc = "advance"]
  <2>1. r \in Thread /\ r.pc = "advance" /\ r.sock = m.sock /\ r.data = m.data /\ r.addr = m.addr
    BY <1>1, <1>3, SetPc
  <2>2. th' = [th EXCEPT ![s]["main"] = r]
    BY <1>1, <1>4 DEF ScanReset, Threads
  <2> HIDE DEF r
  <2>3. th'[s]["main"] = r
    BY <1>1, <2>1, <2>2, Put
  <2>4. nextIndex'[s] = s /\ \A t \in Server \ {s} : nextIndex'[t] = nextIndex[t]
    BY <1>4 DEF ScanReset, TypeOK
  <2>5. m.pc = "reset" /\ isPrimary' = isPrimary /\ primaryIdx' = primaryIdx
    BY <1>4 DEF ScanReset
  <2>6. MainInv(s)'
    BY <1>1, <1>2, <2>1, <2>3, <2>4, <2>5 DEF MainInv
  <2>7. \A t \in Server : ~Passed(s, t)'
    BY <2>1, <2>3, <2>4 DEF Passed
  <2> QED BY <2>1, <2>2, <2>4, <2>5, <2>6, <2>7, MainMoves DEF Running
<1>5. CASE ScanAdvance(s, "main")
  <2> DEFINE n == nextIndex[s]
             r == [m EXCEPT !.pc = "connect", !.addr = NextIdx(n)]
  <2>1. n \in Server /\ m.pc = "advance" /\ NextIdx(n) \in Server
    BY <1>2, <1>5, NextIdxType DEF ScanAdvance, MainInv
  <2>2. r \in Thread /\ r.pc = "connect" /\ r.sock = m.sock /\ r.data = m.data
        /\ r.addr = NextIdx(n)
    BY <1>1, <2>1 DEF Thread, Pc
  <2>3. th' = [th EXCEPT ![s]["main"] = r]
    BY <1>1, <1>5 DEF ScanAdvance, Threads
  <2> HIDE DEF r
  <2>4. th'[s]["main"] = r
    BY <1>1, <2>2, <2>3, Put
  <2>5. nextIndex'[s] = NextIdx(n) /\ \A t \in Server \ {s} : nextIndex'[t] = nextIndex[t]
    BY <1>5 DEF ScanAdvance, TypeOK
  <2>6. isPrimary' = isPrimary /\ primaryIdx' = primaryIdx
    BY <1>5 DEF ScanAdvance
  <2>7. MainInv(s)'
    BY <1>1, <1>2, <2>1, <2>2, <2>4, <2>5, <2>6 DEF MainInv
  <2>8. \A t \in Server : Passed(s, t)' => Passed(s, t)
    BY <2>1, <2>2, <2>4, <2>5, BetweenNext DEF Passed
  <2> QED BY <2>1, <2>2, <2>3, <2>5, <2>6, <2>7, <2>8, MainMoves DEF Running
<1>6. CASE ScanConnect(s, "main")
  <2>1. m.pc = "connect" /\ nextIndex[s] \in Server /\ m.addr = nextIndex[s]
        /\ UNCHANGED <<nextIndex, isPrimary, primaryIdx>>
    BY <1>2, <1>6 DEF ScanConnect, MainInv, ringVars
  <2>2. ASSUME NEW r \in Thread, th' = [th EXCEPT ![s]["main"] = r],
               r.pc = "decide", r.data = m.data, r.sock \in {m.sock} \cup Server
        PROVE  BootInv'
    <3>1. th'[s]["main"] = r
      BY <1>1, <2>2, Put
    <3>2. r.sock # Gone
      BY <1>2, <2>2 DEF MainInv, Gone, Server
    <3>3. MainInv(s)'
      BY <1>1, <1>2, <2>1, <2>2, <3>1, <3>2 DEF MainInv
    <3>4. \A t \in Server : Passed(s, t)' => Passed(s, t)
      BY <2>1, <2>2, <3>1 DEF Passed
    <3> QED BY <2>1, <2>2, <3>3, <3>4, MainMoves DEF Running
  <2>3. CASE /\ nextIndex[s] = s
             /\ th' = [th EXCEPT ![s]["main"].pc = "decide", ![s]["main"].addr = NoIdx]
    <3> DEFINE r == [m EXCEPT !.pc = "decide", !.addr = NoIdx]
    <3>1. r \in Thread /\ r.pc = "decide" /\ r.data = m.data /\ r.sock = m.sock
      BY <1>1 DEF Thread, Pc
    <3>2. th' = [th EXCEPT ![s]["main"] = r]
      BY <1>1, <2>3 DEF Threads
    <3> QED BY <2>2, <3>1, <3>2
  <2>4. CASE /\ nextIndex[s] # s
             /\ th' = [th EXCEPT ![s]["main"].pc = "decide", ![s]["main"].addr = NoIdx,
                                 ![s]["main"].sock = m.addr]
    <3> DEFINE r == [m EXCEPT !.pc = "decide", !.addr = NoIdx, !.sock = m.addr]
    <3>1. r \in Thread /\ r.pc = "decide" /\ r.data = m.data /\ r.sock = m.addr
      BY <1>1 DEF Thread, Pc
    <3>2. th' = [th EXCEPT ![s]["main"] = r]
      BY <1>1, <2>4 DEF Threads
    <3> QED BY <2>1, <2>2, <3>1, <3>2
  <2>5. CASE /\ nextIndex[s] # s
             /\ ~Listening(m.addr)
             /\ th' = [th EXCEPT ![s]["main"].pc = "advance", ![s]["main"].addr = NoIdx]
    <3> DEFINE r == [m EXCEPT !.pc = "advance", !.addr = NoIdx]
    <3>1. r \in Thread /\ r.pc = "advance" /\ r.data = m.data /\ r.sock = m.sock
      BY <1>1 DEF Thread, Pc
    <3>2. th' = [th EXCEPT ![s]["main"] = r]
      BY <1>1, <2>5 DEF Threads
    <3> HIDE DEF r
    <3>3. th'[s]["main"] = r
      BY <1>1, <3>1, <3>2, Put
    <3>4. MainInv(s)'
      BY <1>1, <1>2, <2>1, <3>1, <3>3 DEF MainInv
    <3>5. \A t \in Server : Passed(s, t)' => Passed(s, t) \/ ~Listening(t)
      BY <2>1, <2>5, <3>1, <3>3 DEF Passed
    <3> QED BY <2>1, <3>1, <3>2, <3>4, <3>5, MainMoves DEF Running
  <2> QED BY <1>6, <2>3, <2>4, <2>5 DEF ScanConnect
<1> QED BY <1>4, <1>5, <1>6 DEF Scan

LEMMA BootBoot ==
    ASSUME TypeOK, BootInv, ~died, NEW s \in Server, Boot(s)
    PROVE  BootInv'
<1> DEFINE r == NewThread("boot", "bound")
<1>1. r \in Thread /\ r.pc = "bound" /\ r.sock = NoIdx /\ r.data = NoIdx
    BY NewThreadType DEF Job, Pc
<1>2. th' = [th EXCEPT ![s]["main"] = r] /\ th[s]["main"].pc = "idle"
      /\ UNCHANGED <<nextIndex, isPrimary, primaryIdx>>
    BY DEF Boot, Exists, ringVars
<1> HIDE DEF r
<1>3. th'[s]["main"] = r
    BY <1>1, <1>2, TypeThread, TidFacts, Put
<1>4. ~isPrimary[s]
    BY <1>2 DEF BootInv, MainInv
<1>5. MainInv(s)'
    BY <1>1, <1>2, <1>3, <1>4 DEF MainInv, NoIdx, Gone
<1>6. \A t \in Server : ~Passed(s, t)'
    BY <1>1, <1>3 DEF Passed
<1> QED BY <1>1, <1>2, <1>5, <1>6, MainMoves DEF Running

\* BootFollow also creates the keepalive thread.
LEMMA BootFollows ==
    ASSUME TypeOK, BootInv, ~died, NEW s \in Server, BootFollow(s)
    PROVE  BootInv'
<1> DEFINE m == th[s]["main"]
           r == NewThread("boot", "run")
           w == NewThread("keepalive", "dial")
<1>1. /\ th \in Threads /\ "main" \in Tid /\ m.data \in Server \cup {NoIdx}
    BY TypeThread, TidFacts
<1>2. PICK k \in Free(s) : th' = [th EXCEPT ![s]["main"] = r, ![s][k] = w]
    BY DEF BootFollow
<1>3. k \in Pool /\ k \in Tid /\ k # "main" /\ \A j \in Pool : j \in Tid /\ j # "main"
    BY TidFacts, MainIsNotInPool DEF Free
<1>4. /\ r \in Thread /\ r.pc = "run" /\ r.sock = NoIdx /\ r.data = NoIdx
      /\ w \in Thread /\ w.job = "keepalive" /\ w.pc = "dial" /\ w.sock = NoIdx
    BY NewThreadType DEF Job, Pc
<1> DEFINE t1 == [th EXCEPT ![s]["main"] = r]
<1>5. t1 \in Threads /\ \A t \in Server, j \in Tid :
                            t1[t][j] = IF t = s /\ j = "main" THEN r ELSE th[t][j]
    <2> HIDE DEF r
    <2> QED BY <1>1, <1>4, Put
<1>6. th' = [t1 EXCEPT ![s][k] = w]
    BY <1>2
<1> HIDE DEF r, w, t1
<1>7. \A t \in Server, j \in Tid : th'[t][j] = IF t = s /\ j = k THEN w ELSE t1[t][j]
    BY <1>3, <1>4, <1>5, <1>6, Put
<1>8. /\ th'[s]["main"] = r /\ th'[s][k] = w
      /\ \A t \in Server \ {s} : th'[t]["main"] = th[t]["main"]
      /\ \A t \in Server, j \in Pool : (t # s \/ j # k) => th'[t][j] = th[t][j]
    BY <1>1, <1>3, <1>5, <1>7
<1>9. /\ m.pc = "wait" /\ m.data # NoIdx
      /\ primaryIdx'[s] = m.data /\ \A t \in Server \ {s} : primaryIdx'[t] = primaryIdx[t]
      /\ UNCHANGED <<nextIndex, isPrimary>>
    BY DEF BootFollow, At, TypeOK
<1>10. MainInv(s)
    BY DEF BootInv
<1>11. ASSUME NEW t \in Server PROVE MainInv(t)'
  <2>1. CASE t = s
    BY <1>1, <1>4, <1>8, <1>9, <1>10, <2>1 DEF MainInv, NoIdx, Gone
  <2>2. CASE t # s
    <3>1. MainInv(t)
      BY DEF BootInv
    <3>2. th'[t]["main"] = th[t]["main"] /\ primaryIdx'[t] = primaryIdx[t]
      BY <1>8, <1>9, <2>2
    <3> QED BY <1>9, <3>1, <3>2 DEF MainInv
  <2> QED BY <2>1, <2>2
<1>12. ASSUME NEW t \in Server, NEW j \in Pool PROVE WatchInv(t, j)'
  <2>1. CASE t = s /\ j = k
    BY <1>4, <1>8, <2>1 DEF WatchInv, Running
  <2>2. CASE t # s \/ j # k
    <3>1. WatchInv(t, j)
      BY DEF BootInv
    <3>2. th'[t][j] = th[t][j] /\ (Running(t) => Running(t)')
      BY <1>4, <1>8, <2>2 DEF Running
    <3> QED BY <1>9, <3>1, <3>2 DEF WatchInv
  <2> QED BY <2>1, <2>2
<1>13. ASSUME NEW t \in Server, NEW u \in Server PROVE ~(Passed(t, u)' /\ Passed(u, t)')
  <2>1. \A v \in Server \ {s}, x \in Server : Passed(v, x)' <=> Passed(v, x)
    BY <1>8, <1>9 DEF Passed
  <2>2. ~(Passed(t, u) /\ Passed(u, t))
    BY DEF BootInv
  <2>3. \A x \in Server : ~Passed(s, x)'
    <3>1. nextIndex[s] # s
      BY <1>9, <1>10 DEF MainInv
    <3> QED BY <1>4, <1>8, <1>9, <3>1 DEF Passed
  <2> QED BY <2>1, <2>2, <2>3
<1> QED BY <1>11, <1>12, <1>13 DEF BootInv

LEMMA BootMain ==
    ASSUME TypeOK, BootInv, ~died, ~died', NEW s \in Server, MainStep(s)
    PROVE  BootInv'
<1> DEFINE m == th[s]["main"]
<1>1. /\ th \in Threads /\ m \in Thread /\ "main" \in Tid /\ m.data \in Server \cup {NoIdx}
    BY TypeThread, TidFacts
<1>2. MainInv(s)
    BY DEF BootInv
<1>3. ~Exit(s)
    BY DEF Exit, Die
<1>4. CASE Scan(s, "main")
    BY <1>4, BootScan
<1>5. CASE Listen(s)
  <2> DEFINE r == [m EXCEPT !.pc = "reset"]
  <2>1. r \in Thread /\ r.pc = "reset" /\ r.sock = m.sock /\ r.data = m.data
    BY <1>1 DEF Thread, Pc
  <2>2. th' = [th EXCEPT ![s]["main"] = r]
    BY <1>1, <1>5 DEF Listen, Threads
  <2> HIDE DEF r
  <2>3. th'[s]["main"] = r
    BY <1>1, <2>1, <2>2, Put
  <2>4. m.pc = "bound" /\ UNCHANGED <<nextIndex, isPrimary, primaryIdx>>
    BY <1>5 DEF Listen, At, ringVars
  <2>5. MainInv(s)'
    BY <1>1, <1>2, <2>1, <2>3, <2>4 DEF MainInv
  <2>6. \A t \in Server : ~Passed(s, t)'
    BY <2>1, <2>3 DEF Passed
  <2> QED BY <2>1, <2>2, <2>4, <2>5, <2>6, MainMoves DEF Running
<1>6. CASE BootAlone(s)
  <2> DEFINE r == [m EXCEPT !.pc = "run"]
  <2>1. r \in Thread /\ r.pc = "run" /\ r.sock = m.sock /\ r.data = m.data
    BY <1>1 DEF Thread, Pc
  <2>2. th' = [th EXCEPT ![s]["main"] = r]
    BY <1>1, <1>6 DEF BootAlone, Threads
  <2> HIDE DEF r
  <2>3. th'[s]["main"] = r
    BY <1>1, <2>1, <2>2, Put
  <2>4. m.pc = "decide" /\ nextIndex[s] = s /\ nextIndex' = nextIndex
    BY <1>6 DEF BootAlone, At
  <2>5. isPrimary'[s] /\ \A t \in Server \ {s} : isPrimary'[t] = isPrimary[t]
    BY <1>6 DEF BootAlone, TypeOK
  <2>6. primaryIdx'[s] = s /\ \A t \in Server \ {s} : primaryIdx'[t] = primaryIdx[t]
    BY <1>6 DEF BootAlone, TypeOK
  <2>7. m.data # NoIdx => isPrimary'[m.data]
    BY <1>1, <1>2, <2>5 DEF MainInv
  <2>8. MainInv(s)'
    BY <1>1, <1>2, <2>1, <2>3, <2>4, <2>5, <2>6, <2>7 DEF MainInv
  <2>9. \A t \in Server : Passed(s, t)' => Passed(s, t)
    BY <2>1, <2>3, <2>4 DEF Passed
  <2> QED BY <2>1, <2>2, <2>4, <2>5, <2>6, <2>8, <2>9, MainMoves
<1>7. CASE BootAsk(s)
  <2> DEFINE r == [m EXCEPT !.pc = "wait"]
  <2>1. r \in Thread /\ r.pc = "wait" /\ r.sock = m.sock /\ r.data = m.data
    BY <1>1 DEF Thread, Pc
  <2>2. th' = [th EXCEPT ![s]["main"] = r]
    BY <1>1, <1>3, <1>7 DEF BootAsk, Threads
  <2> HIDE DEF r
  <2>3. th'[s]["main"] = r
    BY <1>1, <2>1, <2>2, Put
  <2>4. m.pc = "decide" /\ nextIndex[s] # s /\ UNCHANGED <<nextIndex, isPrimary, primaryIdx>>
    BY <1>3, <1>7 DEF BootAsk, At, ringVars
  <2>5. MainInv(s)'
    BY <1>1, <1>2, <2>1, <2>3, <2>4 DEF MainInv
  <2>6. \A t \in Server : ~Passed(s, t)'
    BY <2>1, <2>3 DEF Passed
  <2> QED BY <2>1, <2>2, <2>4, <2>5, <2>6, MainMoves DEF Running
<1>8. ASSUME NEW t \in Server, AnswerLeaderQuestion(t, s)
      PROVE  BootInv'
  <2> DEFINE r == [m EXCEPT !.data = primaryIdx[t]]
  <2>1. primaryIdx[t] \in Server /\ isPrimary[primaryIdx[t]]
    BY <1>8 DEF AnswerLeaderQuestion, Running, BootInv, MainInv
  <2>2. r \in Thread /\ r.pc = m.pc /\ r.sock = m.sock /\ r.data = primaryIdx[t]
    BY <1>1, <2>1 DEF Thread
  <2>3. th' = [th EXCEPT ![s]["main"] = r]
    BY <1>1, <1>8 DEF AnswerLeaderQuestion, Threads
  <2> HIDE DEF r
  <2>4. th'[s]["main"] = r
    BY <1>1, <2>2, <2>3, Put
  <2>5. m.pc = "wait" /\ UNCHANGED <<nextIndex, isPrimary, primaryIdx>>
    BY <1>8 DEF AnswerLeaderQuestion, At, ringVars
  <2>6. MainInv(s)'
    BY <1>2, <2>1, <2>2, <2>4, <2>5 DEF MainInv
  <2>7. \A u \in Server : ~Passed(s, u)'
    BY <2>2, <2>4, <2>5 DEF Passed
  <2> QED BY <2>2, <2>3, <2>5, <2>6, <2>7, MainMoves DEF Running
<1>9. CASE BootFollow(s)
    BY <1>9, BootFollows
<1>10. CASE BootUnanswered(s)
    BY <1>3, <1>10 DEF BootUnanswered
<1> QED BY <1>4, <1>5, <1>6, <1>7, <1>8, <1>9, <1>10 DEF MainStep


\* Before a death the only threads besides main are keepalives, and the
\* primary they watch is there.
LEMMA OnlyWatches ==
    ASSUME BootInv, ~died, NEW s \in Server, NEW k \in Pool, ThreadStep(s, k)
    PROVE  KeepaliveServe(s, k) \/ (KeepaliveDial(s, k) /\ Listening(primaryIdx[s]))
<1>1. WatchInv(s, k) /\ MainInv(s)
    BY DEF BootInv
<1>2. ASSUME KeepaliveDial(s, k) PROVE Listening(primaryIdx[s])
  <2>1. primaryIdx[s] \in Server /\ isPrimary[primaryIdx[s]]
    BY <1>1, <1>2 DEF KeepaliveDial, At, WatchInv, MainInv, Running
  <2> QED BY <2>1 DEF BootInv, MainInv, Listening, Exists
<1>3. ~KeepaliveLost(s, k)
    BY <1>1 DEF KeepaliveLost, WatchInv, Gone, NoIdx, Server
<1>4. th[s][k].job \in {"none", "keepalive"} /\ th[s][k].pc \in {"idle", "dial", "greet", "beat"}
    BY <1>1 DEF WatchInv
<1>5. ~Scan(s, k) /\ ~LeadSettle(s, k)
    BY <1>4 DEF Scan, ScanReset, ScanAdvance, ScanConnect, LeadSettle
<1>6. ~StartElection(s, k)
    BY <1>4 DEF StartElection, StartBegin, StartDecide, StartSend, At
<1>7. ~HandleElection(s, k)
    BY <1>4 DEF HandleElection, ElectionBegin, ElectionCheck, ElectionEnter, ElectionDecide,
                ElectionSend, At
<1>8. ~HandleElected(s, k)
    BY <1>4 DEF HandleElected, ElectedBegin, ElectedAdopt, ElectedDecide, ElectedSend,
                ElectedResume, At
<1> QED BY <1>2, <1>3, <1>5, <1>6, <1>7, <1>8 DEF ThreadStep, KeepaliveStep

LEMMA BootThread ==
    ASSUME TypeOK, BootInv, ~died, NEW s \in Server, NEW k \in Pool, ThreadStep(s, k)
    PROVE  BootInv'
<1> DEFINE w == th[s][k]
<1>1. /\ th \in Threads /\ w \in Thread /\ k \in Tid /\ k # "main" /\ "main" \in Tid
      /\ \A j \in Pool : j \in Tid /\ j # "main"
    BY TypeThread, TidFacts, MainIsNotInPool
<1>2. WatchInv(s, k) /\ MainInv(s)
    BY DEF BootInv
<1>3. ASSUME NEW r \in Thread, th' = [th EXCEPT ![s][k] = r], r.job = "keepalive",
             Running(s), r.pc \in {"greet", "beat"}, r.sock \in Server, isPrimary[r.sock],
             UNCHANGED <<ringVars, envVars>>
      PROVE  BootInv'
  <2>1. \A t \in Server, j \in Tid : th'[t][j] = IF t = s /\ j = k THEN r ELSE th[t][j]
    BY <1>1, <1>3, Put
  <2>2. /\ th'[s][k] = r /\ \A t \in Server : th'[t]["main"] = th[t]["main"]
        /\ \A t \in Server, j \in Pool : (t # s \/ j # k) => th'[t][j] = th[t][j]
        /\ UNCHANGED <<isPrimary, primaryIdx, nextIndex>>
    BY <1>1, <1>3, <2>1 DEF ringVars
  <2>3. ASSUME NEW t \in Server PROVE MainInv(t)'
    BY <2>2 DEF BootInv, MainInv
  <2>4. ASSUME NEW t \in Server, NEW j \in Pool PROVE WatchInv(t, j)'
    <3>1. CASE t = s /\ j = k
      BY <1>3, <2>2, <3>1 DEF WatchInv, Running
    <3>2. CASE t # s \/ j # k
      BY <2>2, <3>2 DEF BootInv, WatchInv, Running
    <3> QED BY <3>1, <3>2
  <2>5. ASSUME NEW t \in Server, NEW u \in Server PROVE ~(Passed(t, u)' /\ Passed(u, t)')
    BY <2>2 DEF BootInv, Passed
  <2> QED BY <2>3, <2>4, <2>5 DEF BootInv
<1>4. CASE KeepaliveDial(s, k) /\ Listening(primaryIdx[s])
  <2> DEFINE r == [w EXCEPT !.pc = "greet", !.sock = primaryIdx[s]]
  <2>1. w.job = "keepalive" /\ Running(s) /\ primaryIdx[s] \in Server /\ isPrimary[primaryIdx[s]]
    BY <1>2, <1>4 DEF KeepaliveDial, At, WatchInv, MainInv, Running
  <2>2. th' = [th EXCEPT ![s][k] = r] /\ UNCHANGED <<ringVars, envVars>>
    BY <1>1, <1>4 DEF KeepaliveDial, Threads
  <2>3. r \in Thread /\ r.job = "keepalive" /\ r.pc = "greet" /\ r.sock = primaryIdx[s]
    BY <1>1, <2>1 DEF Thread, Pc
  <2> HIDE DEF r
  <2> QED BY <1>3, <2>1, <2>2, <2>3
<1>5. CASE KeepaliveServe(s, k)
  <2> DEFINE r == [w EXCEPT !.pc = "beat"]
  <2>1. w.job = "keepalive" /\ Running(s) /\ w.sock \in Server /\ isPrimary[w.sock]
    BY <1>2, <1>5 DEF KeepaliveServe, At, WatchInv
  <2>2. th' = [th EXCEPT ![s][k].pc = "beat"] /\ UNCHANGED <<ringVars, envVars>>
    BY <1>5, <2>1 DEF KeepaliveServe
  <2>3. th' = [th EXCEPT ![s][k] = r]
    BY <1>1, <2>2 DEF Threads
  <2>4. r \in Thread /\ r.job = "keepalive" /\ r.pc = "beat" /\ r.sock = w.sock
    BY <1>1, <2>1 DEF Thread, Pc
  <2> HIDE DEF r
  <2> QED BY <1>3, <2>1, <2>2, <2>3, <2>4
<1> QED BY <1>4, <1>5, OnlyWatches

LEMMA BootInit == Init => BootInv
<1> SUFFICES ASSUME Init PROVE BootInv
    OBVIOUS
<1>1. \A s \in Server, k \in Tid :
        th[s][k].pc = "idle" /\ th[s][k].job = "none"
        /\ th[s][k].sock = NoIdx /\ th[s][k].data = NoIdx
    BY IdleType, NewThreadType DEF Init, Idle, Job, Pc
<1>2. \A s \in Server : ~isPrimary[s]
    BY DEF Init
<1>3. \A s \in Server : MainInv(s)
    BY <1>1, <1>2, TidFacts DEF MainInv, NoIdx, Gone
<1>4. \A s \in Server, k \in Pool : WatchInv(s, k)
    BY <1>1, TidFacts DEF WatchInv
<1>5. \A s, t \in Server : ~Passed(s, t)
    BY <1>1, TidFacts DEF Passed
<1> QED BY <1>3, <1>4, <1>5 DEF BootInv

\* A death is never undone.
LEMMA DeathIsFinal == TypeOK /\ [Next]_vars /\ died => died'
<1> SUFFICES ASSUME TypeOK, [Next]_vars, died PROVE died'
    OBVIOUS
<1>1. CASE UNCHANGED vars
    BY <1>1 DEF vars, envVars
<1>2. ASSUME NEW s \in Server, Boot(s) \/ Kill(s) PROVE died'
    BY <1>2 DEF Boot, Kill, Die
<1>3. ASSUME NEW s \in Server, MainStep(s) PROVE died'
    BY <1>3 DEF MainStep, Scan, ScanReset, ScanAdvance, ScanConnect, Listen, BootAlone, BootAsk,
               BootFollow, BootUnanswered, AnswerLeaderQuestion, Exit, Die, envVars
<1>4. ASSUME NEW s \in Server, NEW k \in Pool, ThreadStep(s, k) PROVE died'
  <2>1. CASE Scan(s, k) \/ LeadSettle(s, k) \/ KeepaliveStep(s, k)
    BY <2>1 DEF Scan, ScanReset, ScanAdvance, ScanConnect, LeadSettle, KeepaliveStep,
                KeepaliveDial, KeepaliveServe, KeepaliveLost, Exit, Die, envVars
  <2>2. CASE StartElection(s, k)
    BY <2>2 DEF StartElection, StartBegin, StartDecide, StartSend, LeadAlone, GoOnToSend, Send,
                Exit, Die, envVars
  <2>3. CASE HandleElection(s, k)
    BY <2>3 DEF HandleElection, ElectionBegin, ElectionCheck, ElectionEnter, ElectionDecide,
                ElectionSend, LeadAlone, GoOnToSend, Send, Exit, Die, envVars
  <2>4. CASE HandleElected(s, k)
    BY <2>4 DEF HandleElected, ElectedBegin, ElectedAdopt, ElectedDecide, ElectedSend,
                ElectedResume, GoOnToSend, Send, Exit, Die, envVars
  <2> QED BY <1>4, <2>1, <2>2, <2>3, <2>4 DEF ThreadStep
<1> QED BY <1>1, <1>2, <1>3, <1>4 DEF Next

LEMMA BootNext ==
    ASSUME TypeOK, BootInv, [Next]_vars
    PROVE  BootInv'
<1>1. CASE died \/ died'
    BY <1>1, DeathIsFinal DEF BootInv
<1>2. CASE ~died /\ ~died'
  <2>1. CASE UNCHANGED vars
    BY <2>1 DEF BootInv, MainInv, WatchInv, Passed, Running, vars, ringVars, envVars
  <2>2. ASSUME NEW s \in Server, Boot(s) \/ Kill(s) \/ MainStep(s)
        PROVE  BootInv'
    BY <1>2, <2>2, BootBoot, BootMain DEF Kill, Die
  <2>3. ASSUME NEW s \in Server, NEW k \in Pool, ThreadStep(s, k)
        PROVE  BootInv'
    BY <1>2, <2>3, BootThread
  <2> QED BY <2>1, <2>2, <2>3 DEF Next
<1> QED BY <1>1, <1>2

\* Two primaries would have passed each other.
LEMMA BootInvSafe ==
    ASSUME TypeOK, BootInv
    PROVE  BootSafety
<1> SUFFICES ASSUME ~died
             PROVE  /\ AtMostOnePrimary
                    /\ \A s \in Server : Running(s) =>
                           primaryIdx[s] \in Server /\ isPrimary[primaryIdx[s]]
    BY DEF BootSafety
<1>1. \A s \in Server : MainInv(s)
    BY DEF BootInv
<1>2. ASSUME NEW s \in Server, NEW t \in Server, isPrimary[s], isPrimary[t], s # t
      PROVE  FALSE
  <2>1. Passed(s, t) /\ Passed(t, s)
    BY <1>1, <1>2 DEF MainInv, Passed
  <2> QED BY <2>1 DEF BootInv
<1>3. AtMostOnePrimary
    BY <1>2 DEF AtMostOnePrimary
<1> QED BY <1>1, <1>3 DEF MainInv, Running

(***************************************************************************)
(* However many servers boot at once and however their scans interleave:   *)
(* as long as no process has ended there is at most one primary, and every *)
(* server in its accept loop names it (server_ring_connect and             *)
(* handle_connection_leader_question).                                     *)
(***************************************************************************)
THEOREM BootIsSafe == Spec => []BootSafety
<1>1. Init => TypeOK /\ BootInv
    BY TypeInit, BootInit
<1>2. TypeOK /\ BootInv /\ [Next]_vars => (TypeOK /\ BootInv)'
    BY TypeNext, BootNext
<1>3. TypeOK /\ BootInv => BootSafety
    BY BootInvSafe
<1> QED BY <1>1, <1>2, <1>3, PTL DEF Spec

-----------------------------------------------------------------------------
(* Until a server ends, the ring implements Leadership.                     *)

\* A server that reaches its own index in the scan is the first to lead.
LEMMA AloneIsFirst ==
    ASSUME BootInv, ~died, NEW s \in Server, BootAlone(s), NEW t \in Server
    PROVE  ~isPrimary[t] /\ ~Running(t)
<1>1. /\ MainInv(t) /\ MainInv(s)
      /\ \A u \in Server : MainInv(u) /\ ~(Passed(s, u) /\ Passed(u, s))
    BY DEF BootInv
<1>2. th[s]["main"].pc = "decide" /\ nextIndex[s] = s
    BY DEF BootAlone, At
<1>3. ASSUME NEW u \in Server, isPrimary[u] PROVE FALSE
  <2>1. u # s
    BY <1>1, <1>2, <1>3 DEF MainInv
  <2>2. Passed(s, u) /\ Passed(u, s)
    BY <1>1, <1>2, <1>3, <2>1 DEF MainInv, Passed
  <2> QED BY <1>1, <2>2
<1> QED BY <1>1, <1>3 DEF MainInv, Running

\* Steps that move nobody into the accept loop are invisible.
LEMMA Stutters ==
    ASSUME isPrimary' = isPrimary, \A t \in Server : Running(t)' <=> Running(t)
    PROVE  UNCHANGED Ring!vars
<1>1. Members' = Members
    BY DEF Members
<1>2. Leader' = Leader
    BY DEF Leader
<1> QED BY <1>1, <1>2 DEF Ring!vars

\* The main thread of the others, when one thread is replaced.
LEMMA OthersRun ==
    ASSUME TypeOK, NEW s \in Server, NEW r \in Thread, th' = [th EXCEPT ![s]["main"] = r]
    PROVE  \A t \in Server : Running(t)' <=> IF t = s THEN r.pc = "run" ELSE Running(t)
<1>1. th \in Threads /\ "main" \in Tid
    BY TypeThread, TidFacts
<1>2. \A t \in Server : th'[t]["main"] = IF t = s THEN r ELSE th[t]["main"]
    BY <1>1, Put
<1> QED BY <1>2 DEF Running

LEMMA FollowedMain ==
    ASSUME TypeOK, NEW s \in Server, BootFollow(s)
    PROVE  \A t \in Server :
             th'[t]["main"] = IF t = s THEN NewThread("boot", "run") ELSE th[t]["main"]
<1> DEFINE r == NewThread("boot", "run")
           w == NewThread("keepalive", "dial")
<1>1. th \in Threads /\ "main" \in Tid
    BY TypeThread, TidFacts
<1>2. PICK k \in Free(s) : th' = [th EXCEPT ![s]["main"] = r, ![s][k] = w]
    BY DEF BootFollow
<1>3. k \in Tid /\ k # "main"
    BY TidFacts, MainIsNotInPool DEF Free
<1>4. r \in Thread /\ w \in Thread
    BY NewThreadType DEF Job, Pc
<1> DEFINE t1 == [th EXCEPT ![s]["main"] = r]
<1>5. t1 \in Threads /\ \A t \in Server : t1[t]["main"] = IF t = s THEN r ELSE th[t]["main"]
    <2> HIDE DEF r
    <2> QED BY <1>1, <1>4, Put
<1>6. th' = [t1 EXCEPT ![s][k] = w]
    BY <1>2
<1> HIDE DEF r, w, t1
<1>7. \A t \in Server : th'[t]["main"] = t1[t]["main"]
    BY <1>1, <1>3, <1>4, <1>5, <1>6, Put
<1> QED BY <1>5, <1>7 DEF r

LEMMA ImplementsMain ==
    ASSUME TypeOK, BootInv, ~died, ~died', NEW s \in Server, MainStep(s)
    PROVE  [Ring!Next]_(Ring!vars)
<1> DEFINE m == th[s]["main"]
<1>1. th \in Threads /\ m \in Thread /\ "main" \in Tid
      /\ m.addr \in Server \cup {NoIdx} /\ m.data \in Server \cup {NoIdx}
    BY TypeThread, TidFacts
<1>2. MainInv(s)
    BY DEF BootInv
<1>3. ~Exit(s)
    BY DEF Exit, Die
<1>4. ASSUME NEW r \in Thread, th' = [th EXCEPT ![s]["main"] = r],
             m.pc # "run", r.pc # "run", isPrimary' = isPrimary
      PROVE  UNCHANGED Ring!vars
    BY <1>4, OthersRun, Stutters DEF Running
<1>5. CASE Scan(s, "main") \/ Listen(s) \/ BootAsk(s)
  <2>1. PICK l \in Pc \ {"run"}, a \in Server \cup {NoIdx}, x \in Server \cup {NoIdx, Gone} :
          \/ th' = [th EXCEPT ![s]["main"].pc = l]
          \/ th' = [th EXCEPT ![s]["main"].pc = l, ![s]["main"].addr = a]
          \/ th' = [th EXCEPT ![s]["main"].pc = l, ![s]["main"].addr = a, ![s]["main"].sock = x]
    <3>1. CASE ScanReset(s, "main") \/ Listen(s) \/ BootAsk(s)
      <4>1. \E l \in {"advance", "reset", "wait"} : th' = [th EXCEPT ![s]["main"].pc = l]
        BY <1>3, <3>1 DEF ScanReset, Listen, BootAsk
      <4> QED BY <4>1 DEF Pc
    <3>2. CASE ScanAdvance(s, "main")
      <4>1. NextIdx(nextIndex[s]) \in Server \cup {NoIdx}
        BY NextIdxType DEF TypeOK
      <4> QED BY <3>2, <4>1 DEF ScanAdvance, Pc
    <3>3. CASE ScanConnect(s, "main")
      <4>1. PICK l \in {"decide", "advance"} :
              \/ th' = [th EXCEPT ![s]["main"].pc = l, ![s]["main"].addr = NoIdx]
              \/ th' = [th EXCEPT ![s]["main"].pc = l, ![s]["main"].addr = NoIdx,
                                  ![s]["main"].sock = m.addr]
        BY <3>3 DEF ScanConnect
      <4>2. l \in Pc \ {"run"} /\ NoIdx \in Server \cup {NoIdx}
            /\ m.addr \in Server \cup {NoIdx, Gone}
        BY <1>1 DEF Pc
      <4> QED BY <4>1, <4>2
    <3> QED BY <1>5, <3>1, <3>2, <3>3 DEF Scan
  <2>2. m.pc # "run" /\ isPrimary' = isPrimary
    BY <1>3, <1>5 DEF Scan, ScanReset, ScanAdvance, ScanConnect, Listen, BootAsk, At, ringVars
  <2>3. CASE th' = [th EXCEPT ![s]["main"].pc = l]
    <3> DEFINE r == [m EXCEPT !.pc = l]
    <3>1. r \in Thread /\ r.pc # "run"
      BY <1>1 DEF Thread
    <3>2. th' = [th EXCEPT ![s]["main"] = r]
      BY <1>1, <2>3 DEF Threads
    <3> QED BY <1>4, <2>2, <3>1, <3>2
  <2>4. CASE th' = [th EXCEPT ![s]["main"].pc = l, ![s]["main"].addr = a]
    <3> DEFINE r == [m EXCEPT !.pc = l, !.addr = a]
    <3>1. r \in Thread /\ r.pc # "run"
      BY <1>1 DEF Thread
    <3>2. th' = [th EXCEPT ![s]["main"] = r]
      BY <1>1, <2>4 DEF Threads
    <3> QED BY <1>4, <2>2, <3>1, <3>2
  <2>5. CASE th' = [th EXCEPT ![s]["main"].pc = l, ![s]["main"].addr = a, ![s]["main"].sock = x]
    <3> DEFINE r == [m EXCEPT !.pc = l, !.addr = a, !.sock = x]
    <3>1. r \in Thread /\ r.pc # "run"
      BY <1>1 DEF Thread
    <3>2. th' = [th EXCEPT ![s]["main"] = r]
      BY <1>1, <2>5 DEF Threads
    <3> QED BY <1>4, <2>2, <3>1, <3>2
  <2> QED BY <2>1, <2>3, <2>4, <2>5
<1>6. CASE BootAlone(s)
  <2> DEFINE r == [m EXCEPT !.pc = "run"]
  <2>1. r \in Thread /\ r.pc = "run"
    BY <1>1 DEF Thread, Pc
  <2>2. th' = [th EXCEPT ![s]["main"] = r]
    BY <1>1, <1>6 DEF BootAlone, Threads
  <2>3. \A t \in Server : ~isPrimary[t] /\ ~Running(t)
    BY <1>6, AloneIsFirst
  <2>4. \A t \in Server : Running(t)' <=> t = s
    <3> HIDE DEF r
    <3> QED BY <2>1, <2>2, <2>3, OthersRun
  <2>5. \A t \in Server : isPrimary'[t] <=> t = s
    BY <1>6, <2>3 DEF BootAlone, TypeOK
  <2>6. Leader = NoIdx
    BY <2>3 DEF Leader
  <2>7. Leader' = s
    BY <2>5 DEF Leader
  <2>8. Members' = {s}
    BY <2>4 DEF Members
  <2>9. Ring!Lead(s)
    BY <2>6, <2>7, <2>8 DEF Ring!Lead
  <2> QED BY <2>9 DEF Ring!Next
<1>7. CASE BootFollow(s)
  <2>1. m.data \in Server /\ isPrimary[m.data] /\ ~Running(s)
    BY <1>1, <1>2, <1>7 DEF BootFollow, MainInv, Running, At
  <2>2. Leader # NoIdx
    <3>1. Leader \in Server
      BY <2>1 DEF Leader
    <3> QED BY <3>1 DEF Server, NoIdx
  <2>3. \A t \in Server : Running(t)' <=> (t = s \/ Running(t))
    <3>1. \A t \in Server :
            th'[t]["main"] = IF t = s THEN NewThread("boot", "run") ELSE th[t]["main"]
      BY <1>7, FollowedMain
    <3>2. NewThread("boot", "run").pc = "run"
      BY NewThreadType DEF Job, Pc
    <3> QED BY <3>1, <3>2 DEF Running
  <2>4. Members' = Members \cup {s} /\ s \notin Members
    BY <2>1, <2>3 DEF Members
  <2>5. Leader' = Leader
    BY <1>7 DEF BootFollow, Leader
  <2>6. Ring!Join(s)
    BY <2>2, <2>4, <2>5 DEF Ring!Join
  <2> QED BY <2>6 DEF Ring!Next
<1>8. CASE BootUnanswered(s)
    BY <1>3, <1>8 DEF BootUnanswered
<1>9. ASSUME NEW t \in Server, AnswerLeaderQuestion(t, s)
      PROVE  UNCHANGED Ring!vars
  <2> DEFINE r == [m EXCEPT !.data = primaryIdx[t]]
  <2>1. primaryIdx[t] \in Server \cup {NoIdx}
    BY DEF TypeOK
  <2>2. m.pc = "wait" /\ isPrimary' = isPrimary
    BY <1>9 DEF AnswerLeaderQuestion, At, ringVars
  <2>3. r \in Thread /\ r.pc = "wait"
    BY <1>1, <2>1, <2>2 DEF Thread
  <2>4. th' = [th EXCEPT ![s]["main"] = r]
    BY <1>1, <1>9 DEF AnswerLeaderQuestion, Threads
  <2> QED BY <1>4, <2>2, <2>3, <2>4
<1> QED BY <1>5, <1>6, <1>7, <1>8, <1>9 DEF MainStep

LEMMA ImplementsThread ==
    ASSUME TypeOK, BootInv, ~died, NEW s \in Server, NEW k \in Pool, ThreadStep(s, k)
    PROVE  UNCHANGED Ring!vars
<1>1. /\ th \in Threads /\ th[s][k] \in Thread /\ k \in Tid /\ k # "main" /\ "main" \in Tid
    BY TypeThread, TidFacts, MainIsNotInPool
<1>2. isPrimary' = isPrimary
    BY OnlyWatches DEF KeepaliveServe, KeepaliveDial, ringVars
<1>3. \A t \in Server : th'[t]["main"] = th[t]["main"]
  <2>1. CASE KeepaliveServe(s, k)
    BY <1>1, <2>1 DEF KeepaliveServe, Threads
  <2>2. CASE KeepaliveDial(s, k) /\ Listening(primaryIdx[s])
    BY <1>1, <2>2 DEF KeepaliveDial, Threads
  <2> QED BY <2>1, <2>2, OnlyWatches
<1> QED BY <1>2, <1>3, Stutters DEF Running

LEMMA ImplementsBoot ==
    ASSUME TypeOK, NEW s \in Server, Boot(s)
    PROVE  UNCHANGED Ring!vars
<1>1. NewThread("boot", "bound") \in Thread /\ NewThread("boot", "bound").pc = "bound"
    BY NewThreadType DEF Job, Pc
<1>2. \A t \in Server : Running(t)' <=> Running(t)
    BY <1>1, OthersRun DEF Boot, Exists, Running
<1> QED BY <1>2, Stutters DEF Boot, ringVars

(***************************************************************************)
(* However many servers boot together, until one of them ends the ring     *)
(* behaves as Leadership says: one server takes the lead, once, and every  *)
(* server that comes to accept connections joins under it.                 *)
(***************************************************************************)
THEOREM RingImplementsLeadership == Spec => ImplementsLeadership
<1> DEFINE Safe == TypeOK /\ BootInv
<1>1. Init => Safe
    BY TypeInit, BootInit
<1>2. Safe /\ [Next]_vars => Safe'
    BY TypeNext, BootNext
<1>3. Init => Ring!Init
  <2> SUFFICES ASSUME Init PROVE Ring!Init
    OBVIOUS
  <2>1. \A s \in Server : ~isPrimary[s]
    BY DEF Init
  <2>2. \A s \in Server : ~Running(s)
    BY IdleType, TidFacts DEF Init, Running
  <2> QED BY <2>1, <2>2 DEF Ring!Init, Leader, Members
<1>4. Safe /\ Safe' /\ [Next]_vars => [died' \/ Ring!Next]_(Ring!vars)
  <2> SUFFICES ASSUME Safe, Safe', [Next]_vars, ~died' PROVE [Ring!Next]_(Ring!vars)
    OBVIOUS
  <2>1. CASE UNCHANGED vars
    BY <2>1, Stutters DEF vars, ringVars, Running
  <2>2. ~died
    BY DeathIsFinal
  <2>3. ASSUME NEW s \in Server, Boot(s) PROVE UNCHANGED Ring!vars
    BY <2>3, ImplementsBoot
  <2>4. ASSUME NEW s \in Server, MainStep(s) PROVE [Ring!Next]_(Ring!vars)
    BY <2>2, <2>4, ImplementsMain
  <2>5. ASSUME NEW s \in Server, NEW k \in Pool, ThreadStep(s, k) PROVE UNCHANGED Ring!vars
    BY <2>2, <2>5, ImplementsThread
  <2>6. ASSUME NEW s \in Server, Kill(s) PROVE FALSE
    BY <2>6 DEF Kill, Die
  <2> QED BY <2>1, <2>3, <2>4, <2>5, <2>6 DEF Next
<1> QED BY <1>1, <1>2, <1>3, <1>4, PTL DEF Spec, ImplementsLeadership

=============================================================================
