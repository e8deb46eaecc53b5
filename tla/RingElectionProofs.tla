------------------------- MODULE RingElectionProofs -------------------------
(***************************************************************************)
(* What TLAPS proves of RingElection, for every number of ports, every     *)
(* pool of threads and every number of kills: what holds through all the   *)
(* elections until a server is started anew.                               *)
(***************************************************************************)
EXTENDS RingElection, ServerRingProofs, FiniteSetTheorems

-----------------------------------------------------------------------------
(***************************************************************************)
(* Why, as long as no server is started anew: the inductive invariants.    *)
(* First, with or without the race.  Who has led, leads until it ends; so  *)
(* whatever names such a server keeps naming one.  And while the first     *)
(* primary lives nothing happens at all: everybody else watches it.        *)
(***************************************************************************)
Up         == {s \in Server : Exists(s)}
LedOrEnded == {s \in Server : isPrimary[s] \/ ~Exists(s)}

\* A thread with record r, in the process at s; led is LedOrEnded.
NamesLeader(s, r, led) ==
    /\ r.pc \in {"reset", "advance", "connect", "decide", "send"} => r.msg # "none"
    /\ r.pc = "lead" => s \in led
    /\ (r.job = "elected" /\ r.pc # "resume") \/ r.msg = "ELECTED" => r.data \in led \ {FirstPrimary}

MainLoops(s) ==
    /\ th[s]["main"] \in {Idle, NewThread("boot", "run")}
    /\ Exists(s) => /\ primaryIdx[s] \in LedOrEnded
                    /\ s # FirstPrimary => kaTid[s] # "unset"
    /\ ~Exists(s) => ~isPrimary[s] /\ \A k \in Pool : th[s][k] = Idle

Watching == [NewThread("keepalive", "beat") EXCEPT !.sock = FirstPrimary]

AllWatch ==
    /\ isPrimary[FirstPrimary]
    /\ \A s \in Server : isPrimary[s] => s = FirstPrimary
    /\ \A s \in Server, k \in Pool :
          \/ th[s][k] = Idle
          \/ s # FirstPrimary /\ k = kaTid[s] /\ th[s][k] = Watching

OfficeInv ==
    /\ \A s \in Server : MainLoops(s)
    /\ \A s \in Server, k \in Pool : NamesLeader(s, th[s][k], LedOrEnded)
    /\ \A s \in Server, k \in Pool : th[s][k].sock \in Server => Exists(th[s][k].sock)
    /\ Exists(FirstPrimary) => AllWatch

(***************************************************************************)
(* Then, until two scans overlap.  A scan has passed only servers that     *)
(* have ended, so a candidate that is passed on upwards has passed the top *)
(* of the ring: a handler that holds a candidate not above itself knows    *)
(* that nobody above it runs.  This is all a server needs to know that     *)
(* takes office because its own index has come back.                       *)
(***************************************************************************)
\* A thread with record r, in the process at s; up is Up, n is next_index.
WalksRing(s, r, up, n) ==
    /\ r.pc \in {"begin", "check", "enter", "reset", "advance", "connect"} => r.sock = NoIdx
    /\ r.pc \in {"advance", "connect", "decide"} => n \in Server
    /\ r.pc = "advance" /\ n # s => n \notin up /\ \A t \in up : ~Between(s, n, t)
    /\ r.pc \in {"connect", "decide"} => \A t \in up : ~Between(s, n, t)
    /\ r.pc = "connect" => r.addr = n
    /\ r.pc = "decide" /\ n # s => r.sock \in {n, Gone}
    /\ r.pc = "send" => \/ r.sock = Gone
                        \/ /\ r.sock \in Server \ {s}
                           /\ \A t \in up : ~Between(s, r.sock, t)
    /\ r.msg = "ELECTION" => r.data >= s
    /\ r.job = "election" /\ r.pc \in {"begin", "check", "enter"} /\ r.data <= s =>
          \A t \in up : t <= s

WalkInv ==
    ~raced => /\ ~ScansOverlap
              /\ \A s \in Server, k \in Pool : WalksRing(s, th[s][k], Up, nextIndex[s])
              /\ \A s \in Server : isPrimary[s] /\ s # FirstPrimary => \A t \in Up : t <= s

(***************************************************************************)
(* Last, until a second server ends: only the topmost server can be        *)
(* elected, so no announcement but its own ever reaches it, and it never   *)
(* starts another keepalive than the one it had from the beginning.        *)
(***************************************************************************)
Top == N - 1

\* A thread that starts an election or has begun to vote in one.
Votes(r) == r.job = "start" \/ (r.job = "election" /\ r.pc # "begin")

TopInv ==
    ~raced /\ Up = Server \ {FirstPrimary} =>
        /\ \A k \in Pool : th[Top][k].job = "keepalive" => k = kaTid[Top]
        /\ \A k \in Pool : th[Top][k].job = "elected" => th[Top][k].pc = "begin"
        /\ (isPrimary[Top] \/ \E j \in Pool : Votes(th[Top][j])) =>
              \A k \in Pool : th[Top][k].job # "keepalive"

-----------------------------------------------------------------------------
(* What each action does to the records of the threads, read off once.      *)

\* Thread k of s is the only one that changes.
Only(s, k) == \A t \in Server, j \in Tid : (t # s \/ j # k) => th'[t][j] = th[t][j]

\* The thread keeps its job and the message it carries.
SameWork(r, w) == r.job = w.job /\ r.msg = w.msg /\ r.data = w.data

OthersKeep(f, g, s) == \A t \in Server \ {s} : g[t] = f[t]

LEMMA PutOnly ==
    ASSUME TypeOK, NEW s \in Server, NEW k \in Tid, NEW r \in Thread,
           th' = [th EXCEPT ![s][k] = r]
    PROVE  Only(s, k) /\ th'[s][k] = r
<1>1. th \in Threads
    BY TypeThread
<1> QED BY <1>1, Put DEF Only

LEMMA PutOnlyPc ==
    ASSUME TypeOK, NEW s \in Server, NEW k \in Tid, NEW l \in Pc,
           th' = [th EXCEPT ![s][k].pc = l]
    PROVE  LET w == th[s][k]
               r == th'[s][k]
           IN  Only(s, k) /\ SameWork(r, w) /\ r.pc = l /\ r.sock = w.sock /\ r.addr = w.addr
<1>1. th \in Threads /\ th[s][k] \in Thread
    BY TypeThread
<1> DEFINE r == [th[s][k] EXCEPT !.pc = l]
<1>2. th' = [th EXCEPT ![s][k] = r]
    BY <1>1 DEF Threads
<1>3. /\ r \in Thread /\ SameWork(r, th[s][k]) /\ r.pc = l
      /\ r.sock = th[s][k].sock /\ r.addr = th[s][k].addr
    BY <1>1 DEF Thread, SameWork
<1> HIDE DEF r
<1>4. \A t \in Server, j \in Tid :
        [th EXCEPT ![s][k] = r][t][j] = IF t = s /\ j = k THEN r ELSE th[t][j]
    BY <1>1, <1>3, Put
<1>5. \A t \in Server, j \in Tid : th'[t][j] = IF t = s /\ j = k THEN r ELSE th[t][j]
    BY <1>2, <1>4, Zenon
<1> QED BY <1>3, <1>5 DEF Only

\* A scan changes its thread and next_index.
ScanMoves(s, k) ==
    LET w == th[s][k]
        r == th'[s][k]
    IN  /\ Only(s, k) /\ SameWork(r, w)
        /\ OthersKeep(nextIndex, nextIndex', s)
        /\ \/ /\ w.pc = "reset" /\ r.pc = "advance" /\ r.sock = w.sock
              /\ nextIndex'[s] = s
           \/ /\ w.pc = "advance" /\ r.pc = "connect" /\ r.sock = w.sock
              /\ nextIndex'[s] = NextIdx(nextIndex[s]) /\ r.addr = nextIndex'[s]
           \/ /\ w.pc = "connect" /\ r.pc = "decide" /\ nextIndex'[s] = nextIndex[s]
              /\ \/ nextIndex[s] = s /\ r.sock = w.sock
                 \/ nextIndex[s] # s /\ r.sock = w.addr /\ Listening(w.addr)
           \/ /\ w.pc = "connect" /\ r.pc = "advance" /\ nextIndex'[s] = nextIndex[s]
              /\ nextIndex[s] # s /\ ~Listening(w.addr) /\ r.sock = w.sock

LEMMA DoesScan ==
    ASSUME TypeOK, NEW s \in Server, NEW k \in Tid, Scan(s, k)
    PROVE  /\ ScanMoves(s, k)
           /\ UNCHANGED <<isPrimary, primaryIdx, inElection, kaTid, envVars>>
<1> DEFINE w == th[s][k]
<1>1. th \in Threads /\ w \in Thread /\ w.addr \in Server \cup {NoIdx}
    BY TypeThread
<1>2. CASE ScanReset(s, k)
  <2>1. OthersKeep(nextIndex, nextIndex', s) /\ nextIndex'[s] = s
    BY <1>2 DEF ScanReset, TypeOK, OthersKeep
  <2>2. "advance" \in Pc /\ th' = [th EXCEPT ![s][k].pc = "advance"] /\ w.pc = "reset"
    BY <1>2 DEF ScanReset, Pc
  <2>3. /\ Only(s, k) /\ SameWork(th'[s][k], w) /\ th'[s][k].pc = "advance"
        /\ th'[s][k].sock = w.sock
    BY <2>2, PutOnlyPc
  <2> QED BY <1>2, <2>1, <2>2, <2>3 DEF ScanReset, ScanMoves
<1>3. CASE ScanAdvance(s, k)
  <2> DEFINE r == [w EXCEPT !.pc = "connect", !.addr = NextIdx(nextIndex[s])]
  <2>1. OthersKeep(nextIndex, nextIndex', s) /\ nextIndex'[s] = NextIdx(nextIndex[s])
    BY <1>3 DEF ScanAdvance, TypeOK, OthersKeep
  <2>2. NextIdx(nextIndex[s]) \in Server
    BY NextIdxType DEF TypeOK
  <2>3. /\ r \in Thread /\ SameWork(r, w) /\ r.pc = "connect" /\ r.sock = w.sock
        /\ r.addr = NextIdx(nextIndex[s])
    BY <1>1, <2>2 DEF Thread, Pc, SameWork
  <2>4. th' = [th EXCEPT ![s][k] = r] /\ w.pc = "advance"
    BY <1>1, <1>3 DEF ScanAdvance, Threads
  <2> HIDE DEF r
  <2>5. Only(s, k) /\ th'[s][k] = r
    BY <2>3, <2>4, PutOnly
  <2> QED BY <1>3, <2>1, <2>3, <2>4, <2>5 DEF ScanAdvance, ScanMoves
<1>4. CASE ScanConnect(s, k)
  <2>1. UNCHANGED <<ringVars, envVars>> /\ w.pc = "connect"
        /\ OthersKeep(nextIndex, nextIndex', s)
    BY <1>4 DEF ScanConnect, ringVars, OthersKeep
  <2>2. ASSUME NEW r \in Thread, th' = [th EXCEPT ![s][k] = r], SameWork(r, w),
               \/ r.pc = "decide" /\ nextIndex[s] = s /\ r.sock = w.sock
               \/ /\ r.pc = "decide" /\ nextIndex[s] # s /\ r.sock = w.addr
                  /\ Listening(w.addr)
               \/ /\ r.pc = "advance" /\ nextIndex[s] # s /\ ~Listening(w.addr)
                  /\ r.sock = w.sock
        PROVE  ScanMoves(s, k)
    <3>1. Only(s, k) /\ th'[s][k] = r
      BY <2>2, PutOnly
    <3> QED BY <2>1, <2>2, <3>1 DEF ScanMoves, ringVars
  <2>3. CASE /\ nextIndex[s] = s
             /\ th' = [th EXCEPT ![s][k].pc = "decide", ![s][k].addr = NoIdx]
    <3> DEFINE r == [w EXCEPT !.pc = "decide", !.addr = NoIdx]
    <3>1. r \in Thread /\ SameWork(r, w) /\ r.pc = "decide" /\ r.sock = w.sock
      BY <1>1 DEF Thread, Pc, SameWork
    <3>2. th' = [th EXCEPT ![s][k] = r]
      BY <1>1, <2>3 DEF Threads
    <3> HIDE DEF r
    <3> QED BY <2>1, <2>2, <2>3, <3>1, <3>2 DEF ringVars
  <2>4. CASE /\ nextIndex[s] # s /\ Listening(w.addr)
             /\ th' = [th EXCEPT ![s][k].pc = "decide", ![s][k].addr = NoIdx,
                                 ![s][k].sock = w.addr]
    <3> DEFINE r == [w EXCEPT !.pc = "decide", !.addr = NoIdx, !.sock = w.addr]
    <3>1. r \in Thread /\ SameWork(r, w) /\ r.pc = "decide" /\ r.sock = w.addr
      BY <1>1 DEF Thread, Pc, SameWork
    <3>2. th' = [th EXCEPT ![s][k] = r]
      BY <1>1, <2>4 DEF Threads
    <3> HIDE DEF r
    <3> QED BY <2>1, <2>2, <2>4, <3>1, <3>2 DEF ringVars
  <2>5. CASE /\ nextIndex[s] # s /\ ~Listening(w.addr)
             /\ th' = [th EXCEPT ![s][k].pc = "advance", ![s][k].addr = NoIdx]
    <3> DEFINE r == [w EXCEPT !.pc = "advance", !.addr = NoIdx]
    <3>1. r \in Thread /\ SameWork(r, w) /\ r.pc = "advance" /\ r.sock = w.sock
      BY <1>1 DEF Thread, Pc, SameWork
    <3>2. th' = [th EXCEPT ![s][k] = r]
      BY <1>1, <2>5 DEF Threads
    <3> HIDE DEF r
    <3> QED BY <2>1, <2>2, <2>5, <3>1, <3>2 DEF ringVars
  <2>6. ScanMoves(s, k)
    BY <1>4, <2>3, <2>4, <2>5 DEF ScanConnect
  <2> QED BY <2>1, <2>6 DEF ringVars
<1> QED BY <1>2, <1>3, <1>4 DEF Scan

\* A keepalive goes on, or its thread turns to the election.
KeepaliveMoves(s, k) ==
    LET w == th[s][k]
        r == th'[s][k]
    IN  /\ w.job = "keepalive" /\ Only(s, k) /\ UNCHANGED <<ringVars, envVars>>
        /\ \/ /\ r.pc \in {"greet", "beat", "hungup"} /\ SameWork(r, w)
              /\ r.sock = w.sock \/ Listening(r.sock)
           \/ r = NewThread("start", "begin")

LEMMA DoesKeepalive ==
    ASSUME TypeOK, NEW s \in Server, NEW k \in Pool, KeepaliveStep(s, k), ~Exit(s)
    PROVE  KeepaliveMoves(s, k)
<1> DEFINE w == th[s][k]
<1>1. th \in Threads /\ w \in Thread /\ k \in Tid
    BY TypeThread, TidFacts
<1>2. CASE KeepaliveDial(s, k)
  <2> DEFINE r == [w EXCEPT !.pc = "greet", !.sock = primaryIdx[s]]
  <2>1. primaryIdx[s] \in Server \cup {NoIdx}
    BY DEF TypeOK
  <2>2. r \in Thread /\ SameWork(r, w) /\ r.pc = "greet" /\ r.sock = primaryIdx[s]
    BY <1>1, <2>1 DEF Thread, Pc, SameWork
  <2>3. /\ th' = [th EXCEPT ![s][k] = r] /\ UNCHANGED <<ringVars, envVars>>
        /\ w.job = "keepalive" /\ Listening(primaryIdx[s])
    BY <1>1, <1>2 DEF KeepaliveDial, Threads, At
  <2> HIDE DEF r
  <2>4. Only(s, k) /\ th'[s][k] = r
    BY <1>1, <2>2, <2>3, PutOnly
  <2> QED BY <2>2, <2>3, <2>4 DEF KeepaliveMoves
<1>3. CASE KeepaliveServe(s, k)
  <2>1. w.job = "keepalive" /\ UNCHANGED <<ringVars, envVars>>
    BY <1>3 DEF KeepaliveServe, At
  <2>2. ASSUME NEW l \in {"beat", "hungup"}, th' = [th EXCEPT ![s][k].pc = l]
        PROVE  KeepaliveMoves(s, k)
    <3>1. l \in Pc
      BY <2>2 DEF Pc
    <3>2. /\ Only(s, k) /\ SameWork(th'[s][k], w) /\ th'[s][k].pc = l
          /\ th'[s][k].sock = w.sock
      BY <1>1, <2>2, <3>1, PutOnlyPc
    <3> QED BY <2>1, <2>2, <3>2 DEF KeepaliveMoves
  <2>3. th' = [th EXCEPT ![s][k].pc = "beat"] \/ th' = [th EXCEPT ![s][k].pc = "hungup"]
    BY <1>3 DEF KeepaliveServe
  <2> QED BY <2>2, <2>3
<1>4. CASE KeepaliveLost(s, k)
  <2>1. /\ th' = [th EXCEPT ![s][k] = NewThread("start", "begin")]
        /\ UNCHANGED <<ringVars, envVars>> /\ w.job = "keepalive"
    BY <1>4 DEF KeepaliveLost
  <2>2. NewThread("start", "begin") \in Thread
    BY NewThreadType DEF Job, Pc
  <2>3. Only(s, k) /\ th'[s][k] = NewThread("start", "begin")
    BY <1>1, <2>1, <2>2, PutOnly
  <2> QED BY <2>1, <2>3 DEF KeepaliveMoves
<1> QED BY <1>2, <1>3, <1>4 DEF KeepaliveStep

\* A message is lost, or becomes a handler in a free slot of its receiver.
IsHandler(h, w) ==
    /\ h.job = IF w.msg = "ELECTION" THEN "election" ELSE "elected"
    /\ h.pc = "begin" /\ h.msg = "none" /\ h.data = w.data /\ h.sock = NoIdx

SendMoves(s, k, c) ==
    LET w == th[s][k]
    IN  /\ w.pc = "send" /\ UNCHANGED <<ringVars, envVars>> /\ th'[s][k] = c
        /\ \/ Only(s, k) /\ w.sock = Gone
           \/ /\ w.sock \in Server
              /\ \E j \in Pool :
                    /\ th[w.sock][j].job = "none" /\ IsHandler(th'[w.sock][j], w)
                    /\ \A t \in Server, i \in Tid :
                          ~(t = s /\ i = k) /\ ~(t = w.sock /\ i = j) => th'[t][i] = th[t][i]

LEMMA DoesSend ==
    ASSUME TypeOK, NEW s \in Server, NEW k \in Pool, NEW c \in Thread, Send(s, k, c),
           th[s][k].job # "none", ~Exit(s)
    PROVE  SendMoves(s, k, c)
<1> DEFINE w  == th[s][k]
           t0 == [th EXCEPT ![s][k] = c]
<1>1. th \in Threads /\ w \in Thread /\ k \in Tid /\ w.data \in Server \cup {NoIdx}
    BY TypeThread, TidFacts
<1>2. w.pc = "send" /\ UNCHANGED <<ringVars, envVars>>
    BY DEF Send
<1>3. CASE th' = t0 /\ w.sock = Gone
  <2>1. Only(s, k) /\ th'[s][k] = c
    BY <1>1, <1>3, PutOnly
  <2> QED BY <1>2, <1>3, <2>1 DEF SendMoves
<1>4. CASE w.sock \in Server /\ Delivered(t0, w.sock, Outgoing(s, k))
  <2> DEFINE o == Outgoing(s, k)
             n == [NewThread(o[1], "begin") EXCEPT !.data = o[2]]
             x == w.sock
  <2>1. /\ o[1] = IF w.msg = "ELECTION" THEN "election" ELSE "elected"
        /\ o[2] = w.data /\ o[1] \in Job
    BY DEF Outgoing, Job
  <2>2. n \in Thread /\ IsHandler(n, w)
    BY <1>1, <2>1 DEF NewThread, Thread, IsHandler, Pc
  <2>3. PICK j \in Free(x) : th' = [t0 EXCEPT ![x][j] = n]
    BY <1>4 DEF Delivered
  <2>4. j \in Pool /\ j \in Tid /\ th[x][j].job = "none" /\ x \in Server
    BY <1>4, <2>3, TidFacts DEF Free
  <2>5. /\ t0 \in Threads
        /\ \A t \in Server, i \in Tid : t0[t][i] = IF t = s /\ i = k THEN c ELSE th[t][i]
    BY <1>1, Put
  <2> HIDE DEF t0, n, o, x
  <2>6. \A t \in Server, i \in Tid : th'[t][i] = IF t = x /\ i = j THEN n ELSE t0[t][i]
    BY <2>2, <2>3, <2>4, <2>5, Put
  <2>7. ~(x = s /\ j = k)
    BY <2>4 DEF x
  <2>8. /\ th'[s][k] = c /\ th'[x][j] = n
        /\ \A t \in Server, i \in Tid :
              ~(t = s /\ i = k) /\ ~(t = x /\ i = j) => th'[t][i] = th[t][i]
    BY <1>1, <2>4, <2>5, <2>6, <2>7
  <2>9. IsHandler(th'[x][j], w)
    BY <2>2, <2>8
  <2> QED BY <1>2, <2>4, <2>8, <2>9 DEF SendMoves, x
<1> QED BY <1>3, <1>4 DEF Send

\* The three ends of a scan.
LeadMoves(s, k) ==
    /\ Only(s, k) /\ SameWork(th'[s][k], th[s][k]) /\ th'[s][k].pc = "lead"
    /\ th'[s][k].sock = th[s][k].sock /\ nextIndex[s] = s
    /\ isPrimary'[s] /\ OthersKeep(isPrimary, isPrimary', s)
    /\ UNCHANGED <<primaryIdx, inElection, nextIndex, kaTid, envVars>>

LEMMA DoesLead ==
    ASSUME TypeOK, NEW s \in Server, NEW k \in Pool, LeadAlone(s, k)
    PROVE  LeadMoves(s, k)
<1>1. k \in Tid /\ "lead" \in Pc /\ th' = [th EXCEPT ![s][k].pc = "lead"]
    BY TidFacts DEF LeadAlone, Pc
<1>2. /\ Only(s, k) /\ SameWork(th'[s][k], th[s][k]) /\ th'[s][k].pc = "lead"
      /\ th'[s][k].sock = th[s][k].sock
    BY <1>1, PutOnlyPc
<1>3. isPrimary'[s] /\ OthersKeep(isPrimary, isPrimary', s)
    BY DEF LeadAlone, TypeOK, OthersKeep
<1> QED BY <1>2, <1>3 DEF LeadAlone, LeadMoves

SettleMoves(s, k) ==
    /\ th[s][k].pc = "lead"
    /\ Only(s, k) /\ th'[s][k] = Idle
    /\ primaryIdx'[s] = s /\ OthersKeep(primaryIdx, primaryIdx', s)
    /\ UNCHANGED <<isPrimary, nextIndex, kaTid, envVars>>

LEMMA DoesSettle ==
    ASSUME TypeOK, NEW s \in Server, NEW k \in Pool, LeadSettle(s, k)
    PROVE  SettleMoves(s, k)
<1>1. k \in Tid /\ Idle \in Thread /\ th' = [th EXCEPT ![s][k] = Idle]
    BY TidFacts, IdleType DEF LeadSettle
<1>2. Only(s, k) /\ th'[s][k] = Idle
    BY <1>1, PutOnly
<1>3. primaryIdx'[s] = s /\ OthersKeep(primaryIdx, primaryIdx', s)
    BY DEF LeadSettle, TypeOK, OthersKeep
<1> QED BY <1>2, <1>3 DEF LeadSettle, SettleMoves

GoOnMoves(s, k) ==
    LET w == th[s][k]
        r == th'[s][k]
    IN  /\ Only(s, k) /\ SameWork(r, w) /\ r.pc = "send" /\ r.sock = w.sock
        /\ nextIndex[s] # s
        /\ UNCHANGED <<ringVars, envVars>>

LEMMA DoesGoOn ==
    ASSUME TypeOK, NEW s \in Server, NEW k \in Pool, GoOnToSend(s, k)
    PROVE  GoOnMoves(s, k)
<1>1. k \in Tid /\ "send" \in Pc /\ th' = [th EXCEPT ![s][k].pc = "send"]
    BY TidFacts DEF GoOnToSend, Pc
<1>2. /\ Only(s, k) /\ SameWork(th'[s][k], th[s][k]) /\ th'[s][k].pc = "send"
      /\ th'[s][k].sock = th[s][k].sock
    BY <1>1, PutOnlyPc
<1> QED BY <1>2 DEF GoOnToSend, GoOnMoves

\* start_election enters the election, or finds itself in one.
StartMoves(s, k) ==
    LET r == th'[s][k]
    IN  /\ At(s, k, "start", "begin") /\ Only(s, k)
        /\ UNCHANGED <<isPrimary, primaryIdx, nextIndex, kaTid, envVars>>
        /\ \/ r = Idle
           \/ /\ r.job = "start" /\ r.pc = "reset" /\ r.msg = "ELECTION" /\ r.data = s
              /\ r.sock = NoIdx

LEMMA DoesStart ==
    ASSUME TypeOK, NEW s \in Server, NEW k \in Pool, StartBegin(s, k)
    PROVE  StartMoves(s, k)
<1> DEFINE n == [NewThread("start", "reset") EXCEPT !.msg = "ELECTION", !.data = s]
<1>1. k \in Tid /\ Idle \in Thread
    BY TidFacts, IdleType
<1>2. /\ n \in Thread /\ n.job = "start" /\ n.pc = "reset" /\ n.msg = "ELECTION"
      /\ n.data = s /\ n.sock = NoIdx
    BY DEF NewThread, Thread, Job, Pc
<1>3. th' = [th EXCEPT ![s][k] = n] \/ th' = [th EXCEPT ![s][k] = Idle]
    BY DEF StartBegin
<1> HIDE DEF n
<1>4. Only(s, k) /\ th'[s][k] \in {n, Idle}
    BY <1>1, <1>2, <1>3, PutOnly
<1> QED BY <1>2, <1>4 DEF StartBegin, StartMoves

\* A handler of an ELECTION begins: it cancels the keepalive.
VoteMoves(s, k) ==
    LET w == th[s][k]
        r == th'[s][k]
    IN  /\ At(s, k, "election", "begin") /\ UNCHANGED <<ringVars, envVars>>
        /\ r = Idle \/ (SameWork(r, w) /\ r.pc = "check" /\ r.sock = w.sock)
        /\ \A t \in Server, j \in Tid : ~(t = s /\ j = k) =>
              th'[t][j] = IF t = s /\ j = kaTid[s] /\ th[t][j].job = "keepalive" THEN Idle
                          ELSE th[t][j]

LEMMA DoesVote ==
    ASSUME TypeOK, NEW s \in Server, NEW k \in Pool, ElectionBegin(s, k), ~Exit(s)
    PROVE  VoteMoves(s, k)
<1> DEFINE T == Cancelled(s)
<1>1. /\ th \in Threads /\ k \in Tid /\ T \in Threads /\ Idle \in Thread
      /\ kaTid[s] \in Pool \cup {"unset"} /\ "unset" \notin Tid
    BY TypeThread, TidFacts, CancelledType, IdleType, RingAssumption DEF TypeOK, Tid
<1>2. At(s, k, "election", "begin") /\ UNCHANGED <<ringVars, envVars>>
    BY DEF ElectionBegin
<1>3. \A t \in Server, j \in Tid :
        T[t][j] = IF t = s /\ j = kaTid[s] /\ th[t][j].job = "keepalive" THEN Idle ELSE th[t][j]
  <2>1. CASE kaTid[s] \in Pool /\ th[s][kaTid[s]].job = "keepalive"
    <3>1. T = [th EXCEPT ![s][kaTid[s]] = Idle] /\ kaTid[s] \in Tid
      BY <2>1, TidFacts DEF Cancelled
    <3> HIDE DEF T
    <3> QED BY <1>1, <2>1, <3>1, Put
  <2>2. CASE ~(kaTid[s] \in Pool /\ th[s][kaTid[s]].job = "keepalive")
    <3>1. T = th
      BY <2>2 DEF Cancelled
    <3> QED BY <1>1, <2>2, <3>1
  <2> QED BY <2>1, <2>2
<1>4. T[s][k] = th[s][k] /\ T[s][k] \in Thread
  <2>1. th[s][k].job # "keepalive"
    BY <1>2 DEF At
  <2>2. T[s][k] = th[s][k]
    BY <1>1, <1>3, <2>1
  <2> QED BY <1>1, <2>2, TypeThread
<1> HIDE DEF T
<1>5. ASSUME NEW r \in Thread, th' = [T EXCEPT ![s][k] = r],
             r = Idle \/ (SameWork(r, th[s][k]) /\ r.pc = "check" /\ r.sock = th[s][k].sock)
      PROVE  VoteMoves(s, k)
  <2>1. \A t \in Server, j \in Tid : th'[t][j] = IF t = s /\ j = k THEN r ELSE T[t][j]
    BY <1>1, <1>5, Put
  <2> QED BY <1>1, <1>2, <1>3, <1>5, <2>1 DEF VoteMoves
<1>6. CASE th' = [T EXCEPT ![s][k] = Idle]
    BY <1>1, <1>5, <1>6
<1>7. CASE th' = [T EXCEPT ![s][k].pc = "check"]
  <2> DEFINE r == [T[s][k] EXCEPT !.pc = "check"]
  <2>1. /\ r \in Thread /\ SameWork(r, th[s][k]) /\ r.pc = "check"
        /\ r.sock = th[s][k].sock
    BY <1>4 DEF Thread, Pc, SameWork
  <2>2. th' = [T EXCEPT ![s][k] = r]
    BY <1>1, <1>7 DEF Threads
  <2> HIDE DEF r
  <2> QED BY <1>5, <2>1, <2>2
<1> QED BY <1>6, <1>7 DEF ElectionBegin, T

\* It drops the candidate or goes on to the second critical section.
CheckMoves(s, k) ==
    LET w == th[s][k]
        r == th'[s][k]
    IN  /\ At(s, k, "election", "check") /\ Only(s, k) /\ UNCHANGED <<ringVars, envVars>>
        /\ r = Idle \/ (SameWork(r, w) /\ r.pc = "enter" /\ r.sock = w.sock)

\* It wins, or passes the larger of the two candidates.
EnterMoves(s, k) ==
    LET w == th[s][k]
        r == th'[s][k]
    IN  /\ At(s, k, "election", "enter") /\ Only(s, k)
        /\ UNCHANGED <<primaryIdx, nextIndex, kaTid, envVars>>
        /\ r.job = "election" /\ r.pc = "reset" /\ r.sock = w.sock
        /\ \/ /\ w.data = s /\ r.msg = "ELECTED" /\ r.data = s
              /\ isPrimary'[s] /\ OthersKeep(isPrimary, isPrimary', s)
           \/ /\ r.msg = "ELECTION" /\ r.data = IF s > w.data THEN s ELSE w.data
              /\ isPrimary' = isPrimary

LEMMA DoesVoteOn ==
    ASSUME TypeOK, NEW s \in Server, NEW k \in Pool
    PROVE  /\ ElectionCheck(s, k) => CheckMoves(s, k)
           /\ ElectionEnter(s, k) => EnterMoves(s, k)
<1> DEFINE w == th[s][k]
<1>1. /\ th \in Threads /\ w \in Thread /\ k \in Tid /\ Idle \in Thread
      /\ w.data \in Server \cup {NoIdx}
    BY TypeThread, TidFacts, IdleType
<1>2. ASSUME ElectionCheck(s, k) PROVE CheckMoves(s, k)
  <2> DEFINE r == [w EXCEPT !.pc = "enter"]
  <2>1. r \in Thread /\ SameWork(r, w) /\ r.pc = "enter" /\ r.sock = w.sock
    BY <1>1 DEF Thread, Pc, SameWork
  <2>2. th' = [th EXCEPT ![s][k] = r] \/ th' = [th EXCEPT ![s][k] = Idle]
    <3>1. CASE w.data < s /\ inElection[s]
      BY <1>2, <3>1 DEF ElectionCheck
    <3>2. CASE ~(w.data < s /\ inElection[s])
      BY <1>2, <3>2 DEF ElectionCheck
    <3> QED BY <3>1, <3>2
  <2> HIDE DEF r
  <2>3. Only(s, k) /\ th'[s][k] \in {r, Idle}
    BY <1>1, <2>1, <2>2, PutOnly
  <2> QED BY <1>2, <2>1, <2>3 DEF ElectionCheck, CheckMoves
<1>3. ASSUME ElectionEnter(s, k) PROVE EnterMoves(s, k)
  <2>1. /\ At(s, k, "election", "enter")
        /\ UNCHANGED <<primaryIdx, nextIndex, kaTid, envVars>>
    BY <1>3 DEF ElectionEnter
  <2>2. CASE /\ w.data = s /\ isPrimary' = [isPrimary EXCEPT ![s] = TRUE]
             /\ th' = [th EXCEPT ![s][k].pc = "reset", ![s][k].msg = "ELECTED"]
    <3> DEFINE r == [w EXCEPT !.pc = "reset", !.msg = "ELECTED"]
    <3>1. /\ r \in Thread /\ r.job = w.job /\ r.data = w.data /\ r.pc = "reset"
          /\ r.msg = "ELECTED" /\ r.sock = w.sock
      BY <1>1 DEF Thread, Pc
    <3>2. th' = [th EXCEPT ![s][k] = r]
      BY <1>1, <2>2 DEF Threads
    <3> HIDE DEF r
    <3>3. Only(s, k) /\ th'[s][k] = r
      BY <1>1, <3>1, <3>2, PutOnly
    <3>4. isPrimary'[s] /\ OthersKeep(isPrimary, isPrimary', s)
      BY <2>2 DEF TypeOK, OthersKeep
    <3> QED BY <2>1, <2>2, <3>1, <3>3, <3>4 DEF EnterMoves, At
  <2>3. CASE /\ UNCHANGED isPrimary
             /\ th' = [th EXCEPT ![s][k].pc = "reset", ![s][k].msg = "ELECTION",
                     ![s][k].data = IF s > th[s][k].data THEN s ELSE th[s][k].data]
    <3> DEFINE d == IF s > w.data THEN s ELSE w.data
               r == [w EXCEPT !.pc = "reset", !.msg = "ELECTION", !.data = d]
    <3>1. th' = [th EXCEPT ![s][k].pc = "reset", ![s][k].msg = "ELECTION", ![s][k].data = d]
      BY <2>3
    <3>2. d \in Server \cup {NoIdx}
      BY <1>1
    <3>3. d = IF s > w.data THEN s ELSE w.data
      OBVIOUS
    <3> HIDE DEF d
    <3>4. /\ r \in Thread /\ r.job = w.job /\ r.data = d /\ r.pc = "reset"
          /\ r.msg = "ELECTION" /\ r.sock = w.sock
      BY <1>1, <3>2 DEF Thread, Pc
    <3>5. th' = [th EXCEPT ![s][k] = r]
      BY <1>1, <3>1 DEF Threads
    <3> HIDE DEF r
    <3>6. Only(s, k) /\ th'[s][k] = r
      BY <1>1, <3>4, <3>5, PutOnly
    <3> QED BY <2>1, <2>3, <3>3, <3>4, <3>6 DEF EnterMoves, At
  <2> QED BY <1>3, <2>2, <2>3 DEF ElectionEnter
<1> QED BY <1>2, <1>3

\* A handler of an ELECTED ignores it, or adopts the winner and passes it on,
\* and ends as the new keepalive.
ElectedMoves(s, k) ==
    LET w == th[s][k]
        r == th'[s][k]
    IN  /\ w.job = "elected" /\ Only(s, k) /\ UNCHANGED <<isPrimary, nextIndex, envVars>>
        /\ \/ /\ w.pc = "begin" /\ UNCHANGED <<primaryIdx, kaTid>>
              /\ r = Idle \/ (SameWork(r, w) /\ r.pc = "enter" /\ r.sock = w.sock /\ w.data # s)
           \/ /\ w.pc = "enter" /\ UNCHANGED kaTid
              /\ primaryIdx'[s] = w.data /\ OthersKeep(primaryIdx, primaryIdx', s)
              /\ r.job = w.job /\ r.pc = "reset" /\ r.msg = "ELECTED" /\ r.data = w.data
              /\ r.sock = w.sock
           \/ /\ w.pc = "resume" /\ UNCHANGED primaryIdx
              /\ kaTid'[s] = k /\ OthersKeep(kaTid, kaTid', s)
              /\ r = NewThread("keepalive", "dial")

LEMMA DoesElected ==
    ASSUME TypeOK, NEW s \in Server, NEW k \in Pool,
           ElectedBegin(s, k) \/ ElectedAdopt(s, k) \/ ElectedResume(s, k)
    PROVE  ElectedMoves(s, k)
<1> DEFINE w == th[s][k]
<1>1. /\ th \in Threads /\ w \in Thread /\ k \in Tid /\ Idle \in Thread
      /\ w.data \in Server \cup {NoIdx}
    BY TypeThread, TidFacts, IdleType
<1>2. CASE ElectedBegin(s, k)
  <2> DEFINE r == [w EXCEPT !.pc = "enter"]
  <2>1. r \in Thread /\ SameWork(r, w) /\ r.pc = "enter" /\ r.sock = w.sock
    BY <1>1 DEF Thread, Pc, SameWork
  <2>2. \/ th' = [th EXCEPT ![s][k] = r] /\ w.data # s
        \/ th' = [th EXCEPT ![s][k] = Idle]
    <3>1. CASE w.data = s \/ ~inElection[s]
      BY <1>2, <3>1 DEF ElectedBegin
    <3>2. CASE ~(w.data = s \/ ~inElection[s])
      BY <1>2, <3>2 DEF ElectedBegin
    <3> QED BY <3>1, <3>2
  <2> HIDE DEF r
  <2>3. Only(s, k) /\ (th'[s][k] = Idle \/ (th'[s][k] = r /\ w.data # s))
    BY <1>1, <2>1, <2>2, PutOnly
  <2> QED BY <1>2, <2>1, <2>3 DEF ElectedBegin, ElectedMoves, ringVars, At
<1>3. CASE ElectedAdopt(s, k)
  <2> DEFINE r == [w EXCEPT !.pc = "reset", !.msg = "ELECTED"]
  <2>1. /\ r \in Thread /\ r.job = w.job /\ r.data = w.data /\ r.pc = "reset"
        /\ r.msg = "ELECTED" /\ r.sock = w.sock
    BY <1>1 DEF Thread, Pc
  <2>2. th' = [th EXCEPT ![s][k] = r]
    BY <1>1, <1>3 DEF ElectedAdopt, Threads
  <2> HIDE DEF r
  <2>3. Only(s, k) /\ th'[s][k] = r
    BY <1>1, <2>1, <2>2, PutOnly
  <2>4. primaryIdx'[s] = w.data /\ OthersKeep(primaryIdx, primaryIdx', s)
    BY <1>3 DEF ElectedAdopt, TypeOK, OthersKeep
  <2> QED BY <1>3, <2>1, <2>3, <2>4 DEF ElectedAdopt, ElectedMoves, At
<1>4. CASE ElectedResume(s, k)
  <2>1. NewThread("keepalive", "dial") \in Thread
    BY NewThreadType DEF Job, Pc
  <2>2. th' = [th EXCEPT ![s][k] = NewThread("keepalive", "dial")]
    BY <1>4 DEF ElectedResume
  <2>3. Only(s, k) /\ th'[s][k] = NewThread("keepalive", "dial")
    BY <1>1, <2>1, <2>2, PutOnly
  <2>4. kaTid'[s] = k /\ OthersKeep(kaTid, kaTid', s)
    BY <1>4 DEF ElectedResume, TypeOK, OthersKeep
  <2> QED BY <1>4, <2>3, <2>4 DEF ElectedResume, ElectedMoves, At
<1> QED BY <1>2, <1>3, <1>4

\* What a step of a thread other than main does, if its process goes on.
ThreadMoves(s, k) ==
    LET w == th[s][k]
    IN  \/ ScanMoves(s, k) /\ UNCHANGED <<isPrimary, primaryIdx, inElection, kaTid, envVars>>
        \/ KeepaliveMoves(s, k)
        \/ w.pc = "decide" /\ w.job \in {"start", "election"} /\ LeadMoves(s, k)
        \/ w.pc = "decide" /\ w.job \in {"start", "election", "elected"} /\ GoOnMoves(s, k)
        \/ w.job \in {"start", "election"} /\ SendMoves(s, k, Idle)
        \/ w.job = "elected" /\ SendMoves(s, k, NewThread("elected", "resume"))
        \/ SettleMoves(s, k)
        \/ StartMoves(s, k)
        \/ VoteMoves(s, k) \/ CheckMoves(s, k) \/ EnterMoves(s, k)
        \/ ElectedMoves(s, k)

LEMMA ThreadDoes ==
    ASSUME TypeOK, NEW s \in Server, NEW k \in Pool, ThreadStep(s, k), ~Exit(s)
    PROVE  ThreadMoves(s, k)
<1>1. k \in Tid /\ Idle \in Thread /\ NewThread("elected", "resume") \in Thread
    BY TidFacts, IdleType, NewThreadType DEF Job, Pc
<1>2. CASE Scan(s, k) \/ LeadSettle(s, k) \/ KeepaliveStep(s, k)
    BY <1>1, <1>2, DoesScan, DoesSettle, DoesKeepalive DEF ThreadMoves
<1>3. CASE StartElection(s, k)
  <2>1. CASE StartBegin(s, k)
    BY <2>1, DoesStart DEF ThreadMoves
  <2>2. CASE StartDecide(s, k)
    BY <2>2, DoesLead, DoesGoOn DEF ThreadMoves, StartDecide, At
  <2>3. CASE StartSend(s, k)
    BY <1>1, <2>3, DoesSend DEF ThreadMoves, StartSend
  <2> QED BY <1>3, <2>1, <2>2, <2>3 DEF StartElection
<1>4. CASE HandleElection(s, k)
  <2>1. CASE ElectionBegin(s, k)
    BY <2>1, DoesVote DEF ThreadMoves
  <2>2. CASE ElectionCheck(s, k) \/ ElectionEnter(s, k)
    BY <2>2, DoesVoteOn DEF ThreadMoves
  <2>3. CASE ElectionDecide(s, k)
    BY <2>3, DoesLead, DoesGoOn DEF ThreadMoves, ElectionDecide, At
  <2>4. CASE ElectionSend(s, k)
    BY <1>1, <2>4, DoesSend DEF ThreadMoves, ElectionSend
  <2> QED BY <1>4, <2>1, <2>2, <2>3, <2>4 DEF HandleElection
<1>5. CASE HandleElected(s, k)
  <2>1. CASE ElectedBegin(s, k) \/ ElectedAdopt(s, k) \/ ElectedResume(s, k)
    BY <2>1, DoesElected DEF ThreadMoves
  <2>2. CASE ElectedDecide(s, k)
    BY <2>2, DoesGoOn DEF ThreadMoves, ElectedDecide, At
  <2>3. CASE ElectedSend(s, k)
    BY <1>1, <2>3, DoesSend DEF ThreadMoves, ElectedSend
  <2> QED BY <1>5, <2>1, <2>2, <2>3 DEF HandleElected
<1> QED BY <1>2, <1>3, <1>4, <1>5 DEF ThreadStep

\* Such a step ends nobody, and deposes nobody.
LEMMA MovesFrame ==
    ASSUME TypeOK, NEW s \in Server, NEW k \in Pool, ThreadMoves(s, k)
    PROVE  /\ \A t \in Server : th'[t]["main"] = th[t]["main"]
           /\ OthersKeep(isPrimary, isPrimary', s) /\ OthersKeep(primaryIdx, primaryIdx', s)
           /\ OthersKeep(nextIndex, nextIndex', s) /\ OthersKeep(kaTid, kaTid', s)
           /\ isPrimary[s] => isPrimary'[s]
           /\ Up' = Up /\ LedOrEnded \subseteq LedOrEnded'
           /\ UNCHANGED boots
<1> USE DEF ScanMoves, KeepaliveMoves, LeadMoves, GoOnMoves, SendMoves, SettleMoves,
            StartMoves, VoteMoves, CheckMoves, EnterMoves, ElectedMoves
<1>1. \A t \in Server : th'[t]["main"] = th[t]["main"]
  <2>1. "main" \in Tid /\ \A j \in Pool : j # "main"
    BY TidFacts, MainIsNotInPool
  <2>2. CASE Only(s, k)
    BY <2>1, <2>2 DEF Only
  <2>3. CASE VoteMoves(s, k)
    <3>1. "main" # kaTid[s]
      BY RingAssumption DEF TypeOK
    <3> QED BY <2>1, <2>3, <3>1
  <2>4. CASE \E c : SendMoves(s, k, c)
    BY <2>1, <2>2, <2>4
  <2> QED BY <2>2, <2>3, <2>4 DEF ThreadMoves
<1>2. /\ OthersKeep(isPrimary, isPrimary', s) /\ (isPrimary[s] => isPrimary'[s])
      /\ UNCHANGED boots
    BY DEF ThreadMoves, OthersKeep, ringVars, envVars
<1>3. OthersKeep(primaryIdx, primaryIdx', s) /\ OthersKeep(kaTid, kaTid', s)
    BY DEF ThreadMoves, OthersKeep, ringVars
<1>4. OthersKeep(nextIndex, nextIndex', s)
    BY DEF ThreadMoves, OthersKeep, ringVars
<1>5. Up' = Up /\ LedOrEnded \subseteq LedOrEnded'
    BY <1>1, <1>2 DEF Up, LedOrEnded, Exists, OthersKeep
<1> QED BY <1>1, <1>2, <1>3, <1>4, <1>5

\* What the end of a process does.
DieMoves(s) ==
    /\ \A t \in Server, j \in Tid :
         th'[t][j] = IF t = s THEN Idle
                     ELSE IF th[t][j].sock = s THEN [th[t][j] EXCEPT !.sock = Gone]
                     ELSE th[t][j]
    /\ \A t \in Server \ {s}, j \in Tid :
         LET w == th[t][j]
             r == th'[t][j]
         IN  /\ SameWork(r, w) /\ r.pc = w.pc /\ r.addr = w.addr
             /\ r.sock = IF w.sock = s THEN Gone ELSE w.sock
    /\ ~isPrimary'[s]
    /\ OthersKeep(isPrimary, isPrimary', s) /\ OthersKeep(primaryIdx, primaryIdx', s)
    /\ OthersKeep(nextIndex, nextIndex', s) /\ OthersKeep(kaTid, kaTid', s)
    /\ Up' = Up \ {s} /\ LedOrEnded \subseteq LedOrEnded'

LEMMA DoesDie ==
    ASSUME TypeOK, NEW s \in Server, Die(s, th)
    PROVE  DieMoves(s)
<1>1. \A t \in Server, j \in Tid :
        th'[t][j] = IF t = s THEN Idle
                    ELSE IF th[t][j].sock = s THEN [th[t][j] EXCEPT !.sock = Gone]
                    ELSE th[t][j]
    BY DEF Die
<1>2. ASSUME NEW t \in Server \ {s}, NEW j \in Tid
      PROVE  LET w == th[t][j]
                 r == th'[t][j]
             IN  /\ SameWork(r, w) /\ r.pc = w.pc /\ r.addr = w.addr
                 /\ r.sock = IF w.sock = s THEN Gone ELSE w.sock
  <2>1. th[t][j] \in Thread
    BY TypeThread
  <2>2. th'[t][j] = IF th[t][j].sock = s THEN [th[t][j] EXCEPT !.sock = Gone] ELSE th[t][j]
    BY <1>1, <1>2
  <2> QED BY <2>1, <2>2 DEF Thread, SameWork
<1>3. /\ ~isPrimary'[s]
      /\ OthersKeep(isPrimary, isPrimary', s) /\ OthersKeep(primaryIdx, primaryIdx', s)
      /\ OthersKeep(nextIndex, nextIndex', s) /\ OthersKeep(kaTid, kaTid', s)
    BY DEF Die, TypeOK, OthersKeep
<1>4. \A t \in Server : Exists(t)' <=> Exists(t) /\ t # s
  <2>1. th'[s]["main"].pc = "idle"
    BY <1>1, TidFacts, IdleType
  <2>2. \A t \in Server \ {s} : th'[t]["main"].pc = th[t]["main"].pc
    BY <1>2, TidFacts
  <2> QED BY <2>1, <2>2 DEF Exists
<1>5. Up' = Up \ {s} /\ LedOrEnded \subseteq LedOrEnded'
    BY <1>3, <1>4 DEF Up, LedOrEnded, OthersKeep
<1> QED BY <1>1, <1>2, <1>3, <1>5 DEF DieMoves

-----------------------------------------------------------------------------
(* Whoever has led, leads until it ends.                                    *)

LEMMA PoolFacts ==
    /\ FirstPrimary \in Server /\ WatchSlot \in Pool
    /\ \A s \in Server : s # NoIdx /\ s # Gone
    /\ Idle \in Thread /\ Idle.job = "none" /\ Idle.pc = "idle" /\ Idle.msg = "none"
    /\ Idle.sock = NoIdx
    /\ Watching \in Thread /\ Watching.job = "keepalive" /\ Watching.pc = "beat"
    /\ Watching.msg = "none" /\ Watching.sock = FirstPrimary
    /\ NewThread("boot", "run") \in Thread /\ NewThread("boot", "run").job = "boot"
    /\ NewThread("boot", "run").pc = "run" /\ NewThread("boot", "run").msg = "none"
    /\ NewThread("boot", "run").sock = NoIdx
<1>1. FirstPrimary \in Server /\ \A s \in Server : s # NoIdx /\ s # Gone
    BY RingAssumption DEF FirstPrimary, Server, NoIdx, Gone
<1>2. WatchSlot \in Pool
    BY PoolAssumption DEF WatchSlot
<1>3. /\ Idle \in Thread /\ Idle.job = "none" /\ Idle.pc = "idle" /\ Idle.msg = "none"
      /\ Idle.sock = NoIdx
    BY DEF Idle, NewThread, Thread, Job, Pc
<1>4. /\ Watching \in Thread /\ Watching.job = "keepalive" /\ Watching.pc = "beat"
      /\ Watching.msg = "none" /\ Watching.sock = FirstPrimary
    BY <1>1 DEF Watching, NewThread, Thread, Job, Pc
<1>5. /\ NewThread("boot", "run") \in Thread /\ NewThread("boot", "run").job = "boot"
      /\ NewThread("boot", "run").pc = "run" /\ NewThread("boot", "run").msg = "none"
      /\ NewThread("boot", "run").sock = NoIdx
    BY DEF NewThread, Thread, Job, Pc
<1> QED BY <1>1, <1>2, <1>3, <1>4, <1>5

\* While the first primary lives no thread has anything to do.
LEMMA QuietAtFirst ==
    ASSUME OfficeInv, Exists(FirstPrimary), NEW s \in Server, NEW k \in Pool, ThreadStep(s, k)
    PROVE  FALSE
<1>1. th[s][k] = Idle \/ th[s][k] = Watching
    BY DEF OfficeInv, AllWatch
<1>2. th[s][k].job \in {"none", "keepalive"} /\ th[s][k].pc \in {"idle", "beat"}
      /\ th[s][k].sock # Gone
    BY <1>1, PoolFacts DEF NoIdx, Gone
<1>3. ~Scan(s, k) /\ ~LeadSettle(s, k)
    BY <1>2 DEF Scan, ScanReset, ScanAdvance, ScanConnect, LeadSettle
<1>4. ~KeepaliveStep(s, k)
    BY <1>2 DEF KeepaliveStep, KeepaliveDial, KeepaliveServe, KeepaliveLost, At
<1>5. ~StartElection(s, k)
    BY <1>2 DEF StartElection, StartBegin, StartDecide, StartSend, At
<1>6. ~HandleElection(s, k)
    BY <1>2 DEF HandleElection, ElectionBegin, ElectionCheck, ElectionEnter, ElectionDecide,
                ElectionSend, At
<1>7. ~HandleElected(s, k)
    BY <1>2 DEF HandleElected, ElectedBegin, ElectedAdopt, ElectedDecide, ElectedSend,
                ElectedResume, At
<1> QED BY <1>3, <1>4, <1>5, <1>6, <1>7 DEF ThreadStep

\* The main threads loop.
LEMMA MainQuiet ==
    ASSUME OfficeInv, NEW s \in Server, MainStep(s)
    PROVE  FALSE
<1>1. th[s]["main"].pc \in {"idle", "run"}
    BY PoolFacts DEF OfficeInv, MainLoops
<1> QED BY <1>1 DEF MainStep, Scan, ScanReset, ScanAdvance, ScanConnect, Listen, BootAlone,
                    BootAsk, BootFollow, BootUnanswered, AnswerLeaderQuestion, At

\* The threads of a process that has ended are gone.
LEMMA OnlyTheLiving ==
    ASSUME OfficeInv, NEW s \in Server, NEW k \in Pool, ThreadMoves(s, k)
    PROVE  Exists(s)
<1> SUFFICES ASSUME ~Exists(s) PROVE FALSE
    OBVIOUS
<1>1. th[s][k].job = "none" /\ th[s][k].pc = "idle"
    BY PoolFacts DEF OfficeInv, MainLoops
<1> QED BY <1>1 DEF ThreadMoves, ScanMoves, KeepaliveMoves, SettleMoves, StartMoves, VoteMoves,
                    CheckMoves, EnterMoves, ElectedMoves, At

\* All that happens until a server is started anew.
LEMMA SteadyDoes ==
    ASSUME TypeOK, boots = 0 => OfficeInv, [Next]_vars, boots' = 0
    PROVE  /\ boots = 0
           /\ \/ UNCHANGED vars
              \/ \E s \in Server : Die(s, th)
              \/ /\ ~Exists(FirstPrimary)
                 /\ \E s \in Server, k \in Pool : Exists(s) /\ ThreadMoves(s, k)
<1>1. CASE UNCHANGED vars
    BY <1>1 DEF vars, envVars
<1>2. ASSUME NEW s \in Server, Boot(s)
      PROVE  FALSE
    BY <1>2 DEF Boot, TypeOK
<1>3. ASSUME NEW s \in Server, Kill(s)
      PROVE  boots = 0 /\ Die(s, th)
    BY <1>3 DEF Kill
<1>4. ASSUME NEW s \in Server, MainStep(s)
      PROVE  FALSE
  <2>1. boots' = boots
    BY <1>4 DEF MainStep, Scan, ScanReset, ScanAdvance, ScanConnect, Listen, BootAlone, BootAsk,
               BootFollow, BootUnanswered, AnswerLeaderQuestion, Exit, envVars
  <2> QED BY <1>4, <2>1, MainQuiet
<1>5. ASSUME NEW s \in Server, NEW k \in Pool, ThreadStep(s, k)
      PROVE  /\ boots = 0
             /\ \/ Die(s, th)
                \/ ~Exists(FirstPrimary) /\ Exists(s) /\ ThreadMoves(s, k)
  <2>1. CASE Exit(s)
    BY <2>1 DEF Exit
  <2>2. CASE ~Exit(s)
    <3>1. ThreadMoves(s, k)
      BY <1>5, <2>2, ThreadDoes
    <3>2. boots = 0
      BY <3>1, MovesFrame
    <3> QED BY <1>5, <3>1, <3>2, QuietAtFirst, OnlyTheLiving
  <2> QED BY <2>1, <2>2
<1> QED BY <1>1, <1>2, <1>3, <1>4, <1>5 DEF Next

LEMMA SteadyTypeInit == SteadyInit => TypeOK
<1> SUFFICES ASSUME SteadyInit PROVE TypeOK
    OBVIOUS
<1> DEFINE first(s, k) == IF k = "main" THEN NewThread("boot", "run")
                          ELSE IF s # FirstPrimary /\ k = WatchSlot THEN Watching
                          ELSE Idle
<1>1. \A s \in Server, k \in Tid : first(s, k) \in Thread
    BY PoolFacts
<1>2. th = [s \in Server |-> [k \in Tid |-> first(s, k)]]
    BY DEF SteadyInit, Watching
<1>3. th \in Threads
  <2> HIDE DEF first
  <2> QED BY <1>1, <1>2 DEF Threads
<1>4. /\ isPrimary  \in [Server -> BOOLEAN]
      /\ primaryIdx \in [Server -> Server \cup {NoIdx}]
      /\ inElection \in [Server -> BOOLEAN]
      /\ kaTid \in [Server -> Pool \cup {"unset"}]
    BY PoolFacts DEF SteadyInit
<1>5. nextIndex \in [Server -> Server \cup {NoIdx}]
  <2>1. \A s \in Server : (IF s = FirstPrimary THEN s ELSE s - 1) \in Server
    BY RingAssumption DEF Server, FirstPrimary
  <2> QED BY <2>1 DEF SteadyInit
<1>6. boots \in 0 .. MaxBoots /\ kills \in 0 .. MaxKills /\ died \in BOOLEAN
  <2>1. boots = 0 /\ kills = 0 /\ died \in BOOLEAN
    BY DEF SteadyInit
  <2>2. 0 \in 0 .. MaxBoots /\ 0 \in 0 .. MaxKills
    BY RingAssumption
  <2> QED BY <2>1, <2>2
<1> QED BY <1>3, <1>4, <1>5, <1>6 DEF TypeOK, Threads

LEMMA OfficeInit == SteadyInit => OfficeInv
<1> SUFFICES ASSUME SteadyInit PROVE OfficeInv
    OBVIOUS
<1>1. \A s \in Server :
        /\ th[s]["main"] = NewThread("boot", "run")
        /\ \A k \in Pool : th[s][k] = IF s # FirstPrimary /\ k = WatchSlot THEN Watching ELSE Idle
    BY TidFacts, MainIsNotInPool DEF SteadyInit, Watching
<1>2. \A s \in Server : Exists(s)
    BY <1>1, PoolFacts DEF Exists
<1>3. FirstPrimary \in LedOrEnded
    BY PoolFacts DEF SteadyInit, LedOrEnded
<1>4. ASSUME NEW s \in Server PROVE MainLoops(s)
  <2>1. kaTid[s] = IF s = FirstPrimary THEN "unset" ELSE WatchSlot
    BY DEF SteadyInit
  <2>2. WatchSlot # "unset"
    BY PoolFacts, RingAssumption
  <2>3. primaryIdx[s] = FirstPrimary
    BY DEF SteadyInit
  <2> QED BY <1>1, <1>2, <1>3, <2>1, <2>2, <2>3 DEF MainLoops
<1>5. ASSUME NEW s \in Server, NEW k \in Pool PROVE NamesLeader(s, th[s][k], LedOrEnded)
  <2>1. th[s][k] = Idle \/ th[s][k] = Watching
    BY <1>1
  <2> QED BY <2>1, PoolFacts DEF NamesLeader
<1>6. AllWatch
  <2>1. \A s \in Server : isPrimary[s] <=> s = FirstPrimary
    BY DEF SteadyInit
  <2>2. \A s \in Server : s # FirstPrimary => kaTid[s] = WatchSlot
    BY DEF SteadyInit
  <2> QED BY <1>1, <2>1, <2>2, PoolFacts DEF AllWatch
<1>7. \A s \in Server : Exists(s)
    BY <1>2
<1> QED
  <2> SUFFICES ASSUME NEW s \in Server, NEW k \in Pool
               PROVE  th[s][k].sock \in Server => Exists(th[s][k].sock)
    BY <1>4, <1>5, <1>6 DEF OfficeInv
  <2> QED BY <1>7

LEMMA OfficeDie ==
    ASSUME TypeOK, OfficeInv, NEW s \in Server, DieMoves(s)
    PROVE  OfficeInv'
<1>1. \A t \in Server : MainLoops(t)
    BY DEF OfficeInv
<1>2. \A t \in Server \ {s} :
        /\ th'[t]["main"] = th[t]["main"]
        /\ \A k \in Pool : th[t][k] = Idle => th'[t][k] = Idle
  <2>1. \A t \in Server \ {s}, j \in Tid : th[t][j].sock # s => th'[t][j] = th[t][j]
    BY DEF DieMoves
  <2>2. \A t \in Server : th[t]["main"].sock # s
    BY <1>1, PoolFacts DEF MainLoops
  <2>3. Idle.sock # s
    BY PoolFacts
  <2> QED BY <2>1, <2>2, <2>3, TidFacts
<1>3. \A j \in Tid : th'[s][j] = Idle
    BY DEF DieMoves
<1>4. ~Exists(s)' /\ \A t \in Server \ {s} : Exists(t)' <=> Exists(t)
    BY <1>2, <1>3, TidFacts, PoolFacts DEF Exists
<1>5. LedOrEnded \subseteq LedOrEnded' /\ ~isPrimary'[s]
      /\ OthersKeep(isPrimary, isPrimary', s) /\ OthersKeep(primaryIdx, primaryIdx', s)
      /\ OthersKeep(kaTid, kaTid', s)
    BY DEF DieMoves
<1>6. ASSUME NEW t \in Server PROVE MainLoops(t)'
  <2>1. CASE t = s
    BY <1>3, <1>4, <1>5, <2>1, TidFacts DEF MainLoops
  <2>2. CASE t # s
    BY <1>1, <1>2, <1>4, <1>5, <2>2 DEF MainLoops, OthersKeep
  <2> QED BY <2>1, <2>2
<1>7. ASSUME NEW t \in Server, NEW k \in Pool PROVE NamesLeader(t, th[t][k], LedOrEnded)'
  <2>1. CASE t = s
    <3>1. th'[t][k] = Idle
      BY <1>3, <2>1, TidFacts
    <3> QED BY <3>1, PoolFacts DEF NamesLeader
  <2>2. CASE t # s
    <3>1. NamesLeader(t, th[t][k], LedOrEnded)
      BY DEF OfficeInv
    <3>2. SameWork(th'[t][k], th[t][k]) /\ th'[t][k].pc = th[t][k].pc
      BY <2>2, TidFacts DEF DieMoves
    <3> QED BY <1>5, <3>1, <3>2 DEF NamesLeader, SameWork
  <2> QED BY <2>1, <2>2
<1>8. ASSUME Exists(FirstPrimary)' PROVE AllWatch'
  <2>1. s # FirstPrimary /\ Exists(FirstPrimary) /\ AllWatch
    BY <1>4, <1>8, PoolFacts DEF OfficeInv
  <2>2. isPrimary'[FirstPrimary] /\ \A t \in Server : isPrimary'[t] => t = FirstPrimary
    BY <1>5, <2>1, PoolFacts DEF AllWatch, OthersKeep
  <2>3. ASSUME NEW t \in Server, NEW k \in Pool
        PROVE  \/ th'[t][k] = Idle
               \/ t # FirstPrimary /\ k = kaTid'[t] /\ th'[t][k] = Watching
    <3>1. CASE t = s
      BY <1>3, <3>1, TidFacts
    <3>2. CASE t # s /\ th[t][k] = Idle
      BY <1>2, <3>2
    <3>3. CASE t # s /\ th[t][k] # Idle
      <4>1. t # FirstPrimary /\ k = kaTid[t] /\ th[t][k] = Watching
        BY <2>1, <3>3 DEF AllWatch
      <4>2. th[t][k].sock # s /\ k \in Tid
        BY <2>1, <4>1, TidFacts, PoolFacts
      <4>3. th'[t][k] = th[t][k]
        BY <3>3, <4>2 DEF DieMoves
      <4> QED BY <1>5, <3>3, <4>1, <4>3 DEF OthersKeep
    <3> QED BY <3>1, <3>2, <3>3
  <2> QED BY <2>2, <2>3 DEF AllWatch
<1>9. ASSUME NEW t \in Server, NEW k \in Pool, th'[t][k].sock \in Server
      PROVE  Exists(th[t][k].sock)'
  <2>1. t # s
    BY <1>3, <1>9, TidFacts, PoolFacts
  <2>2. th[t][k].sock # s /\ th'[t][k].sock = th[t][k].sock
    BY <1>9, <2>1, TidFacts, PoolFacts DEF DieMoves
  <2>3. Exists(th[t][k].sock)
    BY <1>9, <2>2 DEF OfficeInv
  <2> QED BY <1>4, <1>9, <2>2, <2>3
<1> QED BY <1>6, <1>7, <1>8, <1>9 DEF OfficeInv

\* What a thread does to the messages and to the offices.
LEMMA OfficeMoves ==
    ASSUME TypeOK, OfficeInv, ~Exists(FirstPrimary),
           NEW s \in Server, NEW k \in Pool, Exists(s), ThreadMoves(s, k)
    PROVE  OfficeInv'
<1> DEFINE w == th[s][k]
<1>1. /\ \A t \in Server : th'[t]["main"] = th[t]["main"]
      /\ OthersKeep(isPrimary, isPrimary', s) /\ OthersKeep(primaryIdx, primaryIdx', s)
      /\ OthersKeep(kaTid, kaTid', s) /\ (isPrimary[s] => isPrimary'[s])
      /\ LedOrEnded \subseteq LedOrEnded'
    BY MovesFrame
<1>2. /\ \A t \in Server : Exists(t)' <=> Exists(t)
      /\ s # FirstPrimary /\ k \in Tid
    BY <1>1, TidFacts DEF Exists
<1>3. /\ \A t \in Server : MainLoops(t)
      /\ \A t \in Server, j \in Pool : NamesLeader(t, th[t][j], LedOrEnded)
    BY DEF OfficeInv
<1>4. ASSUME NEW t \in Server, NEW j \in Pool, t # s \/ j # k
      PROVE  \/ th'[t][j] = th[t][j] \/ th'[t][j] = Idle
             \/ Exists(t) /\ w.pc = "send" /\ IsHandler(th'[t][j], w)
  <2>1. j \in Tid
    BY TidFacts
  <2>2. CASE Only(s, k)
    BY <1>4, <2>1, <2>2 DEF Only
  <2>3. CASE VoteMoves(s, k)
    BY <1>4, <2>1, <2>3 DEF VoteMoves
  <2>4. ASSUME NEW c, SendMoves(s, k, c), ~Only(s, k)
        PROVE  \/ th'[t][j] = th[t][j]
               \/ Exists(t) /\ w.pc = "send" /\ IsHandler(th'[t][j], w)
    <3>1. w.sock \in Server /\ w.pc = "send" /\ Exists(w.sock)
      BY <2>4 DEF SendMoves, OfficeInv
    <3>2. PICK i \in Pool :
            /\ IsHandler(th'[w.sock][i], w)
            /\ ~(t = s /\ j = k) /\ ~(t = w.sock /\ j = i) => th'[t][j] = th[t][j]
      BY <2>1, <2>4 DEF SendMoves
    <3> QED BY <1>4, <3>1, <3>2
  <2> QED BY <2>2, <2>3, <2>4 DEF ThreadMoves, ScanMoves, KeepaliveMoves, LeadMoves, GoOnMoves,
              SettleMoves, StartMoves, CheckMoves, EnterMoves, ElectedMoves
<1>5. ASSUME th'[s][k].sock \in Server
      PROVE  Exists(th'[s][k].sock)
  <2>1. w.sock \in Server => Exists(w.sock)
    BY DEF OfficeInv
  <2>2. \A t \in Server : Listening(t) => Exists(t)
    BY DEF Listening
  <2>3. NewThread("start", "begin").sock = NoIdx /\ NewThread("keepalive", "dial").sock = NoIdx
        /\ NewThread("elected", "resume").sock = NoIdx
    BY DEF NewThread
  <2> DEFINE r == th'[s][k]
  <2>4. \/ r.sock = w.sock \/ r.sock = NoIdx \/ Listening(r.sock)
    <3>1. CASE ScanMoves(s, k) \/ KeepaliveMoves(s, k) \/ SettleMoves(s, k) \/ StartMoves(s, k)
      BY <2>3, <3>1, PoolFacts DEF ScanMoves, KeepaliveMoves, SettleMoves, StartMoves
    <3>2. CASE LeadMoves(s, k) \/ GoOnMoves(s, k) \/ VoteMoves(s, k) \/ CheckMoves(s, k)
      BY <3>2, PoolFacts DEF LeadMoves, GoOnMoves, VoteMoves, CheckMoves
    <3>3. CASE SendMoves(s, k, Idle) \/ SendMoves(s, k, NewThread("elected", "resume"))
      BY <2>3, <3>3, PoolFacts DEF SendMoves
    <3>4. CASE EnterMoves(s, k) \/ ElectedMoves(s, k)
      BY <2>3, <3>4, PoolFacts DEF EnterMoves, ElectedMoves
    <3> QED BY <3>1, <3>2, <3>3, <3>4 DEF ThreadMoves
  <2> QED BY <1>5, <2>1, <2>2, <2>4, PoolFacts
<1>6. NamesLeader(s, th'[s][k], LedOrEnded')
  <2> DEFINE r == th'[s][k]
             L == LedOrEnded'
  <2>1. NamesLeader(s, w, L)
    BY <1>1, <1>3 DEF NamesLeader
  <2>2. s \in L <=> isPrimary'[s]
    BY <1>2 DEF LedOrEnded
  <2>3. /\ NamesLeader(s, Idle, L)
        /\ NamesLeader(s, NewThread("start", "begin"), L)
        /\ NamesLeader(s, NewThread("keepalive", "dial"), L)
        /\ NamesLeader(s, NewThread("elected", "resume"), L)
    BY DEF NamesLeader, Idle, NewThread
  <2> SUFFICES NamesLeader(s, r, L)
    OBVIOUS
  <2> HIDE DEF L
  <2>4. CASE ScanMoves(s, k) \/ KeepaliveMoves(s, k) \/ StartMoves(s, k)
    BY <2>1, <2>3, <2>4 DEF ScanMoves, KeepaliveMoves, StartMoves, NamesLeader, SameWork, At
  <2>5. CASE w.pc = "decide" /\ (LeadMoves(s, k) \/ GoOnMoves(s, k))
    BY <2>1, <2>2, <2>5 DEF LeadMoves, GoOnMoves, NamesLeader, SameWork
  <2>6. CASE \/ SettleMoves(s, k) \/ SendMoves(s, k, Idle)
             \/ SendMoves(s, k, NewThread("elected", "resume"))
    BY <2>3, <2>6 DEF SettleMoves, SendMoves
  <2>7. CASE VoteMoves(s, k) \/ CheckMoves(s, k)
    BY <2>1, <2>3, <2>7 DEF VoteMoves, CheckMoves, NamesLeader, SameWork, At
  <2>8. CASE EnterMoves(s, k)
    BY <1>2, <2>1, <2>2, <2>8 DEF EnterMoves, NamesLeader, At
  <2>9. CASE ElectedMoves(s, k)
    BY <2>1, <2>3, <2>9 DEF ElectedMoves, NamesLeader, SameWork
  <2> QED BY <2>4, <2>5, <2>6, <2>7, <2>8, <2>9 DEF ThreadMoves
<1>7. primaryIdx'[s] \in LedOrEnded' /\ kaTid'[s] # "unset"
  <2>1. primaryIdx[s] \in LedOrEnded' /\ kaTid[s] # "unset"
    BY <1>1, <1>2, <1>3 DEF MainLoops
  <2>2. CASE UNCHANGED <<primaryIdx, kaTid>>
    BY <2>1, <2>2
  <2>3. CASE SettleMoves(s, k)
    <3>1. isPrimary[s]
      BY <1>2, <1>3, <2>3 DEF SettleMoves, NamesLeader, LedOrEnded
    <3>2. s \in LedOrEnded'
      BY <1>1, <3>1 DEF LedOrEnded
    <3> QED BY <2>1, <2>3, <3>2 DEF SettleMoves
  <2>4. CASE ElectedMoves(s, k)
    <3>1. w.pc = "enter" => w.data \in LedOrEnded'
      BY <1>1, <1>3, <2>4 DEF ElectedMoves, NamesLeader
    <3>2. k # "unset"
      BY RingAssumption
    <3> QED BY <2>1, <2>4, <3>1, <3>2 DEF ElectedMoves
  <2> QED BY <2>2, <2>3, <2>4 DEF ThreadMoves, KeepaliveMoves, LeadMoves, GoOnMoves, SendMoves,
                                  StartMoves, VoteMoves, CheckMoves, EnterMoves, ringVars
<1>8. ASSUME NEW t \in Server PROVE MainLoops(t)'
  <2>1. t # s => primaryIdx'[t] = primaryIdx[t] /\ kaTid'[t] = kaTid[t] /\ isPrimary'[t] = isPrimary[t]
    BY <1>1 DEF OthersKeep
  <2>2. ~Exists(t) => \A j \in Pool : th'[t][j] = Idle
    <3> SUFFICES ASSUME ~Exists(t), NEW j \in Pool PROVE th'[t][j] = Idle
      OBVIOUS
    <3>1. th[t][j] = Idle /\ t # s
      BY <1>3 DEF MainLoops
    <3> QED BY <1>4, <3>1
  <2>3. MainLoops(t)
    BY <1>3
  <2> QED BY <1>1, <1>2, <1>7, <2>1, <2>2, <2>3 DEF MainLoops
<1>9. ASSUME NEW t \in Server, NEW j \in Pool
      PROVE  /\ NamesLeader(t, th'[t][j], LedOrEnded')
             /\ th'[t][j].sock \in Server => Exists(th'[t][j].sock)
  <2>1. CASE t = s /\ j = k
    BY <1>5, <1>6, <2>1
  <2>2. CASE (t # s \/ j # k) /\ th'[t][j] = th[t][j]
    BY <1>1, <1>3, <2>2 DEF NamesLeader, OfficeInv
  <2>3. CASE th'[t][j] = Idle
    BY <2>3, PoolFacts DEF NamesLeader
  <2>4. CASE w.pc = "send" /\ IsHandler(th'[t][j], w)
    <3>1. w.msg = "ELECTION" \/ w.msg = "ELECTED"
      <4>1. w \in Thread /\ NamesLeader(s, w, LedOrEnded)
        BY <1>2, <1>3, TypeThread
      <4> QED BY <2>4, <4>1 DEF Thread, NamesLeader
    <3>2. w.msg = "ELECTED" => w.data \in LedOrEnded' \ {FirstPrimary}
      BY <1>1, <1>3 DEF NamesLeader
    <3> QED BY <2>4, <3>1, <3>2, PoolFacts DEF NamesLeader, IsHandler
  <2> QED BY <1>4, <2>1, <2>2, <2>3, <2>4
<1>10. \A t \in Server, j \in Pool :
         th'[t][j].sock \in Server => Exists(th[t][j].sock)'
    BY <1>2, <1>9
<1>11. ~Exists(FirstPrimary)'
    BY <1>2, PoolFacts
<1> QED BY <1>8, <1>9, <1>10, <1>11 DEF OfficeInv

\* A step of the ring that elects is a step of the ring.
LEMMA SteadyStep == [SteadyNext]_<<vars, raced>> => [Next]_vars
    BY DEF SteadyNext

LEMMA OfficeNext ==
    ASSUME TypeOK, boots = 0 => OfficeInv, [Next]_vars
    PROVE  (boots = 0 => OfficeInv)'
<1> SUFFICES ASSUME boots' = 0 PROVE OfficeInv'
    OBVIOUS
<1>1. /\ boots = 0
      /\ \/ UNCHANGED vars
         \/ \E s \in Server : Die(s, th)
         \/ /\ ~Exists(FirstPrimary)
            /\ \E s \in Server, k \in Pool : Exists(s) /\ ThreadMoves(s, k)
    BY SteadyDoes
<1>2. CASE UNCHANGED vars
  <2>1. OfficeInv /\ UNCHANGED <<th, isPrimary, primaryIdx, kaTid>>
    BY <1>1, <1>2 DEF vars, ringVars
  <2>2. LedOrEnded' = LedOrEnded /\ \A t \in Server : Exists(t)' <=> Exists(t)
    BY <2>1 DEF LedOrEnded, Exists
  <2>3. \A t \in Server : MainLoops(t)'
    BY <2>1, <2>2 DEF OfficeInv, MainLoops
  <2>4. Exists(FirstPrimary)' => AllWatch'
    BY <2>1, <2>2, PoolFacts DEF OfficeInv, AllWatch
  <2>5. \A t \in Server, j \in Pool : NamesLeader(t, th'[t][j], LedOrEnded')
    BY <2>1, <2>2 DEF OfficeInv
  <2>6. \A t \in Server, j \in Pool :
          th'[t][j].sock \in Server => Exists(th[t][j].sock)'
    BY <2>1, <2>2 DEF OfficeInv
  <2> QED BY <2>3, <2>4, <2>5, <2>6 DEF OfficeInv
<1>3. ASSUME NEW s \in Server, Die(s, th) PROVE OfficeInv'
    BY <1>1, <1>3, DoesDie, OfficeDie
<1>4. ASSUME ~Exists(FirstPrimary), NEW s \in Server, NEW k \in Pool, Exists(s),
             ThreadMoves(s, k)
      PROVE  OfficeInv'
    BY <1>1, <1>4, OfficeMoves
<1> QED BY <1>1, <1>2, <1>3, <1>4

(***************************************************************************)
(* The ring that elects keeps its types, and, until a server is started    *)
(* anew, OfficeInv: the invariant that the theorems below rest on.         *)
(***************************************************************************)
THEOREM OfficeInvariant == SteadySpec => [](TypeOK /\ (boots = 0 => OfficeInv))
<1>1. SteadyInit => TypeOK /\ (boots = 0 => OfficeInv)
    BY SteadyTypeInit, OfficeInit
<1>2. TypeOK /\ (boots = 0 => OfficeInv) /\ [SteadyNext]_<<vars, raced>>
      => (TypeOK /\ (boots = 0 => OfficeInv))'
    BY SteadyStep, TypeNext, OfficeNext
<1> QED BY <1>1, <1>2, PTL DEF SteadySpec

(***************************************************************************)
(* Until a server is started anew, through any number of elections, deaths *)
(* and overlapping scans: an ELECTED message names a server that leads, or *)
(* has ended since (handle_connection_election).                           *)
(***************************************************************************)
THEOREM AnnouncedCorrect == SteadySpec => [](boots = 0 => AnnouncedIsPrimary)
<1>1. ASSUME OfficeInv PROVE AnnouncedIsPrimary
  <2> SUFFICES ASSUME NEW s \in Server, NEW k \in Tid, Announced(s, k)
               PROVE  isPrimary[th[s][k].data] \/ ~Exists(th[s][k].data)
    BY DEF AnnouncedIsPrimary
  <2>1. k \in Pool
    <3>1. th[s]["main"] \in {Idle, NewThread("boot", "run")}
      BY <1>1 DEF OfficeInv, MainLoops
    <3> QED BY <3>1, PoolFacts DEF Announced, Tid
  <2>2. th[s][k].data \in LedOrEnded
    BY <1>1, <2>1 DEF OfficeInv, NamesLeader, Announced
  <2> QED BY <2>2 DEF LedOrEnded
<1> QED BY <1>1, OfficeInvariant, PTL

(***************************************************************************)
(* Until a server is started anew: the server a running server takes for   *)
(* the primary is one, or has ended (ring->primary_idx).                   *)
(***************************************************************************)
THEOREM NamedCorrect == SteadySpec => [](boots = 0 => NamedIsPrimary)
<1>1. ASSUME OfficeInv PROVE NamedIsPrimary
    BY <1>1 DEF OfficeInv, MainLoops, LedOrEnded, NamedIsPrimary, Running, Exists
<1> QED BY <1>1, OfficeInvariant, PTL

(***************************************************************************)
(* Until a server is started anew: whoever is asked to vote has a          *)
(* keepalive_tid to cancel (server.c:671), because the first primary, the  *)
(* one server that has none, is not asked while it lives.                  *)
(***************************************************************************)
THEOREM VotersAreWatched == SteadySpec => [](boots = 0 => VotersWatched)
<1>1. ASSUME OfficeInv PROVE VotersWatched
  <2> SUFFICES ASSUME NEW s \in Server, NEW k \in Pool, th[s][k].job = "election"
               PROVE  kaTid[s] # "unset"
    BY DEF VotersWatched
  <2>1. Exists(s) /\ MainLoops(s)
    BY <1>1, PoolFacts DEF OfficeInv, MainLoops
  <2>2. s # FirstPrimary
    BY <1>1, <2>1, PoolFacts DEF OfficeInv, AllWatch
  <2> QED BY <2>1, <2>2 DEF MainLoops
<1> QED BY <1>1, OfficeInvariant, PTL

-----------------------------------------------------------------------------
(* Until two scans overlap: what a scan has passed has ended.               *)

\* Threads that walk nowhere, and a next_index that a thread does not read.
LEMMA WalksNowhere ==
    ASSUME NEW s \in Server, NEW up, NEW n
    PROVE  /\ WalksRing(s, Idle, up, n) /\ WalksRing(s, Watching, up, n)
           /\ WalksRing(s, NewThread("start", "begin"), up, n)
           /\ WalksRing(s, NewThread("keepalive", "dial"), up, n)
           /\ WalksRing(s, NewThread("elected", "resume"), up, n)
<1>1. WalksRing(s, Idle, up, n) /\ WalksRing(s, Watching, up, n)
    BY PoolFacts DEF WalksRing
<1> QED BY <1>1 DEF WalksRing, NewThread

LEMMA WalksElsewhere ==
    ASSUME NEW s \in Server, NEW r, NEW up, NEW n, NEW m, WalksRing(s, r, up, n),
           r.pc \notin {"advance", "connect", "decide"}
    PROVE  WalksRing(s, r, up, m)
    BY DEF WalksRing

LEMMA WalkInit == SteadyInit => WalkInv
<1> SUFFICES ASSUME SteadyInit PROVE WalkInv
    OBVIOUS
<1>1. \A s \in Server :
        /\ th[s]["main"] = NewThread("boot", "run")
        /\ \A k \in Pool : th[s][k] = Idle \/ th[s][k] = Watching
    BY TidFacts, MainIsNotInPool DEF SteadyInit, Watching
<1>2. ~ScansOverlap
    BY <1>1, PoolFacts DEF ScansOverlap, Scanning, Tid
<1>3. \A s \in Server, k \in Pool : WalksRing(s, th[s][k], Up, nextIndex[s])
    BY <1>1, WalksNowhere
<1>4. \A s \in Server : isPrimary[s] => s = FirstPrimary
    BY DEF SteadyInit
<1> QED BY <1>2, <1>3, <1>4 DEF WalkInv

LEMMA WalkDie ==
    ASSUME TypeOK, WalkInv, NEW s \in Server, DieMoves(s), raced' = (raced \/ ScansOverlap')
    PROVE  WalkInv'
<1> SUFFICES ASSUME ~raced'
             PROVE  /\ \A t \in Server, k \in Pool : WalksRing(t, th[t][k], Up, nextIndex[t])'
                    /\ \A t \in Server : isPrimary'[t] /\ t # FirstPrimary =>
                          \A u \in Up' : u <= t
    BY DEF WalkInv
<1>1. /\ \A t \in Server, k \in Pool : WalksRing(t, th[t][k], Up, nextIndex[t])
      /\ \A t \in Server : isPrimary[t] /\ t # FirstPrimary => \A u \in Up : u <= t
    BY DEF WalkInv
<1>2. /\ Up' = Up \ {s} /\ ~isPrimary'[s]
      /\ OthersKeep(isPrimary, isPrimary', s) /\ OthersKeep(nextIndex, nextIndex', s)
    BY DEF DieMoves
<1>3. ASSUME NEW t \in Server, NEW k \in Pool
      PROVE  WalksRing(t, th'[t][k], Up', nextIndex'[t])
  <2>1. CASE t = s
    <3>1. th'[t][k] = Idle
      BY <2>1, TidFacts DEF DieMoves
    <3> QED BY <3>1, WalksNowhere
  <2>2. CASE t # s
    <3> DEFINE w == th[t][k]
               r == th'[t][k]
               n == nextIndex[t]
    <3>1. /\ SameWork(r, w) /\ r.pc = w.pc /\ r.addr = w.addr
          /\ r.sock = IF w.sock = s THEN Gone ELSE w.sock
      BY <2>2, TidFacts DEF DieMoves
    <3>2. nextIndex'[t] = n /\ WalksRing(t, w, Up, n)
      BY <1>1, <1>2, <2>2 DEF OthersKeep
    <3> HIDE DEF w, r, n
    <3>3. WalksRing(t, r, Up \ {s}, n)
      BY <3>1, <3>2, PoolFacts DEF WalksRing, SameWork
    <3> QED BY <1>2, <3>2, <3>3 DEF r
  <2> QED BY <2>1, <2>2
<1>4. ASSUME NEW t \in Server, isPrimary'[t], t # FirstPrimary, NEW u \in Up'
      PROVE  u <= t
    BY <1>1, <1>2, <1>4 DEF OthersKeep
<1> QED BY <1>3, <1>4

LEMMA WalkMoves ==
    ASSUME TypeOK, OfficeInv, WalkInv, NEW s \in Server, NEW k \in Pool, ThreadMoves(s, k),
           raced' = (raced \/ ScansOverlap')
    PROVE  WalkInv'
<1> SUFFICES ASSUME ~raced'
             PROVE  /\ \A t \in Server, j \in Pool : WalksRing(t, th[t][j], Up, nextIndex[t])'
                    /\ \A t \in Server : isPrimary'[t] /\ t # FirstPrimary =>
                          \A u \in Up' : u <= t
    BY DEF WalkInv
<1> DEFINE w == th[s][k]
           r == th'[s][k]
           n == nextIndex[s]
<1>1. /\ \A t \in Server, j \in Pool : WalksRing(t, th[t][j], Up, nextIndex[t])
      /\ \A t \in Server : isPrimary[t] /\ t # FirstPrimary => \A u \in Up : u <= t
      /\ ~ScansOverlap'
    BY DEF WalkInv
<1>2. /\ Up' = Up /\ OthersKeep(isPrimary, isPrimary', s)
      /\ OthersKeep(nextIndex, nextIndex', s)
    BY MovesFrame
<1>3. /\ w.data \in Server \cup {NoIdx} /\ n \in Server \cup {NoIdx} /\ k \in Tid
      /\ Up \subseteq Server /\ WalksRing(s, w, Up, n)
    BY <1>1, TypeThread, TidFacts DEF TypeOK, Up
<1>4. \A m \in Server : ~Between(s, m, s)
    BY DEF Between, Server
<1>5. ASSUME nextIndex' = nextIndex,
             WalksRing(s, r, Up, n),
             isPrimary'[s] => isPrimary[s] \/ \A u \in Up : u <= s,
             \A t \in Server, j \in Pool : (t # s \/ j # k) =>
                \/ th'[t][j] = th[t][j] \/ th'[t][j] = Idle
                \/ WalksRing(t, th'[t][j], Up, nextIndex[t])
      PROVE  /\ \A t \in Server, j \in Pool : WalksRing(t, th'[t][j], Up', nextIndex'[t])
             /\ \A t \in Server : isPrimary'[t] /\ t # FirstPrimary =>
                   \A u \in Up' : u <= t
  <2>1. ASSUME NEW t \in Server, NEW j \in Pool
        PROVE  WalksRing(t, th'[t][j], Up, nextIndex[t])
    BY <1>1, <1>5, <2>1, WalksNowhere
  <2> QED BY <1>1, <1>2, <1>5, <2>1 DEF OthersKeep
<1>6. CASE ScanMoves(s, k) /\ UNCHANGED <<isPrimary, primaryIdx, inElection, kaTid, envVars>>
  <2> DEFINE m == nextIndex'[s]
  <2>1. SameWork(r, w) /\ Only(s, k) /\ OthersKeep(nextIndex, nextIndex', s)
    BY <1>6 DEF ScanMoves
  <2>2. WalksRing(s, r, Up, m)
    <3>1. CASE w.pc = "reset" /\ r.pc = "advance" /\ r.sock = w.sock /\ m = s
      BY <1>3, <2>1, <3>1 DEF WalksRing, SameWork
    <3>2. CASE /\ w.pc = "advance" /\ r.pc = "connect" /\ r.sock = w.sock
               /\ m = NextIdx(n) /\ r.addr = m
      <4>1. n \in Server /\ m \in Server /\ (n # s => n \notin Up /\ \A t \in Up : ~Between(s, n, t))
        BY <1>3, <3>2, NextIdxType DEF WalksRing
      <4>2. \A t \in Up : ~Between(s, m, t)
        <5> SUFFICES ASSUME NEW t \in Up PROVE ~Between(s, m, t)
          OBVIOUS
        <5>1. CASE t = s
          BY <1>4, <4>1, <5>1
        <5>2. CASE t # s
          BY <1>3, <3>2, <4>1, <5>2, BetweenNext
        <5> QED BY <5>1, <5>2
      <4> HIDE DEF m
      <4> QED BY <1>3, <2>1, <3>2, <4>1, <4>2 DEF WalksRing, SameWork
    <3>3. CASE /\ w.pc = "connect" /\ r.pc = "decide" /\ m = n
               /\ \/ n = s /\ r.sock = w.sock
                  \/ n # s /\ r.sock = w.addr
      BY <1>3, <2>1, <3>3 DEF WalksRing, SameWork
    <3>4. CASE /\ w.pc = "connect" /\ r.pc = "advance" /\ m = n
               /\ n # s /\ ~Listening(w.addr) /\ r.sock = w.sock
      <4>1. w.addr = n /\ n \in Server
        BY <1>3, <3>4 DEF WalksRing
      <4>2. n \notin Up
        <5>1. th[n]["main"].pc \in {"idle", "run"}
          BY <4>1, PoolFacts DEF OfficeInv, MainLoops
        <5> QED BY <3>4, <4>1, <5>1 DEF Up, Listening
      <4> QED BY <1>3, <2>1, <3>4, <4>2 DEF WalksRing, SameWork
    <3> QED BY <1>6, <3>1, <3>2, <3>3, <3>4 DEF ScanMoves
  <2>3. ASSUME NEW t \in Server, NEW j \in Pool
        PROVE  WalksRing(t, th'[t][j], Up, nextIndex'[t])
    <3>1. CASE t = s /\ j = k
      BY <2>2, <3>1
    <3>2. CASE t # s
      <4>1. th'[t][j] = th[t][j] /\ nextIndex'[t] = nextIndex[t]
        BY <2>1, <3>2, TidFacts DEF Only, OthersKeep
      <4> QED BY <1>1, <4>1
    <3>3. CASE t = s /\ j # k
      <4>1. th'[t][j] = th[t][j] /\ j \in Tid
        BY <2>1, <3>3, TidFacts DEF Only
      <4>2. CASE m = n
        BY <1>1, <3>3, <4>1, <4>2
      <4>3. CASE m # n
        <5>1. r.pc \in {"advance", "connect"}
          BY <1>6, <4>3 DEF ScanMoves
        <5>2. th'[s][j].pc \notin {"advance", "connect", "decide"}
          BY <1>1, <1>3, <3>3, <4>1, <5>1 DEF ScansOverlap, Scanning
        <5> QED BY <1>1, <3>3, <4>1, <5>2, WalksElsewhere
      <4> QED BY <4>2, <4>3
    <3> QED BY <3>1, <3>2, <3>3
  <2> QED BY <1>1, <1>2, <1>6, <2>3
<1>7. CASE KeepaliveMoves(s, k)
  <2>1. WalksRing(s, r, Up, n)
    BY <1>3, <1>7, WalksNowhere DEF KeepaliveMoves, WalksRing, SameWork
  <2> QED BY <1>5, <1>7, <2>1, TidFacts DEF KeepaliveMoves, Only, ringVars
<1>8. CASE w.pc = "decide" /\ LeadMoves(s, k)
  <2>1. WalksRing(s, r, Up, n)
    BY <1>3, <1>8 DEF LeadMoves, WalksRing, SameWork
  <2>2. \A u \in Up : ~Between(s, s, u)
    BY <1>3, <1>8 DEF LeadMoves, WalksRing
  <2>3. \A u \in Up : u <= s
    BY <1>3, <2>2 DEF Between, Server
  <2> QED BY <1>5, <1>8, <2>1, <2>3, TidFacts DEF LeadMoves, Only
<1>9. CASE w.pc = "decide" /\ GoOnMoves(s, k)
  <2>1. WalksRing(s, r, Up, n)
    BY <1>3, <1>9 DEF GoOnMoves, WalksRing, SameWork
  <2> QED BY <1>5, <1>9, <2>1, TidFacts DEF GoOnMoves, Only, ringVars
<1>10. ASSUME NEW c, SendMoves(s, k, c), WalksRing(s, c, Up, n)
       PROVE  /\ \A t \in Server, j \in Pool : WalksRing(t, th'[t][j], Up', nextIndex'[t])
              /\ \A t \in Server : isPrimary'[t] /\ t # FirstPrimary =>
                    \A u \in Up' : u <= t
  <2>1. r = c /\ nextIndex' = nextIndex /\ isPrimary' = isPrimary /\ w.pc = "send"
    BY <1>10 DEF SendMoves, ringVars
  <2>2. CASE Only(s, k)
    BY <1>5, <1>10, <2>1, <2>2, TidFacts DEF Only
  <2>3. ASSUME NEW i \in Pool, w.sock \in Server, IsHandler(th'[w.sock][i], w),
               \A t \in Server, j \in Tid :
                  ~(t = s /\ j = k) /\ ~(t = w.sock /\ j = i) => th'[t][j] = th[t][j]
        PROVE  \A t \in Server, j \in Pool : (t # s \/ j # k) =>
                  th'[t][j] = th[t][j] \/ WalksRing(t, th'[t][j], Up, nextIndex[t])
    <3> DEFINE x == w.sock
               h == th'[x][i]
    <3>1. x # s /\ x \in Server /\ \A t \in Up : ~Between(s, x, t)
      BY <1>3, <2>1, <2>3, PoolFacts DEF WalksRing
    <3>2. h.job = "election" => h.data \in Server \cup {NoIdx} /\ h.data >= s
      BY <1>3, <2>3 DEF IsHandler, WalksRing
    <3>3. h.job = "election" /\ h.data <= x => \A t \in Up : t <= x
      BY <1>3, <3>1, <3>2 DEF Between, Server, NoIdx
    <3>4. h.pc = "begin" /\ h.msg = "none" /\ h.sock = NoIdx
      BY <2>3 DEF IsHandler
    <3>5. WalksRing(x, h, Up, nextIndex[x])
      <4> HIDE DEF h, x
      <4> QED BY <3>3, <3>4 DEF WalksRing
    <3> QED BY <2>3, <3>5, TidFacts
  <2> QED BY <1>5, <1>10, <2>1, <2>2, <2>3 DEF SendMoves
<1>11. CASE SettleMoves(s, k) \/ StartMoves(s, k)
  <2>1. CASE r = Idle
    BY <1>5, <1>11, <2>1, TidFacts, WalksNowhere DEF SettleMoves, StartMoves, Only
  <2>2. CASE r # Idle
    <3>1. StartMoves(s, k) /\ r.pc = "reset" /\ r.data = s /\ r.sock = NoIdx
      BY <1>11, <2>2 DEF SettleMoves, StartMoves
    <3>2. WalksRing(s, r, Up, n)
      BY <3>1 DEF WalksRing, Server
    <3> QED BY <1>5, <3>1, <3>2, TidFacts DEF StartMoves, Only
  <2> QED BY <2>1, <2>2
<1>12. CASE VoteMoves(s, k)
  <2>1. WalksRing(s, r, Up, n)
    BY <1>3, <1>12, WalksNowhere DEF VoteMoves, At, WalksRing, SameWork
  <2> QED BY <1>5, <1>12, <2>1, TidFacts DEF VoteMoves, ringVars
<1>13. CASE CheckMoves(s, k)
  <2>1. WalksRing(s, r, Up, n)
    BY <1>3, <1>13, WalksNowhere DEF CheckMoves, At, WalksRing, SameWork
  <2> QED BY <1>5, <1>13, <2>1, TidFacts DEF CheckMoves, Only, ringVars
<1>14. CASE EnterMoves(s, k)
  <2>1. WalksRing(s, r, Up, n)
    BY <1>3, <1>14 DEF EnterMoves, At, WalksRing, Server, NoIdx
  <2>2. isPrimary'[s] => isPrimary[s] \/ \A u \in Up : u <= s
    BY <1>3, <1>14 DEF EnterMoves, At, WalksRing, Server
  <2> QED BY <1>5, <1>14, <2>1, <2>2, TidFacts DEF EnterMoves, Only
<1>15. CASE ElectedMoves(s, k)
  <2>1. WalksRing(s, r, Up, n)
    BY <1>3, <1>15, WalksNowhere DEF ElectedMoves, WalksRing, SameWork
  <2> QED BY <1>5, <1>15, <2>1, TidFacts DEF ElectedMoves, Only
<1> QED BY <1>6, <1>7, <1>8, <1>9, <1>10, <1>11, <1>12, <1>13, <1>14, <1>15, WalksNowhere
        DEF ThreadMoves

LEMMA WalkNext ==
    ASSUME TypeOK, boots = 0 => OfficeInv /\ WalkInv, [SteadyNext]_<<vars, raced>>
    PROVE  (boots = 0 => WalkInv)'
<1> SUFFICES ASSUME boots' = 0 PROVE WalkInv'
    OBVIOUS
<1>1. [Next]_vars
    BY SteadyStep
<1>2. /\ boots = 0
      /\ \/ UNCHANGED vars
         \/ \E s \in Server : Die(s, th)
         \/ \E s \in Server, k \in Pool : ThreadMoves(s, k)
    BY <1>1, SteadyDoes
<1>3. CASE UNCHANGED <<vars, raced>>
    BY <1>2, <1>3 DEF WalkInv, ScansOverlap, Scanning, Up, Exists, vars, ringVars
<1>4. CASE SteadyNext
  <2>1. raced' = (raced \/ ScansOverlap')
    BY <1>4 DEF SteadyNext
  <2>2. CASE UNCHANGED vars
    <3> SUFFICES ASSUME ~raced' PROVE WalkInv'
      BY DEF WalkInv
    <3>1. ~raced /\ ~ScansOverlap'
      BY <2>1
    <3>2. UNCHANGED <<th, isPrimary, nextIndex>> /\ WalkInv
      BY <1>2, <2>2 DEF vars, ringVars
    <3>3. Up' = Up
      BY <3>2 DEF Up, Exists
    <3> QED BY <3>1, <3>2, <3>3 DEF WalkInv
  <2>3. ASSUME NEW s \in Server, Die(s, th) PROVE WalkInv'
    BY <1>2, <2>1, <2>3, DoesDie, WalkDie
  <2>4. ASSUME NEW s \in Server, NEW k \in Pool, ThreadMoves(s, k) PROVE WalkInv'
    BY <1>2, <2>1, <2>4, WalkMoves
  <2> QED BY <1>2, <2>2, <2>3, <2>4
<1> QED BY <1>3, <1>4

(***************************************************************************)
(* Until a server is started anew and until two scans of one process       *)
(* overlap: every candidate on its way knows that what it has passed has   *)
(* ended.                                                                  *)
(***************************************************************************)
THEOREM WalkInvariant == SteadySpec => [](boots = 0 => WalkInv)
<1>1. SteadyInit => (boots = 0 => WalkInv)
    BY WalkInit
<1>2. /\ TypeOK /\ (boots = 0 => OfficeInv) /\ (boots = 0 => WalkInv)
      /\ [SteadyNext]_<<vars, raced>>
      => (boots = 0 => WalkInv)'
    BY WalkNext
<1> QED BY <1>1, <1>2, OfficeInvariant, PTL DEF SteadySpec

(***************************************************************************)
(* The largest index wins: until a server is started anew and until two    *)
(* scans of one process overlap, at most one server leads, and whoever is  *)
(* elected is above every server that runs (handle_connection_election).   *)
(***************************************************************************)
THEOREM HighestIsElected == SteadySpec => [](boots = 0 => HighestWins)
<1>1. ASSUME OfficeInv, WalkInv PROVE HighestWins
  <2> SUFFICES ASSUME ~raced
               PROVE  /\ AtMostOnePrimary
                      /\ \A s, t \in Server :
                            isPrimary[s] /\ s # FirstPrimary /\ Running(t) => t <= s
    BY DEF HighestWins
  <2>1. \A s \in Server : isPrimary[s] => Exists(s)
    BY <1>1 DEF OfficeInv, MainLoops
  <2>2. \A s, t \in Server : isPrimary[s] /\ s # FirstPrimary /\ Exists(t) => t <= s
    BY <1>1 DEF WalkInv, Up
  <2>3. ASSUME NEW s \in Server, NEW t \in Server, isPrimary[s], isPrimary[t] PROVE s = t
    <3>1. CASE s = FirstPrimary \/ t = FirstPrimary
      BY <1>1, <2>1, <2>3, <3>1 DEF OfficeInv, AllWatch
    <3>2. CASE s # FirstPrimary /\ t # FirstPrimary
      BY <2>1, <2>2, <2>3, <3>2 DEF Server
    <3> QED BY <3>1, <3>2
  <2> QED BY <2>2, <2>3 DEF AtMostOnePrimary, Running, Exists
<1> QED BY <1>1, OfficeInvariant, WalkInvariant, PTL

-----------------------------------------------------------------------------
(* Until a second server ends: the topmost server watches nobody new.       *)

LEMMA TopFacts == Top \in Server /\ Top # FirstPrimary /\ \A s \in Server : s <= Top
    BY RingAssumption DEF Top, Server, FirstPrimary

LEMMA TopInit == SteadyInit => TopInv
<1> SUFFICES ASSUME SteadyInit PROVE FirstPrimary \in Up
    BY DEF TopInv
<1> QED BY PoolFacts, TidFacts DEF SteadyInit, Up, Exists

LEMMA TopDie ==
    ASSUME TypeOK, OfficeInv, TopInv, NEW s \in Server, DieMoves(s), raced => raced'
    PROVE  TopInv'
<1> SUFFICES ASSUME ~raced', Up' = Server \ {FirstPrimary}
             PROVE  TopInv'
    BY DEF TopInv
<1>1. Up' = Up \ {s} /\ s # Top /\ Top \in Server /\ Up \subseteq Server
    BY TopFacts DEF DieMoves, Up
<1>2. /\ kaTid'[Top] = kaTid[Top] /\ isPrimary'[Top] = isPrimary[Top]
      /\ \A k \in Pool : th'[Top][k].job = th[Top][k].job /\ th'[Top][k].pc = th[Top][k].pc
    BY <1>1, TidFacts DEF DieMoves, OthersKeep, SameWork
<1>3. CASE Up = Server \ {FirstPrimary}
    BY <1>2, <1>3 DEF TopInv, Votes
<1>4. CASE Up # Server \ {FirstPrimary}
  <2>1. Exists(FirstPrimary)
    BY <1>1, <1>4 DEF Up
  <2>2. /\ ~isPrimary[Top]
        /\ \A k \in Pool : th[Top][k] = Idle \/ (k = kaTid[Top] /\ th[Top][k] = Watching)
    BY <2>1, TopFacts DEF OfficeInv, AllWatch
  <2> QED BY <1>2, <2>2, PoolFacts DEF TopInv, Votes
<1> QED BY <1>3, <1>4

LEMMA TopMoves ==
    ASSUME TypeOK, OfficeInv, WalkInv, TopInv, NEW s \in Server, NEW k \in Pool, ThreadMoves(s, k),
           raced => raced'
    PROVE  TopInv'
<1> SUFFICES ASSUME ~raced, ~raced', Up = Server \ {FirstPrimary}, Up' = Up
             PROVE  TopInv'
    BY MovesFrame DEF TopInv
<1> DEFINE w == th[s][k]
           r == th'[s][k]
<1>1. /\ \A j \in Pool : th[Top][j].job = "keepalive" => j = kaTid[Top]
      /\ \A j \in Pool : th[Top][j].job = "elected" => th[Top][j].pc = "begin"
      /\ isPrimary[Top] \/ (\E j \in Pool : Votes(th[Top][j])) =>
            \A j \in Pool : th[Top][j].job # "keepalive"
    BY DEF TopInv
<1>2. /\ OthersKeep(isPrimary, isPrimary', s) /\ OthersKeep(kaTid, kaTid', s)
      /\ k \in Tid /\ Top \in Server
    BY MovesFrame, TidFacts, TopFacts
<1>3. ASSUME NEW t \in Server, NEW j \in Pool, t # s \/ j # k
      PROVE  \/ th'[t][j] = th[t][j] \/ th'[t][j] = Idle
             \/ th'[t][j].job \in {"election", "elected"} /\ th'[t][j].pc = "begin"
  <2>1. j \in Tid
    BY TidFacts
  <2>2. CASE Only(s, k)
    BY <1>3, <2>1, <2>2 DEF Only
  <2>3. CASE VoteMoves(s, k)
    BY <1>3, <2>1, <2>3 DEF VoteMoves
  <2>4. ASSUME NEW c, SendMoves(s, k, c), ~Only(s, k)
        PROVE  \/ th'[t][j] = th[t][j]
               \/ th'[t][j].job \in {"election", "elected"} /\ th'[t][j].pc = "begin"
    <3>1. PICK i \in Pool :
            /\ IsHandler(th'[w.sock][i], w)
            /\ ~(t = s /\ j = k) /\ ~(t = w.sock /\ j = i) => th'[t][j] = th[t][j]
      BY <2>1, <2>4 DEF SendMoves
    <3> QED BY <1>3, <3>1 DEF IsHandler
  <2> QED BY <2>2, <2>3, <2>4 DEF ThreadMoves, ScanMoves, KeepaliveMoves, LeadMoves, GoOnMoves,
              SettleMoves, StartMoves, CheckMoves, EnterMoves, ElectedMoves
<1>4. CASE s # Top
  <2>1. isPrimary'[Top] = isPrimary[Top] /\ kaTid'[Top] = kaTid[Top]
    BY <1>2, <1>4 DEF OthersKeep
  <2> QED BY <1>1, <1>2, <1>3, <1>4, <2>1, PoolFacts DEF TopInv, Votes
<1>5. CASE s = Top
  \* What has to be shown of the thread that moves.
  <2>1. ASSUME r.job = "keepalive" => w.job = "keepalive",
               r.job = "elected" => r.pc = "begin",
               Votes(r) \/ isPrimary'[Top] =>
                  \/ isPrimary[Top] \/ Votes(w)
                  \/ \A j \in Pool : th'[Top][j].job # "keepalive",
               kaTid'[Top] = kaTid[Top]
        PROVE  TopInv'
    <3>1. \A j \in Pool : th'[Top][j].job = "keepalive" => th[Top][j].job = "keepalive"
      BY <1>2, <1>3, <1>5, <2>1, PoolFacts
    <3>2. \A j \in Pool : th'[Top][j].job = "elected" => th'[Top][j].pc = "begin"
      BY <1>1, <1>2, <1>3, <1>5, <2>1, PoolFacts
    <3>3. isPrimary'[Top] \/ (\E j \in Pool : Votes(th'[Top][j])) =>
            \A j \in Pool : th'[Top][j].job # "keepalive"
      <4>1. ASSUME NEW j \in Pool, j # k, Votes(th'[Top][j]) PROVE Votes(th[Top][j])
        BY <1>2, <1>3, <1>5, <4>1, PoolFacts DEF Votes
      <4> QED BY <1>1, <1>5, <2>1, <3>1, <4>1
    <3> QED BY <1>1, <2>1, <3>1, <3>2, <3>3 DEF TopInv
  <2>2. w.job = "elected" => w.pc = "begin"
    BY <1>1, <1>5
  <2>3. CASE ScanMoves(s, k) /\ UNCHANGED <<isPrimary, primaryIdx, inElection, kaTid, envVars>>
    BY <2>1, <2>2, <2>3 DEF ScanMoves, SameWork, Votes
  <2>4. CASE KeepaliveMoves(s, k)
    <3>1. CASE SameWork(r, w)
      BY <1>5, <2>1, <2>4, <3>1 DEF KeepaliveMoves, SameWork, Votes, ringVars
    <3>2. CASE r = NewThread("start", "begin")
      <4>1. r.job = "start"
        BY <3>2 DEF NewThread
      <4>2. \A j \in Pool : th'[Top][j].job # "keepalive"
        BY <1>1, <1>2, <1>5, <2>4, <4>1, TidFacts DEF KeepaliveMoves, Only
      <4> QED BY <2>1, <2>4, <4>1, <4>2 DEF KeepaliveMoves, ringVars
    <3> QED BY <2>4, <3>1, <3>2 DEF KeepaliveMoves
  <2>5. CASE \/ w.pc = "decide" /\ w.job \in {"start", "election"} /\ LeadMoves(s, k)
             \/ w.pc = "decide" /\ w.job \in {"start", "election", "elected"} /\ GoOnMoves(s, k)
    BY <2>1, <2>2, <2>5 DEF LeadMoves, GoOnMoves, SameWork, Votes, ringVars
  <2>6. CASE \/ w.job \in {"start", "election"} /\ SendMoves(s, k, Idle)
             \/ SettleMoves(s, k)
    <3>1. r = Idle /\ UNCHANGED <<isPrimary, kaTid>>
      BY <2>6 DEF SendMoves, SettleMoves, ringVars
    <3> QED BY <2>1, <3>1, PoolFacts DEF Votes
  <2>7. ~SendMoves(s, k, NewThread("elected", "resume")) \/ w.job # "elected"
    BY <2>2 DEF SendMoves
  <2>8. CASE StartMoves(s, k)
    BY <2>1, <2>8, PoolFacts DEF StartMoves, At, Votes
  <2>9. CASE VoteMoves(s, k)
    <3>1. UNCHANGED <<isPrimary, kaTid>>
      BY <2>9 DEF VoteMoves, ringVars
    <3>2. r.job \in {"none", "election"}
      BY <2>9, PoolFacts DEF VoteMoves, At, SameWork
    <3>3. \A j \in Pool : th'[Top][j].job # "keepalive"
      BY <1>1, <1>2, <1>5, <2>9, <3>2, TidFacts, PoolFacts DEF VoteMoves
    <3> QED BY <2>1, <3>1, <3>2, <3>3
  <2>10. CASE CheckMoves(s, k)
    BY <2>1, <2>10, PoolFacts DEF CheckMoves, At, SameWork, Votes, ringVars
  <2>11. CASE EnterMoves(s, k)
    BY <2>1, <2>11 DEF EnterMoves, At, Votes
  <2>12. CASE ElectedMoves(s, k)
    <3>1. w.job = "elected" /\ w.pc = "begin" /\ UNCHANGED <<isPrimary, kaTid>>
      BY <2>2, <2>12 DEF ElectedMoves
    <3>2. w.data = Top
      <4>1. w.data \in LedOrEnded \ {FirstPrimary}
        BY <3>1 DEF OfficeInv, NamesLeader
      <4>2. w.data \in Up /\ isPrimary[w.data]
        BY <4>1 DEF LedOrEnded, Up
      <4>3. Top <= w.data /\ w.data <= Top
        BY <4>1, <4>2, TopFacts DEF WalkInv, LedOrEnded
      <4> QED BY <4>1, <4>3, TopFacts DEF LedOrEnded, Server
    <3>3. r = Idle
      BY <1>5, <2>12, <3>1, <3>2 DEF ElectedMoves
    <3> QED BY <2>1, <3>1, <3>3, PoolFacts DEF Votes
  <2> QED BY <2>3, <2>4, <2>5, <2>6, <2>7, <2>8, <2>9, <2>10, <2>11, <2>12 DEF ThreadMoves
<1> QED BY <1>4, <1>5

LEMMA TopNext ==
    ASSUME TypeOK, boots = 0 => OfficeInv /\ WalkInv /\ TopInv, [SteadyNext]_<<vars, raced>>
    PROVE  (boots = 0 => TopInv)'
<1> SUFFICES ASSUME boots' = 0 PROVE TopInv'
    OBVIOUS
<1>1. /\ boots = 0
      /\ \/ UNCHANGED vars
         \/ \E s \in Server : Die(s, th)
         \/ \E s \in Server, k \in Pool : ThreadMoves(s, k)
    BY SteadyStep, SteadyDoes
<1>2. raced => raced'
    BY DEF SteadyNext
<1>3. CASE UNCHANGED vars
  <2>1. UNCHANGED <<th, isPrimary, kaTid>> /\ TopInv
    BY <1>1, <1>3 DEF vars, ringVars
  <2>2. Up' = Up
    BY <2>1 DEF Up, Exists
  <2> QED BY <1>2, <2>1, <2>2 DEF TopInv
<1>4. ASSUME NEW s \in Server, Die(s, th) PROVE TopInv'
    BY <1>1, <1>2, <1>4, DoesDie, TopDie
<1>5. ASSUME NEW s \in Server, NEW k \in Pool, ThreadMoves(s, k) PROVE TopInv'
    BY <1>1, <1>2, <1>5, TopMoves
<1> QED BY <1>1, <1>3, <1>4, <1>5

\* When one server at most has ended, the first primary lives or is that one.
LEMMA OneEnded ==
    ASSUME Cardinality(Ended) <= 1
    PROVE  Exists(FirstPrimary) \/ Up = Server \ {FirstPrimary}
<1> SUFFICES ASSUME ~Exists(FirstPrimary) PROVE Up = Server \ {FirstPrimary}
    OBVIOUS
<1>1. IsFiniteSet(Ended) /\ Cardinality(Ended) \in Nat
  <2>1. IsFiniteSet(Server)
    BY RingAssumption, FS_Interval DEF Server
  <2>2. Ended \in SUBSET Server
    BY DEF Ended
  <2> QED BY <2>1, <2>2, FS_Subset, FS_CardinalityType
<1>2. {FirstPrimary} \in SUBSET Ended
    BY PoolFacts DEF Ended
<1>3. Cardinality({FirstPrimary}) = 1
    BY FS_Singleton
<1>4. Cardinality({FirstPrimary}) <= Cardinality(Ended)
    BY <1>1, <1>2, FS_Subset
<1>5. Cardinality(Ended) = Cardinality({FirstPrimary})
    BY <1>1, <1>3, <1>4
<1>6. Ended = {FirstPrimary}
    BY <1>1, <1>2, <1>5, FS_Subset
<1> QED BY <1>6 DEF Ended, Up

(***************************************************************************)
(* Until a server is started anew, until two scans of one process overlap  *)
(* and until a second server ends: a primary keeps no watch on another     *)
(* server (handle_connection_election cancels the keepalive, and           *)
(* handle_connection_elected starts none at the server that won).          *)
(***************************************************************************)
THEOREM PrimaryIsFree == SteadySpec => [](boots = 0 => PrimaryWatchesNobody)
<1>1. SteadyInit => (boots = 0 => TopInv)
    BY TopInit
<1>2. /\ TypeOK /\ (boots = 0 => OfficeInv) /\ (boots = 0 => WalkInv) /\ (boots = 0 => TopInv)
      /\ [SteadyNext]_<<vars, raced>>
      => (boots = 0 => TopInv)'
    BY TopNext
<1>3. ASSUME OfficeInv, WalkInv, TopInv PROVE PrimaryWatchesNobody
  <2> SUFFICES ASSUME ~raced, Cardinality(Ended) <= 1,
                      NEW s \in Server, isPrimary[s], NEW k \in Pool
               PROVE  th[s][k].job # "keepalive"
    BY DEF PrimaryWatchesNobody
  <2>1. CASE Exists(FirstPrimary)
    <3>1. s = FirstPrimary /\ th[s][k] = Idle
      BY <1>3, <2>1 DEF OfficeInv, AllWatch
    <3> QED BY <3>1, PoolFacts
  <2>2. CASE ~Exists(FirstPrimary)
    <3>1. Up = Server \ {FirstPrimary} /\ s \in Up
      BY <1>3, <2>2, OneEnded DEF OfficeInv, MainLoops, Up
    <3>2. Top <= s /\ s <= Top
      BY <1>3, <3>1, TopFacts DEF WalkInv
    <3>3. s = Top
      BY <3>2, TopFacts DEF Server
    <3> QED BY <1>3, <3>1, <3>3 DEF TopInv
  <2> QED BY <2>1, <2>2
<1> QED BY <1>1, <1>2, <1>3, OfficeInvariant, WalkInvariant, PTL DEF SteadySpec

=============================================================================
