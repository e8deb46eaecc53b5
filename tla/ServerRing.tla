----------------------------- MODULE ServerRing -----------------------------
(***************************************************************************)
(* The replica managers of Sisopper and the ring they form: how a server   *)
(* process joins (bind, listen, look for the next server, ask who leads),  *)
(* how a follower watches the primary with a keepalive, and how a new      *)
(* primary is elected when the keepalive breaks.                           *)
(*                                                                         *)
(* A server is the index of the port it binds; at most one process owns an *)
(* index.  Every thread of a process is a slot of th[s]: the main thread,  *)
(* the keepalive thread, a start_election thread, or the handler of one    *)
(* accepted connection.  A message is a connection of its own, so sending  *)
(* one creates its handler thread at the receiver: messages are unordered  *)
(* and their handlers interleave.                                          *)
(***************************************************************************)
EXTENDS Integers

CONSTANTS
    N,         \* number of ports in AVAILABLE_PORTS
    Pool,      \* thread slots of a process, besides its main thread
    MaxBoots,  \* bound: processes started
    MaxKills,  \* bound: processes killed from outside
    Resets     \* may a process end with unread data, so that its peers see a
               \* reset connection instead of one that is merely closed?

ASSUME RingAssumption == /\ N \in Nat /\ N >= 2
                         /\ MaxBoots \in Nat /\ MaxKills \in Nat
                         /\ "main" \notin Pool /\ "unset" \notin Pool
                         /\ Resets \in BOOLEAN

Server == 0 .. N - 1
Tid    == Pool \cup {"main"}

NoIdx == -1   \* an index or a socket that is not set
Gone  == -2   \* a socket whose peer process has ended

Job == {"none", "boot", "keepalive", "start", "election", "elected"}
Pc  == {"idle", "bound", "wait", "run",               \* main thread
        "dial", "greet", "beat", "hungup",            \* keepalive thread
        "begin", "check", "enter", "resume",          \* start_election and handlers
        "reset", "advance", "connect", "decide", "lead", "send"}

VARIABLES
    th,         \* th[s][k]: thread k of the process at index s
    isPrimary,  \* ring->is_primary
    primaryIdx, \* ring->primary_idx
    inElection, \* ring->in_election
    nextIndex,  \* ring->next_index, shared by all the threads of the process
    kaTid,      \* ring->keepalive_tid: a slot, or "unset" before pthread_create
    boots,      \* processes started so far
    kills,      \* processes killed so far
    died        \* has any process ended, killed or by an exit() of its own?

ringVars == <<isPrimary, primaryIdx, inElection, nextIndex, kaTid>>
envVars  == <<boots, kills, died>>
vars     == <<th, ringVars, envVars>>

(***************************************************************************)
(* A thread: what it executes, where it is, the type of the NOTIFICATION   *)
(* it is going to write and its data field, the address it computed last,  *)
(* and the peer of its socket.                                             *)
(***************************************************************************)
Thread == [job : Job, pc : Pc, msg : {"none", "ELECTION", "ELECTED"},
           data : Server \cup {NoIdx}, addr : Server \cup {NoIdx},
           sock : Server \cup {NoIdx, Gone}]

NewThread(j, l) ==
    [job |-> j, pc |-> l, msg |-> "none", data |-> NoIdx, addr |-> NoIdx, sock |-> NoIdx]

Idle == NewThread("none", "idle")

Exists(s)    == th[s]["main"].pc # "idle"
Running(s)   == th[s]["main"].pc = "run"      \* in the accept loop
Free(s)      == {k \in Pool : th[s][k].job = "none"}

\* Fault: listen() only after the ring is joined.
ListeningLate(s) == Running(s)

Listening(s) == Exists(s) /\ th[s]["main"].pc # "bound"

At(s, k, j, l) == th[s][k].job = j /\ th[s][k].pc = l

\* Fault: wrap around to the number of ports.
NextIdxFar(i) == IF i - 1 >= 0 THEN i - 1 ELSE N

\* server_ring_get_next_index: the ring is walked downwards, with wrap-around.
NextIdx(i) == IF i - 1 >= 0 THEN i - 1 ELSE N - 1

(***************************************************************************)
(* The process at index s ends: its threads and its ring are lost and the  *)
(* sockets connected to it are broken.  t0 is the table of threads it      *)
(* leaves behind.                                                          *)
(***************************************************************************)
Die(s, t0) ==
    /\ th' = [t \in Server |-> [k \in Tid |->
                IF t = s THEN Idle
                ELSE IF t0[t][k].sock = s THEN [t0[t][k] EXCEPT !.sock = Gone]
                ELSE t0[t][k]]]
    /\ isPrimary'  = [isPrimary  EXCEPT ![s] = FALSE]
    /\ primaryIdx' = [primaryIdx EXCEPT ![s] = NoIdx]
    /\ inElection' = [inElection EXCEPT ![s] = FALSE]
    /\ nextIndex'  = [nextIndex  EXCEPT ![s] = NoIdx]
    /\ kaTid'      = [kaTid      EXCEPT ![s] = "unset"]
    /\ died' = TRUE

Exit(s) == Die(s, th) /\ UNCHANGED <<boots, kills>>

Init ==
    /\ th = [s \in Server |-> [k \in Tid |-> Idle]]
    /\ isPrimary  = [s \in Server |-> FALSE]
    /\ primaryIdx = [s \in Server |-> NoIdx]
    /\ inElection = [s \in Server |-> FALSE]
    /\ nextIndex  = [s \in Server |-> NoIdx]
    /\ kaTid      = [s \in Server |-> "unset"]
    /\ boots = 0 /\ kills = 0 /\ died = FALSE

-----------------------------------------------------------------------------
(* server_ring_connect_with_next_server, by any thread of the process.  The *)
(* three accesses to the shared next_index are steps of their own.          *)

ScanReset(s, k) ==
    /\ th[s][k].pc = "reset"
    /\ nextIndex' = [nextIndex EXCEPT ![s] = s]
    /\ th' = [th EXCEPT ![s][k].pc = "advance"]
    /\ UNCHANGED <<isPrimary, primaryIdx, inElection, kaTid, envVars>>

ScanAdvance(s, k) ==
    /\ th[s][k].pc = "advance"
    /\ nextIndex' = [nextIndex EXCEPT ![s] = NextIdx(nextIndex[s])]
    /\ th' = [th EXCEPT ![s][k].pc = "connect", ![s][k].addr = NextIdx(nextIndex[s])]
    /\ UNCHANGED <<isPrimary, primaryIdx, inElection, kaTid, envVars>>

\* The loop condition: back at our own index, connected, or refused.
ScanConnect(s, k) ==
    /\ th[s][k].pc = "connect"
    /\ \/ /\ nextIndex[s] = s
          /\ th' = [th EXCEPT ![s][k].pc = "decide", ![s][k].addr = NoIdx]
       \/ /\ nextIndex[s] # s
          /\ Listening(th[s][k].addr)
          /\ th' = [th EXCEPT ![s][k].pc = "decide", ![s][k].addr = NoIdx,
                              ![s][k].sock = th[s][k].addr]
       \/ /\ nextIndex[s] # s
          /\ ~Listening(th[s][k].addr)
          /\ th' = [th EXCEPT ![s][k].pc = "advance", ![s][k].addr = NoIdx]
    /\ UNCHANGED <<ringVars, envVars>>

Scan(s, k) == ScanReset(s, k) \/ ScanAdvance(s, k) \/ ScanConnect(s, k)

-----------------------------------------------------------------------------
(* Joining the ring: main, server_ring_connect and what it calls.           *)

\* server_ring_initialize and server_ring_bind: the first port nobody owns.
Boot(s) ==
    /\ boots < MaxBoots
    /\ ~Exists(s)
    /\ \A t \in Server : t < s => Exists(t)
    /\ th' = [th EXCEPT ![s]["main"] = NewThread("boot", "bound")]
    /\ boots' = boots + 1
    /\ UNCHANGED <<ringVars, kills, died>>

\* A listen that fails ends the process here, which to the others is a Kill here.
Listen(s) ==
    /\ At(s, "main", "boot", "bound")
    /\ th' = [th EXCEPT ![s]["main"].pc = "reset"]
    /\ UNCHANGED <<ringVars, envVars>>

\* Fault: lead without looking at next_index.
BootAloneAlways(s) ==
    /\ At(s, "main", "boot", "decide")
    /\ isPrimary'  = [isPrimary  EXCEPT ![s] = TRUE]
    /\ primaryIdx' = [primaryIdx EXCEPT ![s] = s]
    /\ th' = [th EXCEPT ![s]["main"].pc = "run"]
    /\ UNCHANGED <<inElection, nextIndex, kaTid, envVars>>

\* Nobody answered: the only server is the primary.
BootAlone(s) ==
    /\ At(s, "main", "boot", "decide")
    /\ nextIndex[s] = s
    /\ isPrimary'  = [isPrimary  EXCEPT ![s] = TRUE]
    /\ primaryIdx' = [primaryIdx EXCEPT ![s] = s]
    /\ th' = [th EXCEPT ![s]["main"].pc = "run"]
    /\ UNCHANGED <<inElection, nextIndex, kaTid, envVars>>

\* Fault: the server that was asked may end, and nobody notices.
BootUnansweredNot(s) == FALSE

\* Write the LEADER_QUESTION, then block in read().
BootAsk(s) ==
    /\ At(s, "main", "boot", "decide")
    /\ nextIndex[s] # s
    /\ \/ /\ th[s]["main"].sock # Gone
          /\ th' = [th EXCEPT ![s]["main"].pc = "wait"]
          /\ UNCHANGED <<ringVars, envVars>>
       \/ /\ th[s]["main"].sock = Gone
          /\ Exit(s)

\* handle_connection_leader_question at t, once t accepts connections.
AnswerLeaderQuestion(t, s) ==
    /\ Running(t)
    /\ At(s, "main", "boot", "wait")
    /\ th[s]["main"].sock = t
    /\ th[s]["main"].data = NoIdx
    /\ th' = [th EXCEPT ![s]["main"].data = primaryIdx[t]]
    /\ UNCHANGED <<ringVars, envVars>>

\* The answer is read: start watching the primary and accept connections.
BootFollow(s) ==
    /\ At(s, "main", "boot", "wait")
    /\ th[s]["main"].data # NoIdx
    /\ primaryIdx' = [primaryIdx EXCEPT ![s] = th[s]["main"].data]
    /\ \E k \in Free(s) :
        /\ kaTid' = [kaTid EXCEPT ![s] = k]
        /\ th' = [th EXCEPT ![s]["main"] = NewThread("boot", "run"),
                            ![s][k] = NewThread("keepalive", "dial")]
    /\ UNCHANGED <<isPrimary, inElection, nextIndex, envVars>>

\* The connection ended without an answer: exit(ERROR_LOOKING_FOR_LEADER).
BootUnanswered(s) ==
    /\ At(s, "main", "boot", "wait")
    /\ th[s]["main"].data = NoIdx
    /\ th[s]["main"].sock = Gone
    /\ Exit(s)

-----------------------------------------------------------------------------
(* The keepalive between a follower and the primary it knows.               *)

\* Connect to primary_idx; a refused connection ends the process.
KeepaliveDial(s, k) ==
    /\ At(s, k, "keepalive", "dial")
    /\ \/ /\ Listening(primaryIdx[s])
          /\ th' = [th EXCEPT ![s][k].pc = "greet", ![s][k].sock = primaryIdx[s]]
          /\ UNCHANGED <<ringVars, envVars>>
       \/ /\ ~Listening(primaryIdx[s])
          /\ Exit(s)

\* handle_connection at the dialled server: only a primary serves keepalives,
\* any other server closes the connection.  The tables that it sends to a new
\* server first (send_initial_replication) are in Replication.
KeepaliveServe(s, k) ==
    /\ At(s, k, "keepalive", "greet")
    /\ th[s][k].sock \in Server
    /\ Running(th[s][k].sock)
    /\ th' = [th EXCEPT ![s][k].pc = IF isPrimary[th[s][k].sock] THEN "beat" ELSE "hungup"]
    /\ UNCHANGED <<ringVars, envVars>>

\* Fault: a late answer is taken for the end of the primary.
KeepaliveLostEarly(s, k) ==
    /\ th[s][k].job = "keepalive" /\ th[s][k].pc # "dial"
    /\ th' = [th EXCEPT ![s][k] = NewThread("start", "begin")]
    /\ UNCHANGED <<ringVars, envVars>>

\* The next send fails with EPIPE: the thread ends, start_election begins.
\* When the peer died with our data unread, read fails instead and we exit.
KeepaliveLost(s, k) ==
    /\ th[s][k].job = "keepalive"
    /\ \/ /\ th[s][k].pc = "hungup" \/ th[s][k].sock = Gone
          /\ th' = [th EXCEPT ![s][k] = NewThread("start", "begin")]
          /\ UNCHANGED <<ringVars, envVars>>
       \/ /\ th[s][k].pc # "hungup" /\ th[s][k].sock = Gone /\ Resets
          /\ Exit(s)

-----------------------------------------------------------------------------
(* Sending a message: the receiver gets a handler thread for it.            *)

Delivered(t0, t, r) ==
    \E j \in Free(t) :
        th' = [t0 EXCEPT ![t][j] = [NewThread(r[1], "begin") EXCEPT !.data = r[2]]]

\* The job of the thread that will handle the message th[s][k] writes.
Outgoing(s, k) ==
    <<IF th[s][k].msg = "ELECTION" THEN "election" ELSE "elected", th[s][k].data>>

\* write() on the scanned socket; then the thread continues as c.  On a
\* socket that never connected the process ends; on a broken one it ends or
\* the message is lost.
Send(s, k, c) ==
    /\ th[s][k].pc = "send"
    /\ \/ /\ th[s][k].sock \in Server
          /\ Delivered([th EXCEPT ![s][k] = c], th[s][k].sock, Outgoing(s, k))
          /\ UNCHANGED <<ringVars, envVars>>
       \/ /\ th[s][k].sock = Gone
          /\ th' = [th EXCEPT ![s][k] = c]
          /\ UNCHANGED <<ringVars, envVars>>
       \/ /\ th[s][k].sock = NoIdx \/ (th[s][k].sock = Gone /\ Resets)
          /\ Exit(s)

\* Fault: lead whoever the scan found.
LeadAnyway(s, k) ==
    /\ isPrimary' = [isPrimary EXCEPT ![s] = TRUE]
    /\ th' = [th EXCEPT ![s][k].pc = "lead"]
    /\ UNCHANGED <<primaryIdx, inElection, nextIndex, kaTid, envVars>>

\* Nobody to talk to: become the primary, and only then leave the election.
LeadAlone(s, k) ==
    /\ nextIndex[s] = s
    /\ isPrimary' = [isPrimary EXCEPT ![s] = TRUE]
    /\ th' = [th EXCEPT ![s][k].pc = "lead"]
    /\ UNCHANGED <<primaryIdx, inElection, nextIndex, kaTid, envVars>>

LeadSettle(s, k) ==
    /\ th[s][k].pc = "lead"
    /\ inElection' = [inElection EXCEPT ![s] = FALSE]
    /\ primaryIdx' = [primaryIdx EXCEPT ![s] = s]
    /\ th' = [th EXCEPT ![s][k] = Idle]
    /\ UNCHANGED <<isPrimary, nextIndex, kaTid, envVars>>

GoOnToSend(s, k) ==
    /\ nextIndex[s] # s
    /\ th' = [th EXCEPT ![s][k].pc = "send"]
    /\ UNCHANGED <<ringVars, envVars>>

-----------------------------------------------------------------------------
(* start_election.                                                          *)

StartBegin(s, k) ==
    /\ At(s, k, "start", "begin")
    /\ \/ /\ ~inElection[s]
          /\ inElection' = [inElection EXCEPT ![s] = TRUE]
          /\ th' = [th EXCEPT ![s][k] =
                [NewThread("start", "reset") EXCEPT !.msg = "ELECTION", !.data = s]]
       \/ /\ inElection[s]
          /\ th' = [th EXCEPT ![s][k] = Idle]
          /\ UNCHANGED inElection
    /\ UNCHANGED <<isPrimary, primaryIdx, nextIndex, kaTid, envVars>>

StartDecide(s, k) ==
    /\ At(s, k, "start", "decide")
    /\ LeadAlone(s, k) \/ GoOnToSend(s, k)

StartSend(s, k) == th[s][k].job = "start" /\ Send(s, k, Idle)

StartElection(s, k) == StartBegin(s, k) \/ StartDecide(s, k) \/ StartSend(s, k)

-----------------------------------------------------------------------------
(* handle_connection_election.                                              *)

\* Fault: the keepalive thread is never cancelled.
CancelledNot(s) == th

\* pthread_cancel(keepalive_tid): no effect on a thread that has ended.
Cancelled(s) ==
    IF kaTid[s] \in Pool /\ th[s][kaTid[s]].job = "keepalive"
    THEN [th EXCEPT ![s][kaTid[s]] = Idle]
    ELSE th

\* Cancel the keepalive.  A primary answers on a socket nobody reads.  On a
\* process that never had a keepalive thread the cancelled pthread_t is an
\* uninitialized value: the process may end.
ElectionBegin(s, k) ==
    /\ At(s, k, "election", "begin")
    /\ Running(s)
    /\ \/ /\ isPrimary[s]
          /\ th' = [Cancelled(s) EXCEPT ![s][k] = Idle]
          /\ UNCHANGED <<ringVars, envVars>>
       \/ /\ ~isPrimary[s]
          /\ th' = [Cancelled(s) EXCEPT ![s][k].pc = "check"]
          /\ UNCHANGED <<ringVars, envVars>>
       \/ /\ kaTid[s] = "unset"
          /\ Exit(s)

\* Fault: drop our own token too.
ElectionCheckOwn(s, k) ==
    /\ At(s, k, "election", "check")
    /\ th' = [th EXCEPT ![s][k] =
                IF th[s][k].data <= s /\ inElection[s] THEN Idle
                ELSE [th[s][k] EXCEPT !.pc = "enter"]]
    /\ UNCHANGED <<ringVars, envVars>>

\* First critical section: drop a smaller candidate while electing.
ElectionCheck(s, k) ==
    /\ At(s, k, "election", "check")
    /\ th' = [th EXCEPT ![s][k] =
                IF th[s][k].data < s /\ inElection[s] THEN Idle
                ELSE [th[s][k] EXCEPT !.pc = "enter"]]
    /\ UNCHANGED <<ringVars, envVars>>

\* Faults: take office only later; keep the smaller candidate; never
\* recognise our own token.
ElectionEnterLate(s, k) ==
    /\ At(s, k, "election", "enter")
    /\ inElection' = [inElection EXCEPT ![s] = TRUE]
    /\ th' = [th EXCEPT ![s][k].pc = "reset",
                ![s][k].msg = IF th[s][k].data = s THEN "ELECTED" ELSE "ELECTION",
                ![s][k].data = IF s > th[s][k].data THEN s ELSE th[s][k].data]
    /\ UNCHANGED <<isPrimary, primaryIdx, nextIndex, kaTid, envVars>>

ElectionEnterMin(s, k) ==
    /\ At(s, k, "election", "enter")
    /\ inElection' = [inElection EXCEPT ![s] = TRUE]
    /\ isPrimary' = [isPrimary EXCEPT ![s] = isPrimary[s] \/ th[s][k].data = s]
    /\ th' = [th EXCEPT ![s][k].pc = "reset",
                ![s][k].msg = IF th[s][k].data = s THEN "ELECTED" ELSE "ELECTION",
                ![s][k].data = IF s < th[s][k].data THEN s ELSE th[s][k].data]
    /\ UNCHANGED <<primaryIdx, nextIndex, kaTid, envVars>>

ElectionEnterBlind(s, k) ==
    /\ At(s, k, "election", "enter")
    /\ inElection' = [inElection EXCEPT ![s] = TRUE]
    /\ th' = [th EXCEPT ![s][k].pc = "reset", ![s][k].msg = "ELECTION",
                ![s][k].data = IF s > th[s][k].data THEN s ELSE th[s][k].data]
    /\ UNCHANGED <<isPrimary, primaryIdx, nextIndex, kaTid, envVars>>

\* Second critical section: our own index came back, or pass the larger one.
ElectionEnter(s, k) ==
    /\ At(s, k, "election", "enter")
    /\ inElection' = [inElection EXCEPT ![s] = TRUE]
    /\ \/ /\ th[s][k].data = s
          /\ isPrimary' = [isPrimary EXCEPT ![s] = TRUE]
          /\ th' = [th EXCEPT ![s][k].pc = "reset", ![s][k].msg = "ELECTED"]
       \/ /\ th[s][k].data # s
          /\ th' = [th EXCEPT ![s][k].pc = "reset", ![s][k].msg = "ELECTION",
                    ![s][k].data = IF s > th[s][k].data THEN s ELSE th[s][k].data]
          /\ UNCHANGED isPrimary
    /\ UNCHANGED <<primaryIdx, nextIndex, kaTid, envVars>>

ElectionDecide(s, k) ==
    /\ At(s, k, "election", "decide")
    /\ LeadAlone(s, k) \/ GoOnToSend(s, k)

ElectionSend(s, k) == th[s][k].job = "election" /\ Send(s, k, Idle)

HandleElection(s, k) ==
    \/ ElectionBegin(s, k) \/ ElectionCheck(s, k) \/ ElectionEnter(s, k)
    \/ ElectionDecide(s, k) \/ ElectionSend(s, k)

-----------------------------------------------------------------------------
(* handle_connection_elected.                                               *)

\* Ignore our own announcement, or one that finds us out of any election.
ElectedBegin(s, k) ==
    /\ At(s, k, "elected", "begin")
    /\ Running(s)
    /\ th' = [th EXCEPT ![s][k] =
                IF th[s][k].data = s \/ ~inElection[s] THEN Idle
                ELSE [th[s][k] EXCEPT !.pc = "enter"]]
    /\ UNCHANGED <<ringVars, envVars>>

ElectedAdopt(s, k) ==
    /\ At(s, k, "elected", "enter")
    /\ primaryIdx' = [primaryIdx EXCEPT ![s] = th[s][k].data]
    /\ inElection' = [inElection EXCEPT ![s] = FALSE]
    /\ th' = [th EXCEPT ![s][k].pc = "reset", ![s][k].msg = "ELECTED"]
    /\ UNCHANGED <<isPrimary, nextIndex, kaTid, envVars>>

\* Alone without being the leader: exit(ERROR_ACCEPTING_CONNECTION).
ElectedDecide(s, k) ==
    /\ At(s, k, "elected", "decide")
    /\ \/ nextIndex[s] = s /\ Exit(s)
       \/ GoOnToSend(s, k)

ElectedSend(s, k) ==
    /\ th[s][k].job = "elected"
    /\ Send(s, k, NewThread("elected", "resume"))

\* Watch the new primary: the handler ends in pthread_create.
ElectedResume(s, k) ==
    /\ At(s, k, "elected", "resume")
    /\ kaTid' = [kaTid EXCEPT ![s] = k]
    /\ th' = [th EXCEPT ![s][k] = NewThread("keepalive", "dial")]
    /\ UNCHANGED <<isPrimary, primaryIdx, inElection, nextIndex, envVars>>

HandleElected(s, k) ==
    \/ ElectedBegin(s, k) \/ ElectedAdopt(s, k) \/ ElectedDecide(s, k)
    \/ ElectedSend(s, k) \/ ElectedResume(s, k)

-----------------------------------------------------------------------------
\* A process is killed, or ended by SIGINT.
Kill(s) ==
    /\ kills < MaxKills
    /\ Exists(s)
    /\ kills' = kills + 1
    /\ Die(s, th)
    /\ UNCHANGED boots

MainStep(s) ==
    \/ Scan(s, "main") \/ Listen(s) \/ BootAlone(s) \/ BootAsk(s) \/ BootFollow(s) \/ BootUnanswered(s)
    \/ \E t \in Server : AnswerLeaderQuestion(t, s)

KeepaliveStep(s, k) == KeepaliveDial(s, k) \/ KeepaliveServe(s, k) \/ KeepaliveLost(s, k)

\* One step of a thread other than main.
ThreadStep(s, k) ==
    \/ Scan(s, k) \/ LeadSettle(s, k)
    \/ KeepaliveStep(s, k) \/ StartElection(s, k)
    \/ HandleElection(s, k) \/ HandleElected(s, k)

Next ==
    \E s \in Server :
        \/ Boot(s) \/ Kill(s) \/ MainStep(s)
        \/ \E k \in Pool : ThreadStep(s, k)

Spec == Init /\ [][Next]_vars

(***************************************************************************)
(* The scheduler runs every thread that can take a step; processes start   *)
(* and get killed when they please.                                        *)
(***************************************************************************)
Fairness == \A s \in Server :
    /\ WF_vars(MainStep(s))
    /\ \A k \in Pool : WF_vars(ThreadStep(s, k))

FairSpec == Spec /\ Fairness

-----------------------------------------------------------------------------
TypeOK ==
    /\ th \in [Server -> [Tid -> Thread]]
    /\ isPrimary  \in [Server -> BOOLEAN]
    /\ primaryIdx \in [Server -> Server \cup {NoIdx}]
    /\ inElection \in [Server -> BOOLEAN]
    /\ nextIndex  \in [Server -> Server \cup {NoIdx}]
    /\ kaTid \in [Server -> Pool \cup {"unset"}]
    /\ boots \in 0 .. MaxBoots /\ kills \in 0 .. MaxKills /\ died \in BOOLEAN

AtMostOnePrimary == \A s, t \in Server : isPrimary[s] /\ isPrimary[t] => s = t

(***************************************************************************)
(* As long as no process has ended, however many servers boot at once:     *)
(* at most one of them becomes the primary, and whoever has found its way  *)
(* into the accept loop knows the one that did.  It rests on each server   *)
(* listening before it scans: of two servers that start together, each     *)
(* with its own full scan, at least one finds the other.                   *)
(***************************************************************************)
BootSafety ==
    ~died => /\ AtMostOnePrimary
             /\ \A s \in Server : Running(s) =>
                    primaryIdx[s] \in Server /\ isPrimary[primaryIdx[s]]

(***************************************************************************)
(* A server that boots gets through: it finds a server, hears who leads    *)
(* and accepts connections, or ends, whoever is killed meanwhile.  Only    *)
(* servers that boot at once can be kept for ever: each has asked another  *)
(* of them, and none answers before it has its own answer                  *)
(* (server_ring_connect_with_ring, main).                                  *)
(***************************************************************************)
Booting(s) == Exists(s) /\ ~Running(s)

Asks(s, D) == At(s, "main", "boot", "wait") /\ th[s]["main"].data = NoIdx /\ th[s]["main"].sock \in D
WaitsInRing(s) == \E D \in SUBSET Server : s \in D /\ \A t \in D : Asks(t, D)

BootsGetThrough == \A s \in Server : Booting(s) ~> ~Booting(s) \/ WaitsInRing(s)

(***************************************************************************)
(* The comment of main's accept loop (server.c:95): every server gets to   *)
(* the loop that keeps accepting connections.                              *)
(***************************************************************************)
EveryBootAccepts == \A s \in Server : Booting(s) ~> Running(s)

(***************************************************************************)
(* Until a process ends the ring implements Leadership: its members are    *)
(* the servers that accept connections, its leader the primary.            *)
(***************************************************************************)
Members == {s \in Server : Running(s)}
Leader  == IF \E s \in Server : isPrimary[s]
           THEN CHOOSE s \in Server : isPrimary[s] ELSE NoIdx

Ring == INSTANCE Leadership
            WITH NoLeader <- NoIdx, leader <- Leader, members <- Members

ImplementsLeadership == Ring!Init /\ [][died' \/ Ring!Next]_(Ring!vars)

=============================================================================
