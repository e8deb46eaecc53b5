---------------------------- MODULE RingElection ----------------------------
(***************************************************************************)
(* The ring of ServerRing once it is up: every server runs, server 0 leads *)
(* and all the others keep watching it.  What happens when servers then    *)
(* end.  The scans of a process share next_index: to tell the election     *)
(* algorithm from that data race, a history variable remembers whether two *)
(* threads of one process have ever been between the start of a scan and   *)
(* the use of the next_index it leaves.                                    *)
(***************************************************************************)
EXTENDS ServerRing, FiniteSets

VARIABLE raced  \* have two scans of one process ever overlapped?

\* The servers started one after the other, each once the one before it runs.
FirstPrimary == 0

\* A process has threads to spare for a keepalive.
ASSUME PoolAssumption == Pool # {}

\* Which slot a keepalive thread has does not matter.
WatchSlot == CHOOSE k \in Pool : TRUE

SteadyInit ==
    /\ th = [s \in Server |-> [k \in Tid |->
                IF k = "main" THEN NewThread("boot", "run")
                ELSE IF s # FirstPrimary /\ k = WatchSlot
                     THEN [NewThread("keepalive", "beat") EXCEPT !.sock = FirstPrimary]
                ELSE Idle]]
    /\ kaTid = [s \in Server |-> IF s = FirstPrimary THEN "unset" ELSE WatchSlot]
    /\ isPrimary  = [s \in Server |-> s = FirstPrimary]
    /\ primaryIdx = [s \in Server |-> FirstPrimary]
    /\ inElection = [s \in Server |-> FALSE]
    /\ nextIndex  = [s \in Server |-> IF s = FirstPrimary THEN s ELSE s - 1]
    /\ boots = 0 /\ kills = 0 /\ died = FALSE /\ raced = FALSE

Scanning(s, k) == th[s][k].pc \in {"reset", "advance", "connect", "decide"}
ScansOverlap   == \E s \in Server : \E j, k \in Tid :
                      j # k /\ Scanning(s, j) /\ Scanning(s, k)

SteadyNext == Next /\ raced' = (raced \/ ScansOverlap')

SteadySpec ==
    /\ SteadyInit
    /\ [][SteadyNext]_<<vars, raced>>
    /\ Fairness

-----------------------------------------------------------------------------
(***************************************************************************)
(* An ELECTED message, at the thread that is about to write it or at the   *)
(* handler that received it, names a server that already is the primary,   *)
(* or that has ended since: handle_connection_election sets is_primary     *)
(* before it announces anything.                                           *)
(***************************************************************************)
Announced(s, k) == \/ th[s][k].job = "elected" /\ th[s][k].pc # "resume"
                   \/ th[s][k].msg = "ELECTED"

AnnouncedIsPrimary ==
    \A s \in Server, k \in Tid : Announced(s, k) =>
        LET p == th[s][k].data IN isPrimary[p] \/ ~Exists(p)

(***************************************************************************)
(* Through any number of elections, the server a running server takes for  *)
(* the primary is one, or has ended: no follower is ever pointed at        *)
(* another follower.                                                       *)
(***************************************************************************)
NamedIsPrimary ==
    \A s \in Server : Running(s) => isPrimary[primaryIdx[s]] \/ ~Exists(primaryIdx[s])

(***************************************************************************)
(* Tokens do not circulate for ever: unless scans overlap, once no more    *)
(* servers are killed every start_election thread and every handler of the *)
(* election ends.                                                          *)
(***************************************************************************)
Electing(s) == \E k \in Pool : th[s][k].job \in {"start", "election", "elected"}

ElectionEnds == <>[](raced \/ \A s \in Server : ~Electing(s))

(***************************************************************************)
(* Until two scans overlap, at most one server leads, and whoever is       *)
(* elected is above every server that runs: the largest index wins         *)
(* (handle_connection_election).                                           *)
(***************************************************************************)
HighestWins ==
    ~raced => /\ AtMostOnePrimary
              /\ \A s, t \in Server :
                    isPrimary[s] /\ s # FirstPrimary /\ Running(t) => t <= s

Ended == {s \in Server : ~Exists(s)}

(***************************************************************************)
(* A primary keeps no watch on another server: unless scans overlap or a   *)
(* second server ends, the keepalive it had as a follower has ended or     *)
(* been cancelled, and its late handlers start none.                       *)
(***************************************************************************)
PrimaryWatchesNobody ==
    ~raced /\ Cardinality(Ended) <= 1 =>
        \A s \in Server : isPrimary[s] => \A k \in Pool : th[s][k].job # "keepalive"

(***************************************************************************)
(* "Cancel my keep alive, because we are in an election" (server.c:671):   *)
(* through all the elections there is a keepalive_tid to cancel, because   *)
(* the one server that never set its own is not asked to vote while it     *)
(* lives.                                                                  *)
(***************************************************************************)
VotersWatched ==
    \A s \in Server, k \in Pool : th[s][k].job = "election" => kaTid[s] # "unset"

(***************************************************************************)
(* A dead primary is replaced: unless scans overlap or a second server     *)
(* ends (it may hold the only token, and no timer starts the election      *)
(* again), some server leads again and again (server_ring.c:205, "Master   *)
(* is dead, need to start an election").                                   *)
(***************************************************************************)
SomeoneLeads ==
    []<>(raced \/ Cardinality(Ended) > 1 \/ \E s \in Server : isPrimary[s])

(***************************************************************************)
(* "Went all the list around and couldn't connect to anyone, so I'm the    *)
(* primary" (server_ring.c:257): a thread that concludes so from           *)
(* next_index holds no connection to another server.                       *)
(***************************************************************************)
AloneMeansUnconnected ==
    \A s \in Server, k \in Tid :
        th[s][k].pc = "decide" /\ nextIndex[s] = s => th[s][k].sock = NoIdx

(***************************************************************************)
(* "Received an ELECTED message, stating that I'm the leader, so everyone  *)
(* agrees now" (server.c:768): by then the leader, too, names itself.      *)
(***************************************************************************)
EveryoneAgrees ==
    \A s \in Server, k \in Pool :
        /\ At(s, k, "elected", "begin") /\ th[s][k].data = s
        /\ isPrimary[s]
        => primaryIdx[s] = s

(***************************************************************************)
(* "I'm already primary, but someone doesn't know, telling them"           *)
(* (server.c:677): a server that is in an election without being the       *)
(* primary does not stay in it for ever.                                   *)
(***************************************************************************)
LatecomersLearn ==
    \A s \in Server : inElection[s] /\ ~isPrimary[s] ~> ~inElection[s] \/ isPrimary[s]

=============================================================================
