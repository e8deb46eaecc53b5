---------------------------- MODULE FrontEndLink ----------------------------
(***************************************************************************)
(* The front end's connection with the ring of RingElection, composed with *)
(* it: how keep_server_connection finds the primary, asks it to serve the  *)
(* front end, watches it with a keepalive and looks for the next one while *)
(* the servers elect it.  FrontEnd models the rest of the front end and    *)
(* takes a new primary for granted.                                        *)
(***************************************************************************)
EXTENDS RingElection

VARIABLES
    step,   \* where keep_server_connection is
    peer,   \* the server its current socket was connected to
    link,   \* ring->primary_fd: what became of the FE_CONNECTION
    beat    \* ring->keepalive_fd: what became of the KEEPALIVE

feVars == <<step, peer, link, beat>>

\* "stuck" is a scan that never returns.
Step == {"search", "ask", "dial", "greet", "watch", "beat", "stuck"}

FELinkInit ==
    /\ SteadyInit
    /\ step = "search" /\ peer = NoIdx
    /\ link = "none" /\ beat = "none"

-----------------------------------------------------------------------------
(* connect_to_leader.                                                       *)

\* Fault: try the last port only.
TopmostOnly(t) == Listening(t) /\ t = N - 1

\* The scan with self_index = -5: from the last port downwards, round and
\* round until somebody listens.  Nobody else uses this SERVER_RING.
Topmost(t) == Listening(t) /\ \A u \in Server : u > t => ~Listening(u)

Search ==
    /\ step = "search"
    /\ \E t \in Server : Topmost(t) /\ peer' = t
    /\ step' = "ask"
    /\ UNCHANGED <<link, beat>>

\* handle_connection_leader_question at the peer, and the read of its answer.
Answered ==
    /\ step = "ask" /\ Running(peer)
    /\ peer' = primaryIdx[peer]
    /\ step' = "dial"
    /\ UNCHANGED <<link, beat>>

\* The write or the read fails, or read returns 0 and leaves the question in
\* the buffer: "retry", but on a socket that stays connected.  Every connect
\* of the next scan fails with EISCONN, and -5 is no index that ends it.
Unanswered ==
    /\ step = "ask" /\ ~Exists(peer)
    /\ step' = "stuck" /\ peer' = NoIdx
    /\ UNCHANGED <<link, beat>>

\* Connect to the primary.  When that is refused the scan goes on, on the new
\* socket: it has the number of the one closed just before.
DialPrimary ==
    /\ step = "dial"
    /\ IF Listening(peer) THEN step' = "greet" /\ UNCHANGED peer
       ELSE step' = "search" /\ peer' = NoIdx
    /\ UNCHANGED <<link, beat>>

\* Write the FE_CONNECTION; a write that fails retries on a connected socket.
Greet ==
    /\ step = "greet"
    /\ \/ step' = "watch" /\ link' = "sent" /\ UNCHANGED peer
       \/ ~Exists(peer) /\ step' = "stuck" /\ peer' = NoIdx /\ UNCHANGED link
    /\ UNCHANGED beat

-----------------------------------------------------------------------------
(* keep_alive_with_server.                                                  *)

Watch ==
    /\ step = "watch"
    /\ IF Listening(peer)
       THEN step' = "beat" /\ beat' = "sent" /\ UNCHANGED <<peer, link>>
       ELSE step' = "search" /\ peer' = NoIdx /\ link' = "none" /\ UNCHANGED beat

\* A send or read fails once the server has ended or closed the connection.
BeatLost ==
    /\ step = "beat" /\ (~Exists(peer) \/ beat = "closed")
    /\ step' = "search" /\ peer' = NoIdx
    /\ link' = "none" /\ beat' = "none"

-----------------------------------------------------------------------------
(* handle_connection at the server the front end has dialled: only a        *)
(* primary serves a front end or a keepalive, any other closes.             *)

Handled(s) == IF isPrimary[s] THEN "served" ELSE "closed"

ServeFrontEnd ==
    /\ link = "sent" /\ Running(peer)
    /\ link' = Handled(peer)
    /\ UNCHANGED <<step, peer, beat>>

ServeBeat ==
    /\ beat = "sent" /\ Running(peer)
    /\ beat' = Handled(peer)
    /\ UNCHANGED <<step, peer, link>>

FEStep    == Search \/ Answered \/ Unanswered \/ DialPrimary \/ Greet \/ Watch \/ BeatLost
ServeStep == ServeFrontEnd \/ ServeBeat

FELinkNext ==
    \/ SteadyNext /\ UNCHANGED feVars
    \/ (FEStep \/ ServeStep) /\ UNCHANGED <<vars, raced>>

FELinkSpec ==
    /\ FELinkInit
    /\ [][FELinkNext]_<<vars, raced, feVars>>
    /\ Fairness
    /\ WF_feVars(FEStep) /\ WF_feVars(ServeFrontEnd) /\ WF_feVars(ServeBeat)

-----------------------------------------------------------------------------
(***************************************************************************)
(* "It is not primary, should not receive connection with LOGIN type"      *)
(* (server.c:397): whatever the election is doing meanwhile, no server     *)
(* that is not the primary gets the FE_CONNECTION, for the front end would *)
(* not notice that it was turned away.                                     *)
(***************************************************************************)
NeverTurnedAway == link # "closed" /\ beat # "closed"

(***************************************************************************)
(* The front end finds the primary again (keep_server_connection): as long *)
(* as some server leads, it is served again and again - unless scans of    *)
(* the servers overlap, a server ended just when it was asked, or the      *)
(* elected server does not name itself.                                    *)
(***************************************************************************)
Served  == link = "served" /\ Exists(peer)
Led     == \E s \in Server : isPrimary[s]
Unnamed == \E s \in Server : isPrimary[s] /\ primaryIdx[s] # s

FrontEndServed == []<>(Served \/ ~Led \/ raced \/ step = "stuck" \/ Unnamed)

(***************************************************************************)
(* "The above function returns when loses connection with server, so we    *)
(* need to reconnect" (front_end.c:358): once another server leads, the    *)
(* front end is served by it.                                              *)
(***************************************************************************)
FrontEndReconnects == []<>(Served \/ ~Led \/ raced \/ step = "stuck")

(***************************************************************************)
(* "Will retry with another ring search..." (front_end.c:251): the search  *)
(* for the primary never hangs.                                            *)
(***************************************************************************)
SearchGoesOn == step # "stuck"

=============================================================================
