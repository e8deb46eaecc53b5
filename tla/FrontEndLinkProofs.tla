------------------------- MODULE FrontEndLinkProofs -------------------------
(***************************************************************************)
(* The front end's link, for any number of servers: no server that is not  *)
(* the primary gets its FE_CONNECTION or its KEEPALIVE.  The argument is   *)
(* that of RingElectionProofs - who has led, leads until it ends - carried *)
(* to the one process that is not in the ring.                             *)
(***************************************************************************)
EXTENDS FrontEndLink, RingElectionProofs

-----------------------------------------------------------------------------
(***************************************************************************)
(* Why, as long as no server is started anew: what a running server        *)
(* answers has led, and whoever has led leads until it ends.  The front    *)
(* end writes only to servers it has been pointed at so.                   *)
(***************************************************************************)
LinkInv ==
    /\ step \in Step
    /\ step = "ask" => peer \in Server
    /\ step \in {"dial", "greet", "watch", "beat"} => peer \in LedOrEnded
    /\ link \in {"none", "sent", "served"} /\ (link # "none" => step \in {"watch", "beat"})
    /\ beat \in {"none", "sent", "served"} /\ (beat # "none" => step = "beat")

-----------------------------------------------------------------------------
\* The ring's steps do not depend on the front end.
LEMMA RingPart == [FELinkNext]_<<vars, raced, feVars>> => [SteadyNext]_<<vars, raced>>
    BY DEF FELinkNext

\* Who is in LedOrEnded stays there, as long as no server is started anew.
LEMMA LedStay ==
    ASSUME TypeOK, boots = 0 => OfficeInv, [Next]_vars, boots' = 0
    PROVE  LedOrEnded \subseteq LedOrEnded'
<1>1. CASE UNCHANGED vars
    BY <1>1 DEF vars, ringVars, envVars, LedOrEnded, Exists
<1>2. ASSUME NEW s \in Server, Die(s, th)
      PROVE  LedOrEnded \subseteq LedOrEnded'
    BY <1>2, DoesDie DEF DieMoves
<1>3. ASSUME NEW s \in Server, NEW k \in Pool, ThreadMoves(s, k)
      PROVE  LedOrEnded \subseteq LedOrEnded'
    BY <1>3, MovesFrame
<1> QED BY <1>1, <1>2, <1>3, SteadyDoes

\* What a running server answers, or is asked to handle.
LEMMA RunningLeads ==
    ASSUME OfficeInv, NEW s \in Server, Running(s)
    PROVE  /\ primaryIdx[s] \in LedOrEnded
           /\ s \in LedOrEnded => isPrimary[s]
    BY DEF OfficeInv, MainLoops, LedOrEnded, Running, Exists

LEMMA LinkInit == FELinkInit => LinkInv
    BY DEF FELinkInit, LinkInv, Step

LEMMA LinkStep ==
    ASSUME OfficeInv, LinkInv, FEStep \/ ServeStep, UNCHANGED <<vars, raced>>
    PROVE  LinkInv'
<1> USE DEF LinkInv
<1>1. LedOrEnded' = LedOrEnded
    BY DEF vars, ringVars, envVars, LedOrEnded, Exists
<1>2. LedOrEnded \subseteq Server
    BY DEF LedOrEnded
<1>3. CASE Search
    BY <1>3 DEF Search, Step
<1>4. CASE Answered
    BY <1>1, <1>4, RunningLeads DEF Answered, Step
<1>5. CASE Unanswered
    BY <1>5 DEF Unanswered, Step
<1>6. CASE DialPrimary
    BY <1>1, <1>6 DEF DialPrimary, Step
<1>7. CASE Greet
    BY <1>1, <1>7 DEF Greet, Step
<1>8. CASE Watch
    BY <1>1, <1>8 DEF Watch, Step
<1>9. CASE BeatLost
    BY <1>9 DEF BeatLost, Step
<1>10. CASE ServeFrontEnd
  <2>1. peer \in LedOrEnded /\ Running(peer)
    BY <1>10 DEF ServeFrontEnd
  <2>2. isPrimary[peer]
    BY <1>2, <2>1, RunningLeads
  <2> QED BY <1>1, <1>10, <2>2 DEF ServeFrontEnd, Handled
<1>11. CASE ServeBeat
  <2>1. peer \in LedOrEnded /\ Running(peer)
    BY <1>11 DEF ServeBeat
  <2>2. isPrimary[peer]
    BY <1>2, <2>1, RunningLeads
  <2> QED BY <1>1, <1>11, <2>2 DEF ServeBeat, Handled
<1> QED BY <1>3, <1>4, <1>5, <1>6, <1>7, <1>8, <1>9, <1>10, <1>11 DEF FEStep, ServeStep

LEMMA LinkNext ==
    ASSUME TypeOK, boots = 0 => OfficeInv, boots = 0 => LinkInv,
           [FELinkNext]_<<vars, raced, feVars>>
    PROVE  (boots = 0 => LinkInv)'
<1> SUFFICES ASSUME boots' = 0 PROVE LinkInv'
    OBVIOUS
<1>1. [Next]_vars
    BY RingPart, SteadyStep
<1>2. boots = 0
    BY <1>1, SteadyDoes
<1>3. CASE UNCHANGED feVars
    BY <1>1, <1>2, <1>3, LedStay DEF feVars, LinkInv
<1>4. CASE (FEStep \/ ServeStep) /\ UNCHANGED <<vars, raced>>
    BY <1>2, <1>4, LinkStep
<1> QED BY <1>3, <1>4 DEF FELinkNext

(***************************************************************************)
(* Until a server is started anew: wherever the front end's messages are   *)
(* when servers end and others are elected, they are handled by a primary  *)
(* (server.c:397; connect_to_leader, keep_alive_with_server).              *)
(***************************************************************************)
THEOREM NobodyTurnsAway == FELinkSpec => [](boots = 0 => NeverTurnedAway)
<1>1. FELinkInit => TypeOK /\ (boots = 0 => OfficeInv) /\ (boots = 0 => LinkInv)
    BY SteadyTypeInit, OfficeInit, LinkInit DEF FELinkInit
<1>2. /\ TypeOK /\ (boots = 0 => OfficeInv) /\ (boots = 0 => LinkInv)
      /\ [FELinkNext]_<<vars, raced, feVars>>
      => (TypeOK /\ (boots = 0 => OfficeInv) /\ (boots = 0 => LinkInv))'
    BY RingPart, SteadyStep, TypeNext, OfficeNext, LinkNext
<1>3. LinkInv => NeverTurnedAway
    BY DEF LinkInv, NeverTurnedAway
<1> QED BY <1>1, <1>2, <1>3, PTL DEF FELinkSpec

=============================================================================
