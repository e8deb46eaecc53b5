----------------------------- MODULE Leadership -----------------------------
(***************************************************************************)
(* What the ring promises while servers join it and none ends: the first   *)
(* member leads, every later member joins under that leader, and the       *)
(* leader never changes.                                                   *)
(***************************************************************************)
CONSTANTS Server, NoLeader

VARIABLES leader, members

vars == <<leader, members>>

Init == leader = NoLeader /\ members = {}

Lead(s) ==
    /\ leader = NoLeader
    /\ leader' = s
    /\ members' = {s}

Join(s) ==
    /\ leader # NoLeader
    /\ s \notin members
    /\ members' = members \cup {s}
    /\ UNCHANGED leader

Next == \E s \in Server : Lead(s) \/ Join(s)

Spec == Init /\ [][Next]_vars

TypeOK == leader \in Server \cup {NoLeader} /\ members \subseteq Server

=============================================================================
