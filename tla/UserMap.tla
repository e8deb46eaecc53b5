------------------------------- MODULE UserMap -------------------------------
(***************************************************************************)
(* What a table of users promises to whoever uses it: a map from names to  *)
(* lists of followers, to which users and followers are added one at a     *)
(* time and from which nothing is ever taken away.                         *)
(***************************************************************************)
EXTENDS Sequences

CONSTANT User

VARIABLE map   \* the followers of every known user, in order

Init == map = <<>>

Insert(u) ==
    /\ u \notin DOMAIN map
    /\ map' = [v \in DOMAIN map \cup {u} |-> IF v = u THEN <<>> ELSE map[v]]

AddFollower(u, f) ==
    /\ u \in DOMAIN map
    /\ map' = [map EXCEPT ![u] = Append(@, f)]

Next == \E u \in User : Insert(u) \/ \E f \in User : AddFollower(u, f)

Spec == Init /\ [][Next]_map

=============================================================================
