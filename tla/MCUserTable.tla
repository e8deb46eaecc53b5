----------------------------- MODULE MCUserTable -----------------------------
(* UserTable for TLC: three names, two of them in one bucket.               *)
EXTENDS UserTable, FiniteSets

CONSTANTS u1, u2, u3

\* "@ana", "@bob" and "@eva".
MCKey == (u1 :> <<64, 97, 110, 97>>) @@ (u2 :> <<64, 98, 111, 98>>) @@ (u3 :> <<64, 101, 118, 97>>)

\* The ends of a signed char's range and of 7 bits, and some between.
MCChar == {-128, -61, -1, 1, 64, 97, 127}

ThreadsAndNodes == Permutations(Thread) \cup Permutations(Node)

=============================================================================
