----------------------------- MODULE MCFrontEnd -----------------------------
(* FrontEnd for TLC: connections are interchangeable, and so are users if   *)
(* no earlier front end has announced some of them.                         *)
EXTENDS FrontEnd, TLC

ClientSymmetry     == Permutations(Client)
ClientUserSymmetry == ClientSymmetry \cup Permutations(User)

=============================================================================
