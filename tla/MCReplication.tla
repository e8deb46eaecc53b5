---------------------------- MODULE MCReplication ----------------------------
(* Replication for TLC: three servers, the threads are interchangeable.    *)
EXTENDS Replication, TLC

ThreadSymmetry == Permutations(Pool)

=============================================================================
