--------------------------- MODULE MCRingElection ---------------------------
(* The ring that elects, for TLC.                                           *)
EXTENDS RingElection, TLC

=============================================================================
