---------------------------- MODULE MCServerRing ----------------------------
(* The ring that boots, for TLC.                                            *)
EXTENDS ServerRing, TLC

=============================================================================
