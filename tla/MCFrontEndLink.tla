--------------------------- MODULE MCFrontEndLink ---------------------------
(* Instances of the front end's link for TLC.                               *)
EXTENDS FrontEndLink, TLC

=============================================================================
