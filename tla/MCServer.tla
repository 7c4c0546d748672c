------------------------------ MODULE MCServer ------------------------------
(* More peers than permits, so that permits are refused and used again.      *)
EXTENDS Server
=============================================================================
