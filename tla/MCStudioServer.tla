--------------------------- MODULE MCStudioServer ---------------------------
(***************************************************************************)
(* Both front ends, a client that makes up to three requests at any pace,  *)
(* good and bad, and closes stdin or does not.                             *)
(***************************************************************************)
EXTENDS StudioServer
=============================================================================
