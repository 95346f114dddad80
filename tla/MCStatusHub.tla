---------------------------- MODULE MCStatusHub ----------------------------
(***************************************************************************)
(* Instance of StatusHub for TLC.  A cleanup period equal to the age of a  *)
(* connection, as in the code, and a longer retention of statuses.         *)
(***************************************************************************)
EXTENDS StatusHub
=============================================================================
