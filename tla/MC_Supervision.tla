---------------------------- MODULE MC_Supervision ----------------------------
(***************************************************************************)
(* Two supervisors, each with up to two frames on its connection.          *)
(***************************************************************************)
EXTENDS Supervision

CONSTANTS first, second
=============================================================================
