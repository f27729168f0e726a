----------------------------- MODULE MC_AcceptLoop -----------------------------
(***************************************************************************)
(* message.sock and two component ingresses; accept_loop.cfg gives their   *)
(* number and the length of their queues.                                  *)
(***************************************************************************)
EXTENDS AcceptLoop
=============================================================================
