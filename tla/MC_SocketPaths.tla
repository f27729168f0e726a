---------------------------- MODULE MC_SocketPaths ----------------------------
(***************************************************************************)
(* Three daemon processes over message.sock and the supervision socket,    *)
(* and, where they do not overlap, one component ingress.  The processes   *)
(* are interchangeable.                                                    *)
(***************************************************************************)
EXTENDS SocketPaths, TLC

DaemonSymmetry == Permutations(Daemons)
=============================================================================
