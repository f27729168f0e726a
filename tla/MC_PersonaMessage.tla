-------------------------- MODULE MC_PersonaMessage --------------------------
(***************************************************************************)
(* The process with one client on each of two sockets at most, and one     *)
(* supervisor.                                                             *)
(***************************************************************************)
EXTENDS PersonaMessage

CONSTANTS cli, raw, sup

MCOwnerIdentity == [kind |-> "UnixUser", user |-> 1000]

MCPeerUid == [c \in Clients |-> 1000]

MCBindingOf == [c \in Clients |-> IF c = raw THEN 2 ELSE 1]

MCOneSocket == [c \in Clients |-> 1]

MCClockReadings == {1}
=============================================================================
