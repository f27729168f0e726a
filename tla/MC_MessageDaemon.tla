--------------------------- MODULE MC_MessageDaemon ---------------------------
(***************************************************************************)
(* Small instances of MessageDaemon: message.sock and one component        *)
(* ingress, a CLI client of the owner, and one or two more clients.        *)
(***************************************************************************)
EXTENDS MessageDaemonProperties

CONSTANTS cli, raw, other

MCOwnerIdentity == [kind |-> "UnixUser", user |-> 1000]

\* The CLI client is the owner's; the raw client has the owner's uid too, on
\* whichever socket it uses; the other client is another user's.
MCPeerUid == [c \in Clients |-> IF c = other THEN 1001 ELSE 1000]

\* The raw client reaches the daemon through the component ingress.
MCBindingOf == [c \in Clients |-> IF c = raw THEN 2 ELSE 1]

\* All clients share message.sock.
MCOneSocket == [c \in Clients |-> 1]

\* Before the epoch, within range, and past u64::MAX.
MCClockReadings == {-1, 1, 3}

MCAfterEpoch == {1, 3}
=============================================================================
