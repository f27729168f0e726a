--------------------------- MODULE MessageIngress ---------------------------
(***************************************************************************)
(* How the daemon root decides what becomes of a request: the authority of *)
(* the socket it came through, the origin minted from that authority and   *)
(* the peer's credentials, the ingress time, and the decision itself       *)
(* (src/daemon.rs).  Everything here is a function of its arguments.       *)
(***************************************************************************)
EXTENDS Integers, SignalFrames

CONSTANTS OwnerIdentity,   \* the configured owner: [kind, user]
          MaxTimestamp     \* u64::MAX nanoseconds, small in the instances

ASSUME MaxTimestampAssumption == MaxTimestamp \in Nat

\* A record of these two fields.
ASSUME OwnerAssumption ==
    OwnerIdentity = [kind |-> OwnerIdentity.kind, user |-> OwnerIdentity.user]

(***************************************************************************)
(* Authorities and origins.  Binding 1 is message.sock; binding i > 1 is   *)
(* the ingress socket of a component instance, which its index names.      *)
(***************************************************************************)

ExternalPeer == [kind |-> "ExternalPeer"]

InternalComponentInstance(i) ==
    [kind |-> "InternalComponentInstance", instance |-> i]

AuthorityOf(i) == IF i = 1 THEN ExternalPeer ELSE InternalComponentInstance(i)

Owner == [class |-> "Owner"]

NonOwnerUser(user) == [class |-> "NonOwnerUser", user |-> user]

ComponentOrigin(i) == [class |-> "InternalComponentInstance", instance |-> i]

\* Mutant: the peer's uid decides on every socket.
OriginForPeerByUid(authority, peer) ==
    IF OwnerIdentity.user = peer THEN Owner ELSE NonOwnerUser(peer)

\* Mutant: the configured owner is not compared with the peer.
OriginForPeerUnchecked(authority, peer) ==
    IF authority.kind = "InternalComponentInstance"
        THEN ComponentOrigin(authority.instance)
        ELSE IF OwnerIdentity.kind = "UnixUser" THEN Owner ELSE NonOwnerUser(peer)

OriginForPeer(authority, peer) ==
    IF authority.kind = "InternalComponentInstance"
        THEN ComponentOrigin(authority.instance)
        ELSE IF OwnerIdentity.kind = "UnixUser" /\ OwnerIdentity.user = peer
                 THEN Owner
                 ELSE NonOwnerUser(peer)

(***************************************************************************)
(* The ingress time.  "now" is the clock relative to the Unix epoch.       *)
(***************************************************************************)

ClockBeforeUnixEpoch(now) == now < 0

\* Mutant: the nanoseconds keep the width of as_nanos.
TimestampNowUnclamped(now) == now

TimestampNow(now) == IF now > MaxTimestamp THEN MaxTimestamp ELSE now

(***************************************************************************)
(* The decision of MessageDaemonRoot::stamp_request                        *)
(***************************************************************************)

ForwardDecision(request) == [kind |-> "Forward", request |-> request]

ReplyDecision(reply) == [kind |-> "Reply", reply |-> reply]

ErrorDecision == [kind |-> "Error"]

StampRequest(request, authority, peer, now) ==
    CASE request.kind = "MessageSubmission" ->
            IF ClockBeforeUnixEpoch(now)
                THEN ErrorDecision
                ELSE ForwardDecision(StampedMessageSubmission(
                        request.sender, OriginForPeer(authority, peer),
                        TimestampNow(now)))
      [] request.kind = "StampedMessageSubmission" ->
            ReplyDecision(MessageRequestUnimplemented)
      [] request.kind = "InboxQuery" -> ForwardDecision(request)
=============================================================================
