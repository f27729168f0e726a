---------------------------- MODULE SignalFrames ----------------------------
(***************************************************************************)
(* The Signal frames that cross message.sock and router.sock, and the      *)
(* codec of src/router.rs that builds and admits them.  A frame is a       *)
(* record: its bytes, its length prefix and the rkyv encoding are left     *)
(* out, a frame whose bytes do not decode is the frame Unreadable.         *)
(*                                                                         *)
(* A request is known by the client whose text it carries ("sender"): the  *)
(* contract has no such field, it stands for the recipient and the body,   *)
(* which nothing in the daemon rewrites.                                   *)
(***************************************************************************)
EXTENDS Naturals, Sequences

(***************************************************************************)
(* Requests of the signal-persona-message contract, and their verbs        *)
(***************************************************************************)

MessageSubmission(sender) ==
    [kind |-> "MessageSubmission", sender |-> sender]

StampedMessageSubmission(sender, origin, stampedAt) ==
    [kind |-> "StampedMessageSubmission", sender |-> sender,
     origin |-> origin, stampedAt |-> stampedAt]

InboxQuery(sender) == [kind |-> "InboxQuery", sender |-> sender]

SignalVerb(request) == IF request.kind = "InboxQuery" THEN "Match" ELSE "Assert"

(***************************************************************************)
(* Replies.  A reply of the router is known by the position in the         *)
(* router's ledger of the request it answers, its slot.                    *)
(***************************************************************************)

SubmissionAccepted(slot) == [kind |-> "SubmissionAccepted", slot |-> slot]

InboxListing(slot) == [kind |-> "InboxListing", slot |-> slot]

MessageRequestUnimplemented == [kind |-> "MessageRequestUnimplemented"]

(***************************************************************************)
(* Frames                                                                  *)
(***************************************************************************)

Exchanges == {"connector", "another"}

\* The one exchange identifier the clients of this repository ever use.
ConnectorExchange == "connector"

Operation(verb, request) == [verb |-> verb, payload |-> request]

RequestFrame(exchange, operations) ==
    [body |-> "Request", exchange |-> exchange, operations |-> operations]

\* Request::from_payload pairs a request with the verb its kind has.
RequestFrameWithExchange(exchange, request) ==
    RequestFrame(exchange, <<Operation(SignalVerb(request), request)>>)

\* A sub-reply that is not Ok, and a reply that is Rejected, carry no payload.
SubReplyOk(verb, reply) == [ok |-> TRUE, verb |-> verb, payload |-> reply]

SubReplyNotOk == [ok |-> FALSE]

ReplyFrameOf(exchange, perOperation) ==
    [body |-> "Reply", exchange |-> exchange, accepted |-> TRUE,
     perOperation |-> perOperation]

RejectedReplyFrame(exchange) ==
    [body |-> "Reply", exchange |-> exchange, accepted |-> FALSE]

ReplyFrame(exchange, verb, reply) ==
    ReplyFrameOf(exchange, <<SubReplyOk(verb, reply)>>)

OtherFrame == [body |-> "Other"]

Unreadable == [body |-> "Unreadable"]

(***************************************************************************)
(* What the codec admits                                                   *)
(***************************************************************************)

\* The check signal_core makes of a request: every verb fits its payload.
IntoChecked(operations) ==
    \A k \in DOMAIN operations :
        operations[k].verb = SignalVerb(operations[k].payload)

\* read_frame and request_from_frame together: the frames a daemon that reads
\* one request goes on with; every other frame is an error.
RequestAdmitted(frame) ==
    /\ frame.body = "Request"
    /\ IntoChecked(frame.operations)
    /\ Len(frame.operations) = 1

ReceivedMessageRequest(frame) ==
    [exchange |-> frame.exchange,
     verb     |-> frame.operations[1].verb,
     request  |-> frame.operations[1].payload]

PayloadFromReplyAdmitted(frame) ==
    /\ frame.accepted
    /\ Len(frame.perOperation) = 1
    /\ frame.perOperation[1].ok

\* Mutant: the exchange is not compared.
ReplyAdmittedOfAnyExchange(frame, expected) ==
    frame.body = "Reply" /\ PayloadFromReplyAdmitted(frame)

\* reply_from_frame_for_exchange: the frames a client that waits for the reply
\* of one exchange takes a payload from.
ReplyAdmitted(frame, expected) ==
    /\ frame.body = "Reply"
    /\ frame.exchange = expected
    /\ PayloadFromReplyAdmitted(frame)

PayloadFromReply(frame) == frame.perOperation[1].payload
=============================================================================
