------------------------- MODULE MessageDaemonProofs -------------------------
(***************************************************************************)
(* Theorems about MessageDaemon, for every set of clients, number of       *)
(* bindings, owner, clock and bound: its types, its listeners and the      *)
(* connections they hold, where the router's ledger comes from, what is    *)
(* counted, what a client is told, and that all of it is the service of    *)
(* IngressService.                                                         *)
(***************************************************************************)
EXTENDS MessageDaemonProperties, SequenceTheorems, TLAPS

USE DEF hand, life, threadVars, socketVars, clientVars, linkVars, others, vars,
        daemonVars, ingressVars

-----------------------------------------------------------------------------
(***************************************************************************)
(* Frames, decisions and replies                                           *)
(***************************************************************************)

\* The requests that a client can get the daemon to read.
ClientRequests(c) ==
    {MessageSubmission(c), InboxQuery(c), StampedMessageSubmission(c, Owner, 0)}

\* Of all that a client writes, request_from_frame admits only well-formed
\* frames of one request.
LEMMA AdmittedFrames ==
    ASSUME NEW c \in Clients, NEW frame \in ClientFrames(c), RequestAdmitted(frame)
    PROVE  \E x \in Exchanges, request \in ClientRequests(c) :
               frame = RequestFrameWithExchange(x, request)
<1>1. CASE frame \in CliFrames(c)
  BY <1>1 DEF CliFrames, ConnectorExchange, Exchanges, ClientRequests
<1>2. CASE frame = RequestFrame("another", <<Operation("Assert", MessageSubmission(c))>>)
  BY <1>2 DEF RequestFrameWithExchange, SignalVerb, MessageSubmission, Exchanges,
              ClientRequests
<1>3. CASE frame = RequestFrame(ConnectorExchange,
                                <<Operation("Match", MessageSubmission(c))>>)
  BY <1>3 DEF RequestAdmitted, IntoChecked, RequestFrame, Operation, SignalVerb,
              MessageSubmission
<1>4. CASE frame = RequestFrame(ConnectorExchange,
                                <<Operation("Assert", MessageSubmission(c)),
                                  Operation("Assert", MessageSubmission(c))>>)
  BY <1>4 DEF RequestAdmitted, RequestFrame
<1>5. CASE frame = RequestFrameWithExchange(ConnectorExchange,
                                            StampedMessageSubmission(c, Owner, 0))
  BY <1>5 DEF ConnectorExchange, Exchanges, ClientRequests
<1>6. CASE frame \in {OtherFrame, Unreadable}
  BY <1>6 DEF OtherFrame, Unreadable, RequestAdmitted
<1> QED
  BY <1>1, <1>2, <1>3, <1>4, <1>5, <1>6 DEF ClientFrames, RawFrames

\* What request_from_frame makes of such a frame.
LEMMA ReceivedFromFrame ==
    ASSUME NEW c \in Clients, NEW x \in Exchanges, NEW request \in ClientRequests(c)
    PROVE  LET frame == RequestFrameWithExchange(x, request) IN
           /\ ReceivedMessageRequest(frame)
                = [exchange |-> x, verb |-> SignalVerb(request), request |-> request]
           /\ frame.operations[1].payload = request
  BY DEF ReceivedMessageRequest, RequestFrameWithExchange, RequestFrame, Operation

\* stamp_request forwards an inbox query as it is and a submission under the
\* origin of its peer and a time a u64 can hold, and forwards nothing else.
LEMMA DecisionToForward ==
    ASSUME NEW c \in Clients, NEW request \in ClientRequests(c),
           NEW authority, NEW user, NEW now \in ClockReadings,
           StampRequest(request, authority, user, now).kind = "Forward"
    PROVE  \/ /\ request = InboxQuery(c)
              /\ StampRequest(request, authority, user, now).request = InboxQuery(c)
           \/ /\ request = MessageSubmission(c)
              /\ \E time \in 0 .. MaxTimestamp :
                     StampRequest(request, authority, user, now).request
                       = StampedMessageSubmission(c, OriginForPeer(authority, user), time)
<1>1. CASE request = InboxQuery(c)
  BY <1>1 DEF StampRequest, InboxQuery, ForwardDecision
<1>2. CASE request = StampedMessageSubmission(c, Owner, 0)
  BY <1>2 DEF StampRequest, StampedMessageSubmission, ReplyDecision
<1>3. CASE request = MessageSubmission(c)
  <2> DEFINE stamped == StampedMessageSubmission(c, OriginForPeer(authority, user),
                                                 TimestampNow(now))
  <2>1. /\ ~ClockBeforeUnixEpoch(now)
        /\ StampRequest(request, authority, user, now) = ForwardDecision(stamped)
    BY <1>3 DEF StampRequest, MessageSubmission, ErrorDecision
  <2>2. TimestampNow(now) \in 0 .. MaxTimestamp
    BY <2>1, BoundsAssumption, MaxTimestampAssumption
       DEF TimestampNow, ClockBeforeUnixEpoch
  <2> QED
    BY <1>3, <2>1, <2>2 DEF ForwardDecision
<1> QED
  BY <1>1, <1>2, <1>3 DEF ClientRequests

\* The only reply the root actor makes by itself is the refusal of a stamp.
LEMMA DecisionToReply ==
    ASSUME NEW c \in Clients, NEW request \in ClientRequests(c),
           NEW authority, NEW user, NEW now \in ClockReadings,
           StampRequest(request, authority, user, now).kind = "Reply"
    PROVE  /\ request = StampedMessageSubmission(c, Owner, 0)
           /\ StampRequest(request, authority, user, now).reply
                = MessageRequestUnimplemented
<1>1. CASE request = InboxQuery(c)
  BY <1>1 DEF StampRequest, InboxQuery, ForwardDecision
<1>2. CASE request = StampedMessageSubmission(c, Owner, 0)
  BY <1>2 DEF StampRequest, StampedMessageSubmission, ReplyDecision
<1>3. CASE request = MessageSubmission(c)
  BY <1>3 DEF StampRequest, MessageSubmission, ErrorDecision, ForwardDecision
<1> QED
  BY <1>1, <1>2, <1>3 DEF ClientRequests

\* origin_for_peer mints one of the origins of the types ...
LEMMA OriginTypes ==
    ASSUME NEW c \in Clients
    PROVE  OriginForPeer(AuthorityOf(BindingOf[c]), PeerUid[c]) \in Origins
  BY BindingsAssumption DEF OriginForPeer, AuthorityOf, ExternalPeer,
                            InternalComponentInstance, Origins

\* ... and it is the origin the design gives the client.
LEMMA OriginMinted ==
    ASSUME NEW c \in Clients
    PROVE  OriginForPeer(AuthorityOf(BindingOf[c]), PeerUid[c]) = MintedOrigin(c)
<1>1. CASE BindingOf[c] > 1
  BY <1>1, BindingsAssumption DEF OriginForPeer, AuthorityOf,
                                  InternalComponentInstance, MintedOrigin, Bindings
<1>2. CASE BindingOf[c] = 1
  <2>1. OwnerIdentity = [kind |-> "UnixUser", user |-> PeerUid[c]]
          <=> OwnerIdentity.kind = "UnixUser" /\ OwnerIdentity.user = PeerUid[c]
    BY OwnerAssumption
  <2> QED
    BY <1>2, <2>1 DEF OriginForPeer, AuthorityOf, ExternalPeer, MintedOrigin
<1> QED
  BY <1>1, <1>2, BindingsAssumption DEF Bindings

\* The replies, the frames that carry them and the router's answers depend on
\* the router's ledger only ...
LEMMA RepliesUnchanged ==
    ASSUME UNCHANGED routerLog
    PROVE  /\ Replies' = Replies
           /\ ReplyFrames' = ReplyFrames
           /\ RouterAnswers' = RouterAnswers
<1>1. Replies' = Replies
  BY DEF Replies
<1>2. \A n : RouterFrames(n)' = RouterFrames(n)
  BY DEF RouterFrames, SubReply, RouterReply
<1> QED
  BY <1>1, <1>2 DEF ReplyFrames, RouterAnswers

\* ... and stay replies when it grows.
LEMMA RepliesGrow ==
    ASSUME routerLog \in Seq(RouterRequests),
           NEW entry, routerLog' = Append(routerLog, entry)
    PROVE  Replies \subseteq Replies' /\ ReplyFrames \subseteq ReplyFrames'
<1>1. Replies \subseteq Replies'
  BY DEF Replies
<1> QED
  BY <1>1 DEF ReplyFrames

\* A frame of the router that reply_from_frame_for_exchange admits carries a
\* reply about an entry of its ledger.
LEMMA RouterReplies ==
    ASSUME NEW frame \in RouterAnswers, NEW x, ReplyAdmitted(frame, x)
    PROVE  PayloadFromReply(frame) \in Replies
<1>1. PICK n \in DOMAIN routerLog : frame \in RouterFrames(n)
  BY DEF RouterAnswers, ReplyAdmitted, PayloadFromReplyAdmitted, RejectedReplyFrame
<1>2. frame # OtherFrame /\ frame # Unreadable
  BY DEF ReplyAdmitted, OtherFrame, Unreadable
<1>3. frame # ReplyFrameOf(ConnectorExchange, <<SubReplyNotOk>>)
  BY DEF ReplyAdmitted, PayloadFromReplyAdmitted, ReplyFrameOf, SubReplyNotOk
<1>4. frame # ReplyFrameOf(ConnectorExchange, <<SubReply(n), SubReply(n)>>)
  BY DEF ReplyAdmitted, PayloadFromReplyAdmitted, ReplyFrameOf
<1>5. \E m \in DOMAIN routerLog, y \in Exchanges :
          frame = ReplyFrameOf(y, <<SubReply(m)>>)
  BY <1>1, <1>2, <1>3, <1>4 DEF RouterFrames, Exchanges, ConnectorExchange
<1>6. PICK m \in DOMAIN routerLog : PayloadFromReply(frame) = RouterReply(m)
  BY <1>5 DEF ReplyFrameOf, PayloadFromReply, SubReply, SubReplyOk
<1> QED
  BY <1>6 DEF RouterReply, Replies

-----------------------------------------------------------------------------
(***************************************************************************)
(* The inductive invariant: the types, and what the place in run() says of *)
(* the variables that the next steps use.                                  *)
(***************************************************************************)

\* received is what request_from_frame made of the first frame of client c.
InHand(c) ==
    /\ sent[c] # <<>>
    /\ RequestAdmitted(sent[c][1])
    /\ received = Some(ReceivedMessageRequest(sent[c][1]))

ControlOK ==
    /\ pc \in {"read", "ask", "await", "reply"} => current \in Clients
    /\ pc \in {"ask", "await", "reply"} => InHand(current)
    /\ pc = "reply" => reply # None
    /\ exit = "running" /\ pc # "await" => link = "none"
    /\ link \in {"requested", "processed"} => toRouter # None
    /\ link = "processed" => routerLog # <<>>
    /\ fromRouter # None <=> link = "answered"

TypeInv == TypeOK /\ ControlOK

\* A frame the daemon has admitted holds one of its client's requests.
LEMMA AdmittedRequest ==
    ASSUME TypeInv, NEW c \in Clients, sent[c] # <<>>, RequestAdmitted(sent[c][1])
    PROVE  \E x \in Exchanges, request \in ClientRequests(c) :
               /\ FirstRequest(c) = request
               /\ ReceivedMessageRequest(sent[c][1])
                    = [exchange |-> x, verb |-> SignalVerb(request), request |-> request]
<1>1. sent[c][1] \in ClientFrames(c)
  BY DEF TypeInv, TypeOK, ClientTypeOK
<1> QED
  BY <1>1, AdmittedFrames, ReceivedFromFrame DEF FirstRequest

\* The request in hand is the first one of the client that is served.
LEMMA RequestInHand ==
    ASSUME TypeInv, pc \in {"ask", "await", "reply"}
    PROVE  /\ current \in Clients
           /\ \E x \in Exchanges, request \in ClientRequests(current) :
                  /\ FirstRequest(current) = request
                  /\ received[1] = [exchange |-> x, verb |-> SignalVerb(request),
                                    request |-> request]
  BY AdmittedRequest DEF TypeInv, ControlOK, InHand, Some

\* What the root actor forwards is a genuine request of that client, and of
\* the type of the router's requests.
LEMMA DecisionGenuine ==
    ASSUME TypeInv, At("ask"), NEW now \in ClockReadings,
           Decision(now).kind = "Forward"
    PROVE  /\ Decision(now).request \in RouterRequests
           /\ Decision(now).request.sender = current
           /\ Genuine(Decision(now).request, current)
<1>1. current \in Clients /\ sent[current] # <<>>
  BY RequestInHand DEF At, TypeInv, ControlOK, InHand
<1>2. PICK x \in Exchanges, request \in ClientRequests(current) :
          /\ FirstRequest(current) = request
          /\ received[1] = [exchange |-> x, verb |-> SignalVerb(request),
                            request |-> request]
  BY RequestInHand DEF At
<1> DEFINE authority == AuthorityOf(BindingOf[current])
           user == PeerUid[current]
<1>3. Decision(now) = StampRequest(request, authority, user, now)
  BY <1>2 DEF Decision
<1>4. CASE /\ request = InboxQuery(current)
           /\ Decision(now).request = InboxQuery(current)
  BY <1>1, <1>2, <1>4 DEF RouterRequests, Genuine, InboxQuery
<1>5. CASE /\ request = MessageSubmission(current)
           /\ \E time \in 0 .. MaxTimestamp :
                  Decision(now).request = StampedMessageSubmission(current,
                                              OriginForPeer(authority, user), time)
  <2>1. PICK time \in 0 .. MaxTimestamp :
            Decision(now).request = StampedMessageSubmission(current,
                                        OriginForPeer(authority, user), time)
    BY <1>5
  <2>2. Decision(now).request \in RouterRequests
    BY <1>1, <2>1, OriginTypes DEF RouterRequests
  <2>3. Decision(now).request.sender = current
    BY <2>1 DEF StampedMessageSubmission
  <2>4. Genuine(Decision(now).request, current)
    BY <1>1, <1>2, <1>5, <2>1, OriginMinted DEF Genuine
  <2> QED
    BY <2>2, <2>3, <2>4
<1> QED
  BY <1>1, <1>2, <1>3, <1>4, <1>5, DecisionToForward

\* What it answers by itself is the refusal of a stamp.
LEMMA DecisionUnimplemented ==
    ASSUME TypeInv, At("ask"), NEW now \in ClockReadings,
           Decision(now).kind = "Reply"
    PROVE  Decision(now).reply = MessageRequestUnimplemented
<1>1. PICK x \in Exchanges, request \in ClientRequests(current) :
          received[1] = [exchange |-> x, verb |-> SignalVerb(request),
                         request |-> request]
  BY RequestInHand DEF At
<1>2. Decision(now) = StampRequest(request, AuthorityOf(BindingOf[current]),
                                   PeerUid[current], now)
  BY <1>1 DEF Decision
<1> QED
  BY <1>1, <1>2, RequestInHand, DecisionToReply DEF At

-----------------------------------------------------------------------------
(***************************************************************************)
(* Every step keeps the types of the main thread                           *)
(***************************************************************************)

LEMMA ThreadTypeStep ==
    ASSUME TypeInv, Next
    PROVE  ThreadTypeOK'
<1> USE DEF TypeInv, TypeOK, ThreadTypeOK, Labels, Option, None, Some
<1>1. CASE \/ BindListener \/ BindListenerFails \/ ApplyMode \/ ApplyModeFails
           \/ SpawnSupervision \/ StartRoot
  <2>1. CASE BindListenerFails \/ ApplyModeFails
    BY <2>1, RepliesUnchanged, BindingsAssumption
       DEF BindListenerFails, ApplyModeFails, At, Fail, Bindings
  <2>2. CASE ApplyMode
    BY <2>2, RepliesUnchanged, BindingsAssumption DEF ApplyMode, At, Bindings
  <2>3. CASE BindListener \/ SpawnSupervision
    BY <2>3, RepliesUnchanged DEF BindListener, SpawnSupervision, At
  <2>4. CASE StartRoot
    BY <2>4, RepliesUnchanged, BoundsAssumption DEF StartRoot, At
  <2> QED
    BY <1>1, <2>1, <2>2, <2>3, <2>4
<1>2. CASE CheckStop \/ PollNext \/ PeerCredentialsFail
  BY <1>2, RepliesUnchanged, BindingsAssumption
     DEF CheckStop, PollNext, PeerCredentialsFail, At, Fail, Bindings
<1>3. CASE AcceptOne
  <2>1. Head(backlog[slot]) \in Clients
    BY <1>3, HeadTailProperties DEF AcceptOne, SocketTypeOK
  <2> QED
    BY <1>3, <2>1, RepliesUnchanged DEF AcceptOne, At
<1>4. CASE ReadRequest
  <2>1. /\ current \in Clients
        /\ Head(sent[current]) = sent[current][1]
        /\ sent[current][1] \in ClientFrames(current)
    BY <1>4 DEF ReadRequest, At, ControlOK, ClientTypeOK
  <2>2. ReceivedMessageRequest(Head(sent[current])) \in ReceivedRequests
    BY <1>4, <2>1 DEF ReadRequest, ReceivedRequests
  <2> QED
    BY <1>4, <2>2, RepliesUnchanged DEF ReadRequest, At
<1>5. CASE ReadRequestFails \/ AskFails \/ RouterFails \/ WriteReplyFails
  BY <1>5, RepliesUnchanged, BindingsAssumption
     DEF ReadRequestFails, AskFails, RouterFails, WriteReplyFails, ServingFails,
         At, Fail, Bindings
<1>6. CASE Forward
  BY <1>6, RepliesUnchanged DEF Forward, At
<1>7. CASE ReplyWithoutRouter
  <2>1. reply' = Some(MessageRequestUnimplemented)
    BY <1>7, DecisionUnimplemented DEF ReplyWithoutRouter
  <2> QED
    BY <1>7, <2>1, RepliesUnchanged DEF ReplyWithoutRouter, At, Replies
<1>8. CASE RouterAnswered
  <2>1. fromRouter[1] \in RouterAnswers
    BY <1>8 DEF RouterAnswered, ControlOK, RouterTypeOK
  <2>2. reply' \in Option(Replies)
    BY <1>8, <2>1, RouterReplies DEF RouterAnswered
  <2>3. forwardedCount' \in 0 .. MaxForwardedCount
    BY <1>8, BoundsAssumption DEF RouterAnswered, SaturatingAddOne
  <2> QED
    BY <1>8, <2>2, <2>3, RepliesUnchanged DEF RouterAnswered, At
<1>9. CASE WriteReply
  BY <1>9, RepliesUnchanged DEF WriteReply, At
<1>10. CASE StopRoot \/ RunFails \/ DropUnlink \/ DropClose \/ Killed
  BY <1>10, RepliesUnchanged, BindingsAssumption
     DEF StopRoot, RunFails, DropUnlink, DropClose, Killed, At, Fail, Bindings
<1>11. CASE RequestStop
  BY <1>11, RepliesUnchanged DEF RequestStop
<1>12. CASE \E c \in Clients : Client(c)
  BY <1>12, RepliesUnchanged
     DEF Client, Submit, Connect, ConnectFails, WriteFrame, WriteFrameFails,
         ReceiveReply, ReceiveReplyFails, HangUp, ClientEnds
<1>13. CASE RouterProcess
  BY <1>13, RepliesGrow DEF RouterProcess, RouterTypeOK
<1>14. CASE RouterStart \/ RouterStop \/ RouterAnswer \/ RouterReject
  BY <1>14, RepliesUnchanged
     DEF RouterStart, RouterStop, RouterAnswer, RouterReject
<1> QED
  BY <1>1, <1>2, <1>3, <1>4, <1>5, <1>6, <1>7, <1>8, <1>9, <1>10, <1>11, <1>12,
     <1>13, <1>14
     DEF Next, Daemon, Startup, Serve, Finish, Router, Handle

-----------------------------------------------------------------------------
(***************************************************************************)
(* Every step keeps the types of the sockets and of the clients            *)
(***************************************************************************)

LEMMA SocketTypeStep ==
    ASSUME TypeInv, Next
    PROVE  SocketTypeOK'
<1> USE DEF TypeInv, TypeOK, SocketTypeOK
<1>0. <<>> \in Seq(Clients)
  BY EmptySeq
<1>1. CASE BindListener \/ BindListenerFails \/ ApplyMode \/ ApplyModeFails
  <2>1. slot \in Bindings
    BY DEF ThreadTypeOK
  <2>2. CASE BindListener \/ BindListenerFails \/ ApplyMode
    BY <2>1, <2>2 DEF BindListener, BindListenerFails, ApplyMode, Fail, Close
  <2>3. CASE ApplyModeFails
    BY <1>0, <2>1, <2>3 DEF ApplyModeFails, Fail, Close
  <2> QED
    BY <1>1, <2>2, <2>3
<1>2. CASE AcceptOne \/ PeerCredentialsFail
  <2>1. Head(backlog[slot]) \in Clients /\ Tail(backlog[slot]) \in Seq(Clients)
    BY <1>2, HeadTailProperties DEF AcceptOne, PeerCredentialsFail, ThreadTypeOK
  <2> QED
    BY <1>2, <2>1 DEF AcceptOne, PeerCredentialsFail, Fail, Close
<1>3. CASE \/ ReadRequestFails \/ AskFails \/ RouterFails \/ WriteReplyFails
           \/ WriteReply \/ RunFails
  BY <1>3 DEF ReadRequestFails, AskFails, RouterFails, WriteReplyFails, WriteReply,
              RunFails, ServingFails, Fail, Close
<1>4. CASE DropUnlink \/ DropClose
  <2>1. slot \in Bindings
    BY DEF ThreadTypeOK
  <2>2. CASE DropUnlink
    BY <2>1, <2>2 DEF DropUnlink
  <2>3. CASE DropClose
    BY <1>0, <2>1, <2>3 DEF DropClose, Close
  <2> QED
    BY <1>4, <2>2, <2>3
<1>5. CASE Killed
  BY <1>0, <1>5 DEF Killed, Close
<1>6. ASSUME NEW c \in Clients, Connect(c) PROVE SocketTypeOK'
  <2>1. backlog' \in [Bindings -> Seq(Clients)]
    BY <1>6, AppendProperties, BindingsAssumption DEF Connect
  <2> QED
    BY <1>6, <2>1 DEF Connect
<1>7. ASSUME NEW c \in Clients, Client(c), ~Connect(c) PROVE SocketTypeOK'
  BY <1>7 DEF Client, Submit, ConnectFails, WriteFrame, WriteFrameFails,
              ReceiveReply, ReceiveReplyFails, HangUp, ClientEnds
<1>8. CASE \/ SpawnSupervision \/ StartRoot \/ CheckStop \/ PollNext \/ StopRoot
           \/ ReadRequest \/ Forward \/ ReplyWithoutRouter \/ RouterAnswered
           \/ RequestStop \/ Router
  BY <1>8 DEF SpawnSupervision, StartRoot, CheckStop, PollNext, StopRoot,
              ReadRequest, Forward, ReplyWithoutRouter, RouterAnswered,
              RequestStop, Router, Handle, RouterStart, RouterStop,
              RouterProcess, RouterAnswer, RouterReject
<1> QED
  BY <1>1, <1>2, <1>3, <1>4, <1>5, <1>6, <1>7, <1>8
     DEF Next, Daemon, Startup, Serve, Finish

LEMMA ClientTypeStep ==
    ASSUME TypeInv, Next
    PROVE  ClientTypeOK'
<1> USE DEF TypeInv, TypeOK, ClientTypeOK
<1>1. CASE WriteReply
  <2>1. current \in Clients /\ reply[1] \in Replies
    BY <1>1 DEF WriteReply, At, ControlOK, ThreadTypeOK, Option, Some, None
  <2>2. received[1].exchange \in Exchanges /\ received[1].verb \in {"Assert", "Match"}
    <3>1. PICK x \in Exchanges, request \in ClientRequests(current) :
              received[1] = [exchange |-> x, verb |-> SignalVerb(request),
                             request |-> request]
      BY <1>1, RequestInHand DEF WriteReply, At
    <3> QED
      BY <3>1 DEF SignalVerb
  <2>3. ReplyFrame(received[1].exchange, received[1].verb, reply[1]) \in ReplyFrames
    BY <2>1, <2>2 DEF ReplyFrames
  <2> QED
    BY <1>1, <2>1, <2>3, RepliesUnchanged DEF WriteReply, Option
<1>2. ASSUME NEW c \in Clients, WriteFrame(c) PROVE ClientTypeOK'
  <2>1. PICK frame \in ClientFrames(c) : sent' = [sent EXCEPT ![c] = Append(@, frame)]
    BY <1>2 DEF WriteFrame
  <2>2. /\ Append(sent[c], frame) \in Seq(ClientFrames(c))
        /\ Append(sent[c], frame) \in Seq(WrittenFrames)
    BY AppendProperties DEF WrittenFrames
  <2> QED
    BY <1>2, <2>1, <2>2, RepliesUnchanged DEF WriteFrame
<1>3. ASSUME NEW c \in Clients, ReceiveReply(c) PROVE ClientTypeOK'
  <2>1. outbound[c][1] \in ReplyFrames
    BY <1>3 DEF ReceiveReply, Option, Some, None
  <2>2. PayloadFromReply(outbound[c][1]) \in Replies
    BY <2>1 DEF ReplyFrames, ReplyFrame, ReplyFrameOf, SubReplyOk, PayloadFromReply
  <2> QED
    BY <1>3, <2>2, RepliesUnchanged DEF ReceiveReply, ClientEnds, Option
<1>4. ASSUME NEW c \in Clients, Client(c), ~WriteFrame(c), ~ReceiveReply(c)
      PROVE  ClientTypeOK'
  BY <1>4, RepliesUnchanged
     DEF Client, Submit, Connect, ConnectFails, WriteFrameFails,
         ReceiveReplyFails, HangUp, ClientEnds
<1>5. CASE RouterProcess
  <2>1. Replies \subseteq Replies' /\ ReplyFrames \subseteq ReplyFrames'
    BY <1>5, RepliesGrow DEF RouterProcess, RouterTypeOK
  <2> QED
    BY <1>5, <2>1 DEF RouterProcess, Option
<1>6. CASE RequestStop \/ RouterStart \/ RouterStop \/ RouterAnswer \/ RouterReject
  BY <1>6, RepliesUnchanged
     DEF RequestStop, RouterStart, RouterStop, RouterAnswer, RouterReject
<1>7. CASE (Daemon /\ ~WriteReply) \/ Killed
  BY <1>7, RepliesUnchanged
     DEF Daemon, SpawnSupervision, Startup, BindListener, BindListenerFails,
         ApplyMode, ApplyModeFails, StartRoot, Serve, CheckStop, AcceptOne,
         PollNext, PeerCredentialsFail, ReadRequest, ReadRequestFails, Forward,
         ReplyWithoutRouter, AskFails, RouterAnswered, RouterFails,
         WriteReplyFails, Finish, StopRoot, RunFails, DropUnlink, DropClose,
         Killed, Fail, ServingFails
<1> QED
  BY <1>1, <1>2, <1>3, <1>4, <1>5, <1>6, <1>7 DEF Next, Router, Handle

-----------------------------------------------------------------------------
(***************************************************************************)
(* Every step keeps the types of the router, and the places of run()       *)
(***************************************************************************)

LEMMA RouterTypeStep ==
    ASSUME TypeInv, Next
    PROVE  RouterTypeOK'
<1> USE DEF TypeInv, TypeOK, RouterTypeOK, Option, Some, None
<1>1. CASE Forward
  <2>1. toRouter' \in Option(RouterRequests)
    BY <1>1, DecisionGenuine DEF Forward
  <2> QED
    BY <1>1, <2>1, RepliesUnchanged DEF Forward
<1>2. CASE RouterProcess
  <2>1. fromRouter = None
    BY <1>2 DEF RouterProcess, ControlOK
  <2>2. routerLog' \in Seq(RouterRequests)
    BY <1>2, AppendProperties DEF RouterProcess, ControlOK
  <2> QED
    BY <1>2, <2>1, <2>2 DEF RouterProcess
<1>3. CASE RouterAnswer
  <2>1. Len(routerLog) \in DOMAIN routerLog
    BY <1>3, LenProperties, EmptySeq DEF RouterAnswer, ControlOK
  <2>2. fromRouter' \in Option(RouterAnswers)
    BY <1>3, <2>1 DEF RouterAnswer, RouterAnswers
  <2> QED
    BY <1>3, <2>2, RepliesUnchanged DEF RouterAnswer
<1>4. CASE RouterReject
  BY <1>4, RepliesUnchanged DEF RouterReject, RouterAnswers
<1>5. CASE RouterStart \/ RouterStop
  BY <1>5, RepliesUnchanged DEF RouterStart, RouterStop
<1>6. CASE RequestStop \/ \E c \in Clients : Client(c)
  BY <1>6, RepliesUnchanged
     DEF RequestStop, Client, Submit, Connect, ConnectFails, WriteFrame,
         WriteFrameFails, ReceiveReply, ReceiveReplyFails, HangUp, ClientEnds
<1>7. CASE (Daemon /\ ~Forward) \/ Killed
  BY <1>7, RepliesUnchanged
     DEF Daemon, SpawnSupervision, Startup, BindListener, BindListenerFails,
         ApplyMode, ApplyModeFails, StartRoot, Serve, CheckStop, AcceptOne,
         PollNext, PeerCredentialsFail, ReadRequest, ReadRequestFails,
         ReplyWithoutRouter, AskFails, RouterAnswered, RouterFails, WriteReply,
         WriteReplyFails, Finish, StopRoot, RunFails, DropUnlink, DropClose,
         Killed, Fail, ServingFails, NoLink
<1> QED
  BY <1>1, <1>2, <1>3, <1>4, <1>5, <1>6, <1>7 DEF Next, Router, Handle

LEMMA ControlStep ==
    ASSUME TypeInv, Next
    PROVE  ControlOK'
<1> USE DEF TypeInv, TypeOK, ControlOK, InHand, At, None, Some
<1>1. CASE Startup \/ SpawnSupervision \/ Finish \/ Killed
  BY <1>1 DEF Startup, BindListener, BindListenerFails, ApplyMode, ApplyModeFails,
              StartRoot, SpawnSupervision, Finish, StopRoot, RunFails, DropUnlink,
              DropClose, Killed, Fail
<1>2. CASE CheckStop \/ PollNext \/ PeerCredentialsFail
  BY <1>2 DEF CheckStop, PollNext, PeerCredentialsFail, Fail
<1>3. CASE AcceptOne
  <2>1. Head(backlog[slot]) \in Clients
    BY <1>3, HeadTailProperties DEF AcceptOne, ThreadTypeOK, SocketTypeOK
  <2> QED
    BY <1>3, <2>1 DEF AcceptOne
<1>4. CASE ReadRequest
  BY <1>4 DEF ReadRequest, ClientTypeOK
<1>5. CASE ReadRequestFails \/ AskFails \/ RouterFails \/ WriteReplyFails
  BY <1>5 DEF ReadRequestFails, AskFails, RouterFails, WriteReplyFails,
              ServingFails, Fail, NoLink
<1>6. CASE Forward \/ ReplyWithoutRouter
  BY <1>6 DEF Forward, ReplyWithoutRouter
<1>7. CASE RouterAnswered \/ WriteReply
  BY <1>7 DEF RouterAnswered, WriteReply, NoLink
<1>8. ASSUME NEW c \in Clients, WriteFrame(c) PROVE ControlOK'
  <2>1. PICK frame \in ClientFrames(c) : sent' = [sent EXCEPT ![c] = Append(@, frame)]
    BY <1>8 DEF WriteFrame
  <2>2. \A d \in Clients : sent[d] # <<>> => sent'[d] # <<>> /\ sent'[d][1] = sent[d][1]
    BY <2>1, AppendProperties DEF ClientTypeOK
  <2> QED
    BY <1>8, <2>2 DEF WriteFrame
<1>9. ASSUME NEW c \in Clients, Client(c), ~WriteFrame(c) PROVE ControlOK'
  BY <1>9 DEF Client, Submit, Connect, ConnectFails, WriteFrameFails,
              ReceiveReply, ReceiveReplyFails, HangUp, ClientEnds
<1>10. CASE RequestStop \/ RouterStart \/ RouterStop \/ RouterAnswer \/ RouterReject
  BY <1>10 DEF RequestStop, RouterStart, RouterStop, RouterAnswer, RouterReject
<1>11. CASE RouterProcess
  BY <1>11, AppendProperties DEF RouterProcess, RouterTypeOK
<1> QED
  BY <1>1, <1>2, <1>3, <1>4, <1>5, <1>6, <1>7, <1>8, <1>9, <1>10, <1>11
     DEF Next, Daemon, Serve, Router, Handle

-----------------------------------------------------------------------------
(***************************************************************************)
(* Type correctness                                                        *)
(***************************************************************************)

LEMMA InitTypeInv == Init => TypeInv
<1> SUFFICES ASSUME Init PROVE TypeInv
  OBVIOUS
<1> USE DEF Init, Option, None
<1>1. ThreadTypeOK
  <2>1. slot \in Bindings /\ forwardedCount \in 0 .. MaxForwardedCount
    BY BindingsAssumption, BoundsAssumption DEF Bindings
  <2> QED
    BY <2>1 DEF ThreadTypeOK, Labels
<1>2. SocketTypeOK
  BY EmptySeq DEF SocketTypeOK
<1>3. ClientTypeOK
  BY EmptySeq DEF ClientTypeOK
<1>4. RouterTypeOK
  BY EmptySeq DEF RouterTypeOK
<1>5. ControlOK
  BY DEF ControlOK
<1> QED
  BY <1>1, <1>2, <1>3, <1>4, <1>5 DEF TypeInv, TypeOK

LEMMA TypeInvStep == TypeInv /\ [Next]_vars => TypeInv'
<1> SUFFICES ASSUME TypeInv, [Next]_vars PROVE TypeInv'
  OBVIOUS
<1>1. CASE Next
  BY <1>1, ThreadTypeStep, SocketTypeStep, ClientTypeStep, RouterTypeStep,
     ControlStep DEF TypeInv, TypeOK
<1>2. CASE UNCHANGED vars
  BY <1>2, RepliesUnchanged
     DEF TypeInv, TypeOK, ThreadTypeOK, SocketTypeOK, ClientTypeOK, RouterTypeOK,
         ControlOK, InHand
<1> QED
  BY <1>1, <1>2

\* Whatever the clients write, and wherever the daemon, a client or the router
\* fails, every variable keeps the type the code gives it; in particular a
\* reply on its way never names an entry the router's ledger does not have.
THEOREM TypeCorrect == Spec => []TypeOK
<1>1. TypeInv => TypeOK
  BY DEF TypeInv
<1> QED
  BY InitTypeInv, TypeInvStep, <1>1, PTL DEF Spec

-----------------------------------------------------------------------------
(***************************************************************************)
(* The connections: which one is served, which are queued                  *)
(***************************************************************************)

Serving == {"read", "ask", "await", "reply"}

\* The one connection that is accepted is the one that is served.
ServingInv ==
    /\ \A c \in Clients : serverEnd[c] = "accepted" => c = current /\ pc \in Serving
    /\ pc \in Serving => serverEnd[current] = "accepted"

\* A connection is queued once, at its client's binding, and never again.
QueueInv ==
    /\ \A c \in Clients : cpc[c] = "idle" => serverEnd[c] = "none"
    /\ \A i \in Bindings : \A k \in DOMAIN backlog[i] :
           serverEnd[backlog[i][k]] = "queued" /\ BindingOf[backlog[i][k]] = i
    /\ \A i \in Bindings : \A j, k \in DOMAIN backlog[i] :
           backlog[i][j] = backlog[i][k] => j = k

ConnectionInv == TypeInv /\ ServingInv /\ QueueInv

-----------------------------------------------------------------------------
(***************************************************************************)
(* The steps that touch no connection                                      *)
(***************************************************************************)

\* The steps that do.
Touching ==
    \/ BindListenerFails \/ ApplyModeFails \/ RunFails
    \/ AcceptOne \/ PeerCredentialsFail
    \/ ReadRequestFails \/ AskFails \/ RouterFails \/ WriteReplyFails
    \/ WriteReply \/ DropClose \/ Killed
    \/ \E c \in Clients : Connect(c)

LEMMA Untouched ==
    ASSUME Next, ~Touching
    PROVE  /\ serverEnd' = serverEnd /\ backlog' = backlog /\ current' = current
           /\ pc \in Serving <=> pc' \in Serving
           /\ pc \in {"await", "reply"} => pc' \in {"await", "reply"}
<1>1. CASE \/ BindListener \/ ApplyMode \/ SpawnSupervision \/ StartRoot
           \/ CheckStop \/ PollNext \/ StopRoot
  <2>1. UNCHANGED <<serverEnd, backlog, current>>
    BY <1>1 DEF BindListener, ApplyMode, SpawnSupervision, StartRoot, CheckStop,
                PollNext, StopRoot
  <2>2. pc \notin Serving
    BY <1>1 DEF BindListener, ApplyMode, SpawnSupervision, StartRoot, CheckStop,
                PollNext, StopRoot, At, Serving
  <2>3. pc' \notin Serving
    BY <1>1 DEF BindListener, ApplyMode, SpawnSupervision, StartRoot, CheckStop,
                PollNext, StopRoot, Serving
  <2> QED
    BY <2>1, <2>2, <2>3 DEF Serving
<1>2. CASE ReadRequest \/ Forward \/ ReplyWithoutRouter \/ RouterAnswered
  <2>1. UNCHANGED <<serverEnd, backlog, current>>
    BY <1>2 DEF ReadRequest, Forward, ReplyWithoutRouter, RouterAnswered
  <2>2. \/ pc \in {"read", "ask"} /\ pc' \in {"ask", "await", "reply"}
        \/ pc = "await" /\ pc' = "reply"
    BY <1>2 DEF ReadRequest, Forward, ReplyWithoutRouter, RouterAnswered, At
  <2> QED
    BY <2>1, <2>2 DEF Serving
<1>3. CASE \/ DropUnlink \/ RequestStop \/ Router
           \/ \E c \in Clients : Client(c) /\ ~Connect(c)
  <2>1. UNCHANGED <<serverEnd, backlog, current, pc>>
    BY <1>3 DEF DropUnlink, RequestStop, Client, Submit, ConnectFails, WriteFrame,
                WriteFrameFails, ReceiveReply, ReceiveReplyFails, HangUp,
                ClientEnds, Router, Handle, RouterStart, RouterStop,
                RouterProcess, RouterAnswer, RouterReject
  <2> QED
    BY <2>1
<1> QED
  BY <1>1, <1>2, <1>3 DEF Touching, Next, Daemon, Startup, Serve, Finish, Client,
                          Submit

\* A client that is idle has been so.
LEMMA IdleBefore ==
    ASSUME TypeInv, Next, NEW c \in Clients, cpc'[c] = "idle"
    PROVE  cpc[c] = "idle"
<1>1. CASE UNCHANGED cpc
  BY <1>1
<1>2. CASE \E d \in Clients :
               \/ cpc' = [cpc EXCEPT ![d] = "connected"]
               \/ cpc' = [cpc EXCEPT ![d] = "waiting"]
               \/ cpc' = [cpc EXCEPT ![d] = "answered"]
               \/ cpc' = [cpc EXCEPT ![d] = "failed"]
               \/ cpc' = [cpc EXCEPT ![d] = "gone"]
  BY <1>2 DEF TypeInv, TypeOK, ClientTypeOK
<1>3. \/ UNCHANGED cpc
      \/ \E d \in Clients :
               \/ cpc' = [cpc EXCEPT ![d] = "connected"]
               \/ cpc' = [cpc EXCEPT ![d] = "waiting"]
               \/ cpc' = [cpc EXCEPT ![d] = "answered"]
               \/ cpc' = [cpc EXCEPT ![d] = "failed"]
               \/ cpc' = [cpc EXCEPT ![d] = "gone"]
  BY DEF Next, Daemon, SpawnSupervision, Startup, BindListener,
         BindListenerFails, ApplyMode, ApplyModeFails, StartRoot, Serve,
         CheckStop, AcceptOne, PollNext, PeerCredentialsFail, ReadRequest,
         ReadRequestFails, Forward, ReplyWithoutRouter, AskFails,
         RouterAnswered, RouterFails, WriteReply, WriteReplyFails, Finish,
         StopRoot, RunFails, DropUnlink, DropClose, Killed, Fail, ServingFails,
         RequestStop, Client, Submit, Connect, ConnectFails, WriteFrame,
         WriteFrameFails, ReceiveReply, ReceiveReplyFails, HangUp, ClientEnds,
         Router, Handle, RouterStart, RouterStop, RouterProcess, RouterAnswer,
         RouterReject
<1> QED
  BY <1>1, <1>2, <1>3

\* The connection at the head of a queue.
LEMMA HeadOfQueue ==
    ASSUME TypeInv, QueueInv, NEW i \in Bindings, backlog[i] # <<>>
    PROVE  LET c == Head(backlog[i]) IN
           /\ c \in Clients /\ serverEnd[c] = "queued" /\ BindingOf[c] = i
           /\ Tail(backlog[i]) \in Seq(Clients)
           /\ \A k \in DOMAIN Tail(backlog[i]) :
                  /\ k + 1 \in DOMAIN backlog[i]
                  /\ Tail(backlog[i])[k] = backlog[i][k + 1]
                  /\ Tail(backlog[i])[k] # c
<1>1. backlog[i] \in Seq(Clients)
  BY DEF TypeInv, TypeOK, SocketTypeOK
<1>2. 1 \in DOMAIN backlog[i] /\ Head(backlog[i]) = backlog[i][1]
  BY <1>1, LenProperties, EmptySeq
<1>3. \A k \in DOMAIN Tail(backlog[i]) :
          /\ k + 1 \in DOMAIN backlog[i] /\ k + 1 # 1
          /\ Tail(backlog[i])[k] = backlog[i][k + 1]
  BY <1>1, HeadTailProperties, LenProperties
<1>4. Head(backlog[i]) \in Clients /\ Tail(backlog[i]) \in Seq(Clients)
  BY <1>1, HeadTailProperties
<1> QED
  BY <1>2, <1>3, <1>4 DEF QueueInv

-----------------------------------------------------------------------------
(***************************************************************************)
(* Every step keeps the invariant                                          *)
(***************************************************************************)

LEMMA ServingStep ==
    ASSUME TypeInv, ServingInv, QueueInv, Next
    PROVE  ServingInv'
<1> USE DEF ServingInv
<1>0. /\ serverEnd \in [Clients -> {"none", "queued", "accepted", "closed"}]
      /\ slot \in Bindings
      /\ pc \in {"read", "ask", "await", "reply"} => current \in Clients
  BY DEF TypeInv, TypeOK, SocketTypeOK, ThreadTypeOK, ControlOK
<1>1. CASE AcceptOne
  <2>1. Head(backlog[slot]) \in Clients /\ pc \notin Serving
    BY <1>0, <1>1, HeadOfQueue DEF AcceptOne, At, Serving
  <2> QED
    BY <1>0, <1>1, <2>1 DEF AcceptOne, Serving
<1>2. CASE ReadRequestFails \/ AskFails \/ RouterFails \/ WriteReplyFails
  BY <1>0, <1>2 DEF ReadRequestFails, AskFails, RouterFails, WriteReplyFails,
                    ServingFails, Fail, Close, Serving
<1>3. CASE WriteReply
  BY <1>0, <1>3 DEF WriteReply, Close, Serving
<1>4. CASE \/ BindListenerFails \/ ApplyModeFails \/ RunFails \/ PeerCredentialsFail
           \/ DropClose
  <2>1. pc \notin Serving /\ pc' \notin Serving
    BY <1>4 DEF BindListenerFails, ApplyModeFails, RunFails, PeerCredentialsFail,
                DropClose, Fail, At, Serving
  <2>2. \A c \in Clients : serverEnd'[c] = "accepted" => serverEnd[c] = "accepted"
    BY <1>4 DEF BindListenerFails, ApplyModeFails, RunFails, PeerCredentialsFail,
                DropClose, Fail, Close
  <2> QED
    BY <2>1, <2>2
<1>5. CASE Killed
  BY <1>0, <1>5 DEF Killed, Close, Serving
<1>6. ASSUME NEW c \in Clients, Connect(c) PROVE ServingInv'
  <2>1. c # current \/ pc \notin Serving
    BY <1>6 DEF Connect, QueueInv
  <2> QED
    BY <1>0, <1>6, <2>1 DEF Connect, Serving
<1>7. CASE ~Touching
  BY <1>7, Untouched
<1> QED
  BY <1>1, <1>2, <1>3, <1>4, <1>5, <1>6, <1>7 DEF Touching

\* What holds of the queues when no connection is queued or dequeued, and
\* queued connections are closed together with their queue.
LEMMA QueueKept ==
    ASSUME TypeInv, QueueInv, Next,
           \A c \in Clients : serverEnd[c] = "none" /\ cpc'[c] = "idle"
                                  => serverEnd'[c] = "none",
           \A i \in Bindings :
               \/ backlog'[i] = <<>>
               \/ /\ backlog'[i] = backlog[i]
                  /\ \A c \in Clients : serverEnd[c] = "queued" /\ BindingOf[c] = i
                                            => serverEnd'[c] = "queued"
    PROVE  QueueInv'
<1>1. \A i \in Bindings : backlog[i] \in Seq(Clients)
  BY DEF TypeInv, TypeOK, SocketTypeOK
<1>2. \A i \in Bindings : \A k \in DOMAIN backlog[i] : backlog[i][k] \in Clients
  BY <1>1, LenProperties, ElementOfSeq
<1>3. DOMAIN <<>> = {}
  OBVIOUS
<1> QED
  BY <1>2, <1>3, IdleBefore DEF QueueInv

LEMMA QueueStep ==
    ASSUME TypeInv, ServingInv, QueueInv, Next
    PROVE  QueueInv'
<1>0. /\ serverEnd \in [Clients -> {"none", "queued", "accepted", "closed"}]
      /\ backlog \in [Bindings -> Seq(Clients)]
      /\ slot \in Bindings
      /\ pc \in Serving => current \in Clients /\ serverEnd[current] = "accepted"
  BY DEF TypeInv, TypeOK, SocketTypeOK, ThreadTypeOK, ControlOK, ServingInv, Serving
<1>1. CASE \/ BindListenerFails \/ RunFails \/ ReadRequestFails \/ AskFails
           \/ RouterFails \/ WriteReplyFails \/ WriteReply
  <2>1. \A c \in Clients : serverEnd'[c] = serverEnd[c] \/ serverEnd[c] = "accepted"
    BY <1>0, <1>1 DEF BindListenerFails, RunFails, ReadRequestFails, AskFails,
                      RouterFails, WriteReplyFails, WriteReply, ServingFails,
                      Fail, Close, At, Serving
  <2>2. backlog' = backlog
    BY <1>1 DEF BindListenerFails, RunFails, ReadRequestFails, AskFails,
                RouterFails, WriteReplyFails, WriteReply, ServingFails, Fail
  <2> QED
    BY <2>1, <2>2, QueueKept
<1>2. CASE ApplyModeFails \/ DropClose
  <2>1. /\ backlog' = [backlog EXCEPT ![slot] = <<>>]
        /\ Close(Queued(slot))
    BY <1>2 DEF ApplyModeFails, DropClose, Fail
  <2>2. \A c \in Clients : \/ serverEnd'[c] = serverEnd[c]
                           \/ serverEnd[c] = "queued" /\ BindingOf[c] = slot
    BY <2>1 DEF Close, Queued
  <2> QED
    BY <1>0, <2>1, <2>2, QueueKept
<1>3. CASE Killed
  <2>1. \A i \in Bindings : backlog'[i] = <<>>
    BY <1>3 DEF Killed
  <2>2. \A c \in Clients : serverEnd[c] = "none" => serverEnd'[c] = "none"
    BY <1>3 DEF Killed, Close
  <2> QED
    BY <2>1, <2>2, QueueKept
<1>4. CASE AcceptOne \/ PeerCredentialsFail
  <2> DEFINE c == Head(backlog[slot])
  <2>1. /\ backlog' = [backlog EXCEPT ![slot] = Tail(@)]
        /\ \A d \in Clients : d # c => serverEnd'[d] = serverEnd[d]
        /\ backlog[slot] # <<>>
        /\ cpc' = cpc
    BY <1>0, <1>4 DEF AcceptOne, PeerCredentialsFail, Fail, Close
  <2>2. \A i \in Bindings : \A k \in DOMAIN backlog[i] : backlog[i][k] \in Clients
    BY <1>0, LenProperties, ElementOfSeq
  <2>3. \A i \in Bindings : \A k \in DOMAIN backlog'[i] :
            /\ serverEnd'[backlog'[i][k]] = "queued"
            /\ BindingOf[backlog'[i][k]] = i
    BY <1>0, <2>1, <2>2, HeadOfQueue DEF QueueInv
  <2>4. \A i \in Bindings : \A j, k \in DOMAIN backlog'[i] :
            backlog'[i][j] = backlog'[i][k] => j = k
    BY <1>0, <2>1, HeadOfQueue, LenProperties DEF QueueInv
  <2>5. \A d \in Clients : cpc'[d] = "idle" => serverEnd'[d] = "none"
    BY <1>0, <2>1, HeadOfQueue DEF QueueInv
  <2> QED
    BY <2>3, <2>4, <2>5 DEF QueueInv
<1>5. ASSUME NEW c \in Clients, Connect(c) PROVE QueueInv'
  <2> DEFINE b == BindingOf[c]
  <2>1. /\ serverEnd[c] = "none" /\ b \in Bindings
        /\ serverEnd' = [serverEnd EXCEPT ![c] = "queued"]
        /\ backlog' = [backlog EXCEPT ![b] = Append(@, c)]
        /\ cpc' = [cpc EXCEPT ![c] = "connected"]
    BY <1>5, BindingsAssumption DEF Connect, QueueInv
  <2>2. cpc'[c] # "idle"
    BY <2>1 DEF TypeInv, TypeOK, ClientTypeOK
  <2>3. \A i \in Bindings : \A k \in DOMAIN backlog[i] :
            backlog[i][k] \in Clients /\ backlog[i][k] # c
    BY <1>0, <2>1, LenProperties, ElementOfSeq DEF QueueInv
  <2>4. /\ backlog[b] \in Seq(Clients)
        /\ DOMAIN backlog'[b] = DOMAIN backlog[b] \cup {Len(backlog[b]) + 1}
        /\ backlog'[b][Len(backlog[b]) + 1] = c
        /\ \A k \in DOMAIN backlog[b] : backlog'[b][k] = backlog[b][k]
    BY <1>0, <2>1, AppendProperties, LenProperties
  <2>5. \A i \in Bindings : i # b => backlog'[i] = backlog[i]
    BY <1>0, <2>1
  <2>6. \A i \in Bindings : \A k \in DOMAIN backlog'[i] :
            serverEnd'[backlog'[i][k]] = "queued" /\ BindingOf[backlog'[i][k]] = i
    <3>1. /\ serverEnd'[c] = "queued"
          /\ \A d \in Clients : d # c => serverEnd'[d] = serverEnd[d]
      BY <1>0, <2>1
    <3> QED
      BY <2>3, <2>4, <2>5, <3>1 DEF QueueInv
  <2>7. \A i \in Bindings : \A j, k \in DOMAIN backlog'[i] :
            backlog'[i][j] = backlog'[i][k] => j = k
    BY <2>3, <2>4, <2>5 DEF QueueInv
  <2>8. \A d \in Clients : cpc'[d] = "idle" => serverEnd'[d] = "none"
    BY <1>0, <2>1, <2>2, IdleBefore DEF QueueInv
  <2> QED
    BY <2>6, <2>7, <2>8 DEF QueueInv
<1>6. CASE ~Touching
  BY <1>6, Untouched, QueueKept
<1> QED
  BY <1>1, <1>2, <1>3, <1>4, <1>5, <1>6 DEF Touching

LEMMA ConnectionStep == ConnectionInv /\ [Next]_vars => ConnectionInv'
<1> SUFFICES ASSUME ConnectionInv, [Next]_vars PROVE ConnectionInv'
  OBVIOUS
<1>1. TypeInv'
  BY TypeInvStep DEF ConnectionInv
<1>2. CASE Next
  BY <1>1, <1>2, ServingStep, QueueStep DEF ConnectionInv
<1>3. CASE UNCHANGED vars
  BY <1>1, <1>3 DEF ConnectionInv, ServingInv, QueueInv
<1> QED
  BY <1>2, <1>3

LEMMA ConnectionInit == Init => ConnectionInv
<1> SUFFICES ASSUME Init PROVE ConnectionInv
  OBVIOUS
<1>1. DOMAIN <<>> = {}
  OBVIOUS
<1>2. ServingInv /\ QueueInv
  BY <1>1 DEF Init, ServingInv, QueueInv, Serving
<1> QED
  BY <1>2, InitTypeInv DEF ConnectionInv

-----------------------------------------------------------------------------
(***************************************************************************)
(* The listeners                                                           *)
(***************************************************************************)

\* Past the last bind and its mode, before the first drop.
AllBound == {"spawnSupervision", "startRoot", "checkStop", "poll", "stopRoot"}
            \cup Serving

\* What the place in run() says of every listener: the loops over the bindings
\* have done those before slot and not those after it.
ListenerInv ==
    /\ exit = "running" <=> pc \notin {"drop", "exited"}
    /\ pc \in AllBound => \A i \in Bindings : listener[i] = "listening"
    /\ pc \in {"bind", "applyMode"} =>
           /\ listener[slot] = IF pc = "bind" THEN "absent" ELSE "bound"
           /\ \A i \in Bindings :
                  /\ i < slot => listener[i] = "listening"
                  /\ i > slot => listener[i] = "absent"
    /\ pc = "drop" =>
           \A i \in Bindings :
               /\ i < slot => listener[i] \in {"absent", "closed"}
               /\ i = slot => listener[i] \in {"absent", "listening", "unlinked"}
               /\ i > slot => listener[i] \in {"absent", "listening"}
    /\ pc = "exited" => \A i \in Bindings : listener[i] \in {"absent", "closed"}
    /\ exit = "ok" => \A i \in Bindings : listener[i] # "absent"

\* A path goes before its listener does, and its connections with it.
ReleaseInv ==
    /\ \A i \in Bindings :
           exit # "killed" /\ listener[i] \in {"unlinked", "closed"} => ~linked[i]
    /\ \A c \in Clients : serverEnd[c] = "queued" =>
           listener[BindingOf[c]] \in {"bound", "listening", "unlinked"}

LifeInv == ConnectionInv /\ ListenerInv /\ ReleaseInv

\* The steps that touch no listener.
LEMMA ListenersUntouched ==
    ASSUME Next, ~BindListener, ~ApplyMode, ~ApplyModeFails, ~DropUnlink, ~DropClose,
           ~Killed
    PROVE  listener' = listener
  BY DEF Next, Daemon, SpawnSupervision, Startup, BindListenerFails, StartRoot, Serve,
         CheckStop, AcceptOne, PollNext, PeerCredentialsFail, ReadRequest,
         ReadRequestFails, Forward, ReplyWithoutRouter, AskFails, RouterAnswered,
         RouterFails, WriteReply, WriteReplyFails, Finish, StopRoot, RunFails,
         Fail, ServingFails, RequestStop, Client, Submit, Connect, ConnectFails,
         WriteFrame, WriteFrameFails, ReceiveReply, ReceiveReplyFails, HangUp,
         ClientEnds, Router, Handle, RouterStart, RouterStop, RouterProcess,
         RouterAnswer, RouterReject

LEMMA ListenerStep ==
    ASSUME LifeInv, Next
    PROVE  ListenerInv'
<1> USE DEF ListenerInv, AllBound, Serving, At
<1>0. /\ listener \in [Bindings -> {"absent", "bound", "listening", "unlinked", "closed"}]
      /\ slot \in Bindings /\ Bindings \subseteq Nat
      /\ 1 \in Bindings /\ NumBindings \in Bindings
      /\ \A i \in Bindings : 1 <= i /\ i <= NumBindings
      /\ ListenerInv
  BY BindingsAssumption DEF LifeInv, ConnectionInv, TypeInv, TypeOK, SocketTypeOK,
                            ThreadTypeOK, Bindings
<1>1. CASE BindListener
  BY <1>0, <1>1 DEF BindListener
<1>2. CASE ApplyMode
  <2>1. /\ pc = "applyMode" /\ exit = "running" /\ exit' = exit
        /\ listener' = [listener EXCEPT ![slot] = "listening"]
    BY <1>2 DEF ApplyMode
  <2>2. CASE slot = NumBindings
    <3>1. pc' = "spawnSupervision"
      BY <1>2, <2>2 DEF ApplyMode
    <3>2. \A i \in Bindings : listener'[i] = "listening"
      BY <1>0, <2>1, <2>2
    <3> QED
      BY <2>1, <3>1, <3>2
  <2>3. CASE slot # NumBindings
    <3>1. pc' = "bind" /\ slot' = slot + 1 /\ slot' \in Bindings
      BY <1>0, <1>2, <2>3 DEF ApplyMode, Bindings
    <3>2. \A i \in Bindings : /\ i < slot' => listener'[i] = "listening"
                             /\ i >= slot' => listener'[i] = "absent"
      BY <1>0, <2>1, <3>1
    <3> QED
      BY <1>0, <2>1, <3>1, <3>2
  <2> QED
    BY <2>2, <2>3
<1>3. CASE ApplyModeFails
  <2>1. /\ pc = "applyMode" /\ exit' = "error" /\ pc' = "drop" /\ slot' = 1
        /\ listener' = [listener EXCEPT ![slot] = "absent"]
    BY <1>3 DEF ApplyModeFails, Fail
  <2>2. \A i \in Bindings : listener'[i] \in {"absent", "listening"}
    BY <1>0, <2>1
  <2> QED
    BY <1>0, <2>1, <2>2
<1>4. CASE BindListenerFails \/ RunFails \/ StopRoot \/ PeerCredentialsFail
  <2>1. /\ pc' = "drop" /\ slot' = 1 /\ exit' \in {"error", "ok"}
        /\ listener' = listener
        /\ exit' = "ok" => pc = "stopRoot"
        /\ pc \in AllBound \cup {"bind"}
    BY <1>4 DEF BindListenerFails, RunFails, StopRoot, PeerCredentialsFail, Fail
  <2>2. \A i \in Bindings : listener[i] \in {"absent", "listening"}
    BY <1>0, <2>1
  <2>3. pc = "stopRoot" => \A i \in Bindings : listener[i] # "absent"
    BY <1>0
  <2> QED
    BY <1>0, <2>1, <2>2, <2>3
<1>5. CASE ReadRequestFails \/ AskFails \/ RouterFails \/ WriteReplyFails
  <2>1. /\ pc' = "drop" /\ slot' = 1 /\ exit' = "error" /\ listener' = listener
        /\ pc \in Serving
    BY <1>5 DEF ReadRequestFails, AskFails, RouterFails, WriteReplyFails,
                ServingFails, Fail
  <2>2. \A i \in Bindings : listener[i] = "listening"
    BY <1>0, <2>1
  <2> QED
    BY <1>0, <2>1, <2>2
<1>6. CASE \/ SpawnSupervision \/ StartRoot \/ CheckStop \/ AcceptOne \/ PollNext
           \/ ReadRequest \/ Forward \/ ReplyWithoutRouter \/ RouterAnswered
           \/ WriteReply
  BY <1>0, <1>6 DEF SpawnSupervision, StartRoot, CheckStop, AcceptOne, PollNext,
                    ReadRequest, Forward, ReplyWithoutRouter, RouterAnswered,
                    WriteReply
<1>7. CASE DropUnlink
  BY <1>0, <1>7 DEF DropUnlink
<1>8. CASE DropClose
  <2>1. /\ pc = "drop" /\ exit' = exit
        /\ listener[slot] \in {"unlinked", "absent"}
        /\ listener' = [listener EXCEPT ![slot] = IF @ = "unlinked" THEN "closed" ELSE @]
    BY <1>8 DEF DropClose
  <2>2. /\ listener'[slot] \in {"closed", "absent"}
        /\ \A i \in Bindings : /\ i # slot => listener'[i] = listener[i]
                              /\ listener'[i] = "absent" => listener[i] = "absent"
    BY <1>0, <2>1
  <2>3. CASE slot = NumBindings
    <3>1. pc' = "exited"
      BY <1>8, <2>3 DEF DropClose
    <3> QED
      BY <1>0, <2>1, <2>2, <2>3, <3>1
  <2>4. CASE slot # NumBindings
    <3>1. pc' = "drop" /\ slot' = slot + 1
      BY <1>8, <2>1, <2>4 DEF DropClose
    <3> QED
      BY <1>0, <2>1, <2>2, <3>1
  <2> QED
    BY <2>3, <2>4
<1>9. CASE Killed
  BY <1>0, <1>9 DEF Killed
<1>10. CASE \/ RequestStop \/ Router \/ \E c \in Clients : Client(c)
  <2>1. UNCHANGED <<pc, slot, exit, listener>>
    BY <1>10 DEF RequestStop, Client, Submit, Connect, ConnectFails, WriteFrame,
                 WriteFrameFails, ReceiveReply, ReceiveReplyFails, HangUp,
                 ClientEnds, Router, Handle, RouterStart, RouterStop,
                 RouterProcess, RouterAnswer, RouterReject
  <2> QED
    BY <1>0, <2>1
<1> QED
  BY <1>1, <1>2, <1>3, <1>4, <1>5, <1>6, <1>7, <1>8, <1>9, <1>10
     DEF Next, Daemon, Startup, Serve, Finish
\* Only a client that connects becomes queued.
LEMMA QueuedBefore ==
    ASSUME LifeInv, Next, NEW c \in Clients, serverEnd'[c] = "queued", ~Connect(c)
    PROVE  serverEnd[c] = "queued"
<1>0. /\ serverEnd \in [Clients -> {"none", "queued", "accepted", "closed"}]
      /\ slot \in Bindings /\ TypeInv /\ QueueInv
  BY DEF LifeInv, ConnectionInv, TypeInv, TypeOK, SocketTypeOK, ThreadTypeOK
<1>1. CASE AcceptOne
  BY <1>0, <1>1, HeadOfQueue DEF AcceptOne
<1>2. ASSUME NEW d \in Clients, Connect(d) PROVE serverEnd[c] = "queued"
  BY <1>0, <1>2 DEF Connect
<1>3. CASE \/ BindListenerFails \/ ApplyModeFails \/ RunFails \/ PeerCredentialsFail
           \/ ReadRequestFails \/ AskFails \/ RouterFails \/ WriteReplyFails
           \/ WriteReply \/ DropClose \/ Killed
  BY <1>3 DEF BindListenerFails, ApplyModeFails, RunFails, PeerCredentialsFail,
              ReadRequestFails, AskFails, RouterFails, WriteReplyFails, WriteReply,
              DropClose, Killed, ServingFails, Fail, Close
<1>4. CASE ~Touching
  BY <1>4, Untouched
<1> QED
  BY <1>1, <1>2, <1>3, <1>4 DEF Touching

\* A path is made by BindListener alone.
LEMMA LinkedBefore ==
    ASSUME LifeInv, Next, ~BindListener, NEW i \in Bindings, linked'[i]
    PROVE  linked[i]
<1>0. linked \in [Bindings -> BOOLEAN] /\ slot \in Bindings
  BY DEF LifeInv, ConnectionInv, TypeInv, TypeOK, SocketTypeOK, ThreadTypeOK
<1>1. CASE BindListenerFails
  BY <1>0, <1>1 DEF BindListenerFails
<1>2. CASE DropUnlink
  BY <1>0, <1>2 DEF DropUnlink
<1>3. CASE UNCHANGED linked
  BY <1>3
<1>4. ~BindListenerFails /\ ~DropUnlink => UNCHANGED linked
  BY DEF Next, Daemon, SpawnSupervision, Startup, ApplyMode, ApplyModeFails,
         StartRoot, Serve, CheckStop, AcceptOne, PollNext, PeerCredentialsFail,
         ReadRequest, ReadRequestFails, Forward, ReplyWithoutRouter, AskFails,
         RouterAnswered, RouterFails, WriteReply, WriteReplyFails, Finish, StopRoot,
         RunFails, DropClose, Killed, Fail, ServingFails, RequestStop, Client,
         Submit, Connect, ConnectFails, WriteFrame, WriteFrameFails, ReceiveReply,
         ReceiveReplyFails, HangUp, ClientEnds, Router, Handle, RouterStart,
         RouterStop, RouterProcess, RouterAnswer, RouterReject
<1> QED
  BY <1>1, <1>2, <1>3, <1>4

\* A process that was killed stays so.
LEMMA KilledStays ==
    ASSUME ListenerInv, Next, exit = "killed"
    PROVE  exit' = "killed"
<1>1. pc \in {"drop", "exited"}
  BY DEF ListenerInv
<1> QED
  BY <1>1 DEF Next, Daemon, SpawnSupervision, Startup, BindListener,
         BindListenerFails, ApplyMode, ApplyModeFails, StartRoot, Serve,
         CheckStop, AcceptOne, PollNext, PeerCredentialsFail, ReadRequest,
         ReadRequestFails, Forward, ReplyWithoutRouter, AskFails,
         RouterAnswered, RouterFails, WriteReply, WriteReplyFails, Finish,
         StopRoot, RunFails, DropUnlink, DropClose, Killed, At,
         RequestStop, Client, Submit, Connect, ConnectFails, WriteFrame,
         WriteFrameFails, ReceiveReply, ReceiveReplyFails, HangUp, ClientEnds,
         Router, Handle, RouterStart, RouterStop, RouterProcess, RouterAnswer,
         RouterReject

LEMMA ReleaseStep ==
    ASSUME LifeInv, Next
    PROVE  ReleaseInv'
<1>0. /\ listener \in [Bindings -> {"absent", "bound", "listening", "unlinked", "closed"}]
      /\ linked \in [Bindings -> BOOLEAN]
      /\ serverEnd \in [Clients -> {"none", "queued", "accepted", "closed"}]
      /\ slot \in Bindings
      /\ ListenerInv /\ ReleaseInv
  BY DEF LifeInv, ConnectionInv, TypeInv, TypeOK, SocketTypeOK, ThreadTypeOK
<1>1. ASSUME NEW i \in Bindings, exit' # "killed", listener'[i] \in {"unlinked", "closed"}
      PROVE  ~linked'[i]
  <2>1. exit # "killed"
    BY <1>0, <1>1, KilledStays
  <2>2. CASE listener[i] \in {"unlinked", "closed"} /\ ~BindListener
    BY <1>0, <2>1, <2>2, LinkedBefore DEF ReleaseInv
  <2>3. CASE DropUnlink
    BY <1>0, <1>1, <2>1, <2>3 DEF DropUnlink, ReleaseInv
  <2>4. CASE DropClose \/ ApplyMode \/ ApplyModeFails
    <3>1. listener[i] \in {"unlinked", "closed"}
      BY <1>0, <1>1, <2>4 DEF DropClose, ApplyMode, ApplyModeFails
    <3>2. ~BindListener
      BY <2>4 DEF DropClose, ApplyMode, ApplyModeFails, BindListener, At
    <3> QED
      BY <2>2, <3>1, <3>2
  <2>5. CASE BindListener
    <3>1. i # slot /\ listener'[i] = listener[i] /\ linked'[i] = linked[i]
      BY <1>0, <1>1, <2>5 DEF BindListener
    <3> QED
      BY <1>0, <1>1, <2>1, <3>1 DEF ReleaseInv
  <2>6. CASE Killed
    BY <1>1, <2>6 DEF Killed
  <2> QED
    BY <1>1, <2>2, <2>3, <2>4, <2>5, <2>6, ListenersUntouched
<1>2. ASSUME NEW c \in Clients, serverEnd'[c] = "queued"
      PROVE  listener'[BindingOf[c]] \in {"bound", "listening", "unlinked"}
  <2>0. BindingOf[c] \in Bindings
    BY BindingsAssumption
  <2>1. CASE Connect(c)
    BY <2>1 DEF Connect, Reachable
  <2>2. CASE ~Connect(c)
    <3>0. /\ serverEnd[c] = "queued"
          /\ listener[BindingOf[c]] \in {"bound", "listening", "unlinked"}
      BY <1>0, <1>2, <2>2, QueuedBefore DEF ReleaseInv
    <3>1. CASE ApplyModeFails \/ DropClose
      <4>1. BindingOf[c] # slot
        BY <1>2, <3>0, <3>1 DEF ApplyModeFails, DropClose, Fail, Close, Queued
      <4> QED
        BY <1>0, <2>0, <3>0, <3>1, <4>1 DEF ApplyModeFails, DropClose
    <3>2. CASE Killed
      BY <1>2, <3>0, <3>2 DEF Killed, Close
    <3>3. CASE BindListener \/ ApplyMode \/ DropUnlink
      BY <1>0, <2>0, <3>0, <3>3 DEF BindListener, ApplyMode, DropUnlink
    <3> QED
      BY <3>0, <3>1, <3>2, <3>3, ListenersUntouched
  <2> QED
    BY <2>1, <2>2
<1> QED
  BY <1>1, <1>2 DEF ReleaseInv

LEMMA LifeInit == Init => LifeInv
<1> SUFFICES ASSUME Init PROVE LifeInv
  OBVIOUS
<1>1. ListenerInv
  BY BindingsAssumption DEF Init, ListenerInv, AllBound, Serving, Bindings
<1>2. ReleaseInv
  BY BindingsAssumption DEF Init, ReleaseInv
<1> QED
  BY <1>1, <1>2, ConnectionInit DEF LifeInv

LEMMA LifeStep == LifeInv /\ [Next]_vars => LifeInv'
<1> SUFFICES ASSUME LifeInv, [Next]_vars PROVE LifeInv'
  OBVIOUS
<1>1. ConnectionInv'
  BY ConnectionStep DEF LifeInv
<1>2. CASE Next
  BY <1>1, <1>2, ListenerStep, ReleaseStep DEF LifeInv
<1>3. CASE UNCHANGED vars
  BY <1>1, <1>3 DEF LifeInv, ListenerInv, ReleaseInv
<1> QED
  BY <1>2, <1>3

LEMMA LifeInvariant == Spec => []LifeInv
  BY LifeInit, LifeStep, PTL DEF Spec

\* No connection is taken in hand before every socket of the configuration is
\* bound with its mode set, for any number of them (bind, accept_one).
THEOREM ModeBeforeAcceptHolds == Spec => []ModeBeforeAccept
<1>1. LifeInv => ModeBeforeAccept
  BY DEF LifeInv, ConnectionInv, ServingInv, ListenerInv, AllBound, ModeBeforeAccept
<1> QED
  BY LifeInvariant, <1>1, PTL

\* However the process ends, no connection stays with it; a return from run()
\* leaves no path of a socket it served on, and Ok none at all (Drop, run).
THEOREM ReleasedOnExitHolds == Spec => []ReleasedOnExit
<1>1. LifeInv => ReleasedOnExit
  <2> SUFFICES ASSUME LifeInv, pc = "exited"
               PROVE  /\ \A c \in Clients : serverEnd[c] \in {"none", "closed"}
                      /\ \A i \in Bindings :
                             /\ ~Reachable(i)
                             /\ exit = "ok" => listener[i] = "closed"
                             /\ exit # "killed" /\ listener[i] = "closed" => ~linked[i]
    BY DEF ReleasedOnExit
  <2>1. \A i \in Bindings : listener[i] \in {"absent", "closed"}
    BY DEF LifeInv, ListenerInv
  <2>2. \A c \in Clients : serverEnd[c] \in {"none", "closed"}
    <3>1. \A c \in Clients : serverEnd[c] # "accepted"
      BY DEF LifeInv, ConnectionInv, ServingInv, Serving
    <3>2. \A c \in Clients : serverEnd[c] # "queued"
      BY <2>1, BindingsAssumption DEF LifeInv, ReleaseInv
    <3> QED
      BY <3>1, <3>2 DEF LifeInv, ConnectionInv, TypeInv, TypeOK, SocketTypeOK
  <2> QED
    BY <2>1, <2>2 DEF LifeInv, ListenerInv, ReleaseInv, Reachable
<1> QED
  BY LifeInvariant, <1>1, PTL

-----------------------------------------------------------------------------
(***************************************************************************)
(* Provenance                                                              *)
(***************************************************************************)

\* The request on its way to the router is as genuine as those it has.
ProvenanceInv ==
    /\ TypeInv
    /\ ProvenanceMinted
    /\ toRouter # None => Genuine(toRouter[1], toRouter[1].sender)

\* The router's requests are those of clients.
LEMMA SenderIsClient ==
    ASSUME NEW request \in RouterRequests
    PROVE  request.sender \in Clients
  BY DEF RouterRequests, InboxQuery, StampedMessageSubmission

\* A client may write more frames, but its first one stays.
LEMMA FirstFrameStays ==
    ASSUME TypeInv, [Next]_vars, NEW c \in Clients, sent[c] # <<>>
    PROVE  sent'[c] # <<>> /\ sent'[c][1] = sent[c][1]
<1>1. CASE \E d \in Clients : WriteFrame(d)
  <2>1. PICK d \in Clients : \E frame \in ClientFrames(d) :
            sent' = [sent EXCEPT ![d] = Append(@, frame)]
    BY <1>1 DEF WriteFrame
  <2>2. PICK frame \in WrittenFrames : sent' = [sent EXCEPT ![d] = Append(@, frame)]
    BY <2>1 DEF WrittenFrames
  <2> sent \in [Clients -> Seq(WrittenFrames)]
    BY DEF TypeInv, TypeOK, ClientTypeOK
  <2>3. CASE c = d
    <3>1. sent'[c] = Append(sent[c], frame)
      BY <2>2, <2>3
    <3> QED
      BY <3>1, AppendProperties
  <2>4. CASE c # d
    BY <2>2, <2>4
  <2> QED
    BY <2>3, <2>4
<1>2. CASE UNCHANGED sent
  BY <1>2
<1>3. [Next]_vars /\ ~(\E d \in Clients : WriteFrame(d)) => UNCHANGED sent
  BY DEF Next, Daemon, SpawnSupervision, Startup, BindListener,
         BindListenerFails, ApplyMode, ApplyModeFails, StartRoot, Serve,
         CheckStop, AcceptOne, PollNext, PeerCredentialsFail, ReadRequest,
         ReadRequestFails, Forward, ReplyWithoutRouter, AskFails,
         RouterAnswered, RouterFails, WriteReply, WriteReplyFails, Finish,
         StopRoot, RunFails, DropUnlink, DropClose, Killed, Fail, ServingFails,
         RequestStop, Client, Submit, Connect, ConnectFails, WriteFrameFails,
         ReceiveReply, ReceiveReplyFails, HangUp, ClientEnds, Router, Handle,
         RouterStart, RouterStop, RouterProcess, RouterAnswer, RouterReject
<1> QED
  BY <1>1, <1>2, <1>3

\* A genuine request stays one.
LEMMA GenuineStays ==
    ASSUME TypeInv, [Next]_vars, NEW c \in Clients, NEW request, Genuine(request, c)
    PROVE  Genuine(request, c)'
<1>1. sent[c] # <<>>
  BY DEF Genuine
<1>2. sent'[c] # <<>> /\ sent'[c][1] = sent[c][1]
  BY <1>1, FirstFrameStays
<1>3. MintedOrigin(c)' = MintedOrigin(c)
  BY DEF MintedOrigin
<1> QED
  BY <1>2, <1>3 DEF Genuine, FirstRequest

\* Only the root actor puts a request on the connection to the router, and
\* only the router adds one to its ledger.
LEMMA OnlyForward ==
    ASSUME Next, ~Forward, ~RouterProcess
    PROVE  toRouter' \in {toRouter, None} /\ routerLog' = routerLog
  BY DEF Next, Daemon, SpawnSupervision, Startup, BindListener,
         BindListenerFails, ApplyMode, ApplyModeFails, StartRoot, Serve,
         CheckStop, AcceptOne, PollNext, PeerCredentialsFail, ReadRequest,
         ReadRequestFails, ReplyWithoutRouter, AskFails, RouterAnswered,
         RouterFails, WriteReply, WriteReplyFails, Finish, StopRoot, RunFails,
         DropUnlink, DropClose, Killed, Fail, ServingFails, NoLink,
         RequestStop, Client, Submit, Connect, ConnectFails, WriteFrame,
         WriteFrameFails, ReceiveReply, ReceiveReplyFails, HangUp, ClientEnds,
         Router, Handle, RouterStart, RouterStop, RouterAnswer, RouterReject

LEMMA ProvenanceStep == ProvenanceInv /\ [Next]_vars => ProvenanceInv'
<1> SUFFICES ASSUME ProvenanceInv, [Next]_vars PROVE ProvenanceInv'
  OBVIOUS
<1>1. TypeInv /\ TypeInv'
  BY TypeInvStep DEF ProvenanceInv
<1>2. routerLog \in Seq(RouterRequests) /\ toRouter \in Option(RouterRequests)
  BY <1>1 DEF TypeInv, TypeOK, RouterTypeOK
<1>3. \A request \in RouterRequests :
          Genuine(request, request.sender) => Genuine(request, request.sender)'
  BY <1>1, GenuineStays, SenderIsClient
<1>4. CASE Forward
  <2>1. PICK now \in ClockReadings :
            Decision(now).kind = "Forward" /\ toRouter' = Some(Decision(now).request)
    BY <1>4 DEF Forward
  <2>2. PICK request \in RouterRequests :
            toRouter' = Some(request) /\ Genuine(request, request.sender)
    BY <1>1, <1>4, <2>1, DecisionGenuine DEF Forward
  <2>3. Genuine(toRouter[1], toRouter[1].sender)'
    BY <1>3, <2>2 DEF Some
  <2>4. ProvenanceMinted'
    BY <1>2, <1>3, <1>4 DEF Forward, ProvenanceInv, ProvenanceMinted
  <2> QED
    BY <1>1, <2>3, <2>4 DEF ProvenanceInv
<1>5. CASE RouterProcess
  <2>1. PICK request \in RouterRequests :
            toRouter = Some(request) /\ Genuine(request, request.sender)
    BY <1>1, <1>2, <1>5
       DEF RouterProcess, ProvenanceInv, TypeInv, ControlOK, Option, Some, None
  <2>2. routerLog' = Append(routerLog, request) /\ toRouter' = toRouter
    BY <1>5, <2>1 DEF RouterProcess, Some
  <2>3. ProvenanceMinted'
    BY <1>2, <1>3, <2>1, <2>2, AppendProperties DEF ProvenanceInv, ProvenanceMinted
  <2> QED
    BY <1>1, <1>3, <2>1, <2>2, <2>3 DEF ProvenanceInv, Some
<1>6. CASE routerLog' = routerLog /\ toRouter' \in {toRouter, None}
  <2>1. ProvenanceMinted'
    BY <1>2, <1>3, <1>6 DEF ProvenanceInv, ProvenanceMinted
  <2>2. toRouter' # None => Genuine(toRouter[1], toRouter[1].sender)'
    BY <1>2, <1>3, <1>6 DEF ProvenanceInv, Option, Some, None
  <2> QED
    BY <1>1, <2>1, <2>2 DEF ProvenanceInv
<1> QED
  BY <1>4, <1>5, <1>6, OnlyForward

\* Every request the router ever takes charge of is one a client made, under
\* the origin that its socket and its peer credentials give it: no sequence of
\* frames, of any number of clients on any number of ingresses, gets an origin
\* or a stamp of the client's own making past stamp_request.
THEOREM ProvenanceHolds == Spec => []ProvenanceMinted
<1>1. Init => ProvenanceInv
  BY InitTypeInv DEF Init, ProvenanceInv, ProvenanceMinted
<1>2. ProvenanceInv => ProvenanceMinted
  BY DEF ProvenanceInv
<1> QED
  BY <1>1, ProvenanceStep, <1>2, PTL DEF Spec

-----------------------------------------------------------------------------
(***************************************************************************)
(* At most once                                                            *)
(***************************************************************************)

\* The daemon will not forward a request of client c any more.
Past(c) == serverEnd[c] = "closed" \/ (c = current /\ pc \in {"await", "reply"})

\* The clients in the ledger are past, and so is the one whose request is on
\* its way to the router, which is not in the ledger yet.
LedgerInv ==
    /\ ForwardedAtMostOnce
    /\ \A n \in DOMAIN routerLog : Past(routerLog[n].sender)
    /\ link = "requested" =>
           /\ Past(toRouter[1].sender)
           /\ \A n \in DOMAIN routerLog : routerLog[n].sender # toRouter[1].sender

OnceInv == ConnectionInv /\ LedgerInv

\* A connection once closed stays so.
LEMMA ClosedStays ==
    ASSUME TypeInv, QueueInv, ServingInv, Next, NEW c \in Clients, serverEnd[c] = "closed"
    PROVE  serverEnd'[c] = "closed"
<1>0. /\ serverEnd \in [Clients -> {"none", "queued", "accepted", "closed"}]
      /\ slot \in Bindings
  BY DEF TypeInv, TypeOK, SocketTypeOK, ThreadTypeOK
<1>1. CASE AcceptOne
  <2>1. Head(backlog[slot]) # c
    BY <1>0, <1>1, HeadOfQueue DEF AcceptOne
  <2> QED
    BY <1>0, <1>1, <2>1 DEF AcceptOne
<1>2. CASE \/ BindListenerFails \/ ApplyModeFails \/ RunFails
           \/ PeerCredentialsFail \/ ReadRequestFails \/ AskFails
           \/ RouterFails \/ WriteReplyFails \/ WriteReply \/ DropClose
           \/ Killed
  BY <1>2 DEF BindListenerFails, ApplyModeFails, RunFails, PeerCredentialsFail,
              ReadRequestFails, AskFails, RouterFails, WriteReplyFails,
              WriteReply, DropClose, Killed, ServingFails, Fail, Close
<1>3. ASSUME NEW d \in Clients, Connect(d) PROVE serverEnd'[c] = "closed"
  BY <1>0, <1>3 DEF Connect, QueueInv
<1>4. CASE ~Touching
  BY <1>4, Untouched
<1> QED
  BY <1>1, <1>2, <1>3, <1>4 DEF Touching

\* A client that is past stays past: its connection is closed by every step
\* that leaves "await" and "reply".
LEMMA PastStays ==
    ASSUME TypeInv, QueueInv, ServingInv, Next, NEW c \in Clients, Past(c)
    PROVE  Past(c)'
<1>1. CASE serverEnd[c] = "closed"
  BY <1>1, ClosedStays DEF Past
<1>2. CASE c = current /\ pc \in {"await", "reply"}
  <2>0. serverEnd[c] = "accepted"
    BY <1>2 DEF ServingInv, Serving
  <2>1. CASE ~Touching
    BY <1>2, <2>1, Untouched DEF Past
  <2>2. CASE \/ ReadRequestFails \/ AskFails \/ RouterFails \/ WriteReplyFails
             \/ WriteReply \/ Killed
    BY <1>2, <2>0, <2>2 DEF ReadRequestFails, AskFails, RouterFails, WriteReplyFails,
                     WriteReply, Killed, ServingFails, Fail, Close, Past
  <2>3. CASE \/ BindListenerFails \/ ApplyModeFails \/ RunFails \/ AcceptOne
             \/ PeerCredentialsFail \/ DropClose
    BY <1>2, <2>3 DEF BindListenerFails, ApplyModeFails, RunFails, AcceptOne,
                      PeerCredentialsFail, DropClose, At
  <2>4. ASSUME NEW d \in Clients, Connect(d) PROVE Past(c)'
    BY <1>2, <2>4 DEF Connect, Past
  <2> QED
    BY <2>1, <2>2, <2>3, <2>4 DEF Touching
<1> QED
  BY <1>1, <1>2 DEF Past

\* A request is put on the connection to the router by Forward alone, and
\* the connection is otherwise "requested" only if it was.
LEMMA OnlyForwardRequests ==
    ASSUME Next, ~Forward, link' = "requested"
    PROVE  link = "requested" /\ toRouter' = toRouter
  BY DEF Next, Daemon, SpawnSupervision, Startup, BindListener,
         BindListenerFails, ApplyMode, ApplyModeFails, StartRoot, Serve,
         CheckStop, AcceptOne, PollNext, PeerCredentialsFail, ReadRequest,
         ReadRequestFails, ReplyWithoutRouter, AskFails, RouterAnswered,
         RouterFails, WriteReply, WriteReplyFails, Finish, StopRoot, RunFails,
         DropUnlink, DropClose, Killed, Fail, ServingFails, NoLink,
         RequestStop, Client, Submit, Connect, ConnectFails, WriteFrame,
         WriteFrameFails, ReceiveReply, ReceiveReplyFails, HangUp, ClientEnds,
         Router, Handle, RouterStart, RouterStop, RouterProcess, RouterAnswer,
         RouterReject

LEMMA LedgerStep ==
    ASSUME OnceInv, Next
    PROVE  LedgerInv'
<1> USE DEF OnceInv, ConnectionInv
<1>0. /\ routerLog \in Seq(RouterRequests)
      /\ \A n \in DOMAIN routerLog : routerLog[n].sender \in Clients
  <2>1. routerLog \in Seq(RouterRequests)
    BY DEF TypeInv, TypeOK, RouterTypeOK
  <2>2. \A n \in DOMAIN routerLog : routerLog[n] \in RouterRequests
    BY <2>1, LenProperties, ElementOfSeq
  <2> QED
    BY <2>1, <2>2, SenderIsClient
<1>1. link = "requested" => toRouter[1].sender \in Clients
  BY SenderIsClient DEF TypeInv, TypeOK, RouterTypeOK, ControlOK, Option, Some, None
<1>2. \A c \in Clients : Past(c) => Past(c)'
  BY PastStays
<1>3. \A c \in Clients :
          (\E n \in DOMAIN routerLog : routerLog[n].sender = c) => Past(c) /\ Past(c)'
  BY <1>2 DEF LedgerInv
<1>4. CASE Forward
  <2>1. PICK now \in ClockReadings :
            Decision(now).kind = "Forward" /\ toRouter' = Some(Decision(now).request)
    BY <1>4 DEF Forward
  <2>2. PICK c \in Clients : c = current /\ toRouter'[1].sender = c
    BY <1>4, <2>1, DecisionGenuine, RequestInHand DEF Forward, At, Some
  <2>3. ~Past(c)
    BY <1>4, <2>2 DEF Forward, At, Past, ServingInv, Serving
  <2>4. \A n \in DOMAIN routerLog : routerLog[n].sender # c
    BY <1>3, <2>2, <2>3
  <2>5. Past(c)'
    BY <1>4, <2>2 DEF Forward, Past
  <2>6. routerLog' = routerLog
    BY <1>4 DEF Forward
  <2> QED
    BY <1>0, <1>3, <2>2, <2>4, <2>5, <2>6 DEF LedgerInv, ForwardedAtMostOnce, Past
<1>5. CASE RouterProcess
  <2>1. /\ link = "requested" /\ link' = "processed"
        /\ routerLog' = Append(routerLog, toRouter[1])
    BY <1>5 DEF RouterProcess
  <2>2. toRouter[1] \in RouterRequests
    BY <2>1 DEF TypeInv, TypeOK, RouterTypeOK, ControlOK, Option, Some, None
  <2>3. /\ Len(routerLog) \in Nat /\ DOMAIN routerLog = 1 .. Len(routerLog)
        /\ DOMAIN routerLog' = DOMAIN routerLog \cup {Len(routerLog) + 1}
        /\ routerLog'[Len(routerLog) + 1] = toRouter[1]
        /\ \A n \in DOMAIN routerLog : routerLog'[n] = routerLog[n]
    BY <1>0, <2>1, <2>2, AppendProperties, LenProperties
  <2>4. PICK c \in Clients :
            /\ toRouter[1].sender = c /\ Past(c)'
            /\ \A n \in DOMAIN routerLog : routerLog[n].sender # c
    BY <1>1, <1>2, <2>1 DEF LedgerInv
  <2>5. \A n \in DOMAIN routerLog' : \E d \in Clients :
            routerLog'[n].sender = d /\ Past(d)'
    BY <1>0, <1>3, <2>3, <2>4
  <2>6. ForwardedAtMostOnce'
    BY <2>3, <2>4 DEF LedgerInv, ForwardedAtMostOnce
  <2> QED
    BY <2>1, <2>5, <2>6 DEF LedgerInv, Past
<1>6. CASE ~Forward /\ ~RouterProcess
  <2>1. routerLog' = routerLog
    BY <1>6, OnlyForward
  <2>2. CASE link' = "requested"
    <3>1. link = "requested" /\ toRouter' = toRouter
      BY <1>6, <2>2, OnlyForwardRequests
    <3>2. PICK c \in Clients :
              /\ toRouter[1].sender = c /\ Past(c)'
              /\ \A n \in DOMAIN routerLog : routerLog[n].sender # c
      BY <1>1, <1>2, <3>1 DEF LedgerInv
    <3> QED
      BY <1>0, <1>3, <2>1, <3>1, <3>2 DEF LedgerInv, ForwardedAtMostOnce, Past
  <2>3. CASE link' # "requested"
    BY <1>0, <1>3, <2>1, <2>3 DEF LedgerInv, ForwardedAtMostOnce, Past
  <2> QED
    BY <2>2, <2>3
<1> QED
  BY <1>4, <1>5, <1>6

LEMMA OnceInit == Init => OnceInv
<1> SUFFICES ASSUME Init PROVE OnceInv
  OBVIOUS
<1>1. DOMAIN <<>> = {}
  OBVIOUS
<1>2. LedgerInv
  BY <1>1 DEF Init, LedgerInv, ForwardedAtMostOnce
<1> QED
  BY <1>2, ConnectionInit DEF OnceInv

LEMMA OnceStep == OnceInv /\ [Next]_vars => OnceInv'
<1> SUFFICES ASSUME OnceInv, [Next]_vars PROVE OnceInv'
  OBVIOUS
<1>1. ConnectionInv'
  BY ConnectionStep DEF OnceInv
<1>2. CASE Next
  BY <1>1, <1>2, LedgerStep DEF OnceInv
<1>3. CASE UNCHANGED vars
  BY <1>1, <1>3 DEF OnceInv, LedgerInv, Past, ForwardedAtMostOnce
<1> QED
  BY <1>2, <1>3

\* Whatever clients write, however they interleave, and whichever step of the
\* daemon or the router fails, a connection yields at most one entry of the
\* router's ledger (handle_connection, submit).
THEOREM ForwardedOnceHolds == Spec => []ForwardedAtMostOnce
<1>1. OnceInv => ForwardedAtMostOnce
  BY DEF OnceInv, LedgerInv
<1> QED
  BY OnceInit, OnceStep, <1>1, PTL DEF Spec

-----------------------------------------------------------------------------
(***************************************************************************)
(* The count                                                               *)
(***************************************************************************)

Saturated(n) == IF n < MaxForwardedCount THEN n ELSE MaxForwardedCount

\* The last request of the ledger is in hand, and will be counted if the
\* router's answer gets here.
Uncounted ==
    \/ link = "processed"
    \/ link = "answered" /\ ReplyAdmitted(fromRouter[1], ConnectorExchange)

StartupLabels == {"bind", "applyMode", "spawnSupervision", "startRoot"}

\* The count is behind the ledger while a request is with the router, and by
\* one; where the connection to the router fails, so does the daemon.
CountInv ==
    exit = "running" =>
        /\ pc \in StartupLabels => routerLog = <<>>
        /\ pc # "await" \/ link = "requested" =>
               forwardedCount = Saturated(Len(routerLog))
        /\ pc = "await" /\ Uncounted =>
               /\ Len(routerLog) > 0
               /\ forwardedCount = Saturated(Len(routerLog) - 1)

\* Away from the router nothing is counted.
LEMMA CountElsewhere ==
    ASSUME Next, ~Forward, ~RouterAnswered, ~StartRoot, ~RouterProcess, ~RouterAnswer,
           ~RouterReject, ~RouterStop, exit' = "running"
    PROVE  /\ exit = "running"
           /\ UNCHANGED <<routerLog, forwardedCount>>
           /\ \/ UNCHANGED <<pc, link, fromRouter>>
              \/ /\ pc # "await" /\ pc' # "await"
                 /\ pc' \in StartupLabels => pc \in StartupLabels
<1>1. CASE \/ BindListener \/ ApplyMode \/ SpawnSupervision \/ CheckStop \/ AcceptOne
           \/ PollNext \/ ReadRequest \/ ReplyWithoutRouter \/ WriteReply
  BY <1>1 DEF BindListener, ApplyMode, SpawnSupervision, CheckStop, AcceptOne, PollNext,
              ReadRequest, ReplyWithoutRouter, WriteReply, At, StartupLabels
<1>2. CASE \/ DropUnlink \/ DropClose \/ RequestStop \/ RouterStart
           \/ \E c \in Clients : Client(c)
  <2>1. UNCHANGED <<exit, routerLog, forwardedCount, link, fromRouter>>
    BY <1>2 DEF DropUnlink, DropClose, RequestStop, RouterStart, Client, Submit, Connect,
                ConnectFails, WriteFrame, WriteFrameFails, ReceiveReply,
                ReceiveReplyFails, HangUp, ClientEnds
  <2>2. UNCHANGED pc \/ (pc = "drop" /\ pc' = "exited")
    BY <1>2 DEF DropUnlink, DropClose, RequestStop, RouterStart, Client, Submit, Connect,
                ConnectFails, WriteFrame, WriteFrameFails, ReceiveReply,
                ReceiveReplyFails, HangUp, ClientEnds
  <2> QED
    BY <2>1, <2>2 DEF StartupLabels
<1>3. CASE \/ BindListenerFails \/ ApplyModeFails \/ RunFails \/ PeerCredentialsFail
           \/ ReadRequestFails \/ AskFails \/ RouterFails \/ WriteReplyFails
           \/ StopRoot \/ Killed
  BY <1>3 DEF BindListenerFails, ApplyModeFails, RunFails, PeerCredentialsFail,
              ReadRequestFails, AskFails, RouterFails, WriteReplyFails, StopRoot,
              Killed, ServingFails, Fail
<1> QED
  BY <1>1, <1>2, <1>3 DEF Next, Daemon, Startup, Serve, Finish, Router, Handle

LEMMA CountStep ==
    ASSUME TypeInv, CountInv, Next
    PROVE  CountInv'
<1> SUFFICES ASSUME exit' = "running" PROVE CountInv'
  BY DEF CountInv
<1> USE DEF CountInv
<1>0. /\ routerLog \in Seq(RouterRequests) /\ Len(routerLog) \in Nat
      /\ MaxForwardedCount \in Nat
  <2>1. routerLog \in Seq(RouterRequests)
    BY DEF TypeInv, TypeOK, RouterTypeOK
  <2> QED
    BY <2>1, LenProperties, BoundsAssumption
<1>1. CASE Forward
  BY <1>1 DEF Forward, At, StartupLabels, Uncounted
<1>2. CASE RouterAnswered
  <2>1. /\ pc = "await" /\ Uncounted /\ exit = "running"
        /\ pc' = "reply" /\ routerLog' = routerLog
        /\ forwardedCount' = SaturatingAddOne(forwardedCount)
    BY <1>2 DEF RouterAnswered, At, Uncounted
  <2>2. forwardedCount' = Saturated(Len(routerLog))
    BY <1>0, <2>1 DEF Saturated, SaturatingAddOne
  <2> QED
    BY <2>1, <2>2 DEF StartupLabels, Saturated
<1>3. CASE StartRoot
  <2>1. /\ routerLog = <<>> /\ routerLog' = routerLog
        /\ forwardedCount' = 0 /\ pc' = "checkStop"
    BY <1>3 DEF StartRoot, At, StartupLabels
  <2> QED
    BY <1>0, <2>1 DEF StartupLabels, Saturated
<1>4. CASE RouterProcess
  <2>1. /\ exit = "running" /\ pc = "await" /\ pc' = "await" /\ link = "requested"
        /\ link' = "processed" /\ forwardedCount' = forwardedCount
        /\ routerLog' = Append(routerLog, toRouter[1])
    BY <1>4 DEF RouterProcess, TypeInv, ControlOK
  <2>2. toRouter[1] \in RouterRequests
    BY <2>1 DEF TypeInv, TypeOK, RouterTypeOK, ControlOK, Option, Some, None
  <2>3. Len(routerLog') = Len(routerLog) + 1
    BY <1>0, <2>1, <2>2, AppendProperties
  <2>4. forwardedCount' = Saturated(Len(routerLog') - 1) /\ Len(routerLog') > 0
    BY <1>0, <2>1, <2>3
  <2> QED
    BY <2>1, <2>4 DEF StartupLabels, Saturated
<1>5. CASE RouterAnswer
  BY <1>5 DEF RouterAnswer, Uncounted, StartupLabels
<1>6. CASE RouterReject
  <2>1. /\ link' = "answered" /\ ~ReplyAdmitted(fromRouter'[1], ConnectorExchange)
        /\ UNCHANGED <<pc, exit, routerLog, forwardedCount>>
    BY <1>6 DEF RouterReject, Some, ReplyAdmitted, PayloadFromReplyAdmitted,
                RejectedReplyFrame
  <2> QED
    BY <2>1 DEF Uncounted
<1>7. CASE RouterStop
  BY <1>7 DEF RouterStop, Uncounted
<1>8. CASE ~(\/ Forward \/ RouterAnswered \/ StartRoot \/ RouterProcess \/ RouterAnswer
             \/ RouterReject \/ RouterStop)
  BY <1>8, CountElsewhere DEF Uncounted
<1> QED
  BY <1>1, <1>2, <1>3, <1>4, <1>5, <1>6, <1>7, <1>8

\* However often the router fails, rejects, answers late or is restarted, the
\* count of a daemon that still runs agrees with the router's ledger, up to the
\* largest number it holds (forward).
THEOREM CountMatchesLedgerHolds == Spec => []CountMatchesLedger
<1>1. Init => TypeInv /\ CountInv
  BY InitTypeInv, BoundsAssumption DEF Init, CountInv, Saturated
<1>2. TypeInv /\ CountInv /\ [Next]_vars => (TypeInv /\ CountInv)'
  <2> SUFFICES ASSUME TypeInv, CountInv, [Next]_vars PROVE TypeInv' /\ CountInv'
    OBVIOUS
  <2>1. TypeInv'
    BY TypeInvStep
  <2>2. CASE Next
    BY <2>1, <2>2, CountStep
  <2>3. CASE UNCHANGED vars
    BY <2>1, <2>3 DEF CountInv, Uncounted
  <2> QED
    BY <2>2, <2>3
<1>3. CountInv => CountMatchesLedger
  BY DEF CountInv, CountMatchesLedger, Saturated
<1> QED
  BY <1>1, <1>2, <1>3, PTL DEF Spec

-----------------------------------------------------------------------------
(***************************************************************************)
(* What a client is told                                                   *)
(***************************************************************************)

\* The daemon has read, or will read, a request of c that it admits.
Admitted(c) == sent[c] # <<>> /\ RequestAdmitted(sent[c][1])

\* The request that is with the router is the one in hand; once the router has
\* taken charge of it, it is the last of the ledger, and an answer that is
\* admitted is about that entry.
RouterInv ==
    /\ toRouter # None =>
           Admitted(toRouter[1].sender) /\ Genuine(toRouter[1], toRouter[1].sender)
    /\ exit = "running" /\ pc = "await" =>
           toRouter # None /\ toRouter[1].sender = current
    /\ Uncounted =>
           /\ toRouter # None
           /\ Len(routerLog) > 0 /\ routerLog[Len(routerLog)] = toRouter[1]
    /\ link = "answered" /\ ReplyAdmitted(fromRouter[1], ConnectorExchange) =>
           PayloadFromReply(fromRouter[1]) = RouterReply(Len(routerLog))

\* The reply goes from the root actor to the frame to the client, and at each
\* stage it answers the client's own first request.
ToldInv ==
    /\ pc = "reply" => Answers(reply[1], current)
    /\ \A c \in Clients :
           /\ outbound[c] # None \/ answer[c] # None => Admitted(c)
           /\ answer[c] # None => cpc[c] = "answered"
    /\ ReplyMatchesRequest

ExchangeInv == OnceInv /\ RouterInv /\ ToldInv

LEMMA AdmittedStays ==
    ASSUME TypeInv, [Next]_vars, NEW c \in Clients, Admitted(c)
    PROVE  Admitted(c)' /\ sent'[c][1] = sent[c][1]
  BY FirstFrameStays DEF Admitted

\* The router's ledger only grows.
LEMMA LedgerGrows ==
    ASSUME TypeInv, Next
    PROVE  \A n \in DOMAIN routerLog :
               n \in DOMAIN routerLog' /\ routerLog'[n] = routerLog[n]
<1>1. CASE RouterProcess
  <2>1. routerLog \in Seq(RouterRequests)
    BY DEF TypeInv, TypeOK, RouterTypeOK
  <2>2. toRouter[1] \in RouterRequests
    BY <1>1 DEF RouterProcess, TypeInv, TypeOK, RouterTypeOK, ControlOK, Option, Some, None
  <2> QED
    BY <1>1, <2>1, <2>2, AppendProperties, LenProperties DEF RouterProcess
<1>2. CASE Forward
  BY <1>2 DEF Forward
<1> QED
  BY <1>1, <1>2, OnlyForward

\* What answers a client's request goes on doing so.
LEMMA AnswersStay ==
    ASSUME TypeInv, Next, NEW c \in Clients, NEW r, sent[c] # <<>>, Answers(r, c)
    PROVE  Answers(r, c)'
<1>1. FirstRequest(c)' = FirstRequest(c)
  BY FirstFrameStays DEF FirstRequest
<1>2. CASE /\ r = MessageRequestUnimplemented
           /\ FirstRequest(c).kind = "StampedMessageSubmission"
  BY <1>1, <1>2 DEF Answers
<1>3. CASE \E n \in DOMAIN routerLog :
               /\ Genuine(routerLog[n], c)
               /\ r = IF FirstRequest(c) = InboxQuery(c) THEN InboxListing(n)
                                                         ELSE SubmissionAccepted(n)
  <2>1. PICK n \in DOMAIN routerLog :
            /\ Genuine(routerLog[n], c)
            /\ r = IF FirstRequest(c) = InboxQuery(c) THEN InboxListing(n)
                                                      ELSE SubmissionAccepted(n)
    BY <1>3
  <2>2. n \in DOMAIN routerLog' /\ routerLog'[n] = routerLog[n]
    BY LedgerGrows
  <2>3. Genuine(routerLog[n], c)'
    <3> DEFINE entry == routerLog[n]
    <3>1. sent'[c] # <<>> /\ MintedOrigin(c)' = MintedOrigin(c)
      BY FirstFrameStays DEF MintedOrigin
    <3> QED
      BY <1>1, <2>1, <2>2, <3>1 DEF Genuine
  <2> QED
    BY <1>1, <2>1, <2>2, <2>3 DEF Answers
<1> QED
  BY <1>2, <1>3 DEF Answers

\* The reply that a router makes about a genuine request of c answers c.
LEMMA RouterReplyAnswers ==
    ASSUME NEW c \in Clients, NEW n \in DOMAIN routerLog, Genuine(routerLog[n], c)
    PROVE  Answers(RouterReply(n), c)
<1>1. CASE routerLog[n] = InboxQuery(c) /\ FirstRequest(c) = InboxQuery(c)
  BY <1>1 DEF Answers, RouterReply, InboxQuery
<1>2. CASE /\ FirstRequest(c) = MessageSubmission(c)
           /\ \E time \in 0 .. MaxTimestamp :
                  routerLog[n] = StampedMessageSubmission(c, MintedOrigin(c), time)
  <2>1. FirstRequest(c) # InboxQuery(c)
    BY <1>2 DEF MessageSubmission, InboxQuery
  <2>2. routerLog[n].kind # "InboxQuery"
    BY <1>2 DEF StampedMessageSubmission
  <2> QED
    BY <2>1, <2>2 DEF Answers, RouterReply
<1> QED
  BY <1>1, <1>2 DEF Genuine

\* While the daemon waits for the router, it keeps the request it sent.
LEMMA AwaitBefore ==
    ASSUME Next, ~Forward, exit' = "running", pc' = "await"
    PROVE  exit = "running" /\ pc = "await" /\ UNCHANGED <<toRouter, current>>
<1>1. CASE \/ BindListener \/ ApplyMode \/ SpawnSupervision \/ StartRoot \/ CheckStop
           \/ AcceptOne \/ ReadRequest \/ ReplyWithoutRouter \/ RouterAnswered
           \/ WriteReply \/ DropClose
  BY <1>1 DEF BindListener, ApplyMode, SpawnSupervision, StartRoot, CheckStop, AcceptOne,
              ReadRequest, ReplyWithoutRouter, RouterAnswered, WriteReply, DropClose
<1>2. CASE PollNext \/ DropUnlink
  BY <1>2 DEF PollNext, DropUnlink, At
<1>3. CASE RequestStop \/ Router \/ \E c \in Clients : Client(c)
  BY <1>3 DEF RequestStop, Client, Submit, Connect, ConnectFails, WriteFrame,
              WriteFrameFails, ReceiveReply, ReceiveReplyFails, HangUp, ClientEnds,
              Router, Handle, RouterStart, RouterStop, RouterProcess, RouterAnswer,
              RouterReject
<1>4. CASE \/ BindListenerFails \/ ApplyModeFails \/ RunFails \/ PeerCredentialsFail
           \/ ReadRequestFails \/ AskFails \/ RouterFails \/ WriteReplyFails
           \/ StopRoot \/ Killed
  BY <1>4 DEF BindListenerFails, ApplyModeFails, RunFails, PeerCredentialsFail,
              ReadRequestFails, AskFails, RouterFails, WriteReplyFails, StopRoot,
              Killed, ServingFails, Fail
<1> QED
  BY <1>1, <1>2, <1>3, <1>4 DEF Next, Daemon, Startup, Serve, Finish

\* The router's answer comes from RouterAnswer, or was there.
LEMMA AnswerBefore ==
    ASSUME Next, ~RouterAnswer, ~RouterReject, link' = "answered"
    PROVE  link = "answered" /\ UNCHANGED <<toRouter, fromRouter, routerLog>>
  BY DEF Next, Daemon, SpawnSupervision, Startup, BindListener,
         BindListenerFails, ApplyMode, ApplyModeFails, StartRoot, Serve,
         CheckStop, AcceptOne, PollNext, PeerCredentialsFail, ReadRequest,
         ReadRequestFails, Forward, ReplyWithoutRouter, AskFails, RouterAnswered,
         RouterFails, WriteReply, WriteReplyFails, Finish, StopRoot, RunFails,
         DropUnlink, DropClose, Killed, Fail, ServingFails, NoLink,
         RequestStop, Client, Submit, Connect, ConnectFails, WriteFrame,
         WriteFrameFails, ReceiveReply, ReceiveReplyFails, HangUp, ClientEnds,
         Router, Handle, RouterStart, RouterStop, RouterProcess

LEMMA ProcessedBefore ==
    ASSUME Next, ~RouterProcess, link' = "processed"
    PROVE  link = "processed" /\ UNCHANGED <<toRouter, routerLog>>
  BY DEF Next, Daemon, SpawnSupervision, Startup, BindListener,
         BindListenerFails, ApplyMode, ApplyModeFails, StartRoot, Serve,
         CheckStop, AcceptOne, PollNext, PeerCredentialsFail, ReadRequest,
         ReadRequestFails, Forward, ReplyWithoutRouter, AskFails, RouterAnswered,
         RouterFails, WriteReply, WriteReplyFails, Finish, StopRoot, RunFails,
         DropUnlink, DropClose, Killed, Fail, ServingFails, NoLink,
         RequestStop, Client, Submit, Connect, ConnectFails, WriteFrame,
         WriteFrameFails, ReceiveReply, ReceiveReplyFails, HangUp, ClientEnds,
         Router, Handle, RouterStart, RouterStop, RouterAnswer, RouterReject

\* The codec takes one frame of a router for the answer to request n, the one
\* that is.
LEMMA AnswerAdmitted ==
    ASSUME NEW n, NEW frame \in RouterFrames(n), ReplyAdmitted(frame, ConnectorExchange)
    PROVE  PayloadFromReply(frame) = RouterReply(n)
<1>1. frame # OtherFrame /\ frame # Unreadable
  BY DEF ReplyAdmitted, OtherFrame, Unreadable
<1>2. frame # ReplyFrameOf(ConnectorExchange, <<SubReplyNotOk>>)
  BY DEF ReplyAdmitted, PayloadFromReplyAdmitted, ReplyFrameOf, SubReplyNotOk
<1>3. frame # ReplyFrameOf(ConnectorExchange, <<SubReply(n), SubReply(n)>>)
  BY DEF ReplyAdmitted, PayloadFromReplyAdmitted, ReplyFrameOf
<1>4. \A m : frame # ReplyFrameOf("another", <<SubReply(m)>>)
  BY DEF ReplyAdmitted, ReplyFrameOf, ConnectorExchange
<1>5. frame = ReplyFrameOf(ConnectorExchange, <<SubReply(n)>>)
  BY <1>1, <1>2, <1>3, <1>4 DEF RouterFrames
<1> QED
  BY <1>5 DEF ReplyFrameOf, PayloadFromReply, SubReply, SubReplyOk

LEMMA RouterInvStep ==
    ASSUME OnceInv, RouterInv, Next
    PROVE  RouterInv'
<1>0. /\ TypeInv /\ TypeInv'
      /\ toRouter \in Option(RouterRequests) /\ routerLog \in Seq(RouterRequests)
  BY TypeInvStep DEF OnceInv, ConnectionInv, TypeInv, TypeOK, RouterTypeOK
<1>1. ASSUME toRouter' # None
      PROVE  Admitted(toRouter[1].sender)' /\ Genuine(toRouter[1], toRouter[1].sender)'
  <2>1. \E request \in RouterRequests :
            /\ toRouter' = Some(request)
            /\ Admitted(request.sender) /\ Genuine(request, request.sender)
    <3>1. CASE Forward
      <4>1. PICK now \in ClockReadings :
                Decision(now).kind = "Forward" /\ toRouter' = Some(Decision(now).request)
        BY <3>1 DEF Forward
      <4>2. Admitted(current)
        BY <1>0, <3>1 DEF Forward, At, TypeInv, ControlOK, InHand, Admitted
      <4> QED
        BY <1>0, <3>1, <4>1, <4>2, DecisionGenuine DEF Forward
    <3>2. CASE toRouter' = toRouter
      BY <1>0, <1>1, <3>2 DEF RouterInv, Option, Some, None
    <3>3. CASE RouterProcess
      BY <3>2, <3>3 DEF RouterProcess
    <3> QED
      BY <1>1, <3>1, <3>2, <3>3, OnlyForward
  <2>2. PICK request \in RouterRequests :
            /\ toRouter' = Some(request)
            /\ Admitted(request.sender) /\ Genuine(request, request.sender)
    BY <2>1
  <2>3. Admitted(request.sender)' /\ Genuine(request, request.sender)'
    BY <1>0, <2>2, SenderIsClient, AdmittedStays, GenuineStays
  <2> QED
    BY <2>2, <2>3 DEF Some
<1>2. ASSUME exit' = "running", pc' = "await"
      PROVE  toRouter' # None /\ toRouter'[1].sender = current'
  <2>1. CASE Forward
    <3>1. PICK now \in ClockReadings :
              Decision(now).kind = "Forward" /\ toRouter' = Some(Decision(now).request)
      BY <2>1 DEF Forward
    <3>2. Decision(now).request.sender = current /\ current' = current
      BY <1>0, <2>1, <3>1, DecisionGenuine DEF Forward
    <3> QED
      BY <3>1, <3>2 DEF Some, None
  <2>2. CASE ~Forward
    BY <1>2, <2>2, AwaitBefore DEF RouterInv
  <2> QED
    BY <2>1, <2>2
<1>3. ASSUME Uncounted'
      PROVE  /\ toRouter' # None
             /\ Len(routerLog') > 0 /\ routerLog'[Len(routerLog')] = toRouter'[1]
  <2>1. CASE RouterProcess
    <3>1. toRouter # None /\ toRouter' = toRouter
      BY <1>0, <2>1 DEF RouterProcess, TypeInv, ControlOK
    <3>2. toRouter[1] \in RouterRequests /\ routerLog' = Append(routerLog, toRouter[1])
      BY <1>0, <2>1, <3>1 DEF RouterProcess, Option, Some, None
    <3> QED
      BY <1>0, <3>1, <3>2, AppendProperties, LenProperties
  <2>2. CASE RouterAnswer
    BY <2>2 DEF RouterAnswer, Uncounted, RouterInv
  <2>3. ~RouterReject
    BY <1>3 DEF RouterReject, Uncounted, Some, ReplyAdmitted, PayloadFromReplyAdmitted,
                RejectedReplyFrame
  <2>4. CASE ~RouterProcess /\ ~RouterAnswer
    <3>1. Uncounted /\ UNCHANGED <<toRouter, routerLog>>
      BY <1>3, <2>3, <2>4, ProcessedBefore, AnswerBefore DEF Uncounted
    <3> QED
      BY <3>1 DEF RouterInv
  <2> QED
    BY <2>1, <2>2, <2>4
<1>4. ASSUME link' = "answered", ReplyAdmitted(fromRouter'[1], ConnectorExchange)
      PROVE  PayloadFromReply(fromRouter'[1]) = RouterReply(Len(routerLog))'
  <2>1. CASE RouterAnswer
    <3>1. /\ fromRouter'[1] \in RouterFrames(Len(routerLog)) /\ routerLog' = routerLog
      BY <2>1 DEF RouterAnswer, Some
    <3> QED
      BY <1>4, <3>1, AnswerAdmitted DEF RouterReply
  <2>2. ~RouterReject
    BY <1>4 DEF RouterReject, Some, ReplyAdmitted, PayloadFromReplyAdmitted,
                RejectedReplyFrame
  <2>3. CASE ~RouterAnswer
    BY <1>4, <2>2, <2>3, AnswerBefore DEF RouterInv, RouterReply
  <2> QED
    BY <2>1, <2>3
<1> QED
  BY <1>1, <1>2, <1>3, <1>4 DEF RouterInv

\* Away from the root actor's answers, the reply is the one that was in hand.
LEMMA ReplyBefore ==
    ASSUME Next, ~RouterAnswered, ~ReplyWithoutRouter, pc' = "reply"
    PROVE  pc = "reply" /\ UNCHANGED <<reply, current>>
<1>1. CASE \/ BindListener \/ ApplyMode \/ SpawnSupervision \/ StartRoot \/ CheckStop
           \/ AcceptOne \/ ReadRequest \/ Forward \/ WriteReply \/ StopRoot \/ Killed
  BY <1>1 DEF BindListener, ApplyMode, SpawnSupervision, StartRoot, CheckStop, AcceptOne,
              ReadRequest, Forward, WriteReply, StopRoot, Killed
<1>2. CASE PollNext \/ DropUnlink \/ DropClose
  BY <1>2 DEF PollNext, DropUnlink, DropClose, At
<1>3. CASE RequestStop \/ Router \/ \E c \in Clients : Client(c)
  BY <1>3 DEF RequestStop, Client, Submit, Connect, ConnectFails, WriteFrame,
              WriteFrameFails, ReceiveReply, ReceiveReplyFails, HangUp, ClientEnds,
              Router, Handle, RouterStart, RouterStop, RouterProcess, RouterAnswer,
              RouterReject
<1>4. CASE \/ BindListenerFails \/ ApplyModeFails \/ RunFails \/ PeerCredentialsFail
           \/ ReadRequestFails \/ AskFails \/ RouterFails \/ WriteReplyFails
  BY <1>4 DEF BindListenerFails, ApplyModeFails, RunFails, PeerCredentialsFail,
              ReadRequestFails, AskFails, RouterFails, WriteReplyFails,
              ServingFails, Fail
<1> QED
  BY <1>1, <1>2, <1>3, <1>4 DEF Next, Daemon, Startup, Serve, Finish

\* Only WriteReply sends a frame to a client, and only ReceiveReply takes it.
LEMMA TellingSteps ==
    ASSUME Next
    PROVE  /\ ~WriteReply => UNCHANGED outbound
           /\ (\A c \in Clients : ~ReceiveReply(c)) => UNCHANGED answer
<1>1. ~WriteReply => UNCHANGED outbound
  BY DEF Next, Daemon, SpawnSupervision, Startup, BindListener,
         BindListenerFails, ApplyMode, ApplyModeFails, StartRoot, Serve,
         CheckStop, AcceptOne, PollNext, PeerCredentialsFail, ReadRequest,
         ReadRequestFails, Forward, ReplyWithoutRouter, AskFails, RouterAnswered,
         RouterFails, WriteReplyFails, Finish, StopRoot, RunFails,
         DropUnlink, DropClose, Killed, Fail, ServingFails, RequestStop, Client,
         Submit, Connect, ConnectFails, WriteFrame, WriteFrameFails, ReceiveReply,
         ReceiveReplyFails, HangUp, ClientEnds, Router, Handle, RouterStart,
         RouterStop, RouterProcess, RouterAnswer, RouterReject
<1>2. (\A c \in Clients : ~ReceiveReply(c)) => UNCHANGED answer
  BY DEF Next, Daemon, SpawnSupervision, Startup, BindListener,
         BindListenerFails, ApplyMode, ApplyModeFails, StartRoot, Serve,
         CheckStop, AcceptOne, PollNext, PeerCredentialsFail, ReadRequest,
         ReadRequestFails, Forward, ReplyWithoutRouter, AskFails, RouterAnswered,
         RouterFails, WriteReply, WriteReplyFails, Finish, StopRoot, RunFails,
         DropUnlink, DropClose, Killed, Fail, ServingFails, RequestStop, Client,
         Submit, Connect, ConnectFails, WriteFrame, WriteFrameFails,
         ReceiveReplyFails, HangUp, ClientEnds, Router, Handle, RouterStart,
         RouterStop, RouterProcess, RouterAnswer, RouterReject
<1> QED
  BY <1>1, <1>2

\* A client that has its reply does nothing more.
LEMMA AnsweredStays ==
    ASSUME TypeInv, Next, NEW c \in Clients, cpc[c] = "answered"
    PROVE  cpc'[c] = "answered"
<1>1. CASE UNCHANGED cpc
  BY <1>1
<1>2. CASE \E d \in Clients : Client(d)
  <2>1. PICK d \in Clients : Client(d)
    BY <1>2
  <2>2. d # c
    BY <2>1 DEF Client, Submit, Connect, ConnectFails, WriteFrame, WriteFrameFails,
                ReceiveReply, ReceiveReplyFails, HangUp, ClientEndOpen
  <2>3. cpc \in [Clients -> {"idle", "connected", "waiting", "answered", "failed", "gone"}]
    BY DEF TypeInv, TypeOK, ClientTypeOK
  <2> QED
    BY <2>1, <2>2, <2>3 DEF Client, Submit, Connect, ConnectFails, WriteFrame,
         WriteFrameFails, ReceiveReply, ReceiveReplyFails, HangUp, ClientEnds
<1>3. (\A d \in Clients : ~Client(d)) => UNCHANGED cpc
  BY DEF Next, Daemon, SpawnSupervision, Startup, BindListener,
         BindListenerFails, ApplyMode, ApplyModeFails, StartRoot, Serve,
         CheckStop, AcceptOne, PollNext, PeerCredentialsFail, ReadRequest,
         ReadRequestFails, Forward, ReplyWithoutRouter, AskFails, RouterAnswered,
         RouterFails, WriteReply, WriteReplyFails, Finish, StopRoot, RunFails,
         DropUnlink, DropClose, Killed, Fail, ServingFails, NoLink, RequestStop,
         Router, Handle, RouterStart, RouterStop, RouterProcess, RouterAnswer,
         RouterReject
<1> QED
  BY <1>1, <1>2, <1>3

\* The reply in hand answers the client that is served.
LEMMA ReplyInHandStep ==
    ASSUME OnceInv, RouterInv, ToldInv, Next, pc' = "reply"
    PROVE  Answers(reply[1], current)'
<1>0. /\ TypeInv /\ routerLog \in Seq(RouterRequests)
      /\ pc \in {"ask", "await", "reply"} => current \in Clients /\ Admitted(current)
  BY DEF OnceInv, ConnectionInv, TypeInv, TypeOK, RouterTypeOK, ControlOK, InHand,
         Admitted
<1>1. \E r : /\ current \in Clients /\ current' = current /\ Admitted(current)
             /\ reply'[1] = r /\ Answers(r, current)
  <2>1. CASE RouterAnswered
    <3>1. /\ Uncounted /\ current \in Clients /\ Admitted(current)
          /\ link = "answered" /\ ReplyAdmitted(fromRouter[1], ConnectorExchange)
      BY <1>0, <2>1 DEF RouterAnswered, At, Uncounted
    <3>2. /\ Genuine(routerLog[Len(routerLog)], current)
          /\ Len(routerLog) \in DOMAIN routerLog
      BY <1>0, <2>1, <3>1, LenProperties DEF RouterAnswered, At, RouterInv
    <3>3. Answers(PayloadFromReply(fromRouter[1]), current)
      BY <3>1, <3>2, RouterReplyAnswers DEF RouterInv
    <3>4. reply' = Some(PayloadFromReply(fromRouter[1])) /\ current' = current
      BY <2>1 DEF RouterAnswered
    <3> QED
      BY <3>1, <3>3, <3>4 DEF Some
  <2>2. CASE ReplyWithoutRouter
    <3>1. PICK now \in ClockReadings :
              Decision(now).kind = "Reply" /\ reply' = Some(Decision(now).reply)
      BY <2>2 DEF ReplyWithoutRouter
    <3>2. PICK x \in Exchanges, request \in ClientRequests(current) :
              /\ FirstRequest(current) = request
              /\ received[1] = [exchange |-> x, verb |-> SignalVerb(request),
                                request |-> request]
      BY <1>0, <2>2, RequestInHand DEF ReplyWithoutRouter, At
    <3>3. Decision(now) = StampRequest(request, AuthorityOf(BindingOf[current]),
                                       PeerUid[current], now)
      BY <3>2 DEF Decision
    <3>4. /\ request = StampedMessageSubmission(current, Owner, 0)
          /\ Decision(now).reply = MessageRequestUnimplemented
      BY <1>0, <2>2, <3>1, <3>3, DecisionToReply DEF ReplyWithoutRouter, At
    <3>5. Answers(MessageRequestUnimplemented, current)
      BY <3>2, <3>4 DEF Answers, StampedMessageSubmission
    <3> QED
      BY <1>0, <2>2, <3>1, <3>4, <3>5 DEF ReplyWithoutRouter, At, Some
  <2>3. CASE ~RouterAnswered /\ ~ReplyWithoutRouter
    BY <1>0, <2>3, ReplyBefore DEF ToldInv
  <2> QED
    BY <2>1, <2>2, <2>3
<1>2. PICK r : /\ current \in Clients /\ current' = current /\ Admitted(current)
               /\ reply'[1] = r /\ Answers(r, current)
  BY <1>1
<1>3. PICK c \in Clients : c = current /\ current' = c /\ Admitted(c) /\ Answers(r, c)
  BY <1>2
<1>4. Answers(r, c)'
  BY <1>0, <1>3, AnswersStay DEF Admitted
<1> QED
  BY <1>2, <1>3, <1>4

\* The frame says what its client is to be told, in its client's terms.
Carries(frame, c) ==
    /\ frame.exchange = sent[c][1].exchange
    /\ frame.perOperation[1].verb = sent[c][1].operations[1].verb
    /\ Answers(frame.perOperation[1].payload, c)

LEMMA CarriesStays ==
    ASSUME TypeInv, Next, NEW c \in Clients, NEW frame, Admitted(c), Carries(frame, c)
    PROVE  Carries(frame, c)'
<1>1. sent[c] # <<>> /\ sent'[c][1] = sent[c][1]
  BY FirstFrameStays DEF Admitted
<1> DEFINE payload == frame.perOperation[1].payload
<1>2. Answers(payload, c)'
  BY <1>1, AnswersStay DEF Carries
<1> QED
  BY <1>1, <1>2 DEF Carries

LEMMA ToldInvStep ==
    ASSUME OnceInv, RouterInv, ToldInv, Next
    PROVE  ToldInv'
<1>0. /\ TypeInv
      /\ cpc \in [Clients ->
             {"idle", "connected", "waiting", "answered", "failed", "gone"}]
      /\ outbound \in [Clients -> Option(ReplyFrames)]
      /\ answer \in [Clients -> Option(Replies)]
  BY DEF OnceInv, ConnectionInv, TypeInv, TypeOK, ClientTypeOK
<1>1. pc' = "reply" => Answers(reply[1], current)'
  BY ReplyInHandStep
<1>2. ASSUME NEW c \in Clients, outbound'[c] # None
      PROVE  Admitted(c)' /\ Carries(outbound[c][1], c)'
  <2>1. \E frame : outbound'[c] = Some(frame) /\ Admitted(c) /\ Carries(frame, c)
    <3>1. CASE outbound'[c] = outbound[c]
      <4>1. outbound[c] # None /\ outbound[c] = Some(outbound[c][1])
        BY <1>0, <1>2, <3>1 DEF Option, Some, None
      <4>2. Carries(outbound[c][1], c)
        BY <4>1 DEF ToldInv, ReplyMatchesRequest, Carries
      <4> QED
        BY <3>1, <4>1, <4>2 DEF ToldInv
    <3>2. CASE WriteReply /\ c = current
      <4> DEFINE frame == ReplyFrame(received[1].exchange, received[1].verb, reply[1])
      <4>1. /\ outbound'[c] = Some(frame)
            /\ received = Some(ReceivedMessageRequest(sent[c][1]))
            /\ Admitted(c) /\ Answers(reply[1], c)
        BY <1>0, <3>2 DEF WriteReply, At, TypeInv, ControlOK, InHand, Admitted, ToldInv
      <4>2. /\ frame.exchange = sent[c][1].exchange
            /\ frame.perOperation[1].verb = sent[c][1].operations[1].verb
            /\ frame.perOperation[1].payload = reply[1]
        BY <4>1 DEF ReplyFrame, ReplyFrameOf, SubReplyOk, ReceivedMessageRequest, Some
      <4> QED
        BY <4>1, <4>2 DEF Carries
    <3>3. CASE WriteReply /\ c # current
      BY <1>0, <3>1, <3>3 DEF WriteReply
    <3> QED
      BY <3>1, <3>2, <3>3, TellingSteps
  <2>2. PICK frame : outbound'[c] = Some(frame) /\ Admitted(c) /\ Carries(frame, c)
    BY <2>1
  <2>3. Admitted(c)' /\ Carries(frame, c)'
    BY <1>0, <2>2, AdmittedStays, CarriesStays
  <2> QED
    BY <2>2, <2>3 DEF Some
<1>3. ASSUME NEW c \in Clients, answer'[c] # None
      PROVE  Admitted(c)' /\ cpc'[c] = "answered" /\ Answers(answer[c][1], c)'
  <2>1. \E r : answer'[c] = Some(r) /\ Admitted(c) /\ Answers(r, c)
    <3>1. CASE answer'[c] = answer[c]
      <4>1. answer[c] # None /\ answer[c] = Some(answer[c][1])
        BY <1>0, <1>3, <3>1 DEF Option, Some, None
      <4> QED
        BY <3>1, <4>1 DEF ToldInv, ReplyMatchesRequest
    <3>2. CASE ReceiveReply(c)
      BY <1>0, <3>2 DEF ReceiveReply, ToldInv, ReplyMatchesRequest, PayloadFromReply
    <3>3. ASSUME NEW d \in Clients, ReceiveReply(d), c # d PROVE answer'[c] = answer[c]
      BY <1>0, <3>3 DEF ReceiveReply
    <3> QED
      BY <3>1, <3>2, <3>3, TellingSteps
  <2>2. PICK r : answer'[c] = Some(r) /\ Admitted(c) /\ Answers(r, c)
    BY <2>1
  <2>3. Admitted(c)' /\ Answers(r, c)'
    BY <1>0, <2>2, AdmittedStays, AnswersStay DEF Admitted
  <2>4. cpc'[c] = "answered"
    <3>1. CASE answer[c] # None
      BY <1>0, <3>1, AnsweredStays DEF ToldInv
    <3>2. CASE ReceiveReply(c)
      BY <1>0, <3>2 DEF ReceiveReply, ClientEnds
    <3>3. ASSUME NEW d \in Clients, ReceiveReply(d), c # d PROVE answer'[c] = answer[c]
      BY <1>0, <3>3 DEF ReceiveReply
    <3> QED
      BY <1>3, <3>1, <3>2, <3>3, TellingSteps
  <2> QED
    BY <2>2, <2>3, <2>4 DEF Some
<1> QED
  BY <1>1, <1>2, <1>3 DEF ToldInv, ReplyMatchesRequest, Carries

LEMMA ExchangeInit == Init => ExchangeInv
<1> SUFFICES ASSUME Init PROVE ExchangeInv
  OBVIOUS
<1>1. RouterInv
  BY DEF Init, RouterInv, Uncounted
<1>2. ToldInv
  BY DEF Init, ToldInv, ReplyMatchesRequest
<1> QED
  BY <1>1, <1>2, OnceInit DEF ExchangeInv

LEMMA ExchangeStep == ExchangeInv /\ [Next]_vars => ExchangeInv'
<1> SUFFICES ASSUME ExchangeInv, [Next]_vars PROVE ExchangeInv'
  OBVIOUS
<1>1. OnceInv'
  BY OnceStep DEF ExchangeInv
<1>2. CASE Next
  BY <1>1, <1>2, RouterInvStep, ToldInvStep DEF ExchangeInv
<1>3. CASE UNCHANGED vars
  <2>1. RouterInv'
    BY <1>3 DEF ExchangeInv, RouterInv, Uncounted, Admitted, Genuine, MintedOrigin,
                FirstRequest, RouterReply
  <2>2. ToldInv'
    BY <1>3 DEF ExchangeInv, ToldInv, ReplyMatchesRequest, Admitted, Answers, Genuine,
                MintedOrigin, FirstRequest
  <2> QED
    BY <1>1, <2>1, <2>2 DEF ExchangeInv
<1> QED
  BY <1>2, <1>3

LEMMA ExchangeInvariant == Spec => []ExchangeInv
  BY ExchangeInit, ExchangeStep, PTL DEF Spec

\* No client is told of another's request, in whatever order connections,
\* answers of the router and failures come: the reply it gets is about the entry
\* of the ledger that its own first frame became, under the exchange and the
\* verb of that frame (handle_connection, write_reply).
THEOREM ReplyMatchesRequestHolds == Spec => []ReplyMatchesRequest
<1>1. ExchangeInv => ReplyMatchesRequest
  BY DEF ExchangeInv, ToldInv
<1> QED
  BY ExchangeInvariant, <1>1, PTL

-----------------------------------------------------------------------------
(***************************************************************************)
(* The daemon implements the service                                       *)
(***************************************************************************)

\* The request of c, as the service sees it.
RequestOf(c) == IF Admitted(c) THEN Some(FirstRequest(c)) ELSE None

AbstractRequest == [c \in Clients |-> RequestOf(c)]

\* Requests and replies are the same here and there.
LEMMA SameFrames ==
    /\ \A c : Ingress!InboxQuery(c) = InboxQuery(c)
    /\ \A c : Ingress!MessageSubmission(c) = MessageSubmission(c)
    /\ \A c, origin, time : Ingress!StampedMessageSubmission(c, origin, time)
                               = StampedMessageSubmission(c, origin, time)
    /\ \A n : Ingress!InboxListing(n) = InboxListing(n)
    /\ \A n : Ingress!SubmissionAccepted(n) = SubmissionAccepted(n)
    /\ Ingress!MessageRequestUnimplemented = MessageRequestUnimplemented
  BY DEF InboxQuery, MessageSubmission, StampedMessageSubmission, InboxListing,
         SubmissionAccepted, MessageRequestUnimplemented, Ingress!InboxQuery,
         Ingress!MessageSubmission, Ingress!StampedMessageSubmission,
         Ingress!InboxListing, Ingress!SubmissionAccepted,
         Ingress!MessageRequestUnimplemented

\* A step that changes nothing the service sees.
LEMMA ServiceStutters ==
    ASSUME UNCHANGED <<sent, routerLog, answer>>
    PROVE  UNCHANGED Ingress!serviceVars
  BY DEF Ingress!serviceVars, FirstRequest

\* The steps that the service sees.
LEMMA ServiceSteps ==
    ASSUME Next, ~RouterProcess,
           \A c \in Clients : ~WriteFrame(c) /\ ~ReceiveReply(c)
    PROVE  UNCHANGED <<sent, routerLog, answer>>
  BY DEF Next, Daemon, SpawnSupervision, Startup, BindListener,
         BindListenerFails, ApplyMode, ApplyModeFails, StartRoot, Serve,
         CheckStop, AcceptOne, PollNext, PeerCredentialsFail, ReadRequest,
         ReadRequestFails, Forward, ReplyWithoutRouter, AskFails, RouterAnswered,
         RouterFails, WriteReply, WriteReplyFails, Finish, StopRoot, RunFails,
         DropUnlink, DropClose, Killed, Fail, ServingFails, RequestStop, Client,
         Submit, Connect, ConnectFails, WriteFrameFails, ReceiveReplyFails, HangUp,
         ClientEnds, Router, Handle, RouterStart, RouterStop, RouterAnswer,
         RouterReject

LEMMA ServiceInit == Init => Ingress!Init
  BY DEF Init, Ingress!Init, None

\* The first frame of a client, if the daemon will admit it, is its request;
\* no other frame is seen.
LEMMA WriteFrameRefines ==
    ASSUME ExchangeInv, NEW c \in Clients, WriteFrame(c)
    PROVE  [Ingress!Next]_(Ingress!serviceVars)
<1>0. TypeInv /\ Next /\ sent \in [Clients -> Seq(WrittenFrames)]
      /\ UNCHANGED <<routerLog, answer>>
  BY DEF ExchangeInv, OnceInv, ConnectionInv, TypeInv, TypeOK, ClientTypeOK, Next, Client,
         Submit, WriteFrame
<1>1. PICK frame \in ClientFrames(c) : sent' = [sent EXCEPT ![c] = Append(@, frame)]
  BY DEF WriteFrame
<1>2. \A d \in Clients : d # c => sent'[d] = sent[d]
  BY <1>0, <1>1
<1>3. CASE sent[c] = <<>> /\ RequestAdmitted(frame)
  <2>1. sent'[c] = <<frame>>
    BY <1>0, <1>1, <1>3
  <2>2. RequestOf(c) = None /\ RequestOf(c)' = Some(frame.operations[1].payload)
    BY <1>3, <2>1 DEF RequestOf, Admitted, FirstRequest
  <2>3. \A d \in Clients : d # c => RequestOf(d)' = RequestOf(d)
    BY <1>2 DEF RequestOf, Admitted, FirstRequest
  <2>4. AbstractRequest' = [AbstractRequest EXCEPT ![c] = Some(frame.operations[1].payload)]
    BY <2>2, <2>3 DEF AbstractRequest
  <2>5. Ingress!Submit(c)
    BY <1>0, <1>3, <2>2, <2>4
       DEF Ingress!Submit, AbstractRequest, RequestOf, Admitted, Some, None
  <2> QED
    BY <2>5 DEF Ingress!Next
<1>4. CASE sent[c] # <<>> \/ ~RequestAdmitted(frame)
  <2>1. RequestOf(c)' = RequestOf(c)
    <3>1. CASE sent[c] # <<>>
      BY <1>0, <3>1, FirstFrameStays DEF RequestOf, Admitted, FirstRequest
    <3>2. CASE sent[c] = <<>> /\ ~RequestAdmitted(frame)
      <4>1. sent'[c] = <<frame>>
        BY <1>0, <1>1, <3>2
      <4> QED
        BY <3>2, <4>1 DEF RequestOf, Admitted
    <3> QED
      BY <1>4, <3>1, <3>2
  <2>2. \A d \in Clients : RequestOf(d)' = RequestOf(d)
    BY <1>2, <2>1 DEF RequestOf, Admitted, FirstRequest
  <2>3. AbstractRequest' = AbstractRequest
    BY <2>2 DEF AbstractRequest
  <2> QED
    BY <1>0, <2>3 DEF Ingress!serviceVars, AbstractRequest, RequestOf, Admitted
<1> QED
  BY <1>3, <1>4

\* What the router takes charge of is a request of a client that the ledger
\* does not hold yet, in a form in which it may be recorded.
LEMMA RouterProcessRefines ==
    ASSUME ExchangeInv, RouterProcess
    PROVE  [Ingress!Next]_(Ingress!serviceVars)
<1>0. TypeInv /\ toRouter # None /\ toRouter[1] \in RouterRequests
      /\ UNCHANGED <<sent, answer>> /\ routerLog' = Append(routerLog, toRouter[1])
      /\ link = "requested"
  BY DEF ExchangeInv, OnceInv, ConnectionInv, TypeInv, TypeOK, RouterTypeOK, ControlOK,
         RouterProcess, Option, Some, None
<1>1. PICK c \in Clients :
          /\ c = toRouter[1].sender
          /\ Admitted(c) /\ Genuine(toRouter[1], c)
          /\ \A n \in DOMAIN routerLog : routerLog[n].sender # c
  BY <1>0, SenderIsClient DEF ExchangeInv, OnceInv, LedgerInv, RouterInv
<1>2. ~Ingress!Recorded(c)
  BY <1>1 DEF Ingress!Recorded
<1>3. AbstractRequest[c] = <<FirstRequest(c)>> /\ AbstractRequest' = AbstractRequest
  BY <1>0, <1>1 DEF AbstractRequest, RequestOf, Admitted, FirstRequest, Some
<1>4. toRouter[1] \in Ingress!Recordable(c)
  <2>1. [d \in Clients |-> IF sent[d] # <<>> /\ RequestAdmitted(sent[d][1])
                                THEN Some(FirstRequest(d)) ELSE None][c]
          = <<FirstRequest(c)>>
    BY <1>3 DEF AbstractRequest, RequestOf, Admitted
  <2>2. <<MessageSubmission(c)>> # <<InboxQuery(c)>>
    BY DEF MessageSubmission, InboxQuery
  <2>3. CASE toRouter[1] = InboxQuery(c) /\ FirstRequest(c) = InboxQuery(c)
    <3>1. Ingress!Recordable(c) = {InboxQuery(c)}
      BY <2>1, <2>3, <2>2, SameFrames DEF Ingress!Recordable
    <3> QED
      BY <2>3, <3>1
  <2>4. CASE /\ FirstRequest(c) = MessageSubmission(c)
             /\ \E time \in 0 .. MaxTimestamp :
                    toRouter[1] = StampedMessageSubmission(c, MintedOrigin(c), time)
    <3>1. Ingress!Recordable(c)
            = {StampedMessageSubmission(c, MintedOrigin(c), time) :
                   time \in 0 .. MaxTimestamp}
      BY <2>1, <2>4, <2>2, SameFrames DEF Ingress!Recordable
    <3> QED
      BY <2>4, <3>1
  <2> QED
    BY <1>1, <2>3, <2>4 DEF Genuine
<1>5. Ingress!Record(c)
  BY <1>0, <1>2, <1>3, <1>4 DEF Ingress!Record, AbstractRequest, RequestOf, Admitted
<1> QED
  BY <1>5 DEF Ingress!Next

\* What a client takes is what the service tells it, or the refusal of a stamp.
LEMMA ReceiveReplyRefines ==
    ASSUME ExchangeInv, NEW c \in Clients, ReceiveReply(c)
    PROVE  [Ingress!Next]_(Ingress!serviceVars)
<1> DEFINE r == outbound[c][1].perOperation[1].payload
<1>0. /\ UNCHANGED <<sent, routerLog>>
      /\ answer[c] = None /\ answer' = [answer EXCEPT ![c] = Some(r)]
      /\ Admitted(c) /\ Answers(r, c)
  <2>1. answer \in [Clients -> Option(Replies)]
    BY DEF ExchangeInv, OnceInv, ConnectionInv, TypeInv, TypeOK, ClientTypeOK
  <2> QED
    BY <2>1 DEF ReceiveReply, ClientEnds, ExchangeInv, ToldInv, ReplyMatchesRequest,
                PayloadFromReply
<1>1. AbstractRequest' = AbstractRequest /\ AbstractRequest[c] = <<FirstRequest(c)>>
  BY <1>0 DEF AbstractRequest, RequestOf, Admitted, FirstRequest, Some
<1>2. CASE /\ r = MessageRequestUnimplemented
           /\ FirstRequest(c).kind = "StampedMessageSubmission"
  <2>1. Ingress!Refuse(c)
    BY <1>0, <1>1, <1>2, SameFrames
       DEF Ingress!Refuse, AbstractRequest, RequestOf, Admitted, Some, None
  <2> QED
    BY <2>1 DEF Ingress!Next
<1>3. CASE \E n \in DOMAIN routerLog :
               /\ Genuine(routerLog[n], c)
               /\ r = IF FirstRequest(c) = InboxQuery(c) THEN InboxListing(n)
                                                         ELSE SubmissionAccepted(n)
  <2>1. PICK n \in DOMAIN routerLog :
               /\ Genuine(routerLog[n], c)
               /\ r = IF FirstRequest(c) = InboxQuery(c) THEN InboxListing(n)
                                                         ELSE SubmissionAccepted(n)
    BY <1>3
  <2>2. routerLog[n].sender = c /\ r = Ingress!ReplyAbout(n)
    <3>1. CASE routerLog[n] = InboxQuery(c) /\ FirstRequest(c) = InboxQuery(c)
      BY <2>1, <3>1, SameFrames DEF Ingress!ReplyAbout, InboxQuery
    <3>2. CASE /\ FirstRequest(c) = MessageSubmission(c)
               /\ \E time \in 0 .. MaxTimestamp :
                      routerLog[n] = StampedMessageSubmission(c, MintedOrigin(c), time)
      <4>1. MessageSubmission(c) # InboxQuery(c)
        BY DEF MessageSubmission, InboxQuery
      <4> QED
        BY <2>1, <3>2, <4>1, SameFrames DEF Ingress!ReplyAbout, StampedMessageSubmission
    <3> QED
      BY <2>1, <3>1, <3>2 DEF Genuine
  <2>3. Ingress!Tell(c)
    BY <1>0, <1>1, <2>1, <2>2
       DEF Ingress!Tell, AbstractRequest, RequestOf, Admitted, Some, None
  <2> QED
    BY <2>3 DEF Ingress!Next
<1> QED
  BY <1>0, <1>2, <1>3 DEF Answers

LEMMA ServiceStep == ExchangeInv /\ [Next]_vars => [Ingress!Next]_(Ingress!serviceVars)
<1> SUFFICES ASSUME ExchangeInv, [Next]_vars PROVE [Ingress!Next]_(Ingress!serviceVars)
  OBVIOUS
<1>1. CASE UNCHANGED vars
  BY <1>1, ServiceStutters
<1>2. CASE Next
  BY <1>2, ServiceSteps, ServiceStutters, WriteFrameRefines, RouterProcessRefines,
     ReceiveReplyRefines
<1> QED
  BY <1>1, <1>2

\* Seen from its clients and its router, the daemon with its sockets, its one
\* connection at a time, its failures and its shutdown is the service: each
\* request recorded at most once, under provenance the daemon mints, and each
\* client told only about its own.
THEOREM RefinesIngressHolds == Spec => RefinesIngress
  BY ExchangeInvariant, ServiceInit, ServiceStep, PTL
     DEF Spec, RefinesIngress, Ingress!Spec
=============================================================================
