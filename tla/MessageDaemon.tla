---------------------------- MODULE MessageDaemon ----------------------------
(***************************************************************************)
(* persona-message-daemon: the main thread of src/daemon.rs, with the      *)
(* sockets it binds, the clients that connect to them and the router it    *)
(* forwards to.                                                            *)
(*                                                                         *)
(* The main thread binds message.sock and one socket per component         *)
(* ingress, polls them in turn without blocking, and carries one           *)
(* connection at a time from accept to reply: it reads one request         *)
(* (blocking, no time limit), asks the root actor, which stamps it and     *)
(* calls the router (blocking, no time limit), and writes the reply.       *)
(* Every error on that path leaves run() and ends the daemon.  A stop flag *)
(* set by the supervision thread ends the loop at its next test.           *)
(*                                                                         *)
(* A client owns one connection in a behaviour.  A CLI client does what    *)
(* SignalMessageClient::submit does; a raw client is any other program: it *)
(* writes up to MaxFrames frames of its choice, may stay silent, and may   *)
(* hang up at any time.  The router is external.                           *)
(***************************************************************************)
EXTENDS Integers, FiniteSets, Sequences, MessageIngress

CONSTANTS CliClients,        \* clients that run SignalMessageClient::submit
          RawClients,        \* clients that may send anything
          NoClient,          \* stands for "no connection is being served"
          NumBindings,       \* message.sock and the component ingresses
          BindingOf,         \* the binding a client connects to
          PeerUid,           \* the uid SO_PEERCRED reports for a client
          ClockReadings,     \* what the clock may show, relative to the epoch
          MaxForwardedCount, \* u64::MAX, small in the instances
          MaxFrames          \* bound: frames a raw client writes

Clients == CliClients \cup RawClients
Bindings == 1 .. NumBindings

ASSUME ClientsAssumption ==
    /\ CliClients \cap RawClients = {}
    /\ NoClient \notin Clients

ASSUME BindingsAssumption ==
    /\ NumBindings \in Nat \ {0}
    /\ BindingOf \in [Clients -> Bindings]

ASSUME BoundsAssumption ==
    /\ ClockReadings \subseteq Int
    /\ MaxForwardedCount \in Nat
    /\ MaxFrames \in Nat

VARIABLES
    \* the main thread
    pc,              \* where run() is
    slot,            \* the binding it binds, polls or drops
    current,         \* the client it serves
    received,        \* the request read from current, as an option
    reply,           \* the reply the root actor returned, as an option
    exit,            \* "running", or how the process ended
    forwardedCount,  \* MessageDaemonRoot.forwarded_count
    supervised,      \* the supervision thread has been spawned
    stopRequested,   \* SupervisionStopSignal
    \* the sockets
    listener,        \* what became of each listener
    linked,          \* whether its path exists in the file system
    backlog,         \* connections the kernel holds for accept
    serverEnd,       \* the daemon's end of each client's connection
    \* the clients
    cpc,             \* where each client is
    sent,            \* the frames it wrote on its connection
    outbound,        \* the frame on its way to it, as an option
    answer,          \* the reply submit() returned to it, as an option
    \* the router
    routerUp,        \* it listens on router.sock
    link,            \* the daemon's connection to it
    toRouter,        \* the request on that connection, as an option
    fromRouter,      \* the frame on its way back, as an option
    routerLog        \* the requests it has taken charge of, in order

hand       == <<current, received, reply>>
life       == <<exit, forwardedCount, supervised>>
threadVars == <<pc, slot, hand, life>>
socketVars == <<listener, linked, backlog>>
clientVars == <<cpc, sent, answer>>
linkVars   == <<link, toRouter, fromRouter>>
\* What the main thread never writes.
others     == <<stopRequested, clientVars, routerUp, routerLog>>
vars       == <<threadVars, socketVars, serverEnd, outbound, linkVars, others>>

None == <<>>
Some(x) == <<x>>
Option(S) == {None} \cup {Some(x) : x \in S}

-----------------------------------------------------------------------------
(***************************************************************************)
(* Values                                                                  *)
(***************************************************************************)

CliFrames(c) ==
    {RequestFrameWithExchange(ConnectorExchange, request) :
        request \in {MessageSubmission(c), InboxQuery(c)}}

\* A foreign exchange, a verb that does not fit, two operations, a stamp the
\* client made up, a body that is not a request, and bytes that do not decode.
RawFrames(c) ==
    LET submission == Operation("Assert", MessageSubmission(c)) IN
    CliFrames(c) \cup
    {RequestFrame("another", <<submission>>),
     RequestFrame(ConnectorExchange, <<Operation("Match", MessageSubmission(c))>>),
     RequestFrame(ConnectorExchange, <<submission, submission>>),
     RequestFrameWithExchange(ConnectorExchange,
                              StampedMessageSubmission(c, Owner, 0)),
     OtherFrame, Unreadable}

ClientFrames(c) == IF c \in CliClients THEN CliFrames(c) ELSE RawFrames(c)

\* What a router says to the request in place n of its ledger.
RouterReply(n) ==
    IF routerLog[n].kind = "InboxQuery" THEN InboxListing(n)
                                        ELSE SubmissionAccepted(n)

SubReply(n) == SubReplyOk(SignalVerb(routerLog[n]), RouterReply(n))

\* The frames a router may send for it: the right one, and those the codec
\* must not take for it; a frame of another exchange has any reply in it.
RouterFrames(n) ==
    {ReplyFrameOf("another", <<SubReply(m)>>) : m \in DOMAIN routerLog} \cup
    {ReplyFrameOf(ConnectorExchange, <<SubReply(n)>>),
     ReplyFrameOf(ConnectorExchange, <<SubReply(n), SubReply(n)>>),
     ReplyFrameOf(ConnectorExchange, <<SubReplyNotOk>>),
     OtherFrame, Unreadable}

ClientEndOpen(c) == cpc[c] \in {"connected", "waiting"}

Queued(i) == {c \in Clients : serverEnd[c] = "queued" /\ BindingOf[c] = i}

\* The daemon's ends of these connections are closed.
Close(S) ==
    serverEnd' = [c \in Clients |-> IF c \in S THEN "closed" ELSE serverEnd[c]]

Init ==
    /\ pc = "bind" /\ slot = 1 /\ current = NoClient
    /\ received = None /\ reply = None
    /\ exit = "running" /\ forwardedCount = 0
    /\ supervised = FALSE /\ stopRequested = FALSE
    /\ listener = [i \in Bindings |-> "absent"]
    /\ linked \in [Bindings -> BOOLEAN]     \* a previous daemon may have left it
    /\ backlog = [i \in Bindings |-> <<>>]
    /\ serverEnd = [c \in Clients |-> "none"]
    /\ cpc = [c \in Clients |-> "idle"]
    /\ sent = [c \in Clients |-> <<>>]
    /\ outbound = [c \in Clients |-> None]
    /\ answer = [c \in Clients |-> None]
    /\ routerUp \in BOOLEAN
    /\ link = "none" /\ toRouter = None /\ fromRouter = None
    /\ routerLog = <<>>

-----------------------------------------------------------------------------
(***************************************************************************)
(* The main thread: startup                                                *)
(***************************************************************************)

At(label) == pc = label /\ exit = "running"

\* An error leaves run(): the connection in hand is dropped, then the
\* bindings are, in order.  S are the connections closed at once.
Fail(S) ==
    /\ pc' = "drop" /\ slot' = 1 /\ exit' = "error"
    /\ current' = NoClient /\ received' = None /\ reply' = None
    /\ Close(S)
    /\ UNCHANGED <<forwardedCount, supervised, outbound, others>>

\* The old path, if any, is removed and the socket bound: from here on
\* clients reach the listener, with the mode the umask gives.
BindListener ==
    /\ At("bind")
    /\ pc' = "applyMode"
    /\ listener' = [listener EXCEPT ![slot] = "bound"]
    /\ linked' = [linked EXCEPT ![slot] = TRUE]
    /\ UNCHANGED <<slot, hand, life, backlog, serverEnd, outbound, linkVars, others>>

\* create_dir_all or bind failed, before or after the old path was removed.
BindListenerFails ==
    /\ At("bind")
    /\ \E kept \in {linked[slot], FALSE} :
           linked' = [linked EXCEPT ![slot] = kept]
    /\ Fail({})
    /\ UNCHANGED <<listener, backlog, linkVars>>

\* Mutant: the loop over the bindings ends after the first one.
ApplyModeOnce ==
    /\ At("applyMode")
    /\ listener' = [listener EXCEPT ![slot] = "listening"]
    /\ pc' = "spawnSupervision" /\ slot' = 1
    /\ UNCHANGED <<hand, life, linked, backlog, serverEnd, outbound, linkVars, others>>

ApplyMode ==
    /\ At("applyMode")
    /\ listener' = [listener EXCEPT ![slot] = "listening"]
    /\ IF slot = NumBindings THEN pc' = "spawnSupervision" /\ slot' = 1
                             ELSE pc' = "bind" /\ slot' = slot + 1
    /\ UNCHANGED <<hand, life, linked, backlog, serverEnd, outbound, linkVars, others>>

\* set_permissions failed: the bare listener is dropped, which closes it; no
\* MessageSocketBinding exists yet to remove the path.
ApplyModeFails ==
    /\ At("applyMode")
    /\ listener' = [listener EXCEPT ![slot] = "absent"]
    /\ backlog' = [backlog EXCEPT ![slot] = <<>>]
    /\ Fail(Queued(slot))
    /\ UNCHANGED <<linked, linkVars>>

\* set_nonblocking on every listener, then the supervision listener's thread.
SpawnSupervision ==
    /\ At("spawnSupervision")
    /\ pc' = "startRoot"
    /\ supervised' = TRUE
    /\ UNCHANGED <<slot, hand, exit, forwardedCount, socketVars, serverEnd,
                   outbound, linkVars, others>>

\* The tokio runtime and the root actor, its count at zero.
StartRoot ==
    /\ At("startRoot")
    /\ pc' = "checkStop"
    /\ forwardedCount' = 0
    /\ UNCHANGED <<slot, hand, exit, supervised, socketVars, serverEnd,
                   outbound, linkVars, others>>

\* No connection is in hand: set_nonblocking, spawn of the supervision
\* listener, the tokio runtime, accept, or stop_root failed.
RunFails ==
    /\ pc \in {"spawnSupervision", "startRoot", "poll", "stopRoot"}
    /\ exit = "running"
    /\ Fail({})
    /\ UNCHANGED <<socketVars, linkVars>>

-----------------------------------------------------------------------------
(***************************************************************************)
(* The main thread: the loop                                               *)
(***************************************************************************)

CheckStop ==
    /\ At("checkStop")
    /\ pc' = IF stopRequested THEN "stopRoot" ELSE "poll"
    /\ slot' = 1
    /\ UNCHANGED <<hand, life, socketVars, serverEnd, outbound, linkVars, others>>

\* accept_one tries the bindings in order and returns the first connection.
AcceptOne ==
    /\ At("poll")
    /\ backlog[slot] # <<>>
    /\ pc' = "read"
    /\ current' = Head(backlog[slot])
    /\ backlog' = [backlog EXCEPT ![slot] = Tail(@)]
    /\ serverEnd' = [serverEnd EXCEPT ![Head(backlog[slot])] = "accepted"]
    /\ UNCHANGED <<slot, received, reply, life, listener, linked, outbound,
                   linkVars, others>>

\* Mutant: an idle daemon polls again without testing the flag.
PollNextOrAgain ==
    /\ At("poll")
    /\ backlog[slot] = <<>>
    /\ slot' = IF slot = NumBindings THEN 1 ELSE slot + 1
    /\ UNCHANGED <<pc, hand, life, socketVars, serverEnd, outbound, linkVars, others>>

\* WouldBlock: the next binding, and after the last one a sleep of 10 ms.
PollNext ==
    /\ At("poll")
    /\ backlog[slot] = <<>>
    /\ IF slot = NumBindings THEN pc' = "checkStop" /\ slot' = 1
                             ELSE pc' = "poll" /\ slot' = slot + 1
    /\ UNCHANGED <<hand, life, socketVars, serverEnd, outbound, linkVars, others>>

\* getsockopt failed on the stream just accepted.
PeerCredentialsFail ==
    /\ At("poll")
    /\ backlog[slot] # <<>>
    /\ backlog' = [backlog EXCEPT ![slot] = Tail(@)]
    /\ Fail({Head(backlog[slot])})
    /\ UNCHANGED <<listener, linked, linkVars>>

NoLink == link' = "none" /\ toRouter' = None /\ fromRouter' = None

\* Mutant: the daemon survives a connection that failed.
ServingFailsAlone ==
    /\ pc' = "checkStop"
    /\ current' = NoClient /\ received' = None /\ reply' = None
    /\ Close({current})
    /\ NoLink
    /\ UNCHANGED <<slot, life, socketVars, outbound, others>>

\* handle_connection returned an error: its connections are dropped with it.
ServingFails == Fail({current}) /\ NoLink /\ UNCHANGED socketVars

\* Only the first frame of a connection is ever read.
ReadRequest ==
    /\ At("read")
    /\ sent[current] # <<>>
    /\ RequestAdmitted(Head(sent[current]))
    /\ received' = Some(ReceivedMessageRequest(Head(sent[current])))
    /\ pc' = "ask"
    /\ UNCHANGED <<slot, current, reply, life, socketVars, serverEnd, outbound,
                   linkVars, others>>

\* The client hung up before a frame was complete, or sent one that is refused.
ReadRequestFails ==
    /\ At("read")
    /\ \/ sent[current] = <<>> /\ ~ClientEndOpen(current)
       \/ sent[current] # <<>> /\ ~RequestAdmitted(Head(sent[current]))
    /\ ServingFails

Decision(now) ==
    StampRequest(received[1].request, AuthorityOf(BindingOf[current]),
                 PeerUid[current], now)

\* The root actor forwards: it connects to the router and writes the request.
Forward ==
    /\ At("ask")
    /\ routerUp
    /\ \E now \in ClockReadings :
           /\ Decision(now).kind = "Forward"
           /\ toRouter' = Some(Decision(now).request)
    /\ link' = "requested"
    /\ pc' = "await"
    /\ UNCHANGED <<slot, hand, life, socketVars, serverEnd, outbound,
                   fromRouter, others>>

\* The root actor answers by itself.
ReplyWithoutRouter ==
    /\ At("ask")
    /\ \E now \in ClockReadings :
           /\ Decision(now).kind = "Reply"
           /\ reply' = Some(Decision(now).reply)
    /\ pc' = "reply"
    /\ UNCHANGED <<slot, current, received, life, socketVars, serverEnd,
                   outbound, linkVars, others>>

\* The clock is before the epoch, or nobody listens on router.sock.
AskFails ==
    /\ At("ask")
    /\ \E now \in ClockReadings :
           \/ Decision(now).kind = "Error"
           \/ Decision(now).kind = "Forward" /\ ~routerUp
    /\ ServingFails

SaturatingAddOne(count) ==
    IF count < MaxForwardedCount THEN count + 1 ELSE MaxForwardedCount

\* submit returned a reply; it is counted.
RouterAnswered ==
    /\ At("await")
    /\ link = "answered"
    /\ ReplyAdmitted(fromRouter[1], ConnectorExchange)
    /\ reply' = Some(PayloadFromReply(fromRouter[1]))
    /\ forwardedCount' = SaturatingAddOne(forwardedCount)
    /\ pc' = "reply"
    /\ NoLink
    /\ UNCHANGED <<slot, current, received, exit, supervised, socketVars,
                   serverEnd, outbound, others>>

\* Mutant: a call that the router broke off is made again.
RouterFailsRetry ==
    /\ At("await")
    /\ link = "broken"
    /\ pc' = "ask"
    /\ NoLink
    /\ UNCHANGED <<slot, hand, life, socketVars, serverEnd, outbound, others>>

\* Mutant: the end of the stream is not taken for an error.
RouterFailsOnFrame ==
    /\ At("await")
    /\ link = "answered"
    /\ ~ReplyAdmitted(fromRouter[1], ConnectorExchange)
    /\ ServingFails

\* The router closed the connection, or its reply is refused.
RouterFails ==
    /\ At("await")
    /\ \/ link = "broken"
       \/ link = "answered" /\ ~ReplyAdmitted(fromRouter[1], ConnectorExchange)
    /\ ServingFails

\* The reply is written and the connection dropped.
WriteReply ==
    /\ At("reply")
    /\ ClientEndOpen(current)
    /\ outbound' = [outbound EXCEPT ![current] =
           Some(ReplyFrame(received[1].exchange, received[1].verb, reply[1]))]
    /\ Close({current})
    /\ pc' = "checkStop"
    /\ current' = NoClient /\ received' = None /\ reply' = None
    /\ UNCHANGED <<slot, life, socketVars, linkVars, others>>

WriteReplyFails == At("reply") /\ ~ClientEndOpen(current) /\ ServingFails

-----------------------------------------------------------------------------
(***************************************************************************)
(* The main thread: the end                                                *)
(***************************************************************************)

\* The root actor stopped with a clean outcome: run() returns Ok.
StopRoot ==
    /\ At("stopRoot")
    /\ pc' = "drop" /\ slot' = 1 /\ exit' = "ok"
    /\ UNCHANGED <<hand, forwardedCount, supervised, socketVars, serverEnd,
                   outbound, linkVars, others>>

\* Mutant: the paths are left.
DropUnlinkNothing ==
    /\ pc = "drop"
    /\ listener[slot] = "listening"
    /\ listener' = [listener EXCEPT ![slot] = "unlinked"]
    /\ UNCHANGED <<threadVars, linked, backlog, serverEnd, outbound, linkVars, others>>

\* Drop of a MessageSocketBinding removes its path, and then the listener is
\* closed with every connection it still holds.
DropUnlink ==
    /\ pc = "drop"
    /\ listener[slot] = "listening"
    /\ linked' = [linked EXCEPT ![slot] = FALSE]
    /\ listener' = [listener EXCEPT ![slot] = "unlinked"]
    /\ UNCHANGED <<threadVars, backlog, serverEnd, outbound, linkVars, others>>

DropClose ==
    /\ pc = "drop"
    /\ listener[slot] \in {"unlinked", "absent"}
    /\ listener' = [listener EXCEPT ![slot] =
                        IF @ = "unlinked" THEN "closed" ELSE @]
    /\ backlog' = [backlog EXCEPT ![slot] = <<>>]
    /\ Close(Queued(slot))
    /\ IF slot = NumBindings THEN pc' = "exited" /\ UNCHANGED slot
                             ELSE slot' = slot + 1 /\ UNCHANGED pc
    /\ UNCHANGED <<hand, life, linked, outbound, linkVars, others>>

\* The process is killed: the kernel closes what it held and unlinks nothing.
Killed ==
    /\ pc # "exited"
    /\ pc' = "exited" /\ exit' = "killed"
    /\ current' = NoClient /\ received' = None /\ reply' = None
    /\ listener' = [i \in Bindings |->
                        IF listener[i] = "absent" THEN "absent" ELSE "closed"]
    /\ backlog' = [i \in Bindings |-> <<>>]
    /\ Close({c \in Clients : serverEnd[c] \in {"queued", "accepted"}})
    /\ UNCHANGED <<slot, forwardedCount, supervised, linked, outbound, linkVars,
                   others>>

-----------------------------------------------------------------------------
(***************************************************************************)
(* The clients                                                             *)
(***************************************************************************)

Reachable(i) == linked[i] /\ listener[i] \in {"bound", "listening"}

\* What no client writes.
daemonVars == <<threadVars, stopRequested, listener, linked, outbound,
                routerUp, linkVars, routerLog>>

Connect(c) ==
    /\ cpc[c] = "idle"
    /\ Reachable(BindingOf[c])
    /\ cpc' = [cpc EXCEPT ![c] = "connected"]
    /\ backlog' = [backlog EXCEPT ![BindingOf[c]] = Append(@, c)]
    /\ serverEnd' = [serverEnd EXCEPT ![c] = "queued"]
    /\ UNCHANGED <<sent, answer, daemonVars>>

ClientEnds(c, outcome) ==
    /\ cpc' = [cpc EXCEPT ![c] = outcome]
    /\ UNCHANGED <<sent, backlog, serverEnd, daemonVars>>

ConnectFails(c) ==
    /\ cpc[c] = "idle"
    /\ ~Reachable(BindingOf[c])
    /\ ClientEnds(c, "failed")
    /\ UNCHANGED answer

\* A CLI client writes one frame; a raw client may write more.
WriteFrame(c) ==
    /\ \/ cpc[c] = "connected"
       \/ c \in RawClients /\ cpc[c] = "waiting" /\ Len(sent[c]) < MaxFrames
    /\ serverEnd[c] \in {"queued", "accepted"}
    /\ \E frame \in ClientFrames(c) :
           sent' = [sent EXCEPT ![c] = Append(@, frame)]
    /\ cpc' = [cpc EXCEPT ![c] = "waiting"]
    /\ UNCHANGED <<answer, backlog, serverEnd, daemonVars>>

\* The daemon's end is closed: the write fails.
WriteFrameFails(c) ==
    /\ cpc[c] = "connected"
    /\ serverEnd[c] = "closed"
    /\ ClientEnds(c, "failed")
    /\ UNCHANGED answer

\* submit takes the payload of a reply it admits.
ReceiveReply(c) ==
    /\ cpc[c] = "waiting"
    /\ outbound[c] # None
    /\ ReplyAdmitted(outbound[c][1], ConnectorExchange)
    /\ answer' = [answer EXCEPT ![c] = Some(PayloadFromReply(outbound[c][1]))]
    /\ ClientEnds(c, "answered")

\* End of file instead of a reply, or a reply submit does not admit.
ReceiveReplyFails(c) ==
    /\ cpc[c] = "waiting"
    /\ \/ outbound[c] = None /\ serverEnd[c] = "closed"
       \/ outbound[c] # None
          /\ ~ReplyAdmitted(outbound[c][1], ConnectorExchange)
    /\ ClientEnds(c, "failed")
    /\ UNCHANGED answer

\* The client is killed or hangs up; frames it wrote can still be read.
HangUp(c) ==
    /\ ClientEndOpen(c)
    /\ ClientEnds(c, "gone")
    /\ UNCHANGED answer

-----------------------------------------------------------------------------
(***************************************************************************)
(* The router (external)                                                   *)
(***************************************************************************)

\* What the router never writes.
ingressVars == <<threadVars, stopRequested, socketVars, serverEnd, clientVars,
                 outbound, toRouter>>

RouterStart ==
    /\ ~routerUp
    /\ routerUp' = TRUE
    /\ UNCHANGED <<link, fromRouter, routerLog, ingressVars>>

\* A router that stops breaks a connection it has not answered.
RouterStop ==
    /\ routerUp
    /\ routerUp' = FALSE
    /\ link' = IF link \in {"requested", "processed"} THEN "broken" ELSE link
    /\ UNCHANGED <<fromRouter, routerLog, ingressVars>>

RouterProcess ==
    /\ routerUp
    /\ link = "requested"
    /\ routerLog' = Append(routerLog, toRouter[1])
    /\ link' = "processed"
    /\ UNCHANGED <<routerUp, fromRouter, ingressVars>>

RouterAnswer ==
    /\ routerUp
    /\ link = "processed"
    /\ \E frame \in RouterFrames(Len(routerLog)) : fromRouter' = Some(frame)
    /\ link' = "answered"
    /\ UNCHANGED <<routerUp, routerLog, ingressVars>>

\* The router rejects the request and takes no charge of it.
RouterReject ==
    /\ routerUp
    /\ link = "requested"
    /\ fromRouter' = Some(RejectedReplyFrame(ConnectorExchange))
    /\ link' = "answered"
    /\ UNCHANGED <<routerUp, routerLog, ingressVars>>

-----------------------------------------------------------------------------
(***************************************************************************)
(* The specification                                                       *)
(***************************************************************************)

\* The supervision thread stores to the flag; it outlives run().
RequestStop ==
    /\ supervised
    /\ exit # "killed"
    /\ ~stopRequested
    /\ stopRequested' = TRUE
    /\ UNCHANGED <<threadVars, socketVars, serverEnd, clientVars, outbound,
                   routerUp, linkVars, routerLog>>

Startup == \/ BindListener \/ BindListenerFails
           \/ ApplyMode \/ ApplyModeFails
           \/ StartRoot

Serve == \/ CheckStop \/ AcceptOne \/ PollNext \/ PeerCredentialsFail
         \/ ReadRequest \/ ReadRequestFails
         \/ Forward \/ ReplyWithoutRouter \/ AskFails
         \/ RouterAnswered \/ RouterFails
         \/ WriteReply \/ WriteReplyFails

Finish == StopRoot \/ RunFails \/ DropUnlink \/ DropClose

Daemon == SpawnSupervision \/ Startup \/ Serve \/ Finish

Submit(c) == \/ Connect(c) \/ ConnectFails(c)
             \/ WriteFrame(c) \/ WriteFrameFails(c)
             \/ ReceiveReply(c) \/ ReceiveReplyFails(c)

Client(c) == Submit(c) \/ HangUp(c)

Handle == RouterProcess \/ RouterAnswer \/ RouterReject

Router == RouterStart \/ RouterStop \/ Handle

Next ==
    \/ Daemon
    \/ Killed
    \/ RequestStop
    \/ \E c \in Clients : Client(c)
    \/ Router

Spec == Init /\ [][Next]_vars

\* The environment justifies fairness for the router, while it is up, and for
\* CLI clients; a raw client owes nothing.  The main thread and they are
\* scheduled by the kernel.
FairSpec ==
    /\ Spec
    /\ WF_vars(Daemon)
    /\ WF_vars(Handle)
    /\ \A c \in CliClients : WF_vars(Submit(c))

\* Every client that connects also writes its frame or hangs up.
TalkingSpec ==
    FairSpec /\ \A c \in RawClients : WF_vars(WriteFrame(c) \/ HangUp(c))
=============================================================================
