----------------------- MODULE MessageDaemonProperties -----------------------
(***************************************************************************)
(* What must hold of MessageDaemon: its types, the safety of provenance,   *)
(* replies, counting and shutdown, the abstract service it implements, and *)
(* progress.                                                               *)
(***************************************************************************)
EXTENDS MessageDaemon

-----------------------------------------------------------------------------
(***************************************************************************)
(* Types                                                                   *)
(***************************************************************************)

Labels == {"bind", "applyMode", "spawnSupervision", "startRoot", "checkStop",
           "poll", "read", "ask", "await", "reply", "stopRoot", "drop", "exited"}

Origins == {Owner} \cup {NonOwnerUser(PeerUid[c]) : c \in Clients}
           \cup {ComponentOrigin(i) : i \in Bindings}

ReceivedRequests ==
    UNION {{ReceivedMessageRequest(frame) :
                frame \in {f \in ClientFrames(c) : RequestAdmitted(f)}} : c \in Clients}

RouterRequests ==
    {InboxQuery(c) : c \in Clients} \cup
    {StampedMessageSubmission(c, origin, time) :
        c \in Clients, origin \in Origins, time \in 0 .. MaxTimestamp}

\* A reply that names a slot names one the ledger has.
Replies ==
    {MessageRequestUnimplemented}
    \cup {SubmissionAccepted(n) : n \in DOMAIN routerLog}
    \cup {InboxListing(n) : n \in DOMAIN routerLog}

\* What clients may have written, what the daemon may have replied, and what
\* the router may have.
WrittenFrames == UNION {ClientFrames(c) : c \in Clients}

ReplyFrames ==
    {ReplyFrame(x, verb, r) :
        x \in Exchanges, verb \in {"Assert", "Match"}, r \in Replies}

RouterAnswers ==
    {RejectedReplyFrame(ConnectorExchange)}
    \cup UNION {RouterFrames(n) : n \in DOMAIN routerLog}

ThreadTypeOK ==
    /\ pc \in Labels /\ slot \in Bindings /\ current \in Clients \cup {NoClient}
    /\ received \in Option(ReceivedRequests) /\ reply \in Option(Replies)
    /\ exit \in {"running", "ok", "error", "killed"}
    /\ forwardedCount \in 0 .. MaxForwardedCount
    /\ supervised \in BOOLEAN /\ stopRequested \in BOOLEAN

SocketTypeOK ==
    /\ listener \in [Bindings -> {"absent", "bound", "listening", "unlinked", "closed"}]
    /\ linked \in [Bindings -> BOOLEAN]
    /\ backlog \in [Bindings -> Seq(Clients)]
    /\ serverEnd \in [Clients -> {"none", "queued", "accepted", "closed"}]

ClientTypeOK ==
    /\ cpc \in [Clients ->
           {"idle", "connected", "waiting", "answered", "failed", "gone"}]
    /\ sent \in [Clients -> Seq(WrittenFrames)]
    /\ \A c \in Clients : sent[c] \in Seq(ClientFrames(c))
    /\ outbound \in [Clients -> Option(ReplyFrames)]
    /\ answer \in [Clients -> Option(Replies)]

RouterTypeOK ==
    /\ routerUp \in BOOLEAN
    /\ link \in {"none", "requested", "processed", "answered", "broken"}
    /\ toRouter \in Option(RouterRequests)
    /\ fromRouter \in Option(RouterAnswers)
    /\ routerLog \in Seq(RouterRequests)

\* Every variable has the type the code gives it.
TypeOK == ThreadTypeOK /\ SocketTypeOK /\ ClientTypeOK /\ RouterTypeOK

-----------------------------------------------------------------------------
(***************************************************************************)
(* Safety                                                                  *)
(***************************************************************************)

FirstRequest(c) == sent[c][1].operations[1].payload

\* The origin the design gives a client: by its socket when that belongs to a
\* component instance, else by comparing its uid with the configured owner.
MintedOrigin(c) ==
    CASE BindingOf[c] > 1 -> ComponentOrigin(BindingOf[c])
      [] BindingOf[c] = 1 /\ OwnerIdentity = [kind |-> "UnixUser", user |-> PeerUid[c]]
             -> Owner
      [] OTHER -> NonOwnerUser(PeerUid[c])

\* A request the daemon may pass on for client c: its inbox query, or its
\* submission under the minted origin and a time a u64 can hold; never a
\* stamp the client wrote.
Genuine(request, c) ==
    /\ sent[c] # <<>>
    /\ \/ request = InboxQuery(c) /\ FirstRequest(c) = InboxQuery(c)
       \/ /\ FirstRequest(c) = MessageSubmission(c)
          /\ \E time \in 0 .. MaxTimestamp :
                 request = StampedMessageSubmission(c, MintedOrigin(c), time)

\* Whatever the clients write, every request the router ever takes charge of
\* is a genuine one of some client: provenance comes from the socket and the
\* peer credentials and never from a payload (stamp_request, origin_for_peer).
ProvenanceMinted ==
    \A n \in DOMAIN routerLog : Genuine(routerLog[n], routerLog[n].sender)

\* The reply r answers client c's first request: it was made for the place in
\* the router's ledger that holds this very request, or is the daemon's refusal
\* of a stamp.
Answers(r, c) ==
    \/ r = MessageRequestUnimplemented
       /\ FirstRequest(c).kind = "StampedMessageSubmission"
    \/ \E n \in DOMAIN routerLog :
           /\ Genuine(routerLog[n], c)
           /\ r = IF FirstRequest(c) = InboxQuery(c) THEN InboxListing(n)
                                                     ELSE SubmissionAccepted(n)

\* No client is ever told of another client's request, and what it is told
\* echoes the exchange and the verb of its own first frame, however the
\* connections, the router's replies and the failures interleave
\* (handle_connection, write_reply, reply_from_frame_for_exchange).
ReplyMatchesRequest ==
    \A c \in Clients :
        /\ outbound[c] # None =>
               LET frame == outbound[c][1] IN
               /\ frame.exchange = sent[c][1].exchange
               /\ frame.perOperation[1].verb = sent[c][1].operations[1].verb
               /\ Answers(frame.perOperation[1].payload, c)
        /\ answer[c] # None => Answers(answer[c][1], c)

\* A connection yields at most one entry of the router's ledger, whatever the
\* client writes on it and whichever step fails: the daemon never retries and
\* never reads a second frame (handle_connection, submit).
ForwardedAtMostOnce ==
    \A m, n \in DOMAIN routerLog :
        routerLog[m].sender = routerLog[n].sender => m = n

\* Between two connections of a running daemon forwarded_count, which
\* saturates, is the number of requests in the router's ledger: a request that
\* was taken charge of without being counted has ended the daemon (forward).
CountMatchesLedger ==
    exit = "running" /\ pc \in {"checkStop", "poll", "read", "ask", "stopRoot"} =>
        forwardedCount = IF Len(routerLog) < MaxForwardedCount
                             THEN Len(routerLog) ELSE MaxForwardedCount

\* While a connection is being served every listener has been bound and given
\* its configured mode (bind, accept_one).
ModeBeforeAccept ==
    \A c \in Clients : serverEnd[c] = "accepted" =>
        \A i \in Bindings : listener[i] = "listening"

\* A process that ended holds no client's connection; if run() returned Ok
\* every path is removed and no client can connect any more; if it returned an
\* error, no listener that was serving leaves its path (Drop, run).
ReleasedOnExit ==
    pc = "exited" =>
        /\ \A c \in Clients : serverEnd[c] \in {"none", "closed"}
        /\ \A i \in Bindings :
               /\ ~Reachable(i)
               /\ exit = "ok" => listener[i] = "closed"
               /\ exit # "killed" /\ listener[i] = "closed" => ~linked[i]

\* The daemon is long-lived: a connection that fails, for whatever reason,
\* does not end it (run, handle_connection).
LongLived ==
    [][(pc \in {"read", "ask", "await", "reply"} => exit' # "error")]_vars

\* What the daemon promises, seen from the clients and the router.
Ingress == INSTANCE IngressService WITH
    RequestsOf <- [c \in Clients |->
                      {frame.operations[1].payload :
                          frame \in {f \in ClientFrames(c) : RequestAdmitted(f)}}],
    OriginOf   <- [c \in Clients |-> MintedOrigin(c)],
    request    <- [c \in Clients |->
                      IF sent[c] # <<>> /\ RequestAdmitted(sent[c][1])
                          THEN Some(FirstRequest(c)) ELSE None],
    ledger     <- routerLog,
    told       <- answer

\* Sockets, connections, polling, failures and shutdown together are nothing
\* but an at-most-once relay that stamps (MessageDaemon).
RefinesIngress == Ingress!Spec

-----------------------------------------------------------------------------
(***************************************************************************)
(* Liveness                                                                *)
(***************************************************************************)

\* A requested stop ends the process (run).
StopExits == stopRequested ~> pc = "exited"

\* A CLI client that connected gets its reply or an error, or has gone: no
\* order of accepts, failures and shutdown leaves it waiting (run, submit).
ClientsResolved ==
    \A c \in CliClients :
        serverEnd[c] = "queued" ~> cpc[c] \in {"answered", "failed", "gone"}
=============================================================================
