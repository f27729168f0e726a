----------------------------- MODULE Supervision -----------------------------
(***************************************************************************)
(* The supervision relation of src/supervision.rs: a thread of the daemon  *)
(* that listens on the supervision socket, serves one supervisor at a time *)
(* and one request after the other, and asks the SupervisionPhase actor    *)
(* for every reply.  A GracefulStopRequest raises the stop flag that the   *)
(* daemon's main thread tests; the acknowledgement is written afterwards.  *)
(*                                                                         *)
(* A supervisor opens one connection, writes up to MaxAsks frames on it    *)
(* without waiting for the replies if it likes, and may hang up at any     *)
(* time.  What a supervisor does and the end of the process are actions of *)
(* the environment.                                                        *)
(***************************************************************************)
EXTENDS Naturals, Sequences

CONSTANTS Supervisors,
          NoSupervisor,
          MaxRequestCount,   \* u64::MAX, small in the instances
          MaxAsks            \* bound: frames a supervisor writes

ASSUME SupervisionAssumption ==
    /\ NoSupervisor \notin Supervisors
    /\ MaxRequestCount \in Nat
    /\ MaxAsks \in Nat

VARIABLES
    stopRequested,     \* SupervisionStopSignal, shared with the main thread
    spc,               \* where SupervisionServer::run is
    peer,              \* the supervisor it serves
    asking,            \* the request it has read from peer, as an option
    replying,          \* the phase actor's reply to it, as an option
    requestCount,      \* SupervisionPhase.request_count
    supervisorQueue,   \* connections the kernel holds for accept
    supervisorEnd,     \* each supervisor's end of its connection
    connection,        \* the daemon's end of it
    asked,             \* the frames a supervisor wrote
    taken,             \* how many of them were read
    replies            \* the replies written to it

serverVars     == <<spc, peer, asking, replying, requestCount>>
supervisorVars == <<supervisorEnd, asked>>
supervisionVars ==
    <<stopRequested, serverVars, supervisorQueue, supervisorVars, connection,
      taken, replies>>

Requests == {"ComponentHello", "ComponentReadinessQuery",
             "ComponentHealthQuery", "GracefulStopRequest"}

\* A frame that is none of these, or that does not decode, is "Refused".
Frames == Requests \cup {"Refused"}

\* SupervisionPhase::reply, the reply to a request.
ReplyTo(request) ==
    CASE request = "ComponentHello"          -> "ComponentIdentity"
      [] request = "ComponentReadinessQuery" -> "ComponentReady"
      [] request = "ComponentHealthQuery"    -> "ComponentHealthReport"
      [] request = "GracefulStopRequest"     -> "GracefulStopAcknowledgement"

Init ==
    /\ stopRequested = FALSE
    /\ spc = "absent" /\ peer = NoSupervisor
    /\ asking = <<>> /\ replying = <<>> /\ requestCount = 0
    /\ supervisorQueue = <<>>
    /\ supervisorEnd = [v \in Supervisors |-> "idle"]
    /\ connection = [v \in Supervisors |-> "none"]
    /\ asked = [v \in Supervisors |-> <<>>]
    /\ taken = [v \in Supervisors |-> 0]
    /\ replies = [v \in Supervisors |-> <<>>]

-----------------------------------------------------------------------------
(***************************************************************************)
(* The supervision thread                                                  *)
(***************************************************************************)

\* SupervisionListener::spawn: the socket is bound, its mode set, and the
\* thread is started.
Spawn ==
    /\ spc = "absent"
    /\ spc' = "start"
    /\ UNCHANGED <<stopRequested, peer, asking, replying, requestCount,
                   supervisorQueue, supervisorVars, connection, taken, replies>>

\* The thread has its runtime, and the phase actor runs.
StartRuntime ==
    /\ spc = "start"
    /\ spc' = "check"
    /\ UNCHANGED <<stopRequested, peer, asking, replying, requestCount,
                   supervisorQueue, supervisorVars, connection, taken, replies>>

\* The thread ends: the listener is closed, with what it holds; its path stays.
CloseListener ==
    /\ spc' = "done"
    /\ supervisorQueue' = <<>>
    /\ connection' = [v \in Supervisors |->
           IF connection[v] = "queued" THEN "closed" ELSE connection[v]]

\* The expect of the runtime panics; the main thread does not notice.
RuntimeFails ==
    /\ spc = "start"
    /\ CloseListener
    /\ UNCHANGED <<stopRequested, peer, asking, replying, requestCount,
                   supervisorVars, taken, replies>>

\* serve_connection returned: the connection is dropped.
Drop ==
    /\ spc' = "check"
    /\ connection' = [connection EXCEPT ![peer] = "closed"]
    /\ peer' = NoSupervisor /\ asking' = <<>> /\ replying' = <<>>
    /\ UNCHANGED <<stopRequested, requestCount, supervisorQueue,
                   supervisorVars, replies>>

\* Mutant: the test of the flag takes it down.
CheckAndClear ==
    /\ spc = "check"
    /\ stopRequested' = FALSE
    /\ IF stopRequested
           THEN CloseListener
           ELSE spc' = "accept" /\ UNCHANGED <<supervisorQueue, connection>>
    /\ UNCHANGED <<peer, asking, replying, requestCount, supervisorVars, taken,
                   replies>>

\* The condition of the while.
Check ==
    /\ spc = "check"
    /\ IF stopRequested
           THEN CloseListener
           ELSE spc' = "accept" /\ UNCHANGED <<supervisorQueue, connection>>
    /\ UNCHANGED <<stopRequested, peer, asking, replying, requestCount,
                   supervisorVars, taken, replies>>

Accept ==
    /\ spc = "accept"
    /\ supervisorQueue # <<>>
    /\ spc' = "read"
    /\ peer' = Head(supervisorQueue)
    /\ supervisorQueue' = Tail(supervisorQueue)
    /\ connection' = [connection EXCEPT ![Head(supervisorQueue)] = "accepted"]
    /\ UNCHANGED <<stopRequested, asking, replying, requestCount,
                   supervisorVars, taken, replies>>

\* WouldBlock sleeps for 10 ms, any other error goes on at once.
AcceptNothing ==
    /\ spc = "accept"
    /\ spc' = "check"
    /\ UNCHANGED <<stopRequested, peer, asking, replying, requestCount,
                   supervisorQueue, supervisorVars, connection, taken, replies>>

Unread(v) == taken[v] < Len(asked[v])

NextFrame == asked[peer][taken[peer] + 1]

\* Mutant: the actor is asked whatever was read.
ReadRequestUnchecked ==
    /\ spc = "read"
    /\ Unread(peer)
    /\ asking' = <<NextFrame>>
    /\ taken' = [taken EXCEPT ![peer] = @ + 1]
    /\ spc' = "ask"
    /\ UNCHANGED <<stopRequested, peer, replying, requestCount,
                   supervisorQueue, supervisorVars, connection, replies>>

ReadRequest ==
    /\ spc = "read"
    /\ Unread(peer)
    /\ NextFrame \in Requests
    /\ asking' = <<NextFrame>>
    /\ taken' = [taken EXCEPT ![peer] = @ + 1]
    /\ spc' = "ask"
    /\ UNCHANGED <<stopRequested, peer, replying, requestCount,
                   supervisorQueue, supervisorVars, connection, replies>>

\* Mutant: a refused frame is skipped.
ReadRequestSkips ==
    /\ spc = "read"
    /\ Unread(peer) /\ NextFrame \notin Requests
    /\ taken' = [taken EXCEPT ![peer] = @ + 1]
    /\ UNCHANGED <<stopRequested, serverVars, supervisorQueue, supervisorVars,
                   connection, replies>>

\* Mutant: the end of the stream is not taken for an error.
ReadRequestFailsOnFrame ==
    /\ spc = "read"
    /\ Unread(peer) /\ NextFrame \notin Requests
    /\ taken' = [taken EXCEPT ![peer] = @ + 1]
    /\ Drop

\* A refused frame, or the end of the stream, ends the connection.
ReadRequestFails ==
    /\ spc = "read"
    /\ \/ Unread(peer) /\ NextFrame \notin Requests
          /\ taken' = [taken EXCEPT ![peer] = @ + 1]
       \/ ~Unread(peer) /\ supervisorEnd[peer] = "closed" /\ UNCHANGED taken
    /\ Drop

SaturatingAddOne(count) ==
    IF count < MaxRequestCount THEN count + 1 ELSE MaxRequestCount

\* Mutant: every request raises the flag.
HandleStops ==
    /\ spc = "ask"
    /\ requestCount' = SaturatingAddOne(requestCount)
    /\ stopRequested' = TRUE
    /\ replying' = <<ReplyTo(asking[1])>>
    /\ spc' = "write"
    /\ UNCHANGED <<peer, asking, supervisorQueue, supervisorVars, connection,
                   taken, replies>>

\* The phase actor counts the request, raises the flag if it asks for a stop,
\* and replies.
Handle ==
    /\ spc = "ask"
    /\ requestCount' = SaturatingAddOne(requestCount)
    /\ stopRequested' = (stopRequested \/ asking[1] = "GracefulStopRequest")
    /\ replying' = <<ReplyTo(asking[1])>>
    /\ spc' = "write"
    /\ UNCHANGED <<peer, asking, supervisorQueue, supervisorVars, connection,
                   taken, replies>>

WriteReply ==
    /\ spc = "write"
    /\ supervisorEnd[peer] = "open"
    /\ replies' = [replies EXCEPT ![peer] = Append(@, replying[1])]
    /\ asking' = <<>> /\ replying' = <<>>
    /\ spc' = "written"
    /\ UNCHANGED <<stopRequested, peer, requestCount, supervisorQueue,
                   supervisorVars, connection, taken>>

WriteReplyFails ==
    /\ spc = "write"
    /\ supervisorEnd[peer] # "open"
    /\ Drop
    /\ UNCHANGED taken

\* Mutant: the flag is not tested between two requests.
NextRequestAnyway ==
    /\ spc = "written"
    /\ spc' = "read"
    /\ UNCHANGED <<stopRequested, peer, asking, replying, requestCount,
                   supervisorQueue, supervisorVars, connection, taken, replies>>

\* After a reply: the connection is dropped if a stop was requested, else the
\* next request is read.
NextRequest ==
    /\ spc = "written"
    /\ ~stopRequested
    /\ spc' = "read"
    /\ UNCHANGED <<stopRequested, peer, asking, replying, requestCount,
                   supervisorQueue, supervisorVars, connection, taken, replies>>

NoNextRequest ==
    /\ spc = "written"
    /\ stopRequested
    /\ Drop
    /\ UNCHANGED taken

-----------------------------------------------------------------------------
(***************************************************************************)
(* The end of the process, and the supervisors                             *)
(***************************************************************************)

\* The main thread returned or the process was killed: the supervision thread
\* stops wherever it is, and the kernel closes its sockets.
ProcessEnds ==
    /\ spc # "gone"
    /\ spc' = "gone"
    /\ peer' = NoSupervisor /\ asking' = <<>> /\ replying' = <<>>
    /\ supervisorQueue' = <<>>
    /\ connection' = [v \in Supervisors |->
           IF connection[v] = "none" THEN "none" ELSE "closed"]
    /\ UNCHANGED <<stopRequested, requestCount, supervisorVars, taken, replies>>

Connect(v) ==
    /\ spc \notin {"absent", "done", "gone"}
    /\ supervisorEnd[v] = "idle"
    /\ supervisorEnd' = [supervisorEnd EXCEPT ![v] = "open"]
    /\ supervisorQueue' = Append(supervisorQueue, v)
    /\ connection' = [connection EXCEPT ![v] = "queued"]
    /\ UNCHANGED <<stopRequested, serverVars, asked, taken, replies>>

Ask(v) ==
    /\ supervisorEnd[v] = "open"
    /\ connection[v] # "closed"
    /\ Len(asked[v]) < MaxAsks
    /\ \E frame \in Frames : asked' = [asked EXCEPT ![v] = Append(@, frame)]
    /\ UNCHANGED <<stopRequested, serverVars, supervisorQueue, supervisorEnd,
                   connection, taken, replies>>

HangUp(v) ==
    /\ supervisorEnd[v] = "open"
    /\ supervisorEnd' = [supervisorEnd EXCEPT ![v] = "closed"]
    /\ UNCHANGED <<stopRequested, serverVars, supervisorQueue, connection,
                   asked, taken, replies>>

-----------------------------------------------------------------------------
(***************************************************************************)
(* The specification                                                       *)
(***************************************************************************)

Server == \/ StartRuntime \/ RuntimeFails
          \/ Check \/ Accept \/ AcceptNothing
          \/ ReadRequest \/ ReadRequestFails
          \/ Handle
          \/ WriteReply \/ WriteReplyFails
          \/ NextRequest \/ NoNextRequest

Supervisor(v) == Connect(v) \/ Ask(v) \/ HangUp(v)

Next ==
    \/ Spawn
    \/ Server
    \/ ProcessEnds
    \/ \E v \in Supervisors : Supervisor(v)

Spec == Init /\ [][Next]_supervisionVars

\* The kernel runs the thread, and hands it a connection it holds; every
\* supervisor hangs up in the end.
FairSpec ==
    /\ Spec
    /\ WF_supervisionVars(Server)
    /\ SF_supervisionVars(Accept)
    /\ \A v \in Supervisors : WF_supervisionVars(HangUp(v))

-----------------------------------------------------------------------------
(***************************************************************************)
(* Properties                                                              *)
(***************************************************************************)

\* Every variable has the type the code gives it.
TypeOK ==
    /\ stopRequested \in BOOLEAN
    /\ spc \in {"absent", "start", "check", "accept", "read", "ask", "write", "written",
                "done", "gone"}
    /\ peer \in Supervisors \cup {NoSupervisor}
    /\ asking \in {<<>>} \cup {<<request>> : request \in Requests}
    /\ replying \in {<<>>} \cup {<<ReplyTo(request)>> : request \in Requests}
    /\ requestCount \in 0 .. MaxRequestCount
    /\ supervisorQueue \in Seq(Supervisors)
    /\ supervisorEnd \in [Supervisors -> {"idle", "open", "closed"}]
    /\ connection \in [Supervisors -> {"none", "queued", "accepted", "closed"}]
    /\ asked \in [Supervisors -> Seq(Frames)]
    /\ taken \in [Supervisors -> Nat]
    /\ replies \in [Supervisors -> Seq({ReplyTo(request) : request \in Requests})]

\* A supervisor that pipelines its requests gets the reply to each, in order
\* and once: the replies written to it answer the first frames it wrote
\* (serve_connection).
AnswersInOrder ==
    \A v \in Supervisors :
        /\ Len(replies[v]) <= Len(asked[v])
        /\ \A k \in DOMAIN replies[v] :
               asked[v][k] \in Requests /\ replies[v][k] = ReplyTo(asked[v][k])

\* A stop is acknowledged at most once, to one supervisor, as the last thing
\* the daemon ever says to any of them, and only when the flag is up
\* (reply, serve_connection, run).
AcknowledgedLast ==
    \A v \in Supervisors : \A k \in DOMAIN replies[v] :
        replies[v][k] = "GracefulStopAcknowledgement" =>
            /\ stopRequested
            /\ k = Len(replies[v])
            /\ spc \notin {"read", "ask", "write"}
            /\ \A w \in Supervisors \ {v} : \A j \in DOMAIN replies[w] :
                   replies[w][j] # "GracefulStopAcknowledgement"

\* The flag never goes down, and goes up only in answer to a stop request
\* that a supervisor wrote and the thread has read (reply).
StopOnlyOnRequest ==
    [][ stopRequested' # stopRequested =>
            /\ stopRequested'
            /\ \E v \in Supervisors :
                   taken[v] > 0 /\ asked[v][taken[v]] = "GracefulStopRequest"
      ]_supervisionVars

\* A supervisor whose connection the kernel holds is served, or its connection
\* closed, when every supervisor before it hangs up in the end (run).
SupervisorsServed ==
    \A v \in Supervisors :
        connection[v] = "queued" ~> connection[v] \in {"accepted", "closed"}
=============================================================================
