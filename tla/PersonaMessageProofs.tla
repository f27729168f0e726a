------------------------- MODULE PersonaMessageProofs -------------------------
(***************************************************************************)
(* Theorems about the whole process, for every number of clients, bindings *)
(* and supervisors: each thread, beside the other, does what its own       *)
(* module allows, so that what is proved of MessageDaemon and of           *)
(* Supervision holds of the process; and what only both together ensure.   *)
(***************************************************************************)
EXTENDS PersonaMessage, MessageDaemonProofs

Thread == INSTANCE SupervisionProofs

USE DEF hand, life, threadVars, socketVars, clientVars, linkVars, others, vars,
        daemonVars, ingressVars, supervisionOnly, daemonOnly, processVars,
        Sup!serverVars, Sup!supervisorVars, Sup!supervisionVars,
        Thread!serverVars, Thread!supervisorVars, Thread!supervisionVars

-----------------------------------------------------------------------------
(***************************************************************************)
(* The process beside MessageDaemon                                        *)
(***************************************************************************)

\* The supervision thread runs only between its spawn and the end of the
\* process, and answers nobody before.
ThreadInv ==
    /\ stopRequested \in BOOLEAN
    /\ spc \notin {"absent", "gone"} => supervised
    /\ \A v \in Supervisors : replies[v] # <<>> => supervised
    /\ exit = "killed" => spc = "gone"

\* What the main thread, the clients and the router do to the variables that
\* the two threads share, or that tell where the main thread is.
LEMMA DaemonSteps ==
    ASSUME Startup \/ Serve \/ Finish \/ Router \/ \E c \in Clients : Client(c)
    PROVE  /\ UNCHANGED <<stopRequested, supervised>>
           /\ exit' = "killed" => exit = "killed"
<1>1. CASE Startup \/ Finish
  BY <1>1 DEF Startup, BindListener, BindListenerFails, ApplyMode, ApplyModeFails,
         StartRoot, Finish, StopRoot, RunFails, DropUnlink, DropClose, Fail
<1>2. CASE Serve
  BY <1>2 DEF Serve, CheckStop, AcceptOne, PollNext, PeerCredentialsFail, ReadRequest,
         ReadRequestFails, Forward, ReplyWithoutRouter, AskFails, RouterAnswered,
         RouterFails, WriteReply, WriteReplyFails, Fail, ServingFails
<1>3. CASE Router \/ \E c \in Clients : Client(c)
  BY <1>3 DEF Client, Submit, Connect, ConnectFails, WriteFrame, WriteFrameFails,
         ReceiveReply, ReceiveReplyFails, HangUp, ClientEnds, Router, Handle,
         RouterStart, RouterStop, RouterProcess, RouterAnswer, RouterReject
<1> QED
  BY <1>1, <1>2, <1>3

\* What the supervision thread and the supervisors do to them.
LEMMA ThreadSteps ==
    ASSUME Sup!Server \/ \E v \in Supervisors : Sup!Supervisor(v)
    PROVE  \/ UNCHANGED <<stopRequested, spc, replies>>
           \/ /\ spc \notin {"absent", "gone"} /\ spc' \notin {"absent", "gone"}
              /\ \/ UNCHANGED stopRequested
                 \/ stopRequested' = (stopRequested \/ asking[1] = "GracefulStopRequest")
<1>1. CASE Sup!Server
  BY <1>1 DEF Sup!Server, Sup!StartRuntime, Sup!RuntimeFails, Sup!CloseListener, Sup!Check, Sup!Accept, Sup!AcceptNothing, Sup!ReadRequest,
         Sup!ReadRequestFails, Sup!Drop, Sup!Handle, Sup!WriteReply,
         Sup!WriteReplyFails, Sup!NextRequest, Sup!NoNextRequest
<1>2. CASE \E v \in Supervisors : Sup!Supervisor(v)
  BY <1>2 DEF Sup!Supervisor, Sup!Connect, Sup!Ask, Sup!HangUp
<1> QED
  BY <1>1, <1>2

LEMMA ThreadInvInit == ProcessInit => ThreadInv
  BY DEF ProcessInit, Init, Sup!Init, ThreadInv

LEMMA ThreadInvStep == ThreadInv /\ [ProcessNext]_processVars => ThreadInv'
<1> SUFFICES ASSUME ThreadInv, [ProcessNext]_processVars PROVE ThreadInv'
  OBVIOUS
<1>1. CASE StartSupervision
  BY <1>1 DEF ThreadInv, StartSupervision, SpawnSupervision, Sup!Spawn, At
<1>2. CASE MainThread \/ RouterStep \/ \E c \in Clients : ClientStep(c)
  <2>1. UNCHANGED supervisionOnly /\ UNCHANGED <<stopRequested, supervised>>
        /\ (exit' = "killed" => exit = "killed")
    BY <1>2, DaemonSteps DEF MainThread, RouterStep, ClientStep
  <2> QED
    BY <2>1 DEF ThreadInv
<1>3. CASE SupervisionThread \/ \E v \in Supervisors : SupervisorStep(v)
  <2>1. UNCHANGED <<supervised, exit>>
        /\ (Sup!Server \/ \E v \in Supervisors : Sup!Supervisor(v))
    BY <1>3 DEF SupervisionThread, SupervisorStep
  <2>2. CASE UNCHANGED <<stopRequested, spc, replies>>
    BY <2>1, <2>2 DEF ThreadInv
  <2>3. CASE /\ spc \notin {"absent", "gone"} /\ spc' \notin {"absent", "gone"}
             /\ \/ UNCHANGED stopRequested
                \/ stopRequested' = (stopRequested \/ asking[1] = "GracefulStopRequest")
    BY <2>1, <2>3 DEF ThreadInv
  <2> QED
    BY <2>1, <2>2, <2>3, ThreadSteps
<1>4. CASE ProcessReturns \/ ProcessKilled
  <2>1. spc' = "gone" /\ UNCHANGED <<stopRequested, supervised, replies>>
    BY <1>4 DEF ProcessReturns, ProcessKilled, Killed, Sup!ProcessEnds
  <2> QED
    BY <2>1 DEF ThreadInv
<1>5. CASE UNCHANGED processVars
  BY <1>5 DEF ThreadInv
<1> QED
  BY <1>1, <1>2, <1>3, <1>4, <1>5 DEF ProcessNext

\* Every step of the process is one of MessageDaemon, or unseen by it.
LEMMA DaemonStep == ThreadInv /\ [ProcessNext]_processVars => [Next]_vars
<1> SUFFICES ASSUME ThreadInv, [ProcessNext]_processVars PROVE [Next]_vars
  OBVIOUS
<1>1. CASE StartSupervision \/ MainThread
  BY <1>1 DEF StartSupervision, MainThread, Next, Daemon
<1>2. CASE SupervisionThread \/ \E v \in Supervisors : SupervisorStep(v)
  <2>1. UNCHANGED daemonOnly
        /\ (Sup!Server \/ \E v \in Supervisors : Sup!Supervisor(v))
    BY <1>2 DEF SupervisionThread, SupervisorStep
  <2>2. CASE UNCHANGED stopRequested
    BY <2>1, <2>2
  <2>3. CASE ~UNCHANGED stopRequested
    <3>1. /\ spc \notin {"absent", "gone"}
          /\ stopRequested' = (stopRequested \/ asking[1] = "GracefulStopRequest")
      BY <2>1, <2>3, ThreadSteps
    <3>2. supervised /\ exit # "killed"
      BY <3>1 DEF ThreadInv
    <3>3. ~stopRequested /\ stopRequested' = TRUE
      BY <2>3, <3>1 DEF ThreadInv
    <3>4. RequestStop
      BY <2>1, <3>2, <3>3 DEF RequestStop
    <3> QED
      BY <3>4 DEF Next
  <2> QED
    BY <2>2, <2>3
<1>3. CASE ProcessReturns
  BY <1>3 DEF ProcessReturns, Sup!ProcessEnds
<1>4. CASE ProcessKilled
  BY <1>4 DEF ProcessKilled, Next
<1>5. CASE RouterStep \/ \E c \in Clients : ClientStep(c)
  BY <1>5 DEF RouterStep, ClientStep, Next
<1>6. CASE UNCHANGED processVars
  BY <1>6
<1> QED
  BY <1>1, <1>2, <1>3, <1>4, <1>5, <1>6 DEF ProcessNext

LEMMA ThreadInvariant == ProcessSpec => []ThreadInv
  BY ThreadInvInit, ThreadInvStep, PTL DEF ProcessSpec

\* The main thread, beside a supervision thread that serves any number of
\* supervisors, behaves as MessageDaemon says: whatever is proved of that
\* module holds of the process (run, SupervisionListener::spawn).
THEOREM ProcessRefinesDaemonHolds == ProcessSpec => ProcessRefinesDaemon
<1>1. ProcessInit => Init
  BY DEF ProcessInit
<1> QED
  BY <1>1, ThreadInvariant, DaemonStep, PTL DEF ProcessSpec, ProcessRefinesDaemon, Spec

\* The process, two threads and all, is the service of IngressService.
THEOREM ProcessRefinesIngress == ProcessSpec => RefinesIngress
  BY ProcessRefinesDaemonHolds, RefinesIngressHolds, PTL DEF ProcessRefinesDaemon

-----------------------------------------------------------------------------
(***************************************************************************)
(* The process beside Supervision                                          *)
(***************************************************************************)

\* Every step of the process is one of Supervision, or unseen by it.
LEMMA SupervisionThreadStep ==
    [ProcessNext]_processVars => [Sup!Next]_(Sup!supervisionVars)
<1> SUFFICES ASSUME [ProcessNext]_processVars PROVE [Sup!Next]_(Sup!supervisionVars)
  OBVIOUS
<1>1. CASE StartSupervision \/ ProcessReturns \/ ProcessKilled
  BY <1>1 DEF StartSupervision, ProcessReturns, ProcessKilled, Sup!Next
<1>2. CASE MainThread \/ RouterStep \/ \E c \in Clients : ClientStep(c)
  <2>1. UNCHANGED supervisionOnly /\ UNCHANGED stopRequested
    BY <1>2, DaemonSteps DEF MainThread, RouterStep, ClientStep
  <2> QED
    BY <2>1
<1>3. CASE SupervisionThread \/ \E v \in Supervisors : SupervisorStep(v)
  BY <1>3 DEF SupervisionThread, SupervisorStep, Sup!Next
<1>4. CASE UNCHANGED processVars
  BY <1>4
<1> QED
  BY <1>1, <1>2, <1>3, <1>4 DEF ProcessNext

\* The supervision thread, beside the main thread, behaves as Supervision says.
THEOREM ProcessRefinesSupervision == ProcessSpec => Sup!Spec
<1>1. ProcessInit => Sup!Init
  BY DEF ProcessInit
<1> QED
  BY <1>1, SupervisionThreadStep, PTL DEF ProcessSpec, Sup!Spec

\* Supervision is the same module here and where its theorems are.
LEMMA SameSupervision == Sup!Spec => Thread!Spec
<1>1. Sup!Init => Thread!Init
  BY DEF Sup!Init, Thread!Init
<1>2. Sup!Next => Thread!Next
  BY DEF Sup!Next, Sup!Spawn, Sup!Server, Sup!StartRuntime, Sup!RuntimeFails, Sup!CloseListener, Sup!Check, Sup!Accept, Sup!AcceptNothing,
         Sup!ReadRequest, Sup!ReadRequestFails, Sup!Drop, Sup!Handle, Sup!WriteReply,
         Sup!WriteReplyFails, Sup!NextRequest, Sup!NoNextRequest, Sup!ProcessEnds,
         Sup!Supervisor, Sup!Connect, Sup!Ask, Sup!HangUp, Sup!Unread, Sup!NextFrame,
         Sup!SaturatingAddOne, Sup!ReplyTo, Sup!Requests, Sup!Frames,
         Thread!Next, Thread!Spawn, Thread!Server, Thread!StartRuntime, Thread!RuntimeFails, Thread!CloseListener,
         Thread!Check, Thread!Accept,
         Thread!AcceptNothing, Thread!ReadRequest, Thread!ReadRequestFails,
         Thread!Drop, Thread!Handle, Thread!WriteReply, Thread!WriteReplyFails,
         Thread!NextRequest, Thread!NoNextRequest, Thread!ProcessEnds,
         Thread!Supervisor, Thread!Connect, Thread!Ask, Thread!HangUp, Thread!Unread,
         Thread!NextFrame, Thread!SaturatingAddOne, Thread!ReplyTo, Thread!Requests,
         Thread!Frames
<1>3. UNCHANGED Sup!supervisionVars => UNCHANGED Thread!supervisionVars
  OBVIOUS
<1> QED
  BY <1>1, <1>2, <1>3, PTL DEF Sup!Spec, Thread!Spec

LEMMA ThreadInvariants == ProcessSpec => [](Thread!SupervisionInv /\ Thread!RequestedInv)
<1>1. Thread!SupervisionAssumption
  BY SupervisorsAssumption DEF Thread!SupervisionAssumption
<1>2. Thread!Spec => []Thread!SupervisionInv
  BY <1>1, Thread!SupervisionInvariant
<1>3. Thread!Spec => []Thread!RequestedInv
  BY <1>1, Thread!RequestedInvariant
<1> QED
  BY <1>2, <1>3, ProcessRefinesSupervision, SameSupervision, PTL

-----------------------------------------------------------------------------
(***************************************************************************)
(* What the main thread has done when the other thread runs, and when it   *)
(* ends with success                                                       *)
(***************************************************************************)

\* The supervision thread is spawned after the last listener got its mode, and
\* no listener goes back.
SpawnedInv ==
    supervised =>
        /\ pc \notin {"bind", "applyMode", "spawnSupervision"}
        /\ \A i \in Bindings : listener[i] \notin {"absent", "bound"}

\* run() gets to its end only by a stop, with no call to the router left open.
CleanInv ==
    /\ At("stopRoot") \/ exit = "ok" => stopRequested
    /\ exit = "ok" => link = "none"

LEMMA SpawnedStep ==
    ASSUME LifeInv, SpawnedInv, Next
    PROVE  SpawnedInv'
<1> USE DEF SpawnedInv, At
<1>0. /\ listener \in [Bindings -> {"absent", "bound", "listening", "unlinked", "closed"}]
      /\ slot \in Bindings
  BY DEF LifeInv, ConnectionInv, TypeInv, TypeOK, SocketTypeOK, ThreadTypeOK
<1>1. CASE SpawnSupervision
  BY <1>1 DEF SpawnSupervision, LifeInv, ListenerInv, AllBound
<1>2. CASE Startup \/ Finish \/ Killed
  BY <1>0, <1>2 DEF Startup, BindListener, BindListenerFails, ApplyMode, ApplyModeFails,
         StartRoot, Finish, StopRoot, RunFails, DropUnlink, DropClose, Fail, Killed
<1>3. CASE Serve
  BY <1>3 DEF Serve, CheckStop, AcceptOne, PollNext, PeerCredentialsFail, ReadRequest,
         ReadRequestFails, Forward, ReplyWithoutRouter, AskFails, RouterAnswered,
         RouterFails, WriteReply, WriteReplyFails, Fail, ServingFails
<1>4. CASE RequestStop \/ Router \/ \E c \in Clients : Client(c)
  BY <1>4 DEF RequestStop, Client, Submit, Connect, ConnectFails, WriteFrame,
         WriteFrameFails, ReceiveReply, ReceiveReplyFails, HangUp, ClientEnds, Router,
         Handle, RouterStart, RouterStop, RouterProcess, RouterAnswer, RouterReject
<1> QED
  BY <1>1, <1>2, <1>3, <1>4 DEF Next, Daemon

LEMMA CleanStep ==
    ASSUME LifeInv, CleanInv, Next
    PROVE  CleanInv'
<1> USE DEF CleanInv, At
<1>0. /\ exit = "running" /\ pc # "await" => link = "none"
      /\ exit = "running" <=> pc \notin {"drop", "exited"}
  BY DEF LifeInv, ConnectionInv, TypeInv, ControlOK, ListenerInv
<1>1. CASE SpawnSupervision \/ Startup \/ Finish \/ Killed
  BY <1>0, <1>1 DEF SpawnSupervision, Startup, BindListener, BindListenerFails, ApplyMode,
         ApplyModeFails, StartRoot, Finish, StopRoot, RunFails, DropUnlink, DropClose,
         Fail, Killed
<1>2. CASE Serve
  BY <1>2 DEF Serve, CheckStop, AcceptOne, PollNext, PeerCredentialsFail, ReadRequest,
         ReadRequestFails, Forward, ReplyWithoutRouter, AskFails, RouterAnswered,
         RouterFails, WriteReply, WriteReplyFails, Fail, ServingFails, NoLink
<1>3. CASE RequestStop \/ Router \/ \E c \in Clients : Client(c)
  BY <1>3 DEF RequestStop, Client, Submit, Connect, ConnectFails, WriteFrame,
         WriteFrameFails, ReceiveReply, ReceiveReplyFails, HangUp, ClientEnds, Router,
         Handle, RouterStart, RouterStop, RouterProcess, RouterAnswer, RouterReject
<1> QED
  BY <1>1, <1>2, <1>3 DEF Next, Daemon

LEMMA MainThreadInvariants == Spec => [](LifeInv /\ SpawnedInv /\ CleanInv)
<1>1. Init => SpawnedInv /\ CleanInv
  BY DEF Init, SpawnedInv, CleanInv, At
<1>2. LifeInv /\ SpawnedInv /\ CleanInv /\ [Next]_vars => SpawnedInv' /\ CleanInv'
  <2> SUFFICES ASSUME LifeInv, SpawnedInv, CleanInv, [Next]_vars
               PROVE  SpawnedInv' /\ CleanInv'
    OBVIOUS
  <2>1. CASE Next
    BY <2>1, SpawnedStep, CleanStep
  <2>2. CASE UNCHANGED vars
    BY <2>2 DEF SpawnedInv, CleanInv, At
  <2> QED
    BY <2>1, <2>2
<1> QED
  BY <1>1, <1>2, LifeInvariant, PTL DEF Spec

LEMMA ProcessInvariants ==
    ProcessSpec => []( /\ LifeInv /\ SpawnedInv /\ CleanInv /\ ThreadInv
                       /\ Thread!SupervisionInv /\ Thread!RequestedInv )
  BY MainThreadInvariants, ProcessRefinesDaemonHolds, ThreadInvariant, ThreadInvariants,
     PTL DEF ProcessRefinesDaemon

\* A supervisor that hears from the component, whatever it asked, finds every
\* ingress socket bound with its mode set, for any number of them (run).
THEOREM AnswersOnceBoundHolds == ProcessSpec => []AnswersOnceBound
<1>1. ThreadInv /\ SpawnedInv => AnswersOnceBound
  BY DEF ThreadInv, SpawnedInv, AnswersOnceBound
<1> QED
  BY ProcessInvariants, <1>1, PTL

\* The process ends with success only when some supervisor's stop request was
\* read, and then with no client and no request to the router in hand (run,
\* handle_connection).
THEOREM CleanExitOnStopHolds == ProcessSpec => []CleanExitOnStop
<1>1. LifeInv /\ CleanInv /\ Thread!RequestedInv => CleanExitOnStop
  <2> SUFFICES ASSUME LifeInv, CleanInv, Thread!RequestedInv, exit = "ok"
               PROVE  /\ \E v \in Supervisors : StopRead(v)
                      /\ \A c \in Clients : serverEnd[c] # "accepted"
                      /\ link = "none"
    BY DEF CleanExitOnStop
  <2>1. \E v \in Supervisors : StopRead(v)
    BY DEF CleanInv, Thread!RequestedInv, StopRead
  <2>2. pc \notin Serving
    BY DEF LifeInv, ListenerInv, Serving
  <2>3. \A c \in Clients : serverEnd[c] # "accepted"
    BY <2>2 DEF LifeInv, ConnectionInv, ServingInv
  <2> QED
    BY <2>1, <2>3 DEF CleanInv
<1> QED
  BY ProcessInvariants, <1>1, PTL

\* Beside the main thread, which may end the process at any point, each supervisor
\* still has its answers in order, and an acknowledged stop is the last of them
\* (serve_connection, run).
THEOREM ProcessAnswersHold == ProcessSpec => [](Sup!AnswersInOrder /\ Sup!AcknowledgedLast)
<1>1. Thread!SupervisionAssumption
  BY SupervisorsAssumption DEF Thread!SupervisionAssumption
<1>2. Thread!Spec => []Thread!AnswersInOrder
  BY <1>1, Thread!AnswersInOrderHolds
<1>3. Thread!Spec => []Thread!AcknowledgedLast
  BY <1>1, Thread!AcknowledgedLastHolds
<1>4. Thread!AnswersInOrder => Sup!AnswersInOrder
  BY DEF Thread!AnswersInOrder, Sup!AnswersInOrder, Thread!Requests, Sup!Requests,
         Thread!ReplyTo, Sup!ReplyTo
<1>5. Thread!AcknowledgedLast => Sup!AcknowledgedLast
  BY DEF Thread!AcknowledgedLast, Sup!AcknowledgedLast
<1> QED
  BY <1>2, <1>3, <1>4, <1>5, ProcessRefinesSupervision, SameSupervision, PTL

\* In the process, too, only a stop request that was read raises the flag
\* (reply, run).
THEOREM ProcessStopsOnRequest == ProcessSpec => Sup!StopOnlyOnRequest
<1>1. Thread!SupervisionAssumption
  BY SupervisorsAssumption DEF Thread!SupervisionAssumption
<1>2. Thread!Spec => Thread!StopOnlyOnRequest
  BY <1>1, Thread!StopOnlyOnRequestHolds
<1>3. Thread!StopOnlyOnRequest => Sup!StopOnlyOnRequest
  BY PTL DEF Thread!StopOnlyOnRequest, Sup!StopOnlyOnRequest
<1> QED
  BY <1>2, <1>3, ProcessRefinesSupervision, SameSupervision, PTL
=============================================================================
