---------------------------- MODULE PersonaMessage ----------------------------
(***************************************************************************)
(* The whole process: the main thread of MessageDaemon, with its clients   *)
(* and its router, beside the supervision thread of Supervision, with its  *)
(* supervisors.  The two threads share the stop flag and nothing else; the *)
(* main thread spawns the other one and never joins it, so the process     *)
(* ends when run() has returned, wherever the supervision thread is.       *)
(***************************************************************************)
EXTENDS MessageDaemon

CONSTANTS Supervisors, NoSupervisor, MaxRequestCount, MaxAsks

ASSUME SupervisorsAssumption ==
    /\ NoSupervisor \notin Supervisors
    /\ MaxRequestCount \in Nat
    /\ MaxAsks \in Nat

VARIABLES spc, peer, asking, replying, requestCount, supervisorQueue,
          supervisorEnd, connection, asked, taken, replies

Sup == INSTANCE Supervision

\* What the main thread, the clients and the router never touch ...
supervisionOnly == <<spc, peer, asking, replying, requestCount, supervisorQueue,
                     supervisorEnd, connection, asked, taken, replies>>

\* ... and what the supervision thread never touches.
daemonOnly == <<threadVars, socketVars, serverEnd, outbound, linkVars,
                clientVars, routerUp, routerLog>>

processVars == <<vars, supervisionOnly>>

ProcessInit == Init /\ Sup!Init

\* run() spawns the supervision thread.
StartSupervision == SpawnSupervision /\ Sup!Spawn

\* Every other step of the main thread.
MainThread ==
    /\ Startup \/ Serve \/ Finish
    /\ UNCHANGED supervisionOnly

SupervisionThread == Sup!Server /\ UNCHANGED daemonOnly

\* run() has returned and main returns: every other thread ends with it.
ProcessReturns ==
    /\ pc = "exited"
    /\ Sup!ProcessEnds
    /\ UNCHANGED daemonOnly

ProcessKilled == Killed /\ Sup!ProcessEnds

ClientStep(c) == Client(c) /\ UNCHANGED supervisionOnly

SupervisorStep(v) == Sup!Supervisor(v) /\ UNCHANGED daemonOnly

RouterStep == Router /\ UNCHANGED supervisionOnly

ProcessNext ==
    \/ StartSupervision
    \/ MainThread
    \/ SupervisionThread
    \/ ProcessReturns
    \/ ProcessKilled
    \/ \E c \in Clients : ClientStep(c)
    \/ \E v \in Supervisors : SupervisorStep(v)
    \/ RouterStep

ProcessSpec == ProcessInit /\ [][ProcessNext]_processVars

\* Both threads are scheduled; the router answers while it is up, CLI clients
\* go on, and every raw client writes its frame or hangs up: the main thread
\* reads without a time limit.  A supervisor owes nothing.
FairProcessSpec ==
    /\ ProcessSpec
    /\ WF_processVars(MainThread \/ StartSupervision)
    /\ WF_processVars(SupervisionThread)
    /\ WF_processVars(ProcessReturns)
    /\ WF_processVars(Handle /\ UNCHANGED supervisionOnly)
    /\ \A c \in CliClients : WF_processVars(Submit(c) /\ UNCHANGED supervisionOnly)
    /\ \A c \in RawClients :
           WF_processVars((WriteFrame(c) \/ HangUp(c)) /\ UNCHANGED supervisionOnly)

-----------------------------------------------------------------------------
(***************************************************************************)
(* Properties                                                              *)
(***************************************************************************)

StopRead(v) ==
    \E k \in 1 .. taken[v] : asked[v][k] = "GracefulStopRequest"

Acknowledged(v) ==
    \E k \in DOMAIN replies[v] : replies[v][k] = "GracefulStopAcknowledgement"

\* The supervision thread only ever does to the main thread what the module
\* MessageDaemon allows its environment: it raises the flag, once, after it was
\* spawned.  What holds of MessageDaemon therefore holds of the process.
ProcessRefinesDaemon == Spec

\* A component that answers its supervisor at all, be it with its identity or
\* its readiness, has bound every ingress socket in its configured mode (run).
AnswersOnceBound ==
    \A v \in Supervisors : replies[v] # <<>> =>
        \A i \in Bindings : listener[i] \notin {"absent", "bound"}

\* The daemon ends with success only after a supervisor asked it to stop, and
\* after the client it was serving got its reply (run, handle_connection).
CleanExitOnStop ==
    exit = "ok" =>
        /\ \E v \in Supervisors : StopRead(v)
        /\ \A c \in Clients : serverEnd[c] # "accepted"
        /\ link = "none"

\* A stop request that was read ends the process, whatever the supervisors do
\* next and however long they stay silent (reply, run).
StopEndsProcess ==
    \A v \in Supervisors : StopRead(v) ~> spc = "gone"

\* A supervisor that asked for a stop and stays to read the answer has it when
\* the daemon has ended with success.
AcknowledgementDelivered ==
    exit = "ok" /\ spc = "gone" =>
        \A v \in Supervisors :
            StopRead(v) /\ supervisorEnd[v] = "open" => Acknowledged(v)
=============================================================================
