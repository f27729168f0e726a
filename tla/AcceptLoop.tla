------------------------------ MODULE AcceptLoop ------------------------------
(***************************************************************************)
(* The accept loop of the daemon over clients that never cease to arrive.  *)
(* MessageDaemon follows a few clients through one connection each; here a *)
(* client is no more than its place in the queue of a listener, so that    *)
(* arrivals have no end.  Every connection is served and leaves the loop   *)
(* running: what a failed one does is the business of MessageDaemon.       *)
(***************************************************************************)
EXTENDS Naturals

CONSTANTS Bindings,   \* the number of listeners, message.sock first
          Backlog     \* how many clients the kernel queues on a listener

ASSUME AcceptLoopAssumption ==
    /\ Bindings \in Nat \ {0}
    /\ Backlog \in Nat \ {0}

Listeners == 1 .. Bindings

VARIABLES queue,    \* how many clients wait on each listener
          loop,     \* "check", "poll", "serve" or "stopped"
          polled,   \* the listener that is tried, or whose client is served
          stop,     \* the stop flag
          late      \* how many clients were accepted after it, up to two

vars == <<queue, loop, polled, stop, late>>

Init ==
    /\ queue = [b \in Listeners |-> 0]
    /\ loop = "check"
    /\ polled = 1
    /\ stop = FALSE
    /\ late = 0

CheckStop ==
    /\ loop = "check"
    /\ loop' = IF stop THEN "stopped" ELSE "poll"
    /\ polled' = 1
    /\ UNCHANGED <<queue, stop, late>>

Accept ==
    /\ loop = "poll"
    /\ queue[polled] > 0
    /\ queue' = [queue EXCEPT ![polled] = @ - 1]
    /\ loop' = "serve"
    /\ late' = IF stop /\ late < 2 THEN late + 1 ELSE late
    /\ UNCHANGED <<polled, stop>>

\* Mutant: a listener that would block ends the pass.
WouldBlockEndsPass ==
    /\ loop = "poll"
    /\ queue[polled] = 0
    /\ loop' = "check"
    /\ UNCHANGED <<queue, polled, stop, late>>

\* Mutant: the pass does not end with the last listener.
WouldBlockPastLast ==
    /\ loop = "poll"
    /\ queue[polled] = 0
    /\ polled' = polled + 1
    /\ UNCHANGED <<queue, loop, stop, late>>

\* The next listener is tried; after the last one the thread sleeps.
WouldBlock ==
    /\ loop = "poll"
    /\ queue[polled] = 0
    /\ IF polled < Bindings THEN polled' = polled + 1 /\ UNCHANGED loop
                            ELSE loop' = "check" /\ UNCHANGED polled
    /\ UNCHANGED <<queue, stop, late>>

\* Mutant: the loop goes on while there are clients, and then tests the flag.
ServedAndOn ==
    /\ loop = "serve"
    /\ loop' = IF queue[polled] > 0 THEN "poll" ELSE "check"
    /\ UNCHANGED <<queue, polled, stop, late>>

\* handle_connection has returned.
Served ==
    /\ loop = "serve"
    /\ loop' = "check"
    /\ UNCHANGED <<queue, polled, stop, late>>

Arrive(b) ==
    /\ queue[b] < Backlog
    /\ queue' = [queue EXCEPT ![b] = @ + 1]
    /\ UNCHANGED <<loop, polled, stop, late>>

RequestStop ==
    /\ ~stop
    /\ stop' = TRUE
    /\ UNCHANGED <<queue, loop, polled, late>>

Loop == CheckStop \/ Accept \/ WouldBlock \/ Served

Next == Loop \/ RequestStop \/ \E b \in Listeners : Arrive(b)

Spec == Init /\ [][Next]_vars

\* The thread runs; clients and the supervisor do as they please.
FairSpec == Spec /\ WF_vars(Loop)

-----------------------------------------------------------------------------
(***************************************************************************)
(* Properties                                                              *)
(***************************************************************************)

TypeOK ==
    /\ queue \in [Listeners -> 0 .. Backlog]
    /\ loop \in {"check", "poll", "serve", "stopped"}
    /\ polled \in Listeners
    /\ stop \in BOOLEAN
    /\ late \in 0 .. 2

\* A stop ends the loop however many clients are waiting and go on arriving:
\* the flag is tested before each accept, and one client is served per test (run).
StopSeen == stop ~> loop = "stopped"

\* Once a stop was asked for, one more client is served at most, however many
\* are waiting: the one that is found when the flag was tested before (run).
OneMoreAtMost == late <= 1

\* A listener goes on being served as long as the listeners before it are empty
\* in the end, however fast its clients arrive; message.sock always is.  Without
\* that condition it may be starved for ever (accept_one).
ServedInTurn ==
    []~stop =>
        \A b \in Listeners :
            <>[](\A a \in Listeners : a < b => queue[a] = 0)
                => []<>(queue[b] = 0 \/ (loop = "serve" /\ polled = b))
=============================================================================
