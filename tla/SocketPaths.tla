----------------------------- MODULE SocketPaths -----------------------------
(***************************************************************************)
(* The socket paths of a configuration, over the life of several daemon    *)
(* processes that use it: restarts after a stop, a failure or a kill, and, *)
(* where Overlaps allows it, daemons that run at the same time.  A path is *)
(* known to the code by its name only: remove_file, bind, set_permissions  *)
(* and the removal in Drop each act on whatever is at the path by then.    *)
(***************************************************************************)
EXTENDS Naturals

CONSTANTS Daemons,    \* the daemon processes
          NoDaemon,   \* at a path where nothing is; no set_permissions yet
          Bindings,   \* how many ingress sockets: message.sock and components'
          Overlaps    \* may a daemon be started while another one runs?

ASSUME SocketPathsAssumption ==
    /\ NoDaemon \notin Daemons
    /\ Bindings \in Nat \ {0}
    /\ Overlaps \in BOOLEAN

\* The supervision socket is opened last, on a path of its own.
SupervisionSlot == Bindings + 1
Ingresses == 1 .. Bindings
Slots == 1 .. SupervisionSlot

VARIABLES at,       \* whose socket each path names
          modeBy,   \* whose set_permissions the file at each path had last
          pc,       \* the step each daemon's main thread takes next
          slot,     \* the socket each daemon opens, or opened last
          open,     \* the sockets whose listener each daemon holds
          crowded,  \* history: the daemons that have run beside another one
          stuck     \* history: the paths that each daemon's Drop failed to remove

vars == <<at, modeBy, pc, slot, open, crowded, stuck>>
history == <<crowded, stuck>>

Ended(d) == pc[d] \in {"ended", "killed"}
Running(d) == pc[d] # "idle" /\ ~Ended(d)

\* The ingress listeners that have become a MessageSocketBinding.
Held(d) == open[d] \cap Ingresses

\* The one of them that is dropped next.
FirstHeld(d, s) == s \in Held(d) /\ \A t \in Held(d) : s <= t

Init ==
    /\ at = [s \in Slots |-> NoDaemon]
    /\ modeBy = [s \in Slots |-> NoDaemon]
    /\ pc = [d \in Daemons |-> "idle"]
    /\ slot = [d \in Daemons |-> 1]
    /\ open = [d \in Daemons |-> {}]
    /\ crowded = {}
    /\ stuck = [d \in Daemons |-> {}]

GoTo(d, label) == pc' = [pc EXCEPT ![d] = label]

\* The file at path s is gone, if there was one.
Unlink(s) ==
    /\ at' = [at EXCEPT ![s] = NoDaemon]
    /\ modeBy' = [modeBy EXCEPT ![s] = NoDaemon]

\* The environment starts a daemon.
Start(d) ==
    /\ pc[d] = "idle"
    /\ Overlaps \/ \A e \in Daemons : ~Running(e)
    /\ GoTo(d, "remove")
    /\ crowded' = IF \A e \in Daemons : ~Running(e)
                  THEN crowded
                  ELSE crowded \cup {d} \cup {e \in Daemons : Running(e)}
    /\ UNCHANGED <<at, modeBy, slot, open, stuck>>

-----------------------------------------------------------------------------
(***************************************************************************)
(* bind of each ingress socket in turn, then spawn of the supervision one  *)
(***************************************************************************)

\* The error of remove_file is discarded: what could not be removed stays.
RemoveFile(d) ==
    /\ pc[d] = "remove"
    /\ Unlink(slot[d]) \/ UNCHANGED <<at, modeBy>>
    /\ GoTo(d, "bind")
    /\ UNCHANGED <<slot, open, history>>

Bind(d) ==
    /\ pc[d] = "bind"
    /\ at[slot[d]] = NoDaemon
    /\ at' = [at EXCEPT ![slot[d]] = d]
    /\ open' = [open EXCEPT ![d] = @ \cup {slot[d]}]
    /\ GoTo(d, "mode")
    /\ UNCHANGED <<modeBy, slot, history>>

\* Mutant: a failure ends the process on the spot.
BindFailsAndExits(d) ==
    /\ pc[d] \in {"remove", "bind"}
    /\ open' = [open EXCEPT ![d] = {}]
    /\ GoTo(d, "ended")
    /\ UNCHANGED <<at, modeBy, slot, history>>

\* Mutant: a socket that cannot be bound is passed over.
BindFailsAndGoesOn(d) ==
    /\ pc[d] \in {"remove", "bind"}
    /\ IF slot[d] = SupervisionSlot
       THEN GoTo(d, "serving") /\ UNCHANGED slot
       ELSE GoTo(d, "remove") /\ slot' = [slot EXCEPT ![d] = @ + 1]
    /\ UNCHANGED <<at, modeBy, open, history>>

\* The address is in use, or the kernel refuses for a reason of its own, in
\* any of the steps before set_permissions: the bindings made so far drop.
BindFails(d) ==
    /\ pc[d] \in {"remove", "bind"}
    /\ GoTo(d, "drop")
    /\ UNCHANGED <<at, modeBy, slot, open, history>>

\* Mutant: the daemon serves before it has its supervision socket.
ApplyModeAndServe(d) ==
    /\ pc[d] = "mode"
    /\ at[slot[d]] # NoDaemon
    /\ modeBy' = [modeBy EXCEPT ![slot[d]] = d]
    /\ IF slot[d] >= Bindings
       THEN GoTo(d, "serving") /\ UNCHANGED slot
       ELSE GoTo(d, "remove") /\ slot' = [slot EXCEPT ![d] = @ + 1]
    /\ UNCHANGED <<at, open, history>>

\* Mutant: the count of sockets is off by one.
ApplyModePastLast(d) ==
    /\ pc[d] = "mode"
    /\ at[slot[d]] # NoDaemon
    /\ modeBy' = [modeBy EXCEPT ![slot[d]] = d]
    /\ GoTo(d, IF slot[d] > SupervisionSlot THEN "serving" ELSE "remove")
    /\ slot' = [slot EXCEPT ![d] = @ + 1]
    /\ UNCHANGED <<at, open, history>>

\* The next socket; after the supervision socket, the accept loop.
ApplyMode(d) ==
    /\ pc[d] = "mode"
    /\ at[slot[d]] # NoDaemon
    /\ modeBy' = [modeBy EXCEPT ![slot[d]] = d]
    /\ IF slot[d] = SupervisionSlot
       THEN GoTo(d, "serving") /\ UNCHANGED slot
       ELSE GoTo(d, "remove") /\ slot' = [slot EXCEPT ![d] = @ + 1]
    /\ UNCHANGED <<at, open, history>>

\* Mutant: a set_permissions that fails is no error.
ApplyModeFailsUnnoticed(d) ==
    /\ pc[d] = "mode"
    /\ IF slot[d] = SupervisionSlot
       THEN GoTo(d, "serving") /\ UNCHANGED slot
       ELSE GoTo(d, "remove") /\ slot' = [slot EXCEPT ![d] = @ + 1]
    /\ UNCHANGED <<at, modeBy, open, history>>

\* The path is gone, or the kernel refuses: the listener that is no binding
\* yet is closed, and nothing removes its path.
ApplyModeFails(d) ==
    /\ pc[d] = "mode"
    /\ open' = [open EXCEPT ![d] = @ \ {slot[d]}]
    /\ GoTo(d, "drop")
    /\ UNCHANGED <<at, modeBy, slot, history>>

-----------------------------------------------------------------------------
(***************************************************************************)
(* The end of run, with success or not, and the Drop of each binding       *)
(***************************************************************************)

\* The supervision thread ends, after a stop or because its runtime does not
\* start, and its listener goes with it; its path stays.
CloseSupervision(d) ==
    /\ pc[d] \in {"serving", "drop", "close"}
    /\ SupervisionSlot \in open[d]
    /\ open' = [open EXCEPT ![d] = @ \ {SupervisionSlot}]
    /\ UNCHANGED <<at, modeBy, pc, slot, history>>

\* The main thread has seen the stop flag, or fails.
Return(d) ==
    /\ pc[d] = "serving"
    /\ GoTo(d, "drop")
    /\ UNCHANGED <<at, modeBy, slot, open, history>>

\* Drop of the first binding left removes its path, if it can, before the
\* listener goes; here, too, the error is discarded.
DropUnlink(d) ==
    /\ pc[d] = "drop"
    /\ \E s \in Slots :
           /\ FirstHeld(d, s)
           /\ \/ Unlink(s) /\ UNCHANGED stuck
              \/ /\ at[s] # NoDaemon
                 /\ stuck' = [stuck EXCEPT ![d] = @ \cup {s}]
                 /\ UNCHANGED <<at, modeBy>>
    /\ GoTo(d, "close")
    /\ UNCHANGED <<slot, open, crowded>>

DropClose(d) ==
    /\ pc[d] = "close"
    /\ \E s \in Slots :
           FirstHeld(d, s) /\ open' = [open EXCEPT ![d] = @ \ {s}]
    /\ GoTo(d, "drop")
    /\ UNCHANGED <<at, modeBy, slot, history>>

ProcessEnds(d) ==
    /\ pc[d] = "drop"
    /\ Held(d) = {}
    /\ open' = [open EXCEPT ![d] = {}]
    /\ GoTo(d, "ended")
    /\ UNCHANGED <<at, modeBy, slot, history>>

Killed(d) ==
    /\ Running(d)
    /\ open' = [open EXCEPT ![d] = {}]
    /\ GoTo(d, "killed")
    /\ UNCHANGED <<at, modeBy, slot, history>>

Daemon(d) ==
    \/ Start(d)
    \/ RemoveFile(d) \/ Bind(d) \/ BindFails(d)
    \/ ApplyMode(d) \/ ApplyModeFails(d)
    \/ CloseSupervision(d) \/ Return(d)
    \/ DropUnlink(d) \/ DropClose(d) \/ ProcessEnds(d)
    \/ Killed(d)

Next == \E d \in Daemons : Daemon(d)

Spec == Init /\ [][Next]_vars

-----------------------------------------------------------------------------
(***************************************************************************)
(* Properties                                                              *)
(***************************************************************************)

TypeOK ==
    /\ at \in [Slots -> Daemons \cup {NoDaemon}]
    /\ modeBy \in [Slots -> Daemons \cup {NoDaemon}]
    /\ pc \in [Daemons -> {"idle", "remove", "bind", "mode", "serving",
                           "drop", "close", "ended", "killed"}]
    /\ slot \in [Daemons -> Slots]
    /\ open \in [Daemons -> SUBSET Slots]
    /\ crowded \subseteq Daemons
    /\ stuck \in [Daemons -> SUBSET Slots]

Serving(d) == pc[d] = "serving"

\* The daemon listens on its ingress sockets, and all of its paths lead to it,
\* in its mode.
OwnsPaths(d) ==
    /\ Held(d) = Ingresses
    /\ \A s \in Slots : at[s] = d /\ modeBy[s] = d

\* A daemon that serves has its ingress sockets open, and each of its paths
\* leads to its own socket, in the mode it configured: what an earlier daemon
\* left is either removed or keeps the daemon from serving (bind, spawn, Drop).
ServingOwnsPaths == \A d \in Daemons : Serving(d) => OwnsPaths(d)

\* What daemons that overlap do to each other's paths does not outlast them: a
\* daemon that has had no other one beside it owns its paths, whatever those
\* before it left there, removed or could not remove (bind, spawn, Drop).
AloneOwnsPaths ==
    \A d \in Daemons \ crowded : Serving(d) => OwnsPaths(d)

\* A path that leads to a daemon that serves never has the mode the file was
\* created with, whatever other daemons do to the path meanwhile (bind).
ReachableHasMode ==
    \A s \in Slots :
        at[s] # NoDaemon /\ pc[at[s]] = "serving" => modeBy[s] # NoDaemon

\* A daemon that was not killed leaves at most one path behind that it could
\* have removed, that of the socket it opened last: the supervision socket's, or
\* the one whose set_permissions failed (bind, spawn, Drop).
LeavesOnlyLast ==
    \A d \in Daemons : pc[d] = "ended" =>
        \A s \in Slots : at[s] = d => s = slot[d] \/ s \in stuck[d]

\* Where daemon d is in its life, as a client or a supervisor sees it.
StatusOf(d) ==
    CASE pc[d] = "idle" -> "absent"
      [] pc[d] \in {"remove", "bind", "mode"} -> "opening"
      [] pc[d] = "serving" -> "serving"
      [] pc[d] \in {"drop", "close"} -> "leaving"
      [] OTHER -> "gone"

Ownership == INSTANCE PathOwnership
    WITH Owners <- Daemons, Paths <- Slots, NoOwner <- NoDaemon,
         owner <- at, status <- [d \in Daemons |-> StatusOf(d)]

\* Daemons that run one after another own their paths exclusively: no daemon
\* clears a path of a daemon that lives, and none serves before it owns all of
\* its paths, the supervision socket's included (run, bind, spawn, Drop).
RefinesOwnership == Ownership!Spec
=============================================================================
