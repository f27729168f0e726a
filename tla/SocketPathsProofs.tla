-------------------------- MODULE SocketPathsProofs --------------------------
(***************************************************************************)
(* Proofs about SocketPaths, for every number of daemons and of ingress    *)
(* sockets.  The first part is about every daemon; the second is about the *)
(* daemons that have had no other one beside them.                         *)
(***************************************************************************)
EXTENDS SocketPaths, TLAPS

\* The slots are numbers, and the supervision socket is the last of them.
LEMMA SlotFacts ==
    /\ SupervisionSlot \in Nat /\ SupervisionSlot \in Slots /\ 1 \in Slots
    /\ SupervisionSlot \notin Ingresses
    /\ Slots \subseteq Nat \ {0}
    /\ \A s \in Slots : s # SupervisionSlot => s + 1 \in Slots /\ s \in Ingresses
    /\ \A s \in Slots : s \in Ingresses \/ s = SupervisionSlot
    /\ Ingresses \subseteq Slots
BY SocketPathsAssumption DEF SupervisionSlot, Slots, Ingresses

\* The order of the slots.
LEMMA SlotOrder ==
    \A s, t \in Nat :
        /\ s <= t => s < t \/ s = t
        /\ s < t => s <= t
        /\ s < t + 1 => s < t \/ s = t
        /\ s <= t => s < t + 1
        /\ s <= t /\ t <= s => s = t
OBVIOUS

\* The variables keep their types.
LEMMA TypeStep == TypeOK /\ [Next]_vars => TypeOK'
<1> SUFFICES ASSUME TypeOK, [Next]_vars PROVE TypeOK'
  OBVIOUS
<1>1. CASE UNCHANGED vars
  BY <1>1 DEF TypeOK, vars, history
<1>2. ASSUME NEW d \in Daemons, Daemon(d) PROVE TypeOK'
  <2>1. CASE Start(d) \/ Return(d)
    BY <2>1 DEF TypeOK, Start, Return, GoTo, history
  <2>2. CASE RemoveFile(d)
    BY <2>2 DEF TypeOK, RemoveFile, Unlink, GoTo, history
  <2>3. CASE DropUnlink(d)
    BY <2>3 DEF TypeOK, DropUnlink, Unlink, GoTo
  <2>4. CASE Bind(d) \/ BindFails(d)
    BY <2>4 DEF TypeOK, Bind, BindFails, GoTo, history
  <2>5. CASE ApplyMode(d)
    <3>1. CASE slot[d] = SupervisionSlot
      BY <2>5, <3>1 DEF TypeOK, ApplyMode, GoTo, history
    <3>2. CASE slot[d] # SupervisionSlot
      <4>1. slot[d] + 1 \in Slots
        BY <3>2, SlotFacts DEF TypeOK
      <4> QED
        BY <2>5, <3>2, <4>1 DEF TypeOK, ApplyMode, GoTo, history
    <3> QED
      BY <3>1, <3>2
  <2>6. CASE ApplyModeFails(d) \/ CloseSupervision(d) \/ DropClose(d)
    BY <2>6 DEF TypeOK, ApplyModeFails, CloseSupervision, DropClose, GoTo, history
  <2>7. CASE ProcessEnds(d) \/ Killed(d)
    BY <2>7 DEF TypeOK, ProcessEnds, Killed, GoTo, history
  <2> QED
    BY <1>2, <2>1, <2>2, <2>3, <2>4, <2>5, <2>6, <2>7 DEF Daemon
<1> QED
  BY <1>1, <1>2 DEF Next

LEMMA TypeInit == Init => TypeOK
BY SlotFacts DEF Init, TypeOK

\* Every variable of the socket paths has its type, in every run.
THEOREM PathsTypeCorrect == Spec => []TypeOK
BY TypeInit, TypeStep, PTL DEF Spec

-----------------------------------------------------------------------------
(***************************************************************************)
(* Every daemon, whether or not others overlap with it                     *)
(***************************************************************************)

Opening(d) == pc[d] \in {"remove", "bind", "mode"}

\* A path names a daemon's socket only after the daemon has bound it, and no
\* earlier than in the order of the slots.
BoundInOrder ==
    \A d \in Daemons, s \in Slots : at[s] = d =>
        /\ pc[d] # "idle"
        /\ pc[d] \in {"remove", "bind"} => s < slot[d]
        /\ pc[d] = "mode" => s <= slot[d]

\* While a daemon opens its sockets, each earlier one is a binding, and the
\* listener of the one in hand is open.
OpenSoFar ==
    \A d \in Daemons :
        /\ pc[d] = "idle" => slot[d] = 1
        /\ Opening(d) => \A s \in Slots : s < slot[d] => s \in Held(d)
        /\ pc[d] = "mode" => slot[d] \in open[d]

\* Of the sockets a daemon has bound, only the one in hand may lack its mode.
ModeSoFar ==
    \A d \in Daemons, s \in Slots :
        /\ at[s] = d
        /\ Opening(d) \/ pc[d] = "serving"
        /\ pc[d] = "mode" => s # slot[d]
        => modeBy[s] # NoDaemon

\* After startup a path names the daemon's socket only if a binding is still
\* to remove it, or failed to, or it is the last one the daemon opened.
LeftToDrop ==
    \A d \in Daemons, s \in Slots : at[s] = d =>
        /\ pc[d] \in {"serving", "drop", "close"} =>
               s \in Held(d) \/ s = slot[d] \/ s \in stuck[d]
        /\ pc[d] = "close" => ~FirstHeld(d, s) \/ s \in stuck[d]
        /\ pc[d] = "ended" => s = slot[d] \/ s \in stuck[d]

PathsInv == TypeOK /\ BoundInOrder /\ OpenSoFar /\ ModeSoFar /\ LeftToDrop

LEMMA PathsInit == Init => PathsInv
<1> SUFFICES ASSUME Init PROVE PathsInv
  OBVIOUS
<1>1. TypeOK
  BY TypeInit
<1>2. \A d \in Daemons, s \in Slots : at[s] # d
  BY SocketPathsAssumption DEF Init
<1> QED
  BY <1>1, <1>2 DEF Init, PathsInv, BoundInOrder, OpenSoFar, ModeSoFar, LeftToDrop, Opening

\* Every step of every daemon keeps the invariant.
LEMMA PathsStep == PathsInv /\ [Next]_vars => PathsInv'
<1> SUFFICES ASSUME PathsInv, [Next]_vars PROVE PathsInv'
  OBVIOUS
<1>0. TypeOK' /\ TypeOK
  BY TypeStep DEF PathsInv
<1>1. CASE UNCHANGED vars
  BY <1>1, <1>0 DEF PathsInv, vars, history, BoundInOrder, OpenSoFar, ModeSoFar, LeftToDrop,
                    Opening, Held, FirstHeld
<1>2. ASSUME NEW d \in Daemons, Daemon(d)
      PROVE  BoundInOrder' /\ OpenSoFar' /\ ModeSoFar' /\ LeftToDrop'
  <2> USE SlotFacts, SocketPathsAssumption
  <2> USE DEF PathsInv, TypeOK, BoundInOrder, OpenSoFar, ModeSoFar, LeftToDrop,
              Opening, Held, FirstHeld, GoTo, history
  <2>1. CASE Start(d)
    BY <2>1, <1>0 DEF Start
  <2>2. CASE RemoveFile(d)
    <3>1. CASE Unlink(slot[d])
      BY <2>2, <3>1, <1>0 DEF RemoveFile, Unlink
    <3>2. CASE UNCHANGED <<at, modeBy>>
      BY <2>2, <3>2, <1>0 DEF RemoveFile
    <3> QED
      BY <2>2, <3>1, <3>2 DEF RemoveFile
  <2>3. CASE Bind(d)
    <3>1. BoundInOrder'
      <4> SUFFICES ASSUME NEW e \in Daemons, NEW s \in Slots, at'[s] = e
                   PROVE  /\ pc'[e] # "idle"
                          /\ pc'[e] \in {"remove", "bind"} => s < slot'[e]
                          /\ pc'[e] = "mode" => s <= slot'[e]
        OBVIOUS
      <4>1. CASE s = slot[d]
        BY <2>3, <1>0, <4>1 DEF Bind
      <4>2. CASE s # slot[d]
        <5>1. at[s] = e
          BY <2>3, <1>0, <4>2 DEF Bind
        <5>2. e = d => s < slot[e]
          BY <2>3, <5>1 DEF Bind
        <5>3. s \in Nat /\ slot[e] \in Nat
          BY <1>0
        <5>4. e = d => s <= slot[e]
          BY <5>2, <5>3, SlotOrder
        <5> QED
          BY <2>3, <5>1, <5>2, <5>4, <1>0 DEF Bind
      <4> QED
        BY <4>1, <4>2
    <3>2. OpenSoFar'
      BY <2>3, <1>0 DEF Bind
    <3>3. ModeSoFar'
      BY <2>3, <1>0 DEF Bind
    <3>4. LeftToDrop'
      BY <2>3, <1>0 DEF Bind
    <3> QED
      BY <3>1, <3>2, <3>3, <3>4
  <2>4. CASE BindFails(d)
    BY <2>4, <1>0 DEF BindFails
  <2>5. CASE ApplyMode(d)
    <3>1. CASE slot[d] = SupervisionSlot
      <4>1. BoundInOrder'
        BY <2>5, <3>1, <1>0 DEF ApplyMode
      <4>2. OpenSoFar'
        BY <2>5, <3>1, <1>0 DEF ApplyMode
      <4>3. ModeSoFar'
        BY <2>5, <3>1, <1>0 DEF ApplyMode
      <4>4. LeftToDrop'
        BY <2>5, <3>1, <1>0 DEF ApplyMode
      <4> QED
        BY <4>1, <4>2, <4>3, <4>4
    <3>2. CASE slot[d] # SupervisionSlot
      <4>0. /\ slot[d] \in Ingresses /\ slot[d] \in Nat /\ slot[d] + 1 \in Slots
            /\ slot' = [slot EXCEPT ![d] = slot[d] + 1]
            /\ pc' = [pc EXCEPT ![d] = "remove"]
            /\ pc[d] = "mode" /\ UNCHANGED <<at, open, history>>
        BY <2>5, <3>2, <1>0 DEF ApplyMode
      <4>1. BoundInOrder'
        BY <4>0, <1>0
      <4>2. OpenSoFar'
        <5>1. \A s \in Slots : s < slot[d] + 1 => s \in Held(d)
          <6> SUFFICES ASSUME NEW s \in Slots, s < slot[d] + 1 PROVE s \in Held(d)
            OBVIOUS
          <6>1. s \in Nat
            OBVIOUS
          <6>2. s < slot[d] \/ s = slot[d]
            BY <6>1, <4>0, SlotOrder
          <6> QED
            BY <6>2, <4>0
        <5> QED
          BY <4>0, <5>1, <1>0
      <4>3. ModeSoFar'
        BY <2>5, <4>0, <1>0 DEF ApplyMode
      <4>4. LeftToDrop'
        BY <4>0, <1>0
      <4> QED
        BY <4>1, <4>2, <4>3, <4>4
    <3> QED
      BY <3>1, <3>2
  <2>6. CASE ApplyModeFails(d)
    <3>1. BoundInOrder'
      BY <2>6, <1>0 DEF ApplyModeFails
    <3>2. OpenSoFar'
      BY <2>6, <1>0 DEF ApplyModeFails
    <3>3. ModeSoFar'
      BY <2>6, <1>0 DEF ApplyModeFails
    <3>4. LeftToDrop'
      <4>1. \A s \in Slots : at[s] = d => s \in Held(d)' \/ s = slot[d]
        <5> SUFFICES ASSUME NEW s \in Slots, at[s] = d, s # slot[d]
                     PROVE  s \in Held(d)'
          OBVIOUS
        <5>0. s \in Nat /\ slot[d] \in Nat /\ pc[d] = "mode"
          BY <2>6, <1>0 DEF ApplyModeFails
        <5>1. s <= slot[d]
          BY <5>0
        <5>2. s < slot[d]
          BY <5>0, <5>1, SlotOrder
        <5> QED
          BY <5>2, <2>6, <1>0 DEF ApplyModeFails
      <4> QED
        BY <4>1, <2>6, <1>0 DEF ApplyModeFails
    <3> QED
      BY <3>1, <3>2, <3>3, <3>4
  <2>7. CASE CloseSupervision(d)
    <3>1. BoundInOrder'
      BY <2>7, <1>0 DEF CloseSupervision, Running, Ended
    <3>2. OpenSoFar'
      BY <2>7, <1>0 DEF CloseSupervision, Running, Ended
    <3>3. ModeSoFar'
      BY <2>7, <1>0 DEF CloseSupervision, Running, Ended
    <3>4. LeftToDrop'
      BY <2>7, <1>0 DEF CloseSupervision, Running, Ended
    <3> QED
      BY <3>1, <3>2, <3>3, <3>4
  <2>8. CASE Return(d)
    BY <2>8, <1>0 DEF Return
  <2>9. CASE DropUnlink(d)
    <3>1. PICK first \in Slots :
              /\ FirstHeld(d, first)
              /\ \/ Unlink(first) /\ UNCHANGED stuck
                 \/ /\ at[first] # NoDaemon
                    /\ stuck' = [stuck EXCEPT ![d] = @ \cup {first}]
                    /\ UNCHANGED <<at, modeBy>>
      BY <2>9 DEF DropUnlink
    <3>2. BoundInOrder' /\ OpenSoFar' /\ ModeSoFar'
      BY <2>9, <3>1, <1>0 DEF DropUnlink, Unlink
    <3>3. LeftToDrop'
      <4>1. ASSUME NEW s \in Slots, FirstHeld(d, s) PROVE s = first
        <5>1. s \in Nat /\ first \in Nat /\ s <= first /\ first <= s
          BY <3>1, <4>1
        <5> QED
          BY <5>1, SlotOrder
      <4>2. /\ pc' = [pc EXCEPT ![d] = "close"] /\ pc[d] = "drop"
            /\ UNCHANGED <<slot, open>>
        BY <2>9 DEF DropUnlink
      <4>3. CASE Unlink(first) /\ UNCHANGED stuck
        BY <4>1, <4>2, <4>3, <1>0 DEF Unlink
      <4>4. CASE /\ stuck' = [stuck EXCEPT ![d] = @ \cup {first}]
                 /\ UNCHANGED <<at, modeBy>>
        BY <4>1, <4>2, <4>4, <1>0
      <4> QED
        BY <3>1, <4>3, <4>4
    <3> QED
      BY <3>2, <3>3
  <2>10. CASE DropClose(d)
    <3>1. PICK first \in Slots :
              FirstHeld(d, first) /\ open' = [open EXCEPT ![d] = @ \ {first}]
      BY <2>10 DEF DropClose
    <3> QED
      BY <2>10, <3>1, <1>0 DEF DropClose
  <2>11. CASE ProcessEnds(d)
    BY <2>11, <1>0 DEF ProcessEnds
  <2>12. CASE Killed(d)
    BY <2>12, <1>0 DEF Killed
  <2> QED
    BY <1>2, <2>1, <2>2, <2>3, <2>4, <2>5, <2>6, <2>7, <2>8, <2>9, <2>10,
       <2>11, <2>12 DEF Daemon
<1> QED
  BY <1>0, <1>1, <1>2 DEF Next, PathsInv

LEMMA PathsInvariant == Spec => []PathsInv
BY PathsInit, PathsStep, PTL DEF Spec

\* A path that leads to a daemon that serves has had its mode set, although
\* every step names the file by its path, whatever other daemons do to it.
THEOREM ReachableHasModeHolds == Spec => []ReachableHasMode
<1>1. PathsInv => ReachableHasMode
  BY SocketPathsAssumption DEF PathsInv, TypeOK, ModeSoFar, ReachableHasMode
<1> QED
  BY <1>1, PathsInvariant, PTL

\* A daemon that ended by itself left at most the path it opened last, and
\* those it failed to remove.
THEOREM LeavesOnlyLastHolds == Spec => []LeavesOnlyLast
<1>1. PathsInv => LeavesOnlyLast
  BY DEF PathsInv, LeftToDrop, LeavesOnlyLast
<1> QED
  BY <1>1, PathsInvariant, PTL

-----------------------------------------------------------------------------
(***************************************************************************)
(* The daemons that have run alone so far                                  *)
(***************************************************************************)

Alone == \A d, e \in Daemons : Running(d) /\ Running(e) /\ d # e => d \in crowded

\* Such a daemon owns, with its mode, every socket it has opened.
OwnsSoFar ==
    \A d \in Daemons \ crowded :
        /\ Opening(d) => \A s \in Slots :
               s < slot[d] => at[s] = d /\ modeBy[s] = d /\ s \in open[d]
        /\ pc[d] = "mode" => at[slot[d]] = d
        /\ pc[d] = "serving" =>
               /\ \A s \in Slots : at[s] = d /\ modeBy[s] = d
               /\ \A s \in Ingresses : s \in open[d]

\* A daemon that opens its sockets holds no later one.
HeldInOrder ==
    \A d \in Daemons, s \in Slots :
        /\ pc[d] = "idle" => s \notin Held(d)
        /\ Opening(d) /\ s \in Held(d) => s <= slot[d]
        /\ pc[d] \in {"remove", "bind"} /\ s \in Held(d) => s < slot[d]

\* Every binding that such a daemon is still to drop owns its path.
OwnsToDrop ==
    \A d \in Daemons \ crowded, s \in Slots :
        /\ pc[d] = "drop" /\ s \in Held(d) => at[s] = d
        /\ pc[d] = "close" /\ s \in Held(d) /\ ~FirstHeld(d, s) => at[s] = d

AloneInv ==
    /\ PathsInv /\ Alone /\ OwnsSoFar /\ HeldInOrder /\ OwnsToDrop
    /\ Overlaps \/ crowded = {}

LEMMA AloneInit == Init => AloneInv
<1> SUFFICES ASSUME Init PROVE AloneInv
  OBVIOUS
<1> QED
  BY PathsInit DEF Init, AloneInv, Alone, OwnsSoFar, HeldInOrder, OwnsToDrop,
                   Running, Ended, Opening, Held

\* In a step of daemon d, another one that has had none beside it does not run.
LEMMA OthersAreStill ==
    ASSUME TypeOK, Alone, NEW d \in Daemons, Daemon(d)
    PROVE  /\ crowded \subseteq crowded'
           /\ \A e \in Daemons : e # d /\ e \notin crowded' =>
                  pc[e] \in {"idle", "ended", "killed"} /\ pc'[e] = pc[e]
<1>1. CASE Start(d)
  BY <1>1 DEF Start, GoTo, TypeOK, Running, Ended
<1>2. CASE ~Start(d)
  <2>1. /\ Running(d) /\ crowded' = crowded
        /\ \A e \in Daemons : e # d => pc'[e] = pc[e]
    BY <1>2 DEF Daemon, TypeOK, Running, Ended, GoTo, history, RemoveFile, Bind,
       BindFails, ApplyMode, ApplyModeFails, CloseSupervision, Return,
       DropUnlink, DropClose, ProcessEnds, Killed
  <2> QED
    BY <2>1 DEF Alone, TypeOK, Running, Ended
<1> QED
  BY <1>1, <1>2

\* While such a daemon runs, its own steps are all there is, and they keep the
\* invariant.
LEMMA AloneStep == AloneInv /\ [Next]_vars => AloneInv'
<1> SUFFICES ASSUME AloneInv, [Next]_vars PROVE AloneInv'
  OBVIOUS
<1>0. PathsInv /\ PathsInv' /\ TypeOK /\ TypeOK'
  BY PathsStep DEF AloneInv, PathsInv
<1>1. CASE UNCHANGED vars
  BY <1>1, <1>0 DEF AloneInv, vars, history, Alone, OwnsSoFar, HeldInOrder, OwnsToDrop,
                    Opening, Held, FirstHeld, Running, Ended
<1>2. ASSUME NEW d \in Daemons, Daemon(d)
      PROVE  /\ Alone' /\ HeldInOrder' /\ OwnsSoFar' /\ OwnsToDrop'
             /\ (Overlaps \/ crowded = {})'
  <2>0. /\ crowded \subseteq crowded'
        /\ \A e \in Daemons : e # d /\ e \notin crowded' =>
               pc[e] \in {"idle", "ended", "killed"} /\ pc'[e] = pc[e]
    BY <1>2, <1>0, OthersAreStill DEF AloneInv
  <2>1. Alone' /\ (Overlaps \/ crowded = {})'
    <3>1. CASE Start(d)
      <4>1. (Overlaps \/ crowded = {})'
        BY <3>1 DEF Start, AloneInv
      <4>2. Alone'
        BY <3>1, <1>0 DEF Start, GoTo, AloneInv, TypeOK, Alone, Running, Ended
      <4> QED
        BY <4>1, <4>2
    <3>2. CASE ~Start(d)
      <4>1. /\ Running(d) /\ crowded' = crowded
            /\ \A e \in Daemons : e # d => pc'[e] = pc[e]
        BY <1>2, <3>2, <1>0 DEF Daemon, TypeOK, Running, Ended, GoTo, history, RemoveFile,
           Bind, BindFails, ApplyMode, ApplyModeFails, CloseSupervision,
           Return, DropUnlink, DropClose, ProcessEnds, Killed
      <4> QED
        BY <4>1, <1>0 DEF AloneInv, Alone, Running, Ended
    <3> QED
      BY <3>1, <3>2
  <2>2. HeldInOrder'
    <3> USE SlotFacts, SocketPathsAssumption
    <3> USE DEF AloneInv, TypeOK, HeldInOrder, Opening, Held, GoTo
    <3>1. CASE Start(d) \/ RemoveFile(d) \/ BindFails(d) \/ Return(d)
      BY <3>1, <1>0 DEF Start, RemoveFile, BindFails, Return
    <3>2. CASE Bind(d)
      <4>1. \A s \in Slots : s \in Held(d)' => s <= slot[d]
        <5> SUFFICES ASSUME NEW s \in Slots, s \in Held(d)' PROVE s <= slot[d]
          OBVIOUS
        <5>1. s \in Nat /\ slot[d] \in Nat /\ (s < slot[d] \/ s = slot[d])
          BY <3>2, <1>0 DEF Bind
        <5> QED
          BY <5>1
      <4> QED
        BY <4>1, <3>2, <1>0 DEF Bind
    <3>3. CASE ApplyMode(d)
      <4>0. /\ pc[d] = "mode" /\ open' = open /\ slot[d] \in Nat
        BY <3>3, <1>0 DEF ApplyMode
      <4>1. \A s \in Slots : s \in Held(d) => s < slot[d] + 1 /\ s <= slot[d] + 1
        <5> SUFFICES ASSUME NEW s \in Slots, s \in Held(d)
                     PROVE  s < slot[d] + 1 /\ s <= slot[d] + 1
          OBVIOUS
        <5>1. s \in Nat /\ s <= slot[d]
          BY <4>0
        <5> QED
          BY <5>1, <4>0, SlotOrder
      <4>2. CASE slot[d] = SupervisionSlot
        BY <4>2, <4>0, <3>3, <1>0 DEF ApplyMode
      <4>3. CASE slot[d] # SupervisionSlot
        <5>1. /\ pc' = [pc EXCEPT ![d] = "remove"]
              /\ slot' = [slot EXCEPT ![d] = slot[d] + 1]
          BY <3>3, <4>3 DEF ApplyMode
        <5> QED
          BY <5>1, <4>0, <4>1, <1>0
      <4> QED
        BY <4>2, <4>3
    <3>4. CASE ApplyModeFails(d) \/ CloseSupervision(d) \/ ProcessEnds(d) \/ Killed(d)
      BY <3>4, <1>0 DEF ApplyModeFails, CloseSupervision, ProcessEnds, Killed, Running, Ended
    <3>5. CASE DropUnlink(d)
      BY <3>5, <1>0 DEF DropUnlink
    <3>6. CASE DropClose(d)
      BY <3>6, <1>0 DEF DropClose
    <3> QED
      BY <1>2, <3>1, <3>2, <3>3, <3>4, <3>5, <3>6 DEF Daemon
  <2>3. OwnsSoFar' /\ OwnsToDrop'
    <3> USE SlotFacts, SocketPathsAssumption
    <3> USE DEF AloneInv, PathsInv, TypeOK, OwnsSoFar, HeldInOrder, OwnsToDrop, OpenSoFar,
                Opening, Held, FirstHeld, GoTo, history
    <3>1. CASE Start(d)
      <4>1. OwnsSoFar'
        <5>1. \A s \in Slots : ~(s < 1)
          OBVIOUS
        <5> QED
          BY <3>1, <2>0, <1>0, <5>1 DEF Start
      <4>2. OwnsToDrop'
        BY <3>1, <2>0, <1>0 DEF Start
      <4> QED
        BY <4>1, <4>2
    <3>2. CASE RemoveFile(d)
      <4>1. OwnsSoFar'
        <5>1. CASE Unlink(slot[d])
          BY <3>2, <5>1, <2>0, <1>0 DEF RemoveFile, Unlink
        <5>2. CASE UNCHANGED <<at, modeBy>>
          BY <3>2, <5>2, <2>0, <1>0 DEF RemoveFile
        <5> QED
          BY <3>2, <5>1, <5>2 DEF RemoveFile
      <4>2. OwnsToDrop'
        BY <3>2, <2>0, <1>0 DEF RemoveFile
      <4> QED
        BY <4>1, <4>2
    <3>3. CASE Bind(d)
      <4>1. OwnsSoFar'
        BY <3>3, <2>0, <1>0 DEF Bind, Running, Ended
      <4>2. OwnsToDrop'
        BY <3>3, <2>0, <1>0 DEF Bind, Running, Ended
      <4> QED
        BY <4>1, <4>2
    <3>4. CASE BindFails(d)
      <4>1. OwnsSoFar'
        BY <3>4, <2>0, <1>0 DEF BindFails, Running, Ended
      <4>2. OwnsToDrop'
        BY <3>4, <2>0, <1>0 DEF BindFails, Running, Ended
      <4> QED
        BY <4>1, <4>2
    <3>5. CASE ApplyMode(d)
      <4>0. /\ pc[d] = "mode" /\ UNCHANGED <<at, open, crowded>>
            /\ modeBy' = [modeBy EXCEPT ![slot[d]] = d]
            /\ slot[d] \in open[d] /\ slot[d] \in Nat
            /\ d \notin crowded => at[slot[d]] = d
        BY <3>5, <1>0 DEF ApplyMode
      <4>1. d \notin crowded => \A s \in Slots : s < slot[d] \/ s = slot[d] =>
                at[s] = d /\ modeBy'[s] = d /\ s \in open[d]
        BY <4>0, <1>0
      <4>2. CASE slot[d] = SupervisionSlot
        <5>0. pc' = [pc EXCEPT ![d] = "serving"] /\ slot' = slot
          BY <3>5, <4>2 DEF ApplyMode
        <5>1. \A s \in Slots : s < slot[d] \/ s = slot[d]
          BY <4>2, SocketPathsAssumption DEF Slots, SupervisionSlot
        <5>2. d \notin crowded =>
                  \A s \in Slots : at[s] = d /\ modeBy'[s] = d /\ s \in open[d]
          BY <4>1, <5>1
        <5>3. OwnsSoFar'
          BY <2>0, <4>0, <5>0, <5>2, <1>0
        <5>4. OwnsToDrop'
          BY <2>0, <4>0, <5>0, <1>0
        <5> QED
          BY <5>3, <5>4
      <4>3. CASE slot[d] # SupervisionSlot
        <5>0. /\ pc' = [pc EXCEPT ![d] = "remove"]
              /\ slot' = [slot EXCEPT ![d] = slot[d] + 1]
          BY <3>5, <4>3 DEF ApplyMode
        <5>1. d \notin crowded => \A s \in Slots : s < slot[d] + 1 =>
                  at[s] = d /\ modeBy'[s] = d /\ s \in open[d]
          BY <4>0, <4>1, SlotOrder
        <5>2. OwnsSoFar'
          BY <2>0, <4>0, <5>0, <5>1, <1>0
        <5>3. OwnsToDrop'
          BY <2>0, <4>0, <5>0, <1>0
        <5> QED
          BY <5>2, <5>3
      <4> QED
        BY <4>2, <4>3
    <3>6. CASE ApplyModeFails(d)
      <4>1. OwnsSoFar'
        BY <3>6, <2>0, <1>0 DEF ApplyModeFails, Running, Ended
      <4>2. ASSUME d \notin crowded, NEW s \in Slots, s \in Held(d), s # slot[d]
            PROVE  at[s] = d
        <5>1. pc[d] = "mode" /\ s \in Nat /\ slot[d] \in Nat /\ s <= slot[d]
          BY <3>6, <4>2, <1>0 DEF ApplyModeFails
        <5>2. s < slot[d]
          BY <5>1, <4>2, SlotOrder
        <5> QED
          BY <5>1, <5>2, <4>2
      <4>3. OwnsToDrop'
        BY <4>2, <3>6, <2>0, <1>0 DEF ApplyModeFails, Running, Ended
      <4> QED
        BY <4>1, <4>3
    <3>7. CASE CloseSupervision(d)
      <4>1. OwnsSoFar'
        BY <3>7, <2>0, <1>0 DEF CloseSupervision, Running, Ended
      <4>2. OwnsToDrop'
        BY <3>7, <2>0, <1>0 DEF CloseSupervision, Running, Ended
      <4> QED
        BY <4>1, <4>2
    <3>8. CASE Return(d)
      <4>1. OwnsSoFar'
        BY <3>8, <2>0, <1>0 DEF Return, Running, Ended
      <4>2. OwnsToDrop'
        BY <3>8, <2>0, <1>0 DEF Return, Running, Ended
      <4> QED
        BY <4>1, <4>2
    <3>9. CASE DropUnlink(d)
      <4>0. /\ pc' = [pc EXCEPT ![d] = "close"] /\ UNCHANGED <<slot, open, crowded>>
            /\ pc[d] = "drop"
        BY <3>9 DEF DropUnlink
      <4>1. OwnsSoFar'
        BY <2>0, <4>0, <1>0
      <4>2. PICK first \in Slots : FirstHeld(d, first) /\ (Unlink(first) \/ at' = at)
        BY <3>9 DEF DropUnlink
      <4>3. ASSUME d \notin crowded, NEW s \in Slots, s \in Held(d)', ~FirstHeld(d, s)'
            PROVE  at'[s] = d
        BY <4>0, <4>2, <4>3, <1>0 DEF Unlink
      <4>4. OwnsToDrop'
        BY <2>0, <4>0, <4>3, <1>0
      <4> QED
        BY <4>1, <4>4
    <3>10. CASE DropClose(d)
      <4>0. /\ pc' = [pc EXCEPT ![d] = "drop"] /\ UNCHANGED <<at, slot, crowded>>
            /\ pc[d] = "close"
        BY <3>10 DEF DropClose
      <4>1. OwnsSoFar'
        BY <3>10, <2>0, <1>0 DEF DropClose
      <4>2. PICK first \in Slots :
                FirstHeld(d, first) /\ open' = [open EXCEPT ![d] = @ \ {first}]
        BY <3>10 DEF DropClose
      <4>3. ASSUME d \notin crowded, NEW s \in Slots, s \in Held(d), s # first
            PROVE  at[s] = d
        <5>1. s \in Nat /\ first \in Nat /\ first \in Held(d) /\ first <= s
          BY <4>2, <4>3
        <5>2. ~(s <= first)
          BY <5>1, <4>3, SlotOrder
        <5>3. ~FirstHeld(d, s)
          BY <5>1, <5>2
        <5> QED
          BY <5>3, <4>3, <4>0
      <4>4. OwnsToDrop'
        <5>1. ASSUME d \notin crowded, NEW s \in Slots, s \in Held(d)'
              PROVE  at'[s] = d
          BY <4>0, <5>1, <4>2, <4>3, <1>0
        <5> QED
          BY <2>0, <4>0, <5>1, <1>0
      <4> QED
        BY <4>1, <4>4
    <3>11. CASE ProcessEnds(d)
      <4>1. OwnsSoFar'
        BY <3>11, <2>0, <1>0 DEF ProcessEnds, Running, Ended
      <4>2. OwnsToDrop'
        BY <3>11, <2>0, <1>0 DEF ProcessEnds, Running, Ended
      <4> QED
        BY <4>1, <4>2
    <3>12. CASE Killed(d)
      <4>1. OwnsSoFar'
        BY <3>12, <2>0, <1>0 DEF Killed, Running, Ended
      <4>2. OwnsToDrop'
        BY <3>12, <2>0, <1>0 DEF Killed, Running, Ended
      <4> QED
        BY <4>1, <4>2
    <3> QED
      BY <1>2, <3>1, <3>2, <3>3, <3>4, <3>5, <3>6, <3>7, <3>8, <3>9,
         <3>10, <3>11, <3>12 DEF Daemon
  <2> QED
    BY <2>1, <2>2, <2>3
<1> QED
  BY <1>0, <1>1, <1>2 DEF Next, AloneInv

LEMMA AloneInvariant == Spec => []AloneInv
BY AloneInit, AloneStep, PTL DEF Spec

\* However the daemons before it ended, however those overlapped, and whatever
\* could not be removed: a daemon that has had no other one beside it and serves
\* is reached at all of its paths.
THEOREM AloneOwnsPathsHolds == Spec => []AloneOwnsPaths
<1>1. AloneInv => AloneOwnsPaths
  BY DEF AloneInv, OwnsSoFar, AloneOwnsPaths, Serving, OwnsPaths, Held
<1> QED
  BY <1>1, AloneInvariant, PTL

\* Where daemons do not overlap, that is every daemon.
THEOREM ServingOwnsPathsHolds == ~Overlaps => (Spec => []ServingOwnsPaths)
<1>1. CASE ~Overlaps
  <2>1. AloneInv => ServingOwnsPaths
    BY <1>1 DEF AloneInv, OwnsSoFar, ServingOwnsPaths, Serving, OwnsPaths, Held
  <2> QED
    BY <2>1, AloneInvariant, PTL
<1> QED
  BY <1>1

-----------------------------------------------------------------------------
(***************************************************************************)
(* The refinement                                                          *)
(***************************************************************************)

LEMMA OwnershipInit == Init => Ownership!Init
BY DEF Init, Ownership!Init, StatusOf

LEMMA OwnershipStep ==
    ~Overlaps /\ AloneInv /\ [Next]_vars => [Ownership!Next]_(Ownership!ownershipVars)
<1> SUFFICES ASSUME ~Overlaps, AloneInv, [Next]_vars
             PROVE  [Ownership!Next]_(Ownership!ownershipVars)
  OBVIOUS
<1> DEFINE status == [d \in Daemons |-> StatusOf(d)]
<1>0. TypeOK /\ TypeOK'
  BY TypeStep DEF AloneInv, PathsInv
<1>01. crowded = {} /\ crowded' = {} /\ Alone
  BY AloneStep DEF AloneInv
<1>1. CASE UNCHANGED vars
  BY <1>1 DEF vars, Ownership!ownershipVars, StatusOf
<1>2. ASSUME NEW d \in Daemons, Daemon(d)
      PROVE  [Ownership!Next]_(Ownership!ownershipVars)
  <2>0. \A e \in Daemons : e # d => pc[e] \in {"idle", "ended", "killed"}
    BY <1>0, <1>01, <1>2, OthersAreStill
  <2>1. CASE Start(d)
    <3>1. Ownership!Begin(d)
      BY <2>1, <1>0 DEF Start, GoTo, TypeOK, Running, Ended, StatusOf,
                        Ownership!Begin, Ownership!Become
    <3> QED
      BY <3>1 DEF Ownership!Next
  <2>2. CASE RemoveFile(d)
    <3>1. pc[d] = "remove" /\ slot[d] \in Slots
      BY <2>2, <1>0 DEF RemoveFile, TypeOK
    <3>2. ASSUME NEW e \in Daemons, at[slot[d]] = e
          PROVE  StatusOf(e) = "gone"
      <4>1. e # d
        <5>1. slot[d] \in Nat
          BY <3>1, SlotFacts
        <5>2. ~(slot[d] < slot[d])
          BY <5>1
        <5> QED
          BY <3>1, <3>2, <5>2 DEF AloneInv, PathsInv, BoundInOrder
      <4>2. pc[e] # "idle"
        BY <3>1, <3>2 DEF AloneInv, PathsInv, BoundInOrder
      <4> QED
        BY <2>0, <4>1, <4>2 DEF StatusOf
    <3>3. status' = status
      BY <2>2, <1>0 DEF RemoveFile, GoTo, TypeOK, StatusOf
    <3>4. CASE Unlink(slot[d])
      <4>1. at[slot[d]] # NoDaemon => status[at[slot[d]]] = "gone"
        BY <3>1, <3>2, <1>0 DEF TypeOK
      <4>2. status[d] = "opening"
        BY <3>1 DEF StatusOf
      <4>3. at' = [at EXCEPT ![slot[d]] = NoDaemon]
        BY <3>4 DEF Unlink
      <4>4. Ownership!Clear(d, slot[d])
        BY <4>1, <4>2, <4>3, <3>3 DEF Ownership!Clear
      <4> QED
        BY <3>1, <4>4 DEF Ownership!Next
    <3>5. CASE UNCHANGED <<at, modeBy>>
      BY <3>3, <3>5 DEF Ownership!ownershipVars
    <3> QED
      BY <2>2, <3>4, <3>5 DEF RemoveFile
  <2>3. CASE Bind(d)
    <3>1. Ownership!Claim(d, slot[d])
      BY <2>3, <1>0 DEF Bind, GoTo, TypeOK, StatusOf, Ownership!Claim
    <3> QED
      BY <3>1, <1>0 DEF Ownership!Next, TypeOK
  <2>4. CASE BindFails(d) \/ ApplyModeFails(d) \/ Return(d)
    <3>1. Ownership!Leave(d)
      BY <2>4, <1>0 DEF BindFails, ApplyModeFails, Return, GoTo, TypeOK, StatusOf,
                        Ownership!Leave, Ownership!Become
    <3> QED
      BY <3>1 DEF Ownership!Next
  <2>5. CASE ApplyMode(d)
    <3>0. pc[d] = "mode" /\ slot[d] \in Slots /\ at' = at
      BY <2>5, <1>0 DEF ApplyMode, TypeOK
    <3>1. CASE slot[d] = SupervisionSlot
      <4>1. \A s \in Slots : at[s] = d
        <5>1. \A s \in Slots : s < slot[d] \/ s = slot[d]
          BY <3>1, SocketPathsAssumption DEF Slots, SupervisionSlot
        <5> QED
          BY <5>1, <3>0, <1>01 DEF AloneInv, OwnsSoFar, Opening
      <4>2. status[d] = "opening"
        BY <3>0 DEF StatusOf
      <4>3. status' = [status EXCEPT ![d] = "serving"]
        BY <2>5, <3>1, <1>0 DEF ApplyMode, GoTo, TypeOK, StatusOf
      <4>4. Ownership!Serve(d)
        BY <4>1, <4>2, <4>3, <3>0 DEF Ownership!Serve, Ownership!Become
      <4> QED
        BY <4>4 DEF Ownership!Next
    <3>2. CASE slot[d] # SupervisionSlot
      <4>1. status' = status
        BY <2>5, <3>2, <1>0 DEF ApplyMode, GoTo, TypeOK, StatusOf
      <4> QED
        BY <4>1, <3>0 DEF Ownership!ownershipVars
    <3> QED
      BY <3>1, <3>2
  <2>6. CASE CloseSupervision(d) \/ DropClose(d)
    <3>1. at' = at /\ status' = status
      BY <2>6, <1>0 DEF CloseSupervision, DropClose, GoTo, TypeOK, StatusOf
    <3> QED
      BY <3>1 DEF Ownership!ownershipVars
  <2>7. CASE DropUnlink(d)
    <3>1. PICK first \in Slots :
              FirstHeld(d, first) /\ (Unlink(first) \/ UNCHANGED <<at, modeBy>>)
      BY <2>7 DEF DropUnlink
    <3>2. at[first] = d
      BY <2>7, <3>1, <1>01 DEF DropUnlink, AloneInv, OwnsToDrop, FirstHeld
    <3>3. status' = status /\ status[d] = "leaving"
      BY <2>7, <1>0 DEF DropUnlink, GoTo, TypeOK, StatusOf
    <3>4. CASE Unlink(first)
      <4>1. Ownership!Withdraw(d, first)
        BY <3>2, <3>3, <3>4 DEF Unlink, Ownership!Withdraw
      <4> QED
        BY <4>1 DEF Ownership!Next
    <3>5. CASE UNCHANGED <<at, modeBy>>
      BY <3>3, <3>5 DEF Ownership!ownershipVars
    <3> QED
      BY <3>1, <3>4, <3>5
  <2>8. CASE ProcessEnds(d) \/ Killed(d)
    <3>1. status' = [status EXCEPT ![d] = "gone"] /\ at' = at
      BY <2>8, <1>0 DEF ProcessEnds, Killed, GoTo, TypeOK, StatusOf
    <3>2. status[d] \in {"opening", "serving", "leaving"}
      BY <2>8, <1>0 DEF ProcessEnds, Killed, Running, Ended, TypeOK, StatusOf
    <3>3. Ownership!End(d)
      BY <3>1, <3>2 DEF Ownership!End, Ownership!Become
    <3> QED
      BY <3>3 DEF Ownership!Next
  <2> QED
    BY <1>2, <2>1, <2>2, <2>3, <2>4, <2>5, <2>6, <2>7, <2>8 DEF Daemon
<1> QED
  BY <1>1, <1>2 DEF Next

\* Daemons that run one after another implement exclusive ownership.
THEOREM RefinesOwnershipHolds == ~Overlaps => (Spec => RefinesOwnership)
<1>1. CASE ~Overlaps
  <2>1. AloneInv /\ [Next]_vars => [Ownership!Next]_(Ownership!ownershipVars)
    BY <1>1, OwnershipStep
  <2>2. Spec => []AloneInv
    BY AloneInvariant
  <2> QED
    BY <2>1, <2>2, OwnershipInit, PTL DEF Spec, RefinesOwnership, Ownership!Spec
<1> QED
  BY <1>1

=============================================================================
