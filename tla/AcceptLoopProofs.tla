--------------------------- MODULE AcceptLoopProofs ---------------------------
(***************************************************************************)
(* The accept loop after a stop was asked for, for any number of listeners *)
(* and any backlog: it serves at most one client more, although new ones   *)
(* may never cease to arrive.                                              *)
(***************************************************************************)
EXTENDS AcceptLoop, TLAPS

\* No client is late before the flag is raised, one at most is afterwards, and
\* with it served the loop does not come back to the listeners.
LateInv ==
    /\ TypeOK
    /\ ~stop => late = 0
    /\ late <= 1
    /\ late = 1 => loop # "poll"

LEMMA LateInit == Init => LateInv
<1> SUFFICES ASSUME Init PROVE LateInv
  OBVIOUS
<1>1. 0 \in 0 .. Backlog /\ 1 \in Listeners
  BY AcceptLoopAssumption DEF Listeners
<1>2. queue \in [Listeners -> 0 .. Backlog]
  BY <1>1 DEF Init
<1>3. polled \in Listeners /\ loop = "check" /\ stop \in BOOLEAN /\ late = 0
  BY <1>1 DEF Init
<1>4. QED
  BY <1>2, <1>3 DEF LateInv, TypeOK

LEMMA LateStep == LateInv /\ [Next]_vars => LateInv'
<1> SUFFICES ASSUME LateInv, [Next]_vars PROVE LateInv'
  OBVIOUS
<1> USE AcceptLoopAssumption DEF LateInv, TypeOK, Listeners
<1>1. CASE CheckStop
  BY <1>1 DEF CheckStop
<1>2. CASE Accept
  <2>1. polled \in Listeners /\ queue[polled] \in 0 .. Backlog /\ queue[polled] > 0
    BY <1>2 DEF Accept
  <2>2. queue' \in [Listeners -> 0 .. Backlog]
    <3>1. queue[polled] - 1 \in 0 .. Backlog
      BY <2>1
    <3>2. QED
      BY <1>2, <2>1, <3>1 DEF Accept
  \* The loop was polling, so that no client was late yet.
  <2>3. late = 0 /\ late' \in 0 .. 1 /\ (~stop' => late' = 0)
    BY <1>2 DEF Accept
  <2>4. QED
    BY <1>2, <2>2, <2>3 DEF Accept
<1>3. CASE WouldBlock
  BY <1>3 DEF WouldBlock
<1>4. CASE Served
  BY <1>4 DEF Served
<1>5. CASE RequestStop
  BY <1>5 DEF RequestStop
<1>6. ASSUME NEW b \in Listeners, Arrive(b) PROVE LateInv'
  <2>1. queue[b] + 1 \in 0 .. Backlog
    BY <1>6 DEF Arrive
  <2>2. queue' \in [Listeners -> 0 .. Backlog]
    BY <1>6, <2>1 DEF Arrive
  <2>3. QED
    BY <1>6, <2>2 DEF Arrive
<1>7. CASE UNCHANGED vars
  BY <1>7 DEF vars
<1>8. QED
  BY <1>1, <1>2, <1>3, <1>4, <1>5, <1>6, <1>7 DEF Next, Loop

LEMMA LateInvariant == Spec => []LateInv
BY LateInit, LateStep, PTL DEF Spec

\* No listener's queue leaves its bounds, and none but a listener is polled
\* (accept_one).
THEOREM AcceptTypeCorrect == Spec => []TypeOK
<1>1. LateInv => TypeOK
  BY DEF LateInv
<1>2. QED
  BY <1>1, LateInvariant, PTL

\* Once a stop was asked for, one more client is served at most, however many
\* wait and on however many listeners (serve, accept_one).
THEOREM OneMoreHolds == Spec => []OneMoreAtMost
<1>1. LateInv => OneMoreAtMost
  BY DEF LateInv, OneMoreAtMost
<1>2. QED
  BY <1>1, LateInvariant, PTL
=============================================================================
