--------------------------- MODULE SupervisionProofs ---------------------------
(***************************************************************************)
(* Theorems about Supervision, for every set of supervisors and every      *)
(* bound: its types, the order of the replies, the one acknowledgement of  *)
(* a stop, and what raises the stop flag.                                  *)
(***************************************************************************)
EXTENDS Supervision, SequenceTheorems, TLAPS

USE DEF serverVars, supervisorVars, supervisionVars

-----------------------------------------------------------------------------
(***************************************************************************)
(* The inductive invariant                                                 *)
(***************************************************************************)

\* The places of serve_connection.
Serving == {"read", "ask", "write", "written"}

\* A supervisor is served exactly in serve_connection, and what is asked is
\* the frame that was read last.
ControlInv ==
    /\ spc \in Serving => peer \in Supervisors /\ connection[peer] = "accepted"
    /\ spc \in {"ask", "write"} =>
           /\ taken[peer] > 0
           /\ asking = <<asked[peer][taken[peer]]>> /\ asking[1] \in Requests
    /\ spc = "write" => replying = <<ReplyTo(asking[1])>>
    /\ \A v \in Supervisors : taken[v] <= Len(asked[v])

\* A connection is queued once, and nothing is read from it or written to it
\* before it is accepted.
QueueInv ==
    /\ \A v \in Supervisors : supervisorEnd[v] = "idle" => connection[v] = "none"
    /\ \A v \in Supervisors : connection[v] \in {"none", "queued"} =>
           taken[v] = 0 /\ replies[v] = <<>>
    /\ \A k \in DOMAIN supervisorQueue : connection[supervisorQueue[k]] = "queued"
    /\ \A j, k \in DOMAIN supervisorQueue :
           supervisorQueue[j] = supervisorQueue[k] => j = k

\* Every reply answers the frame in its place; the supervisor that is served
\* has all of its replies, or all but that to the request in hand.
AnswerInv ==
    /\ \A v \in Supervisors :
           /\ Len(replies[v]) <= taken[v]
           /\ \A k \in DOMAIN replies[v] :
                  asked[v][k] \in Requests /\ replies[v][k] = ReplyTo(asked[v][k])
    /\ spc \in {"read", "written"} => Len(replies[peer]) = taken[peer]
    /\ spc \in {"ask", "write"} => Len(replies[peer]) + 1 = taken[peer]

\* After an acknowledgement the thread is on its way out: a place that reads
\* or accepts is not reached again.
AcknowledgementInv ==
    /\ spc = "write" /\ asking[1] = "GracefulStopRequest" => stopRequested
    /\ \A v \in Supervisors : \A k \in DOMAIN replies[v] :
           replies[v][k] = "GracefulStopAcknowledgement" =>
               /\ stopRequested
               /\ k = Len(replies[v])
               /\ spc \in {"written", "check", "done", "gone"}
               /\ \A w \in Supervisors \ {v} : \A j \in DOMAIN replies[w] :
                      replies[w][j] # "GracefulStopAcknowledgement"

SupervisionInv ==
    TypeOK /\ ControlInv /\ QueueInv /\ AnswerInv /\ AcknowledgementInv

-----------------------------------------------------------------------------
(***************************************************************************)
(* Lemmas about the steps                                                  *)
(***************************************************************************)

\* A frame, once written, stays in its place.
LEMMA FramesStay ==
    ASSUME TypeOK, NEW v \in Supervisors, Ask(v)
    PROVE  \A w \in Supervisors :
               /\ asked'[w] \in Seq(Frames)
               /\ Len(asked[w]) <= Len(asked'[w])
               /\ \A k \in 1 .. Len(asked[w]) : asked'[w][k] = asked[w][k]
<1>1. PICK frame \in Frames : asked' = [asked EXCEPT ![v] = Append(@, frame)]
  BY DEF Ask
<1>2. \A w \in Supervisors : asked[w] \in Seq(Frames) /\ Len(asked[w]) \in Nat
  BY LenProperties DEF TypeOK
<1>3. /\ asked'[v] = Append(asked[v], frame)
      /\ \A w \in Supervisors : w # v => asked'[w] = asked[w]
  BY <1>1 DEF TypeOK
<1> QED
  BY <1>2, <1>3, AppendProperties

\* The connection at the head of the queue.
LEMMA HeadOfQueue ==
    ASSUME TypeOK, QueueInv, supervisorQueue # <<>>
    PROVE  LET v == Head(supervisorQueue) IN
           /\ v \in Supervisors /\ connection[v] = "queued"
           /\ Tail(supervisorQueue) \in Seq(Supervisors)
           /\ \A k \in DOMAIN Tail(supervisorQueue) :
                  /\ k + 1 \in DOMAIN supervisorQueue
                  /\ Tail(supervisorQueue)[k] = supervisorQueue[k + 1]
                  /\ Tail(supervisorQueue)[k] # v
<1>1. supervisorQueue \in Seq(Supervisors)
  BY DEF TypeOK
<1>2. 1 \in DOMAIN supervisorQueue /\ Head(supervisorQueue) = supervisorQueue[1]
  BY <1>1, LenProperties, EmptySeq
<1>3. \A k \in DOMAIN Tail(supervisorQueue) :
          /\ k + 1 \in DOMAIN supervisorQueue /\ k + 1 # 1
          /\ Tail(supervisorQueue)[k] = supervisorQueue[k + 1]
  BY <1>1, HeadTailProperties, LenProperties
<1>4. Head(supervisorQueue) \in Supervisors /\ Tail(supervisorQueue) \in Seq(Supervisors)
  BY <1>1, HeadTailProperties
<1> QED
  BY <1>2, <1>3, <1>4 DEF QueueInv

\* The frame that is read next is one that was written.
LEMMA NextFrameWritten ==
    ASSUME TypeOK, ControlInv, spc = "read", Unread(peer)
    PROVE  /\ peer \in Supervisors
           /\ taken[peer] \in Nat
           /\ taken[peer] + 1 <= Len(asked[peer])
<1>1. peer \in Supervisors /\ taken[peer] \in Nat /\ Len(asked[peer]) \in Nat
  BY LenProperties DEF TypeOK, ControlInv, Serving
<1> QED
  BY <1>1 DEF Unread

-----------------------------------------------------------------------------
(***************************************************************************)
(* Every step keeps the types                                              *)
(***************************************************************************)

LEMMA TypeStep ==
    ASSUME SupervisionInv, Next
    PROVE  TypeOK'
<1> USE DEF SupervisionInv, TypeOK
<1>1. CASE Spawn \/ StartRuntime \/ AcceptNothing \/ NextRequest
  BY <1>1 DEF Spawn, StartRuntime, AcceptNothing, NextRequest
<1>2. CASE Check \/ RuntimeFails
  <2>1. <<>> \in Seq(Supervisors)
    BY EmptySeq
  <2> QED
    BY <1>2, <2>1 DEF Check, RuntimeFails, CloseListener
<1>3. CASE Accept
  BY <1>3, HeadOfQueue DEF Accept
<1>4. CASE ReadRequest
  <2>1. asking' \in {<<request>> : request \in Requests}
    BY <1>4 DEF ReadRequest
  <2>2. peer \in Supervisors
    BY <1>4, NextFrameWritten DEF ReadRequest
  <2>3. taken' \in [Supervisors -> Nat]
    BY <1>4, <2>2 DEF ReadRequest
  <2> QED
    BY <1>4, <2>1, <2>3 DEF ReadRequest
<1>5. CASE ReadRequestFails
  <2>1. taken' \in [Supervisors -> Nat]
    BY <1>5 DEF ReadRequestFails
  <2> QED
    BY <1>5, <2>1 DEF ReadRequestFails, Drop
<1>6. CASE Handle
  <2>1. asking[1] \in Requests
    BY <1>6 DEF Handle, ControlInv
  <2>2. requestCount' \in 0 .. MaxRequestCount
    BY <1>6, SupervisionAssumption DEF Handle, SaturatingAddOne
  <2> QED
    BY <1>6, <2>1, <2>2 DEF Handle
<1>7. CASE WriteReply
  <2>1. peer \in Supervisors /\ replying[1] \in {ReplyTo(request) : request \in Requests}
    BY <1>7 DEF WriteReply, ControlInv, Serving
  <2>2. Append(replies[peer], replying[1]) \in Seq({ReplyTo(request) : request \in Requests})
    BY <2>1, AppendProperties
  <2> QED
    BY <1>7, <2>1, <2>2 DEF WriteReply
<1>8. CASE WriteReplyFails \/ NoNextRequest
  BY <1>8 DEF WriteReplyFails, NoNextRequest, Drop
<1>9. CASE ProcessEnds
  <2>1. <<>> \in Seq(Supervisors)
    BY EmptySeq
  <2> QED
    BY <1>9, <2>1 DEF ProcessEnds
<1>10. ASSUME NEW v \in Supervisors, Connect(v) PROVE TypeOK'
  <2>1. Append(supervisorQueue, v) \in Seq(Supervisors)
    BY AppendProperties
  <2> QED
    BY <1>10, <2>1 DEF Connect
<1>11. ASSUME NEW v \in Supervisors, Ask(v) PROVE TypeOK'
  <2>1. \A w \in Supervisors : asked'[w] \in Seq(Frames)
    BY <1>11, FramesStay
  <2>2. asked' \in [Supervisors -> Seq(Frames)]
    BY <1>11, <2>1 DEF Ask
  <2> QED
    BY <1>11, <2>2 DEF Ask
<1>12. ASSUME NEW v \in Supervisors, HangUp(v) PROVE TypeOK'
  BY <1>12 DEF HangUp
<1> QED
  BY <1>1, <1>2, <1>3, <1>4, <1>5, <1>6, <1>7, <1>8, <1>9, <1>10, <1>11, <1>12
     DEF Next, Server, Supervisor

-----------------------------------------------------------------------------
(***************************************************************************)
(* Every step keeps what holds of the request in hand                      *)
(***************************************************************************)

LEMMA ControlStep ==
    ASSUME SupervisionInv, Next
    PROVE  ControlInv'
<1> USE DEF SupervisionInv, TypeOK, ControlInv, Serving
<1>1. CASE Spawn \/ StartRuntime \/ AcceptNothing \/ NextRequest
  BY <1>1 DEF Spawn, StartRuntime, AcceptNothing, NextRequest
<1>10. CASE Check \/ RuntimeFails \/ ProcessEnds
  BY <1>10 DEF Check, RuntimeFails, CloseListener, ProcessEnds
<1>2. CASE Accept
  BY <1>2, HeadOfQueue DEF Accept
<1>3. CASE ReadRequest
  <2>1. /\ peer \in Supervisors /\ taken[peer] \in Nat
        /\ taken[peer] + 1 <= Len(asked[peer])
    BY <1>3, NextFrameWritten DEF ReadRequest
  <2>2. /\ taken' = [taken EXCEPT ![peer] = @ + 1]
        /\ asking' = <<asked[peer][taken[peer] + 1]>> /\ asking'[1] \in Requests
        /\ UNCHANGED <<peer, asked, connection>> /\ spc' = "ask"
    BY <1>3 DEF ReadRequest, NextFrame
  <2> QED
    BY <1>3, <2>1, <2>2 DEF ReadRequest
<1>4. CASE ReadRequestFails
  <2>1. \A v \in Supervisors : taken'[v] <= Len(asked[v])
    BY <1>4, NextFrameWritten DEF ReadRequestFails
  <2> QED
    BY <1>4, <2>1 DEF ReadRequestFails, Drop
<1>5. CASE Handle
  BY <1>5 DEF Handle
<1>6. CASE WriteReply \/ WriteReplyFails \/ NoNextRequest
  BY <1>6 DEF WriteReply, WriteReplyFails, NoNextRequest, Drop
<1>7. ASSUME NEW v \in Supervisors, Connect(v) PROVE ControlInv'
  <2>1. connection[v] = "none"
    BY <1>7 DEF Connect, QueueInv
  <2> QED
    BY <1>7, <2>1 DEF Connect
<1>8. ASSUME NEW v \in Supervisors, Ask(v) PROVE ControlInv'
  <2>1. \A w \in Supervisors : taken[w] \in Nat /\ Len(asked[w]) \in Nat /\ Len(asked'[w]) \in Nat
    BY <1>8, FramesStay, LenProperties
  <2>2. \A w \in Supervisors :
            /\ Len(asked[w]) <= Len(asked'[w])
            /\ \A k \in 1 .. Len(asked[w]) : asked'[w][k] = asked[w][k]
    BY <1>8, FramesStay
  <2>3. \A w \in Supervisors :
            /\ taken[w] <= Len(asked'[w])
            /\ taken[w] > 0 => asked'[w][taken[w]] = asked[w][taken[w]]
    BY <2>1, <2>2
  <2> QED
    BY <1>8, <2>3 DEF Ask
<1>9. ASSUME NEW v \in Supervisors, HangUp(v) PROVE ControlInv'
  BY <1>9 DEF HangUp
<1> QED
  BY <1>1, <1>2, <1>3, <1>4, <1>5, <1>6, <1>7, <1>8, <1>9, <1>10
     DEF Next, Server, Supervisor

-----------------------------------------------------------------------------
(***************************************************************************)
(* Every step keeps the queue                                              *)
(***************************************************************************)

LEMMA QueueStep ==
    ASSUME SupervisionInv, Next
    PROVE  QueueInv'
<1> USE DEF SupervisionInv
<1>0. /\ supervisorQueue \in Seq(Supervisors)
      /\ connection \in [Supervisors -> {"none", "queued", "accepted", "closed"}]
      /\ supervisorEnd \in [Supervisors -> {"idle", "open", "closed"}]
      /\ taken \in [Supervisors -> Nat]
  BY DEF TypeOK
<1>1. \A k \in DOMAIN supervisorQueue : supervisorQueue[k] \in Supervisors
  BY <1>0, LenProperties, ElementOfSeq
<1>2. CASE Spawn \/ StartRuntime \/ AcceptNothing \/ NextRequest \/ Handle
  BY <1>2 DEF Spawn, StartRuntime, AcceptNothing, NextRequest, Handle, QueueInv
<1>3. CASE Check \/ RuntimeFails \/ ProcessEnds
  BY <1>0, <1>1, <1>3 DEF Check, RuntimeFails, CloseListener, ProcessEnds, QueueInv
<1>4. CASE Accept
  <2>1. /\ supervisorQueue' = Tail(supervisorQueue)
        /\ connection' = [connection EXCEPT ![Head(supervisorQueue)] = "accepted"]
        /\ UNCHANGED <<supervisorEnd, taken, replies>>
    BY <1>4 DEF Accept
  <2>2. \A k \in DOMAIN supervisorQueue' :
            /\ k + 1 \in DOMAIN supervisorQueue
            /\ supervisorQueue'[k] = supervisorQueue[k + 1]
            /\ supervisorQueue'[k] # Head(supervisorQueue)
    BY <1>4, <2>1, HeadOfQueue DEF Accept
  <2>3. \A k \in DOMAIN supervisorQueue' : connection'[supervisorQueue'[k]] = "queued"
    BY <1>0, <1>1, <2>1, <2>2 DEF QueueInv
  <2>4. \A j, k \in DOMAIN supervisorQueue' :
            supervisorQueue'[j] = supervisorQueue'[k] => j = k
    <3>1. DOMAIN supervisorQueue' \subseteq Nat
      BY <1>4, <2>1, HeadOfQueue, LenProperties DEF Accept
    <3> QED
      BY <2>2, <3>1 DEF QueueInv
  <2>5. Head(supervisorQueue) \in Supervisors /\ connection[Head(supervisorQueue)] = "queued"
    BY <1>4, HeadOfQueue DEF Accept
  <2> QED
    BY <1>0, <2>1, <2>3, <2>4, <2>5 DEF QueueInv
<1>5. CASE ReadRequest
  BY <1>0, <1>1, <1>5 DEF ReadRequest, QueueInv, ControlInv, Serving
<1>6. CASE WriteReply
  BY <1>0, <1>1, <1>6 DEF WriteReply, QueueInv, ControlInv, Serving
<1>7. CASE ReadRequestFails \/ WriteReplyFails \/ NoNextRequest
  <2>1. /\ peer \in Supervisors /\ connection[peer] = "accepted"
        /\ connection' = [connection EXCEPT ![peer] = "closed"]
        /\ UNCHANGED <<supervisorQueue, supervisorEnd, replies>>
        /\ \A v \in Supervisors : v # peer => taken'[v] = taken[v]
    BY <1>0, <1>7 DEF ReadRequestFails, WriteReplyFails, NoNextRequest, Drop,
                      ControlInv, Serving
  <2> QED
    BY <1>0, <1>1, <2>1 DEF QueueInv
<1>8. ASSUME NEW v \in Supervisors, Connect(v) PROVE QueueInv'
  <2>1. /\ connection[v] = "none"
        /\ supervisorQueue' = Append(supervisorQueue, v)
        /\ connection' = [connection EXCEPT ![v] = "queued"]
        /\ supervisorEnd' = [supervisorEnd EXCEPT ![v] = "open"]
        /\ UNCHANGED <<taken, replies>>
    BY <1>8 DEF Connect, QueueInv
  <2>2. \A k \in DOMAIN supervisorQueue : supervisorQueue[k] # v
    BY <1>1, <2>1 DEF QueueInv
  <2>3. /\ DOMAIN supervisorQueue' = DOMAIN supervisorQueue \cup {Len(supervisorQueue) + 1}
        /\ supervisorQueue'[Len(supervisorQueue) + 1] = v
        /\ \A k \in DOMAIN supervisorQueue : supervisorQueue'[k] = supervisorQueue[k]
    BY <1>0, <2>1, AppendProperties, LenProperties
  <2>4. \A k \in DOMAIN supervisorQueue' : connection'[supervisorQueue'[k]] = "queued"
    BY <1>0, <1>1, <2>1, <2>2, <2>3 DEF QueueInv
  <2>5. \A j, k \in DOMAIN supervisorQueue' :
            supervisorQueue'[j] = supervisorQueue'[k] => j = k
    BY <2>2, <2>3 DEF QueueInv
  <2> QED
    BY <1>0, <2>1, <2>4, <2>5 DEF QueueInv
<1>9. ASSUME NEW v \in Supervisors, Ask(v) \/ HangUp(v) PROVE QueueInv'
  BY <1>0, <1>1, <1>9 DEF Ask, HangUp, QueueInv
<1> QED
  BY <1>2, <1>3, <1>4, <1>5, <1>6, <1>7, <1>8, <1>9 DEF Next, Server, Supervisor

-----------------------------------------------------------------------------
(***************************************************************************)
(* Every step keeps the replies in step with the frames                    *)
(***************************************************************************)

LEMMA AnswerStep ==
    ASSUME SupervisionInv, Next
    PROVE  AnswerInv'
<1> USE DEF SupervisionInv
<1>0. /\ taken \in [Supervisors -> Nat]
      /\ replies \in [Supervisors -> Seq({ReplyTo(request) : request \in Requests})]
      /\ \A v \in Supervisors : Len(replies[v]) \in Nat /\ Len(asked[v]) \in Nat
  BY LenProperties DEF TypeOK
<1>1. CASE Spawn \/ StartRuntime \/ AcceptNothing \/ NextRequest \/ Handle
  BY <1>1 DEF Spawn, StartRuntime, AcceptNothing, NextRequest, Handle, AnswerInv
<1>9. CASE Check \/ RuntimeFails \/ ProcessEnds
  BY <1>9 DEF Check, RuntimeFails, CloseListener, ProcessEnds, AnswerInv
<1>2. CASE Accept
  <2>1. /\ taken[Head(supervisorQueue)] = 0 /\ replies[Head(supervisorQueue)] = <<>>
        /\ peer' = Head(supervisorQueue) /\ spc' = "read"
        /\ UNCHANGED <<taken, replies, asked>>
    BY <1>2, HeadOfQueue DEF Accept, QueueInv
  <2>2. Len(<<>>) = 0
    BY EmptySeq
  <2> QED
    BY <2>1, <2>2 DEF AnswerInv
<1>3. CASE ReadRequest
  <2>1. peer \in Supervisors
    BY <1>3, NextFrameWritten DEF ReadRequest
  <2> QED
    BY <1>0, <1>3, <2>1 DEF ReadRequest, AnswerInv
<1>4. CASE ReadRequestFails \/ WriteReplyFails \/ NoNextRequest
  <2>1. \A v \in Supervisors : taken'[v] \in Nat /\ taken'[v] >= taken[v]
    BY <1>0, <1>4 DEF ReadRequestFails, WriteReplyFails, NoNextRequest
  <2> QED
    BY <1>0, <1>4, <2>1 DEF ReadRequestFails, WriteReplyFails, NoNextRequest, Drop,
                            AnswerInv
<1>5. CASE WriteReply
  <2>1. /\ peer \in Supervisors
        /\ replying[1] = ReplyTo(asked[peer][taken[peer]])
        /\ asked[peer][taken[peer]] \in Requests
        /\ Len(replies[peer]) + 1 = taken[peer]
    BY <1>5 DEF WriteReply, ControlInv, Serving, AnswerInv
  <2>2. /\ replies' = [replies EXCEPT ![peer] = Append(@, replying[1])]
        /\ UNCHANGED <<peer, taken, asked>> /\ spc' = "written"
    BY <1>5 DEF WriteReply
  <2>3. /\ replies'[peer] = Append(replies[peer], replying[1])
        /\ \A v \in Supervisors : v # peer => replies'[v] = replies[v]
    BY <1>0, <2>1, <2>2
  <2>4. /\ Len(replies'[peer]) = taken[peer]
        /\ DOMAIN replies'[peer] = DOMAIN replies[peer] \cup {taken[peer]}
        /\ replies'[peer][taken[peer]] = replying[1]
        /\ \A k \in DOMAIN replies[peer] : replies'[peer][k] = replies[peer][k]
    BY <1>0, <2>1, <2>3, AppendProperties, LenProperties
  <2> QED
    BY <1>0, <2>1, <2>2, <2>3, <2>4 DEF AnswerInv
<1>6. ASSUME NEW v \in Supervisors, Connect(v) PROVE AnswerInv'
  BY <1>6 DEF Connect, AnswerInv
<1>7. ASSUME NEW v \in Supervisors, Ask(v) PROVE AnswerInv'
  <2>1. \A w \in Supervisors : \A k \in DOMAIN replies[w] : asked'[w][k] = asked[w][k]
    <3>1. \A w \in Supervisors : \A k \in DOMAIN replies[w] : k \in 1 .. Len(asked[w])
      BY <1>0, LenProperties DEF AnswerInv, ControlInv
    <3> QED
      BY <1>7, <3>1, FramesStay
  <2> QED
    BY <1>7, <2>1 DEF Ask, AnswerInv
<1>8. ASSUME NEW v \in Supervisors, HangUp(v) PROVE AnswerInv'
  BY <1>8 DEF HangUp, AnswerInv
<1> QED
  BY <1>1, <1>2, <1>3, <1>4, <1>5, <1>6, <1>7, <1>8, <1>9 DEF Next, Server, Supervisor

-----------------------------------------------------------------------------
(***************************************************************************)
(* Every step keeps the acknowledgement the last thing said                *)
(***************************************************************************)

\* The replies change with WriteReply alone, and the flag never goes down.
LEMMA OnlyWriteReply ==
    ASSUME TypeOK, Next
    PROVE  /\ stopRequested => stopRequested'
           /\ ~WriteReply => replies' = replies
<1>1. CASE Handle
  BY <1>1 DEF Handle, TypeOK
<1>2. CASE ~Handle
  BY <1>2 DEF Next, Spawn, Server, StartRuntime, RuntimeFails, CloseListener, Check, Accept, AcceptNothing, ReadRequest,
              ReadRequestFails, WriteReply, WriteReplyFails, NextRequest,
              NoNextRequest, Drop, ProcessEnds, Supervisor, Connect, Ask, HangUp
<1> QED
  BY <1>1, <1>2

\* Only a stop request is acknowledged as one.
LEMMA AcknowledgesStop ==
    ASSUME NEW request \in Requests, ReplyTo(request) = "GracefulStopAcknowledgement"
    PROVE  request = "GracefulStopRequest"
  BY DEF Requests, ReplyTo

LEMMA AcknowledgementStep ==
    ASSUME SupervisionInv, Next
    PROVE  AcknowledgementInv'
<1> USE DEF SupervisionInv
<1>1. CASE WriteReply
  <2>0. /\ replies \in [Supervisors -> Seq({ReplyTo(request) : request \in Requests})]
        /\ \A v \in Supervisors : Len(replies[v]) \in Nat
    BY LenProperties DEF TypeOK
  <2>1. /\ peer \in Supervisors /\ asking[1] \in Requests
        /\ replying[1] = ReplyTo(asking[1])
        /\ asking[1] = "GracefulStopRequest" => stopRequested
    BY <1>1 DEF WriteReply, ControlInv, Serving, AcknowledgementInv
  <2>2. \A v \in Supervisors : \A k \in DOMAIN replies[v] :
            replies[v][k] # "GracefulStopAcknowledgement"
    BY <1>1 DEF WriteReply, AcknowledgementInv
  <2>3. replies' = [replies EXCEPT ![peer] = Append(@, replying[1])]
    BY <1>1 DEF WriteReply
  <2>4. /\ replies'[peer] = Append(replies[peer], replying[1])
        /\ \A v \in Supervisors : v # peer => replies'[v] = replies[v]
    BY <2>0, <2>1, <2>3
  <2>5. /\ Len(replies'[peer]) = Len(replies[peer]) + 1
        /\ DOMAIN replies'[peer] = DOMAIN replies[peer] \cup {Len(replies'[peer])}
        /\ replies'[peer][Len(replies'[peer])] = replying[1]
        /\ \A k \in DOMAIN replies[peer] : replies'[peer][k] = replies[peer][k]
    BY <2>0, <2>1, <2>4, AppendProperties, LenProperties
  <2>6. replying[1] = "GracefulStopAcknowledgement" => stopRequested
    BY <2>1, AcknowledgesStop
  <2>7. spc' = "written" /\ stopRequested' = stopRequested
    BY <1>1 DEF WriteReply
  <2>8. \A v \in Supervisors : \A k \in DOMAIN replies'[v] :
            replies'[v][k] = "GracefulStopAcknowledgement" =>
                v = peer /\ k = Len(replies'[v]) /\ stopRequested
    BY <2>1, <2>2, <2>4, <2>5, <2>6
  <2> QED
    BY <2>7, <2>8 DEF AcknowledgementInv
<1>2. CASE ~WriteReply
  <2>1. replies' = replies /\ (stopRequested => stopRequested')
    BY <1>2, OnlyWriteReply
  <2>2. spc' = "write" /\ asking'[1] = "GracefulStopRequest" => stopRequested'
    BY <1>2 DEF Next, Spawn, Server, StartRuntime, RuntimeFails, CloseListener, Check, Accept, AcceptNothing, ReadRequest,
             ReadRequestFails, Handle, WriteReplyFails, NextRequest, NoNextRequest,
             Drop, ProcessEnds, Supervisor, Connect, Ask, HangUp, AcknowledgementInv
  <2>3. stopRequested /\ spc \in {"written", "check", "done", "gone"}
            => spc' \in {"written", "check", "done", "gone"}
    BY <1>2 DEF Next, Spawn, Server, StartRuntime, RuntimeFails, CloseListener, Check, Accept, AcceptNothing, ReadRequest,
             ReadRequestFails, Handle, WriteReplyFails, NextRequest, NoNextRequest,
             Drop, ProcessEnds, Supervisor, Connect, Ask, HangUp
  <2> QED
    BY <2>1, <2>2, <2>3 DEF AcknowledgementInv
<1> QED
  BY <1>1, <1>2

-----------------------------------------------------------------------------
(***************************************************************************)
(* The theorems                                                            *)
(***************************************************************************)

LEMMA SupervisionInit == Init => SupervisionInv
<1> SUFFICES ASSUME Init PROVE SupervisionInv
  OBVIOUS
<1>1. /\ \A S : <<>> \in Seq(S)
      /\ Len(<<>>) = 0 /\ DOMAIN <<>> = {}
  BY EmptySeq
<1>2. TypeOK
  <2>1. requestCount \in 0 .. MaxRequestCount
    BY SupervisionAssumption DEF Init
  <2> QED
    BY <1>1, <2>1 DEF Init, TypeOK
<1>3. ControlInv /\ QueueInv /\ AnswerInv /\ AcknowledgementInv
  BY <1>1 DEF Init, ControlInv, QueueInv, AnswerInv, AcknowledgementInv, Serving
<1> QED
  BY <1>2, <1>3 DEF SupervisionInv

LEMMA SupervisionStep == SupervisionInv /\ [Next]_supervisionVars => SupervisionInv'
<1> SUFFICES ASSUME SupervisionInv, [Next]_supervisionVars PROVE SupervisionInv'
  OBVIOUS
<1>1. CASE Next
  BY <1>1, TypeStep, ControlStep, QueueStep, AnswerStep, AcknowledgementStep
     DEF SupervisionInv
<1>2. CASE UNCHANGED supervisionVars
  <2>1. TypeOK' /\ ControlInv'
    BY <1>2 DEF SupervisionInv, TypeOK, ControlInv
  <2>2. QueueInv' /\ AnswerInv' /\ AcknowledgementInv'
    BY <1>2 DEF SupervisionInv, QueueInv, AnswerInv, AcknowledgementInv
  <2> QED
    BY <2>1, <2>2 DEF SupervisionInv
<1> QED
  BY <1>1, <1>2

LEMMA SupervisionInvariant == Spec => []SupervisionInv
  BY SupervisionInit, SupervisionStep, PTL DEF Spec

\* Whatever supervisors write, and whenever they hang up or the process ends,
\* every variable keeps the type the code gives it (SupervisionServer).
THEOREM SupervisionTypeCorrect == Spec => []TypeOK
<1>1. SupervisionInv => TypeOK
  BY DEF SupervisionInv
<1> QED
  BY SupervisionInvariant, <1>1, PTL

\* A supervisor that pipelines any number of requests gets the reply to each,
\* in order and once (serve_connection).
THEOREM AnswersInOrderHolds == Spec => []AnswersInOrder
<1>1. SupervisionInv => AnswersInOrder
  <2> SUFFICES ASSUME SupervisionInv, NEW v \in Supervisors
               PROVE  Len(replies[v]) <= Len(asked[v])
    BY DEF SupervisionInv, AnswerInv, AnswersInOrder
  <2> QED
    BY LenProperties DEF SupervisionInv, TypeOK, AnswerInv, ControlInv
<1> QED
  BY SupervisionInvariant, <1>1, PTL

\* Among any number of supervisors one stop is acknowledged, and nothing is said
\* to any of them after it (reply, serve_connection, run).
THEOREM AcknowledgedLastHolds == Spec => []AcknowledgedLast
<1>1. SupervisionInv => AcknowledgedLast
  BY DEF SupervisionInv, AcknowledgementInv, AcknowledgedLast
<1> QED
  BY SupervisionInvariant, <1>1, PTL

-----------------------------------------------------------------------------
(***************************************************************************)
(* The stop flag                                                           *)
(***************************************************************************)

\* The flag changes in one place.
LEMMA FlagRaised ==
    ASSUME SupervisionInv, Next, stopRequested' # stopRequested
    PROVE  /\ Handle /\ stopRequested'
           /\ peer \in Supervisors /\ taken[peer] > 0
           /\ asked[peer][taken[peer]] = "GracefulStopRequest"
<1>1. Handle
  BY DEF Next, Spawn, Server, StartRuntime, RuntimeFails, CloseListener, Check, Accept, AcceptNothing, ReadRequest,
         ReadRequestFails, WriteReply, WriteReplyFails, NextRequest,
         NoNextRequest, Drop, ProcessEnds, Supervisor, Connect, Ask, HangUp
<1>2. stopRequested' /\ asking[1] = "GracefulStopRequest"
  BY <1>1 DEF Handle, SupervisionInv, TypeOK
<1>3. /\ peer \in Supervisors /\ taken[peer] > 0
      /\ asking[1] = asked[peer][taken[peer]]
  BY <1>1 DEF Handle, SupervisionInv, ControlInv, Serving
<1> QED
  BY <1>1, <1>2, <1>3

\* The stop flag goes up only in answer to a stop request that some supervisor
\* wrote, and never goes down (reply).
THEOREM StopOnlyOnRequestHolds == Spec => StopOnlyOnRequest
<1>1. ASSUME SupervisionInv, Next, stopRequested' # stopRequested
      PROVE  /\ stopRequested'
             /\ \E v \in Supervisors :
                    taken[v] > 0 /\ asked[v][taken[v]] = "GracefulStopRequest"
  BY <1>1, FlagRaised
<1> QED
  BY SupervisionInvariant, <1>1, PTL DEF Spec, StopOnlyOnRequest

\* While the flag is up, a stop request is among the frames that were read.
RequestedInv ==
    stopRequested =>
        \E v \in Supervisors :
            \E k \in 1 .. taken[v] : asked[v][k] = "GracefulStopRequest"

\* What was read stays read.
LEMMA ReadStays ==
    ASSUME SupervisionInv, Next, NEW v \in Supervisors, NEW k \in 1 .. taken[v]
    PROVE  k \in 1 .. taken'[v] /\ asked'[v][k] = asked[v][k]
<1>0. /\ taken \in [Supervisors -> Nat] /\ taken[v] \in Nat
      /\ asked[v] \in Seq(Frames) /\ Len(asked[v]) \in Nat /\ taken[v] <= Len(asked[v])
  BY LenProperties DEF SupervisionInv, TypeOK, ControlInv
<1>1. CASE ReadRequest \/ ReadRequestFails
  <2>1. asked' = asked /\ (taken' = taken \/ taken' = [taken EXCEPT ![peer] = @ + 1])
    BY <1>1 DEF ReadRequest, ReadRequestFails, Drop
  <2>2. taken'[v] \in Nat /\ taken[v] <= taken'[v]
    BY <1>0, <2>1
  <2> QED
    BY <1>0, <2>1, <2>2
<1>2. ASSUME NEW w \in Supervisors, Ask(w)
      PROVE  k \in 1 .. taken'[v] /\ asked'[v][k] = asked[v][k]
  <2>1. taken' = taken
    BY <1>2 DEF Ask
  <2>2. k \in 1 .. Len(asked[v])
    BY <1>0
  <2> QED
    BY <1>2, <2>1, <2>2, FramesStay DEF SupervisionInv
<1>3. CASE UNCHANGED <<taken, asked>>
  BY <1>3
<1> QED
  BY <1>1, <1>2, <1>3
     DEF Next, Spawn, Server, StartRuntime, RuntimeFails, CloseListener, Check, Accept, AcceptNothing, WriteReply, WriteReplyFails,
         Handle, NextRequest, NoNextRequest, Drop, ProcessEnds, Supervisor, Connect, HangUp

\* A flag that is up was asked for by a frame that the thread has read.
LEMMA RequestedInvariant == Spec => []RequestedInv
<1>1. Init => RequestedInv
  BY DEF Init, RequestedInv
<1>2. SupervisionInv /\ RequestedInv /\ [Next]_supervisionVars => RequestedInv'
  <2> SUFFICES ASSUME SupervisionInv, RequestedInv, [Next]_supervisionVars
               PROVE  RequestedInv'
    OBVIOUS
  <2>1. CASE Next /\ stopRequested' # stopRequested
    <3>1. /\ Handle /\ peer \in Supervisors /\ taken[peer] > 0
          /\ asked[peer][taken[peer]] = "GracefulStopRequest"
      BY <2>1, FlagRaised
    <3>2. taken[peer] \in Nat
      BY <3>1 DEF SupervisionInv, TypeOK
    <3>3. taken' = taken /\ asked' = asked
      BY <3>1 DEF Handle
    <3> QED
      BY <3>1, <3>2, <3>3 DEF RequestedInv
  <2>2. CASE Next /\ stopRequested' = stopRequested
    BY <2>2, ReadStays DEF RequestedInv
  <2>3. CASE UNCHANGED supervisionVars
    BY <2>3 DEF RequestedInv
  <2> QED
    BY <2>1, <2>2, <2>3
<1> QED
  BY <1>1, <1>2, SupervisionInvariant, PTL DEF Spec
=============================================================================
