-------------------------- MODULE FrameExchangeProofs --------------------------
(***************************************************************************)
(* Theorems about the exchange of frames, for any requests and replies,    *)
(* any limit and any capacity of the kernel: the two directions are        *)
(* streams as FrameStreamProofs has them, whatever client and server do.   *)
(***************************************************************************)
EXTENDS FrameExchange, SequenceTheorems, TLAPS

UpStream == INSTANCE FrameStreamProofs
    WITH writer <- upWriter, unwritten <- upUnwritten, wire <- upWire, shut <- upShut,
         reader <- upReader, buffer <- upBuffer, taken <- upTaken, hungUp <- upHungUp,
         begun <- SubSeq(requests, 1, sent), received <- got

DownStream == INSTANCE FrameStreamProofs
    WITH writer <- downWriter, unwritten <- downUnwritten, wire <- downWire,
         shut <- downShut, reader <- downReader, buffer <- downBuffer,
         taken <- downTaken, hungUp <- downHungUp, Buffered <- FALSE,
         begun <- given, received <- answers

\* What the client has begun is of what it means to send.
SentInv ==
    /\ requests \in RequestLists /\ requests \in Seq(Seq(Nat))
    /\ sent \in 0 .. Len(requests)

\* One reply is begun for each frame that was read, and no frame is read beyond
\* the limit; the ends are closed by those who leave.
ServingInv ==
    /\ got \in Seq(Seq(Nat)) /\ given \in Seq(Seq(Nat))
    /\ Len(given) = Len(got) /\ Len(got) <= MaxServed
    /\ serving = "read" => Len(got) < MaxServed
    /\ serving = "closed" <=> upHungUp
    /\ left <=> upShut
    /\ left <=> downHungUp

ExchangeInv == SentInv /\ ServingInv /\ UpStream!StreamInv /\ DownStream!StreamInv

-----------------------------------------------------------------------------
\* A sequence whose elements are the first of another is a prefix of it.
LEMMA Prefix ==
    ASSUME NEW S, NEW s \in Seq(S), NEW t \in Seq(S), Len(s) <= Len(t),
           \A k \in 1 .. Len(s) : s[k] = t[k]
    PROVE  IsPrefix(s, t)
<1>1. PICK n \in Nat : n = Len(s)
  BY LenProperties
<1>2. PICK m \in Nat : m = Len(t) /\ n <= m
  BY <1>1, LenProperties
<1>3. \A i \in 1 .. n : i \in 1 .. m /\ s[i] \in S /\ t[i] \in S /\ s[i] = t[i]
  BY <1>1, <1>2, ElementOfSeq
<1> DEFINE first == SubSeq(t, 1, n)
<1>4. /\ first \in Seq(S) /\ Len(first) = IF 1 <= n THEN n - 1 + 1 ELSE 0
      /\ \A i \in 1 .. n - 1 + 1 : first[i] = t[1 + i - 1]
  BY <1>3, SubSeqProperties
<1> HIDE DEF first
<1>5. Len(first) = n /\ \A i \in 1 .. n : first[i] = t[i]
  BY <1>4
<1>6. first = s
  BY <1>1, <1>3, <1>4, <1>5, SeqEqual
<1>7. SubSeq(s, 1, Len(s)) = s
  BY SubSeqFull
<1>8. QED
  BY <1>1, <1>6, <1>7 DEF IsPrefix, first

\* What has been begun, and one more.
LEMMA Begun ==
    ASSUME SentInv
    PROVE  /\ SubSeq(requests, 1, sent) \in Seq(Seq(Nat))
           /\ Len(SubSeq(requests, 1, sent)) = sent
           /\ \A k \in 1 .. sent : SubSeq(requests, 1, sent)[k] = requests[k]
           /\ sent < Len(requests) =>
                  /\ requests[sent + 1] \in Seq(Nat)
                  /\ SubSeq(requests, 1, sent + 1)
                         = Append(SubSeq(requests, 1, sent), requests[sent + 1])
<1>1. PICK n \in Nat : n = Len(requests) /\ sent \in Nat /\ sent <= n
  BY LenProperties DEF SentInv
<1>2. \A i \in 1 .. n : requests[i] \in Seq(Nat)
  BY <1>1, ElementOfSeq DEF SentInv
<1> DEFINE now == SubSeq(requests, 1, sent)
<1>3. /\ now \in Seq(Seq(Nat)) /\ Len(now) = IF 1 <= sent THEN sent - 1 + 1 ELSE 0
      /\ \A i \in 1 .. sent - 1 + 1 : now[i] = requests[1 + i - 1]
  <2>1. \A i \in 1 .. sent : requests[i] \in Seq(Nat)
    BY <1>1, <1>2
  <2>2. QED
    BY <1>1, <2>1, SubSeqProperties
<1>4. ASSUME sent < n
      PROVE  /\ requests[sent + 1] \in Seq(Nat)
             /\ SubSeq(requests, 1, sent + 1) = Append(now, requests[sent + 1])
  <2>1. sent + 1 \in 1 .. n
    BY <1>1, <1>4
  <2>2. requests[sent + 1] \in Seq(Nat)
    BY <1>2, <2>1
  <2>3. SubSeq(requests, 1, sent + 1) = SubSeq(requests, 1, (sent + 1) - 1) \o <<requests[sent + 1]>>
    <3>1. 1 \in 1 .. Len(requests) /\ sent + 1 \in 1 .. Len(requests)
      BY <1>1, <2>1
    <3>2. QED
      BY <3>1, SubSeqRecursiveSecond DEF SentInv
  <2>4. (sent + 1) - 1 = sent
    BY <1>1
  <2> HIDE DEF now
  <2>5. now \o <<requests[sent + 1]>> = Append(now, requests[sent + 1])
    BY <1>3, <2>2, AppendIsConcat
  <2>6. QED
    BY <2>2, <2>3, <2>4, <2>5 DEF now
<1> HIDE DEF now
<1>5. Len(now) = sent /\ \A k \in 1 .. sent : now[k] = requests[k]
  BY <1>1, <1>3
<1>6. QED
  BY <1>1, <1>3, <1>4, <1>5 DEF now

-----------------------------------------------------------------------------
USE DEF up, down, client, server

LEMMA UpConstants == UpStream!StreamConstants /\ DownStream!StreamConstants
BY FrameExchangeAssumption DEF UpStream!StreamConstants, DownStream!StreamConstants

\* The operators of the two directions are those that the proofs are about.
LEMMA SameUp ==
    /\ Up!StreamInit = UpStream!StreamInit
    /\ \A body : Up!BeginFrame(body) = UpStream!BeginFrame(body)
    /\ Up!TakeFrame = UpStream!TakeFrame
    /\ Up!BeginRead = UpStream!BeginRead
    /\ Up!Writing = (UpStream!WriteSome \/ UpStream!WriteFails)
    /\ Up!Reading = UpStream!Reading
    /\ Up!CloseWriter = UpStream!CloseWriter
    /\ Up!CloseReader = UpStream!CloseReader
    /\ \A bytes : Up!Body(bytes) = UpStream!Body(bytes)
<1>1. Up!StreamInit = UpStream!StreamInit
  BY DEF Up!StreamInit, UpStream!StreamInit
<1>2. \A body : Up!BeginFrame(body) = UpStream!BeginFrame(body)
  BY DEF Up!BeginFrame, UpStream!BeginFrame, Up!Encode, UpStream!Encode
<1>3. Up!TakeFrame = UpStream!TakeFrame
  BY DEF Up!TakeFrame, UpStream!TakeFrame
<1>4. Up!BeginRead = UpStream!BeginRead
  BY DEF Up!BeginRead, UpStream!BeginRead
<1>5. Up!Writing = (UpStream!WriteSome \/ UpStream!WriteFails)
  BY DEF Up!Writing, Up!WriteSome, UpStream!WriteSome, Up!WriteFails, UpStream!WriteFails,
         Up!Least, UpStream!Least
<1>6. \A bytes : Up!Body(bytes) = UpStream!Body(bytes)
  BY DEF Up!Body, UpStream!Body, Up!PrefixLength, UpStream!PrefixLength
<1>7. \A bytes : /\ Up!Lacking(bytes) = UpStream!Lacking(bytes)
                 /\ Up!TooLarge(bytes) = UpStream!TooLarge(bytes)
  BY DEF Up!Lacking, UpStream!Lacking, Up!TooLarge, UpStream!TooLarge,
         Up!DeclaredLength, UpStream!DeclaredLength, Up!PrefixLength, UpStream!PrefixLength
<1>8. Up!ReadSome = UpStream!ReadSome
  <2>1. Up!Progress = UpStream!Progress
    BY <1>6, <1>7 DEF Up!Progress, UpStream!Progress, Up!PrefixLength, UpStream!PrefixLength
  <2>2. /\ \A n : Up!TakeBytes(n) = UpStream!TakeBytes(n)
        /\ Up!AtHand = UpStream!AtHand
        /\ \A m, n : Up!Least(m, n) = UpStream!Least(m, n)
    BY DEF Up!TakeBytes, UpStream!TakeBytes, Up!AtHand, UpStream!AtHand,
           Up!Least, UpStream!Least
  <2>3. QED
    BY <1>7, <2>1, <2>2 DEF Up!ReadSome, UpStream!ReadSome
<1>9. Up!Reading = UpStream!Reading
  BY <1>8 DEF Up!Reading, UpStream!Reading, Up!FillBuffer, UpStream!FillBuffer,
         Up!ReadEnds, UpStream!ReadEnds
<1>10. Up!CloseWriter = UpStream!CloseWriter /\ Up!CloseReader = UpStream!CloseReader
  BY DEF Up!CloseWriter, UpStream!CloseWriter, Up!CloseReader, UpStream!CloseReader
<1>11. QED
  BY <1>1, <1>2, <1>3, <1>4, <1>5, <1>6, <1>9, <1>10

LEMMA SameDown ==
    /\ Down!StreamInit = DownStream!StreamInit
    /\ \A body : Down!BeginFrame(body) = DownStream!BeginFrame(body)
    /\ Down!TakeFrame = DownStream!TakeFrame
    /\ Down!BeginRead = DownStream!BeginRead
    /\ Down!Writing = (DownStream!WriteSome \/ DownStream!WriteFails)
    /\ Down!Reading = DownStream!Reading
    /\ Down!CloseWriter = DownStream!CloseWriter
    /\ Down!CloseReader = DownStream!CloseReader
    /\ \A bytes : Down!Body(bytes) = DownStream!Body(bytes)
<1>1. Down!StreamInit = DownStream!StreamInit
  BY DEF Down!StreamInit, DownStream!StreamInit
<1>2. \A body : Down!BeginFrame(body) = DownStream!BeginFrame(body)
  BY DEF Down!BeginFrame, DownStream!BeginFrame, Down!Encode, DownStream!Encode
<1>3. Down!TakeFrame = DownStream!TakeFrame
  BY DEF Down!TakeFrame, DownStream!TakeFrame
<1>4. Down!BeginRead = DownStream!BeginRead
  BY DEF Down!BeginRead, DownStream!BeginRead
<1>5. Down!Writing = (DownStream!WriteSome \/ DownStream!WriteFails)
  BY DEF Down!Writing, Down!WriteSome, DownStream!WriteSome, Down!WriteFails, DownStream!WriteFails,
         Down!Least, DownStream!Least
<1>6. \A bytes : Down!Body(bytes) = DownStream!Body(bytes)
  BY DEF Down!Body, DownStream!Body, Down!PrefixLength, DownStream!PrefixLength
<1>7. \A bytes : /\ Down!Lacking(bytes) = DownStream!Lacking(bytes)
                 /\ Down!TooLarge(bytes) = DownStream!TooLarge(bytes)
  BY DEF Down!Lacking, DownStream!Lacking, Down!TooLarge, DownStream!TooLarge,
         Down!DeclaredLength, DownStream!DeclaredLength, Down!PrefixLength, DownStream!PrefixLength
<1>8. Down!ReadSome = DownStream!ReadSome
  <2>1. Down!Progress = DownStream!Progress
    BY <1>6, <1>7 DEF Down!Progress, DownStream!Progress, Down!PrefixLength, DownStream!PrefixLength
  <2>2. /\ \A n : Down!TakeBytes(n) = DownStream!TakeBytes(n)
        /\ Down!AtHand = DownStream!AtHand
        /\ \A m, n : Down!Least(m, n) = DownStream!Least(m, n)
    BY DEF Down!TakeBytes, DownStream!TakeBytes, Down!AtHand, DownStream!AtHand,
           Down!Least, DownStream!Least
  <2>3. QED
    BY <1>7, <2>1, <2>2 DEF Down!ReadSome, DownStream!ReadSome
<1>9. Down!Reading = DownStream!Reading
  BY <1>8 DEF Down!Reading, DownStream!Reading, Down!FillBuffer, DownStream!FillBuffer,
         Down!ReadEnds, DownStream!ReadEnds
<1>10. Down!CloseWriter = DownStream!CloseWriter /\ Down!CloseReader = DownStream!CloseReader
  BY DEF Down!CloseWriter, DownStream!CloseWriter, Down!CloseReader, DownStream!CloseReader
<1>11. QED
  BY <1>1, <1>2, <1>3, <1>4, <1>5, <1>6, <1>9, <1>10

-----------------------------------------------------------------------------
(***************************************************************************)
(* Every step is one of each direction's, or leaves it alone               *)
(***************************************************************************)

LEMMA UpSteps ==
    ASSUME SentInv, [Next]_vars
    PROVE  UpStream!StreamNext
<1> USE SameUp DEF UpStream!StreamNext, UpStream!Continue, UpStream!streamVars
<1>1. CASE Expect \/ Read \/ WriteReply \/ Close
  BY <1>1 DEF Expect, Read, WriteReply, Close
<1>2. CASE Reply
  BY <1>2 DEF Reply
<1>3. CASE Request
  <2>1. sent < Len(requests) /\ UNCHANGED <<requests, got>> /\ sent' = sent + 1
        /\ UpStream!BeginFrame(requests[sent + 1])
    BY <1>3 DEF Request
  <2>2. requests[sent + 1] \in UpStream!Bytes
    BY <2>1, Begun DEF UpStream!Bytes
  <2>3. SubSeq(requests, 1, sent)' = Append(SubSeq(requests, 1, sent), requests[sent + 1])
    BY <2>1, Begun
  <2>4. QED
    BY <2>1, <2>2, <2>3
<1>4. CASE WriteRequest \/ Await \/ ReadReply \/ TakeReply \/ Leave
  BY <1>4 DEF WriteRequest, Await, ReadReply, TakeReply, Leave
<1>5. CASE UNCHANGED vars
  BY <1>5 DEF vars
<1>6. QED
  BY <1>1, <1>2, <1>3, <1>4, <1>5 DEF Next, Server, Client

LEMMA DownSteps ==
    ASSUME [Next]_vars
    PROVE  DownStream!StreamNext
<1> USE SameDown DEF DownStream!StreamNext, DownStream!Continue, DownStream!streamVars
<1>1. CASE Expect \/ Read \/ WriteReply \/ Close
  BY <1>1 DEF Expect, Read, WriteReply, Close
<1>2. CASE Reply
  <2>1. PICK body \in ReplyBodies :
            DownStream!BeginFrame(body) /\ given' = Append(given, body) /\ UNCHANGED answers
    BY <1>2 DEF Reply
  <2>2. body \in DownStream!Bytes
    BY <2>1, FrameExchangeAssumption DEF DownStream!Bytes
  <2>3. QED
    BY <2>1, <2>2
<1>3. CASE Request \/ WriteRequest \/ Await \/ ReadReply \/ Leave
  BY <1>3 DEF Request, WriteRequest, Await, ReadReply, Leave
<1>4. CASE TakeReply
  BY <1>4 DEF TakeReply
<1>5. CASE UNCHANGED vars
  BY <1>5 DEF vars
<1>6. QED
  BY <1>1, <1>2, <1>3, <1>4, <1>5 DEF Next, Server, Client

-----------------------------------------------------------------------------
LEMMA ExchangeInit ==
    ASSUME Init
    PROVE  ExchangeInv
<1>1. /\ requests \in RequestLists /\ requests \in Seq(Seq(Nat)) /\ sent = 0 /\ got = <<>> /\ given = <<>> /\ answers = <<>>
      /\ left = FALSE /\ serving = "expect" /\ UpStream!StreamInit /\ DownStream!StreamInit
  BY FrameExchangeAssumption, SameUp, SameDown DEF Init
<1>2. SentInv
  BY <1>1, LenProperties DEF SentInv
<1>3. ServingInv
  <2>1. upHungUp = FALSE /\ upShut = FALSE /\ downHungUp = FALSE
    BY <1>1 DEF UpStream!StreamInit, DownStream!StreamInit
  <2>2. <<>> \in Seq(Seq(Nat)) /\ Len(<<>>) = 0
    OBVIOUS
  <2>3. QED
    BY <1>1, <2>1, <2>2, FrameExchangeAssumption DEF ServingInv
<1>4. SubSeq(requests, 1, sent) = <<>>
  BY <1>1, SubSeqEmpty
<1>5. UpStream!StreamInv
  BY <1>1, <1>4, UpConstants, UpStream!StreamBegins
<1>6. DownStream!StreamInv
  BY <1>1, UpConstants, DownStream!StreamBegins
<1>7. QED
  BY <1>2, <1>3, <1>5, <1>6 DEF ExchangeInv

LEMMA SentStep ==
    ASSUME SentInv, [Next]_vars
    PROVE  SentInv'
<1>1. CASE Request
  BY <1>1, LenProperties DEF Request, SentInv
<1>2. CASE UNCHANGED <<requests, sent>>
  BY <1>2 DEF SentInv
<1>3. QED
  BY <1>1, <1>2 DEF Next, Server, Client, Expect, Read, Reply, WriteReply, Close,
     WriteRequest, Await, ReadReply, TakeReply, Leave, vars

\* The frame that is replied to is the one that was read.
LEMMA ServingStep ==
    ASSUME ExchangeInv, [Next]_vars
    PROVE  ServingInv'
<1> USE DEF ExchangeInv
<1>0. PICK g \in Nat : g = Len(got)
  BY LenProperties DEF ServingInv
<1>1. CASE Expect
  BY <1>1 DEF Expect, ServingInv, Up!BeginRead
<1>2. CASE Read
  BY <1>2 DEF Read, ServingInv, Up!Reading, Up!FillBuffer, Up!ReadSome, Up!ReadEnds
<1>3. CASE Reply
  <2>1. PICK body \in ReplyBodies : given' = Append(given, body)
    BY <1>3 DEF Reply
  <2>2. Up!Body(upTaken) \in Seq(Nat)
    <3>1. upReader = "frame" /\ UpStream!StreamTypes /\ UpStream!ReaderInv
      BY <1>3 DEF Reply, Up!TakeFrame, UpStream!StreamInv
    <3>2. UpStream!Body(upTaken) \in UpStream!Bytes
      BY <3>1, UpConstants, UpStream!FrameIsCurrent
    <3>3. QED
      BY <3>2, SameUp DEF UpStream!Bytes
  <2>3. body \in Seq(Nat)
    BY FrameExchangeAssumption
  <2>4. got' \in Seq(Seq(Nat)) /\ Len(got') = g + 1
    BY <1>0, <1>3, <2>2, AppendProperties DEF Reply, ServingInv
  <2>5. given' \in Seq(Seq(Nat)) /\ Len(given') = g + 1
    BY <1>0, <2>1, <2>3, AppendProperties DEF ServingInv
  <2>6. g < MaxServed /\ g + 1 <= MaxServed
    BY <1>0, <1>3, FrameExchangeAssumption DEF Reply, ServingInv
  <2>7. serving = "read" /\ serving' = "reply" /\ UNCHANGED <<upHungUp, upShut, left, downHungUp>>
    BY <1>3 DEF Reply, Up!TakeFrame, Down!BeginFrame
  <2>8. QED
    BY <2>4, <2>5, <2>6, <2>7 DEF ServingInv
<1>4. CASE WriteReply
  BY <1>4 DEF WriteReply, ServingInv, Down!Writing, Down!WriteSome, Down!WriteFails
<1>5. CASE Close
  BY <1>5 DEF Close, ServingInv, Up!CloseReader, Down!CloseWriter
<1>6. CASE Request \/ WriteRequest
  BY <1>6 DEF Request, WriteRequest, ServingInv, Up!BeginFrame, Up!Writing, Up!WriteSome,
     Up!WriteFails
<1>7. CASE Await \/ ReadReply \/ TakeReply \/ UNCHANGED vars
  BY <1>7 DEF Await, ReadReply, TakeReply, ServingInv, Down!BeginRead, Down!Reading,
     Down!FillBuffer, Down!ReadSome, Down!ReadEnds, Down!TakeFrame, vars
<1>8. CASE Leave
  BY <1>8 DEF Leave, ServingInv, Up!CloseWriter, Down!CloseReader
<1>9. QED
  BY <1>1, <1>2, <1>3, <1>4, <1>5, <1>6, <1>7, <1>8 DEF Next, Server, Client

LEMMA ExchangeStep ==
    ASSUME ExchangeInv, [Next]_vars
    PROVE  ExchangeInv'
<1>1. SentInv' /\ ServingInv'
  BY SentStep, ServingStep DEF ExchangeInv
<1>2. UpStream!StreamInv'
  BY UpConstants, UpSteps, UpStream!StreamStep DEF ExchangeInv
<1>3. DownStream!StreamInv'
  BY UpConstants, DownSteps, DownStream!StreamStep DEF ExchangeInv
<1>4. QED
  BY <1>1, <1>2, <1>3 DEF ExchangeInv

\* Both directions keep their frames, whatever client and server do.
THEOREM ExchangeInvHolds == Spec => []ExchangeInv
<1>1. Init => ExchangeInv
  BY ExchangeInit
<1>2. ExchangeInv /\ [Next]_vars => ExchangeInv'
  BY ExchangeStep
<1>3. QED
  BY <1>1, <1>2, PTL DEF Spec

-----------------------------------------------------------------------------
(***************************************************************************)
(* Theorems                                                                *)
(***************************************************************************)

\* The kernel never holds more than it has room for, nothing is read that was
\* not sent, and no more than one reply is begun for each frame read.
THEOREM ExchangeTypeCorrect == Spec => []TypeOK
<1>1. ExchangeInv => TypeOK
  <2> SUFFICES ASSUME ExchangeInv PROVE TypeOK
    OBVIOUS
  <2>1. Len(upWire) <= Capacity /\ Len(downWire) <= Capacity
    BY DEF ExchangeInv, UpStream!StreamInv, UpStream!StreamTypes,
           DownStream!StreamInv, DownStream!StreamTypes
  <2>2. Len(got) <= sent
    <3>1. Len(got) <= Len(SubSeq(requests, 1, sent))
      BY DEF ExchangeInv, UpStream!StreamInv, UpStream!ConveyInv
    <3>2. QED
      BY <3>1, Begun DEF ExchangeInv
  <2>3. Len(answers) <= Len(given)
    BY DEF ExchangeInv, DownStream!StreamInv, DownStream!ConveyInv
  <2>4. QED
    BY <2>1, <2>2, <2>3 DEF ExchangeInv, ServingInv, TypeOK
<1>2. QED
  BY <1>1, ExchangeInvHolds, PTL

\* Each side reads the other's frames whole, unaltered and in order, for any
\* bodies and however the bytes are cut (write_frame, read_frame).
THEOREM FramesInOrderHolds == Spec => []FramesInOrder
<1>1. ExchangeInv => FramesInOrder
  <2> SUFFICES ASSUME ExchangeInv PROVE FramesInOrder
    OBVIOUS
  <2>1. IsPrefix(got, requests)
    <3>1. PICK g \in Nat : g = Len(got)
      BY LenProperties DEF ExchangeInv, ServingInv
    <3>2. g <= sent /\ \A k \in 1 .. g : got[k] = SubSeq(requests, 1, sent)[k]
      <4>1. Len(got) <= Len(SubSeq(requests, 1, sent))
        BY DEF ExchangeInv, UpStream!StreamInv, UpStream!ConveyInv
      <4>2. \A k \in 1 .. Len(got) : got[k] = SubSeq(requests, 1, sent)[k]
        BY DEF ExchangeInv, UpStream!StreamInv, UpStream!ReaderInv
      <4>3. QED
        BY <3>1, <4>1, <4>2, Begun DEF ExchangeInv
    <3>3. PICK n \in Nat : n = Len(requests) /\ sent \in Nat /\ sent <= n
      BY LenProperties DEF ExchangeInv, SentInv
    <3>4. \A k \in 1 .. g : k \in 1 .. sent
      BY <3>2, <3>3
    <3>5. \A k \in 1 .. Len(got) : got[k] = requests[k]
      BY <3>1, <3>2, <3>4, Begun DEF ExchangeInv
    <3>6. Len(got) <= Len(requests)
      BY <3>1, <3>2, <3>3
    <3>7. got \in Seq(Seq(Nat)) /\ requests \in Seq(Seq(Nat))
      BY DEF ExchangeInv, ServingInv, SentInv
    <3>8. QED
      BY <3>5, <3>6, <3>7, Prefix
  <2>2. IsPrefix(answers, given)
    <3>1. Len(answers) <= Len(given)
      BY DEF ExchangeInv, DownStream!StreamInv, DownStream!ConveyInv
    <3>2. \A k \in 1 .. Len(answers) : answers[k] = given[k]
      BY DEF ExchangeInv, DownStream!StreamInv, DownStream!ReaderInv
    <3>3. answers \in Seq(Seq(Nat)) /\ given \in Seq(Seq(Nat))
      BY DEF ExchangeInv, DownStream!StreamInv, DownStream!StreamTypes, DownStream!Bytes
    <3>4. QED
      BY <3>1, <3>2, <3>3, Prefix
  <2>3. QED
    BY <2>1, <2>2 DEF FramesInOrder
<1>2. QED
  BY <1>1, ExchangeInvHolds, PTL

\* A frame is refused for its length, before any of its body is read, or for
\* what it is, and never for how its bytes came; a read ends early only where
\* the client left (read_frame).
THEOREM RefusedForCauseHolds == Spec => []RefusedForCause
<1>1. ExchangeInv => RefusedForCause
  <2> SUFFICES ASSUME ExchangeInv PROVE RefusedForCause
    OBVIOUS
  <2> DEFINE following == requests[Len(got) + 1]
  <2>1. Len(got) < Len(SubSeq(requests, 1, sent)) => UpStream!Current = following
    <3>1. SUFFICES ASSUME Len(got) < Len(SubSeq(requests, 1, sent))
                   PROVE  UpStream!Current = following
      OBVIOUS
    <3>2. PICK g \in Nat : g = Len(got)
      BY LenProperties DEF ExchangeInv, ServingInv
    <3>3. g + 1 \in 1 .. sent
      <4>1. sent \in Nat /\ g < sent
        BY <3>1, <3>2, LenProperties, Begun DEF ExchangeInv, SentInv
      <4>2. QED
        BY <3>2, <4>1
    <3>4. SubSeq(requests, 1, sent)[g + 1] = requests[g + 1]
      BY <3>3, Begun DEF ExchangeInv
    <3>5. QED
      BY <3>2, <3>4 DEF UpStream!Current
  <2>2. /\ upReader \in {"frame", "TooLarge", "Undecodable"}
               => Len(got) < Len(SubSeq(requests, 1, sent))
        /\ upReader = "TooLarge" => Len(UpStream!Current) > MaxFrame /\ Len(upTaken) = 2
        /\ upReader = "Undecodable" => UpStream!Current \notin Decodable
        /\ upReader = "Io" => upShut
        /\ \A k \in 1 .. Len(got) : Len(got[k]) <= MaxFrame
    BY DEF ExchangeInv, UpStream!StreamInv, UpStream!ReaderInv, UpStream!PrefixLength
  <2>3. DOMAIN got = 1 .. Len(got)
    BY LenProperties DEF ExchangeInv, ServingInv
  <2>4. upShut => left
    BY DEF ExchangeInv, ServingInv
  <2>5. QED
    BY <2>1, <2>2, <2>3, <2>4 DEF RefusedForCause
<1>2. QED
  BY <1>1, ExchangeInvHolds, PTL

-----------------------------------------------------------------------------
(***************************************************************************)
(* The bytes hidden, the exchange is one of whole messages                 *)
(***************************************************************************)

USE DEF Exchange!exchangeVars, vars

\* Most steps move bytes, and nothing that the exchange has.
LEMMA ExchangeStutters ==
    ASSUME Expect \/ Read \/ WriteReply \/ WriteRequest \/ Await \/ ReadReply \/ UNCHANGED vars
    PROVE  UNCHANGED Exchange!exchangeVars
<1>1. CASE Expect \/ Read \/ WriteReply
  BY <1>1 DEF Expect, Read, WriteReply
<1>2. CASE WriteRequest \/ Await \/ ReadReply \/ UNCHANGED vars
  BY <1>2 DEF WriteRequest, Await, ReadReply
<1>3. QED
  BY <1>1, <1>2

LEMMA RequestRefines ==
    ASSUME ExchangeInv, Request
    PROVE  Exchange!Offer
<1>1. sent < Len(requests) /\ sent' = sent + 1 /\ UNCHANGED <<requests, answers, left, server>>
  BY DEF Request
<1>2. requests[sent + 1] \in UNION {Range(list) : list \in RequestLists}
  <2>1. sent + 1 \in DOMAIN requests
    <3>1. PICK n \in Nat : n = Len(requests) /\ DOMAIN requests = 1 .. n
      BY LenProperties DEF ExchangeInv, SentInv
    <3>2. sent + 1 \in 1 .. n
      BY <1>1, <3>1 DEF ExchangeInv, SentInv
    <3>3. QED
      BY <3>1, <3>2
  <2>2. requests[sent + 1] \in Range(requests)
    BY <2>1 DEF Range
  <2>3. QED
    BY <2>2 DEF ExchangeInv, SentInv
<1>3. SubSeq(requests, 1, sent)' = Append(SubSeq(requests, 1, sent), requests[sent + 1])
  BY <1>1, Begun DEF ExchangeInv
<1>4. ~left
  BY DEF Request, Up!BeginFrame, ExchangeInv, ServingInv
<1>5. QED
  BY <1>1, <1>2, <1>3, <1>4 DEF Exchange!Offer

\* The frame that was read is the next message, and one that can be read.
LEMMA ReplyRefines ==
    ASSUME ExchangeInv, Reply
    PROVE  Exchange!Serve
<1>1. UpStream!StreamTypes /\ UpStream!ReaderInv /\ upReader = "frame"
  BY DEF Reply, Up!TakeFrame, ExchangeInv, UpStream!StreamInv
<1> DEFINE offered == SubSeq(requests, 1, sent)
           message == offered[Len(got) + 1]
<1>2. /\ Len(got) < Len(offered) /\ UpStream!Body(upTaken) = message
      /\ message \in Decodable /\ Len(message) <= MaxFrame
  <2>1. UpStream!Current = message
    BY DEF UpStream!Current
  <2> HIDE DEF message, offered
  <2>2. QED
    BY <1>1, <2>1, UpConstants, UpStream!FrameIsCurrent DEF offered
<1>3. got' = Append(got, message)
  BY <1>2, SameUp DEF Reply
<1>4. serving = "read" /\ serving' = "reply" /\ Len(got) < MaxServed
  BY DEF Reply, ExchangeInv, ServingInv
<1>5. \E reply \in ReplyBodies : given' = Append(given, reply)
  BY DEF Reply
<1>6. UNCHANGED <<offered, answers, left>>
  BY DEF Reply
<1>7. QED
  BY <1>2, <1>3, <1>4, <1>5, <1>6 DEF Exchange!Serve, Exchange!Readable

LEMMA TakeReplyRefines ==
    ASSUME ExchangeInv, TakeReply
    PROVE  Exchange!Receive
<1>1. DownStream!StreamTypes /\ DownStream!ReaderInv /\ downReader = "frame"
  BY DEF TakeReply, Down!TakeFrame, ExchangeInv, DownStream!StreamInv
<1> DEFINE message == given[Len(answers) + 1]
<1>2. /\ Len(answers) < Len(given) /\ DownStream!Body(downTaken) = message
      /\ message \in Decodable /\ Len(message) <= MaxFrame
  <2>1. DownStream!Current = message
    BY DEF DownStream!Current
  <2> HIDE DEF message
  <2>2. QED
    BY <1>1, <2>1, UpConstants, DownStream!FrameIsCurrent
<1>3. answers' = Append(answers, message)
  BY <1>2, SameDown DEF TakeReply
<1>4. QED
  BY <1>2, <1>3 DEF TakeReply, Exchange!Receive, Exchange!Readable

\* Whatever makes the server close its end is a cause.
LEMMA CloseRefines ==
    ASSUME ExchangeInv, Close
    PROVE  Exchange!End
<1> DEFINE offered == SubSeq(requests, 1, sent)
           message == offered[Len(got) + 1]
<1>1. serving # "closed" /\ serving' = "closed" /\ UNCHANGED <<offered, got, given, answers, left>>
  BY DEF Close
<1>2. CASE serving = "expect" /\ Len(got) = MaxServed
  BY <1>1, <1>2 DEF Exchange!End
<1>3. CASE serving = "read" /\ Up!ReadFailed
  <2>1. upReader \in {"TooLarge", "Undecodable", "Io"}
    BY <1>3 DEF Up!ReadFailed
  <2>2. UpStream!Current = message
    BY DEF UpStream!Current
  <2>3. upReader = "Io" => left
    BY DEF ExchangeInv, UpStream!StreamInv, UpStream!ReaderInv, ServingInv
  <2>4. upReader \in {"TooLarge", "Undecodable"} => Len(got) < Len(offered)
    BY DEF ExchangeInv, UpStream!StreamInv, UpStream!ReaderInv
  <2>5. upReader = "Undecodable" => message \notin Decodable
    BY <2>2 DEF ExchangeInv, UpStream!StreamInv, UpStream!ReaderInv
  <2>6. upReader = "TooLarge" => ~(Len(message) <= MaxFrame)
    <3> HIDE DEF message, offered
    <3>1. SUFFICES ASSUME upReader = "TooLarge" PROVE ~(Len(message) <= MaxFrame)
      OBVIOUS
    <3>2. Len(message) > MaxFrame
      BY <2>2, <3>1 DEF ExchangeInv, UpStream!StreamInv, UpStream!ReaderInv
    <3>3. Len(message) \in Nat
      <4>1. message \in UpStream!Bytes
        <5>1. Len(got) < Len(SubSeq(requests, 1, sent)) /\ UpStream!StreamTypes
          BY <2>4, <3>1 DEF ExchangeInv, UpStream!StreamInv, offered
        <5>2. QED
          BY <2>2, <5>1, UpStream!CurrentType
      <4>2. QED
        BY <4>1, LenProperties DEF UpStream!Bytes
    <3>4. QED
      BY <3>2, <3>3, FrameExchangeAssumption
  <2>7. QED
    BY <1>1, <2>1, <2>3, <2>4, <2>5, <2>6 DEF Exchange!End, Exchange!Readable
<1>4. CASE serving = "reply" /\ downWriter = "failed"
  <2>1. left
    BY <1>4 DEF ExchangeInv, ServingInv, DownStream!StreamInv, DownStream!StreamTypes
  <2>2. QED
    BY <1>1, <2>1 DEF Exchange!End
<1>5. QED
  BY <1>2, <1>3, <1>4 DEF Close

LEMMA ExchangeBegins ==
    ASSUME Init
    PROVE  Exchange!Init
<1>1. /\ requests \in Seq(Seq(Nat)) /\ sent = 0 /\ got = <<>> /\ given = <<>>
      /\ answers = <<>> /\ left = FALSE /\ serving = "expect"
  BY FrameExchangeAssumption DEF Init
<1>2. SubSeq(requests, 1, sent) = <<>>
  BY <1>1, SubSeqEmpty
<1>3. QED
  BY <1>1, <1>2 DEF Exchange!Init

\* A connection is a sequence of whole messages, each read once and in order, and
\* it ends only for a bad message, a client that left, or a service that is
\* complete, for any bytes, cuts and capacity (read_frame, write_frame,
\* serve_connection).
THEOREM RefinesExchangeHolds == Spec => RefinesExchange
<1>1. Init => Exchange!Init
  BY ExchangeBegins
<1>2. ExchangeInv /\ [Next]_vars => [Exchange!Next]_(Exchange!exchangeVars)
  <2> SUFFICES ASSUME ExchangeInv, [Next]_vars
               PROVE  Exchange!Next \/ UNCHANGED Exchange!exchangeVars
    OBVIOUS
  <2>1. CASE Expect \/ Read \/ WriteReply \/ WriteRequest \/ Await \/ ReadReply \/ UNCHANGED vars
    BY <2>1, ExchangeStutters
  <2>2. CASE Request
    BY <2>2, RequestRefines DEF Exchange!Next
  <2>3. CASE Reply
    BY <2>3, ReplyRefines DEF Exchange!Next
  <2>4. CASE TakeReply
    BY <2>4, TakeReplyRefines DEF Exchange!Next
  <2>5. CASE Close
    BY <2>5, CloseRefines DEF Exchange!Next
  <2>6. CASE Leave
    BY <2>6 DEF Leave, Exchange!Leave, Exchange!Next
  <2>7. QED
    BY <2>1, <2>2, <2>3, <2>4, <2>5, <2>6 DEF Next, Server, Client
<1>3. QED
  BY <1>1, <1>2, ExchangeInvHolds, PTL DEF Spec, RefinesExchange, Exchange!Spec
=============================================================================
