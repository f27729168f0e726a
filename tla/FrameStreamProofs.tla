--------------------------- MODULE FrameStreamProofs ---------------------------
(***************************************************************************)
(* One direction of a stream socket, for any bodies, any capacity of the   *)
(* kernel and any limit: however the bytes are cut, what the reader has of *)
(* the frame it is reading, what it has buffered, what is on the wire and  *)
(* what is still to be written make up the frames it has not read yet.     *)
(***************************************************************************)
EXTENDS FrameStream, SequenceTheorems, TLAPS

VARIABLES begun,      \* the bodies whose frames the writer has begun
          received    \* the bodies the reader's caller has taken

Bytes == Seq(Nat)

StreamConstants == Base \in Nat \ {0} /\ MaxFrame \in Nat /\ Capacity \in Nat

-----------------------------------------------------------------------------
(***************************************************************************)
(* Sequences of bytes                                                      *)
(***************************************************************************)

LEMMA Associative ==
    ASSUME NEW a \in Bytes, NEW b \in Bytes, NEW c \in Bytes
    PROVE  (a \o b) \o c = a \o (b \o c)
BY ConcatAssociative DEF Bytes

\* A sequence that is cut is its two parts.
LEMMA Cut ==
    ASSUME NEW s \in Bytes, NEW n \in 0 .. Len(s)
    PROVE  /\ SubSeq(s, 1, n) \in Bytes /\ Len(SubSeq(s, 1, n)) = n
           /\ SubSeq(s, n + 1, Len(s)) \in Bytes
           /\ Len(SubSeq(s, n + 1, Len(s))) = Len(s) - n
           /\ SubSeq(s, 1, n) \o SubSeq(s, n + 1, Len(s)) = s
<1>1. Len(s) \in Nat /\ s \in [1 .. Len(s) -> Nat] /\ n \in Nat /\ n <= Len(s)
  BY LenProperties DEF Bytes
<1>2. SubSeq(s, 1, n) \in Bytes /\ Len(SubSeq(s, 1, n)) = n
  <2>1. \A i \in 1 .. n : s[i] \in Nat
    BY <1>1
  <2>2. SubSeq(s, 1, n) \in Seq(Nat) /\ Len(SubSeq(s, 1, n)) = IF 1 <= n THEN n - 1 + 1 ELSE 0
    BY <1>1, <2>1, SubSeqProperties
  <2>3. QED
    BY <1>1, <2>2 DEF Bytes
<1>3. SubSeq(s, n + 1, Len(s)) \in Bytes /\ Len(SubSeq(s, n + 1, Len(s))) = Len(s) - n
  <2>1. \A i \in n + 1 .. Len(s) : s[i] \in Nat
    BY <1>1
  <2>2. /\ SubSeq(s, n + 1, Len(s)) \in Seq(Nat)
        /\ Len(SubSeq(s, n + 1, Len(s))) =
               IF n + 1 <= Len(s) THEN Len(s) - (n + 1) + 1 ELSE 0
    BY <1>1, <2>1, SubSeqProperties
  <2>3. \A m \in Nat : n <= m => (IF n + 1 <= m THEN m - (n + 1) + 1 ELSE 0) = m - n
    BY <1>1
  <2>4. QED
    BY <1>1, <2>2, <2>3 DEF Bytes
<1>4. SubSeq(s, 1, n) \o SubSeq(s, n + 1, Len(s)) = SubSeq(s, 1, Len(s))
  <2>1. 1 \in 1 .. Len(s) + 1 /\ n \in 1 - 1 .. Len(s) /\ Len(s) \in n .. Len(s)
    BY <1>1
  <2>2. QED
    BY <2>1, ConcatAdjacentSubSeq DEF Bytes
<1>5. SubSeq(s, 1, Len(s)) = s
  BY SubSeqFull DEF Bytes
<1>6. QED
  BY <1>2, <1>3, <1>4, <1>5

\* Bytes that move from the front of one sequence to the end of the one before
\* it leave the whole as it was.
LEMMA Shift ==
    ASSUME NEW a \in Bytes, NEW b \in Bytes, NEW c \in Bytes, NEW n \in 0 .. Len(b)
    PROVE  (a \o SubSeq(b, 1, n)) \o (SubSeq(b, n + 1, Len(b)) \o c) = a \o (b \o c)
<1> DEFINE front == SubSeq(b, 1, n)
           back == SubSeq(b, n + 1, Len(b))
<1>1. front \in Bytes /\ back \in Bytes
  BY Cut
<1>2. front \o back = b
  BY Cut
<1> HIDE DEF front, back
<1>3. back \o c \in Bytes
  BY <1>1, ConcatProperties DEF Bytes
<1>4. (a \o front) \o (back \o c) = a \o (front \o (back \o c))
  BY <1>1, <1>3, Associative
<1>5. (front \o back) \o c = front \o (back \o c)
  BY <1>1, Associative
<1>6. QED
  BY <1>2, <1>4, <1>5 DEF front, back

\* Two ways to cut one sequence agree where they overlap.
LEMMA SameFront ==
    ASSUME NEW a \in Bytes, NEW x \in Bytes, NEW b \in Bytes, NEW y \in Bytes,
           a \o x = b \o y
    PROVE  \A j \in 1 .. Len(a) : j <= Len(b) => a[j] = b[j]
<1>1. Len(a) \in Nat /\ Len(b) \in Nat /\ Len(x) \in Nat /\ Len(y) \in Nat
  BY LenProperties DEF Bytes
<1>2. /\ \A i \in 1 .. Len(a) + Len(x) :
             (a \o x)[i] = IF i <= Len(a) THEN a[i] ELSE x[i - Len(a)]
      /\ \A i \in 1 .. Len(b) + Len(y) :
             (b \o y)[i] = IF i <= Len(b) THEN b[i] ELSE y[i - Len(b)]
  BY ConcatProperties DEF Bytes
<1>3. ASSUME NEW j \in 1 .. Len(a), j <= Len(b) PROVE a[j] = b[j]
  <2>1. (a \o x)[j] = a[j]
    BY <1>1, <1>2
  <2>2. (b \o y)[j] = b[j]
    BY <1>1, <1>2, <1>3
  <2>3. QED
    BY <2>1, <2>2
<1>4. QED
  BY <1>3

LEMMA SameCut ==
    ASSUME NEW a \in Bytes, NEW x \in Bytes, NEW b \in Bytes, NEW y \in Bytes,
           a \o x = b \o y, Len(a) = Len(b)
    PROVE  a = b /\ x = y
<1>1. Len(a) \in Nat
  BY LenProperties DEF Bytes
<1>2. \A i \in 1 .. Len(a) : a[i] = b[i]
  BY <1>1, SameFront
<1>3. a = b
  BY <1>2, SeqEqual DEF Bytes
<1>4. a \o x = a \o y
  BY <1>3
<1>5. x = y
  BY <1>4, ConcatSimplifications DEF Bytes
<1>6. QED
  BY <1>3, <1>5

-----------------------------------------------------------------------------
(***************************************************************************)
(* Frames                                                                  *)
(***************************************************************************)

\* The two digits of the prefix say the length.
LEMMA TwoDigits ==
    ASSUME StreamConstants, NEW n \in Nat, NEW high, NEW low,
           high = n \div Base, low = n % Base
    PROVE  high \in Nat /\ low \in Nat /\ high * Base + low = n
<1>1. Base \in Nat /\ Base > 0
  BY DEF StreamConstants
<1>2. high \in Nat /\ low \in Nat
  BY <1>1
<1>3. high * Base + low = n
  BY <1>1, <1>2
<1>4. QED
  BY <1>2, <1>3

\* A frame is its prefix and its body, and says how long it is
\* (encode_length_prefixed).
LEMMA Encoded ==
    ASSUME StreamConstants, NEW body \in Bytes
    PROVE  /\ Encode(body) \in Bytes
           /\ Len(body) \in Nat /\ Len(Encode(body)) = PrefixLength + Len(body)
           /\ Encode(body)[1] * Base + Encode(body)[2] = Len(body)
           /\ Body(Encode(body)) = body
<1> DEFINE high == Len(body) \div Base
           low == Len(body) % Base
           prefix == <<high, low>>
<1>1. Len(body) \in Nat
  BY LenProperties DEF Bytes
<1>2. high \in Nat /\ low \in Nat /\ high * Base + low = Len(body)
  <2>1. high = Len(body) \div Base /\ low = Len(body) % Base
    OBVIOUS
  <2> HIDE DEF high, low
  <2>2. QED
    BY <1>1, <2>1, TwoDigits
<1>3. Encode(body) = prefix \o body
  BY DEF Encode
<1> HIDE DEF high, low
<1>4. prefix \in Bytes /\ Len(prefix) = 2 /\ prefix[1] = high /\ prefix[2] = low
  BY <1>2 DEF Bytes
<1> HIDE DEF prefix
<1>5. /\ prefix \o body \in Bytes
      /\ Len(prefix \o body) = 2 + Len(body)
      /\ \A i \in 1 .. 2 + Len(body) :
             (prefix \o body)[i] = IF i <= 2 THEN prefix[i] ELSE body[i - 2]
  <2>1. /\ prefix \o body \in Seq(Nat)
        /\ Len(prefix \o body) = Len(prefix) + Len(body)
        /\ \A i \in 1 .. Len(prefix) + Len(body) :
               (prefix \o body)[i] = IF i <= Len(prefix) THEN prefix[i] ELSE body[i - Len(prefix)]
    BY <1>4, ConcatProperties DEF Bytes
  <2>2. QED
    BY <1>4, <2>1 DEF Bytes
<1>6. (prefix \o body)[1] = high /\ (prefix \o body)[2] = low
  BY <1>1, <1>4, <1>5
<1>7. Body(prefix \o body) = body
  <2> DEFINE whole == prefix \o body
  <2>1. 2 \in 0 .. Len(whole)
    BY <1>1, <1>5
  <2> HIDE DEF whole
  <2>2. whole \in Bytes
    BY <1>5 DEF whole
  <2> DEFINE front == SubSeq(whole, 1, 2)
             back == SubSeq(whole, 2 + 1, Len(whole))
  <2>3. front \in Bytes /\ Len(front) = 2 /\ back \in Bytes /\ front \o back = whole
    BY <2>1, <2>2, Cut
  <2> HIDE DEF front, back
  <2>4. front \o back = prefix \o body
    BY <2>3 DEF whole
  <2>5. back = body
    BY <1>4, <2>3, <2>4, SameCut
  <2>6. QED
    BY <2>5 DEF Body, PrefixLength, whole, back
<1>8. QED
  BY <1>1, <1>2, <1>3, <1>5, <1>6, <1>7 DEF PrefixLength

\* What has two bytes of a frame has its length, and what has its length is it.
LEMMA FrontOfFrame ==
    ASSUME StreamConstants, NEW body \in Bytes, NEW y \in Bytes,
           NEW front \in Bytes, NEW x \in Bytes,
           front \o x = Encode(body) \o y, Len(front) >= PrefixLength
    PROVE  /\ DeclaredLength(front) = Len(body)
           /\ Len(front) = PrefixLength + Len(body) => front = Encode(body)
<1>1. /\ Encode(body) \in Bytes
      /\ Len(body) \in Nat /\ Len(Encode(body)) = 2 + Len(body)
      /\ Encode(body)[1] * Base + Encode(body)[2] = Len(body)
  BY Encoded DEF PrefixLength
<1> DEFINE frame == Encode(body)
<1> HIDE DEF frame
<1>2. frame \in Bytes /\ front \o x = frame \o y
  BY <1>1 DEF frame
<1>3. \A j \in 1 .. Len(front) : j <= Len(frame) => front[j] = frame[j]
  BY <1>2, SameFront
<1>4. Len(front) \in Nat /\ Len(front) >= 2
  BY LenProperties DEF Bytes, PrefixLength
<1>5. front[1] = frame[1] /\ front[2] = frame[2]
  <2>1. Len(frame) \in Nat /\ Len(frame) >= 2
    BY <1>1 DEF frame
  <2>2. 1 \in 1 .. Len(front) /\ 1 <= Len(frame) /\ 2 \in 1 .. Len(front) /\ 2 <= Len(frame)
    BY <1>4, <2>1
  <2>3. QED
    BY <1>3, <2>2
<1>6. DeclaredLength(front) = Len(body)
  BY <1>1, <1>5 DEF DeclaredLength, frame
<1>7. Len(front) = 2 + Len(body) => front = frame
  <2>1. Len(frame) = 2 + Len(body)
    BY <1>1 DEF frame
  <2>2. QED
    BY <1>2, <2>1, SameCut
<1>8. QED
  BY <1>6, <1>7 DEF frame, PrefixLength

-----------------------------------------------------------------------------
(***************************************************************************)
(* The stream                                                              *)
(***************************************************************************)

StreamTypes ==
    /\ begun \in Seq(Bytes) /\ received \in Seq(Bytes)
    /\ unwritten \in Bytes /\ wire \in Bytes /\ buffer \in Bytes /\ taken \in Bytes
    /\ writer \in {"idle", "writing", "failed"}
    /\ reader \in {"idle", "reading", "frame", "TooLarge", "Undecodable", "Io"}
    /\ writer # "writing" => unwritten = <<>>
    /\ writer = "failed" => hungUp
    /\ Len(wire) <= Capacity

\* What the read in progress has taken.
InProgress == IF reader = "idle" THEN <<>> ELSE taken

\* From each frame on, what the frames that were begun come to.
Remaining(rest) ==
    /\ rest[Len(begun) + 1] = <<>>
    /\ \A k \in 1 .. Len(begun) : rest[k] = Encode(begun[k]) \o rest[k + 1]

\* Between the reader and the end of what was begun lie the frames that are not
\* read yet: what a writer that failed did not write is lost.
ConveyInv ==
    /\ Len(received) <= Len(begun)
    /\ \E lost \in Bytes, rest \in [1 .. Len(begun) + 1 -> Bytes] :
           /\ writer # "failed" => lost = unwritten
           /\ Remaining(rest)
           /\ InProgress \o (buffer \o (wire \o lost)) = rest[Len(received) + 1]

\* The frame that is read next.
Current == begun[Len(received) + 1]

ReaderInv ==
    /\ \A k \in 1 .. Len(received) :
           received[k] = begun[k] /\ Len(received[k]) <= MaxFrame
    /\ reader = "reading" =>
           \/ Len(taken) < PrefixLength
           \/ /\ DeclaredLength(taken) <= MaxFrame
              /\ Len(taken) < PrefixLength + DeclaredLength(taken)
    /\ reader \in {"frame", "TooLarge", "Undecodable"} => Len(received) < Len(begun)
    /\ reader = "frame" =>
           taken = Encode(Current) /\ Current \in Decodable /\ Len(Current) <= MaxFrame
    /\ reader = "TooLarge" => Len(Current) > MaxFrame /\ Len(taken) = PrefixLength
    /\ reader = "Undecodable" => Current \notin Decodable
    /\ reader = "Io" => shut

StreamInv == StreamTypes /\ ConveyInv /\ ReaderInv

\* The steps of FrameStream, with what they mean for the bodies.
Continue ==
    WriteSome \/ WriteFails \/ BeginRead \/ Reading \/ CloseWriter \/ CloseReader

StreamNext ==
    \/ \E body \in Bytes : BeginFrame(body) /\ begun' = Append(begun, body) /\ UNCHANGED received
    \/ TakeFrame /\ received' = Append(received, Body(taken)) /\ UNCHANGED begun
    \/ (Continue \/ UNCHANGED streamVars) /\ UNCHANGED <<begun, received>>

LEMMA StreamBegins ==
    ASSUME StreamInit, begun = <<>>, received = <<>>, StreamConstants
    PROVE  StreamInv
<1>1. <<>> \in Bytes /\ Len(<<>>) = 0
  BY DEF Bytes
<1>2. StreamTypes
  BY <1>1 DEF StreamInit, StreamTypes, StreamConstants
<1>3. ConveyInv
  <2> DEFINE rest == [k \in 1 .. 1 |-> <<>>]
  <2>1. rest \in [1 .. Len(begun) + 1 -> Bytes] /\ Remaining(rest)
    BY <1>1 DEF Remaining
  <2>2. InProgress \o (buffer \o (wire \o <<>>)) = rest[Len(received) + 1]
    BY <1>1 DEF StreamInit, InProgress
  <2>3. Len(received) <= Len(begun) /\ unwritten = <<>>
    BY <1>1 DEF StreamInit
  <2> HIDE DEF rest
  <2>4. QED
    BY <1>1, <2>1, <2>2, <2>3 DEF ConveyInv
<1>4. ReaderInv
  BY <1>1 DEF StreamInit, ReaderInv
<1>5. QED
  BY <1>2, <1>3, <1>4 DEF StreamInv

\* What a read or a write in progress leaves of what it takes from.
LEMMA Taken ==
    ASSUME NEW s \in Bytes, NEW limit \in Nat, NEW n \in 1 .. Least(limit, Len(s))
    PROVE  n \in 0 .. Len(s) /\ n <= limit
<1>1. PICK m \in Nat : m = Len(s)
  BY LenProperties DEF Bytes
<1>2. n \in 1 .. Least(limit, m)
  BY <1>1
<1>3. n \in 0 .. m /\ n <= limit
  BY <1>2 DEF Least
<1>4. QED
  BY <1>1, <1>3

LEMMA LackingType ==
    ASSUME StreamConstants, StreamTypes, ReaderInv, reader = "reading"
    PROVE  /\ Lacking(taken) \in Nat
           /\ Len(taken) < PrefixLength => Lacking(taken) = PrefixLength - Len(taken)
           /\ Len(taken) >= PrefixLength =>
                  Lacking(taken) = PrefixLength + DeclaredLength(taken) - Len(taken)
<1>1. PICK m \in Nat : m = Len(taken)
  BY LenProperties DEF StreamTypes, Bytes
<1>2. CASE m < 2
  BY <1>1, <1>2 DEF Lacking, PrefixLength
<1>3. CASE m >= 2
  <2>1. taken[1] \in Nat /\ taken[2] \in Nat
    BY <1>1, <1>3 DEF StreamTypes, Bytes
  <2>2. PICK d \in Nat : d = DeclaredLength(taken)
    BY <2>1 DEF StreamConstants, DeclaredLength
  <2>3. Lacking(taken) = 2 + d - m
    BY <1>1, <1>3, <2>2 DEF Lacking, PrefixLength
  <2>4. m < 2 + d
    BY <1>1, <1>3, <2>2 DEF ReaderInv, PrefixLength
  <2>5. QED
    BY <1>1, <1>3, <2>2, <2>3, <2>4 DEF PrefixLength
<1>4. QED
  BY <1>2, <1>3

\* One write: what goes onto the wire is the front of what was unwritten.
LEMMA WriteMoves ==
    ASSUME StreamConstants, StreamTypes, WriteSome
    PROVE  \E n \in 0 .. Len(unwritten) :
               /\ wire' = wire \o SubSeq(unwritten, 1, n)
               /\ unwritten' = SubSeq(unwritten, n + 1, Len(unwritten))
               /\ wire' \in Bytes /\ unwritten' \in Bytes /\ Len(wire') <= Capacity
<1>1. PICK n \in 1 .. Least(Len(unwritten), Capacity - Len(wire)) :
          /\ wire' = wire \o SubSeq(unwritten, 1, n)
          /\ unwritten' = SubSeq(unwritten, n + 1, Len(unwritten))
  BY DEF WriteSome
<1>2. PICK m \in Nat : m = Len(unwritten)
  BY LenProperties DEF StreamTypes, Bytes
<1>3. PICK w \in Nat : w = Len(wire) /\ w <= Capacity
  BY LenProperties DEF StreamTypes, Bytes
<1>4. n \in 0 .. m /\ n + w <= Capacity
  <2>1. n \in 1 .. Least(m, Capacity - w) /\ Capacity \in Nat
    BY <1>1, <1>2, <1>3 DEF StreamConstants
  <2>2. QED
    BY <1>3, <2>1 DEF Least
<1> DEFINE front == SubSeq(unwritten, 1, n)
           back == SubSeq(unwritten, n + 1, Len(unwritten))
<1>5. front \in Bytes /\ Len(front) = n /\ back \in Bytes
  BY <1>2, <1>4, Cut DEF StreamTypes
<1> HIDE DEF front, back
<1>6. wire \o front \in Bytes /\ Len(wire \o front) = Len(wire) + Len(front)
  BY <1>5, ConcatProperties DEF StreamTypes, Bytes
<1>7. wire' = wire \o front /\ unwritten' = back
  BY <1>1 DEF front, back
<1>8. Len(wire') <= Capacity
  BY <1>3, <1>4, <1>5, <1>6, <1>7
<1>9. QED
  BY <1>1, <1>2, <1>4, <1>5, <1>6, <1>7, <1>8 DEF front, back

\* The BufReader fills: the front of the wire is in the buffer.
LEMMA FillMoves ==
    ASSUME StreamConstants, StreamTypes, FillBuffer
    PROVE  \E n \in 0 .. Len(wire) :
               /\ buffer = <<>> /\ buffer' = SubSeq(wire, 1, n)
               /\ wire' = SubSeq(wire, n + 1, Len(wire))
               /\ buffer' \in Bytes /\ wire' \in Bytes /\ Len(wire') <= Capacity
<1>1. PICK n \in 1 .. Len(wire) :
          buffer' = SubSeq(wire, 1, n) /\ wire' = SubSeq(wire, n + 1, Len(wire))
  BY DEF FillBuffer
<1>2. PICK w \in Nat : w = Len(wire) /\ w <= Capacity
  BY LenProperties DEF StreamTypes, Bytes
<1>3. n \in 0 .. Len(wire)
  BY <1>2
<1> DEFINE front == SubSeq(wire, 1, n)
           back == SubSeq(wire, n + 1, Len(wire))
<1>4. front \in Bytes /\ back \in Bytes /\ Len(back) = Len(wire) - n
  BY <1>3, Cut DEF StreamTypes
<1> HIDE DEF front, back
<1>5. buffer' = front /\ wire' = back
  BY <1>1 DEF front, back
<1>6. Len(wire') <= Capacity
  <2>1. Len(wire') = w - n /\ Capacity \in Nat
    BY <1>2, <1>4, <1>5 DEF StreamConstants
  <2>2. QED
    BY <1>2, <2>1
<1>7. QED
  BY <1>1, <1>3, <1>4, <1>5, <1>6 DEF FillBuffer

\* One read: what read_frame takes is the front of the buffer, or of the wire
\* where nothing is buffered.
LEMMA ReadMoves ==
    ASSUME StreamConstants, StreamTypes, ReaderInv, ReadSome
    PROVE  /\ taken' \in Bytes /\ Len(taken') <= Len(taken) + Lacking(taken)
           /\ buffer' \in Bytes /\ wire' \in Bytes /\ Len(wire') <= Capacity
           /\ \A lost \in Bytes :
                  taken' \o (buffer' \o (wire' \o lost)) = taken \o (buffer \o (wire \o lost))
<1>0. reader = "reading" /\ Lacking(taken) \in Nat
  BY LackingType DEF ReadSome
<1>1. PICK n \in 1 .. Least(Lacking(taken), AtHand) : TakeBytes(n)
  BY DEF ReadSome
<1> DEFINE source == IF buffer # <<>> THEN buffer ELSE wire
           front == SubSeq(source, 1, n)
           back == SubSeq(source, n + 1, Len(source))
<1>2. source \in Bytes /\ n \in 0 .. Len(source) /\ n <= Lacking(taken)
  <2>1. source \in Bytes /\ AtHand = Len(source)
    BY DEF StreamTypes, AtHand
  <2> HIDE DEF source
  <2>2. QED
    BY <1>0, <1>1, <2>1, Taken
<1>3. /\ front \in Bytes /\ Len(front) = n
      /\ back \in Bytes /\ Len(back) = Len(source) - n
  <2> HIDE DEF source
  <2>1. QED
    BY <1>2, Cut
<1>4. taken' = taken \o front
  BY <1>1 DEF TakeBytes
<1>5. taken' \in Bytes /\ Len(taken') <= Len(taken) + Lacking(taken)
  <2> HIDE DEF source, front
  <2>1. taken \o front \in Bytes /\ Len(taken \o front) = Len(taken) + Len(front)
    BY <1>3, ConcatProperties DEF StreamTypes, Bytes
  <2>2. Len(taken) \in Nat
    BY LenProperties DEF StreamTypes, Bytes
  <2>3. Len(taken') = Len(taken) + n /\ taken' \in Bytes
    BY <1>3, <1>4, <2>1
  <2>4. QED
    BY <1>0, <1>2, <2>2, <2>3
<1>6. CASE buffer # <<>>
  <2>1. source = buffer /\ buffer' = back /\ wire' = wire
    BY <1>1, <1>6 DEF TakeBytes
  <2>2. ASSUME NEW lost \in Bytes
        PROVE  taken' \o (buffer' \o (wire' \o lost)) = taken \o (buffer \o (wire \o lost))
    <3> DEFINE c == wire \o lost
    <3>1. c \in Bytes
      BY ConcatProperties DEF StreamTypes, Bytes
    <3> HIDE DEF c, source, front, back
    <3>2. n \in 0 .. Len(buffer) /\ taken \in Bytes /\ buffer \in Bytes
      BY <1>2, <2>1 DEF StreamTypes
    <3>3. (taken \o SubSeq(buffer, 1, n)) \o (SubSeq(buffer, n + 1, Len(buffer)) \o c)
              = taken \o (buffer \o c)
      BY <3>1, <3>2, Shift
    <3>4. taken' = taken \o SubSeq(buffer, 1, n) /\ buffer' = SubSeq(buffer, n + 1, Len(buffer))
      BY <1>4, <2>1 DEF front, back
    <3>5. QED
      BY <2>1, <3>3, <3>4 DEF c
  <2>3. QED
    BY <1>3, <1>5, <2>1, <2>2 DEF StreamTypes
<1>7. CASE buffer = <<>>
  <2>1. source = wire /\ wire' = back /\ buffer' = <<>>
    BY <1>1, <1>7 DEF TakeBytes
  <2>2. Len(wire') <= Capacity
    <3>1. PICK w \in Nat : w = Len(wire) /\ w <= Capacity
      BY LenProperties DEF StreamTypes, Bytes
    <3>2. Len(wire') = w - n /\ n \in Nat /\ Capacity \in Nat
      BY <1>3, <2>1, <3>1 DEF StreamConstants
    <3>3. QED
      BY <3>1, <3>2
  <2>3. ASSUME NEW lost \in Bytes
        PROVE  taken' \o (buffer' \o (wire' \o lost)) = taken \o (buffer \o (wire \o lost))
    <3> HIDE DEF source, front, back
    <3>1. n \in 0 .. Len(wire) /\ taken \in Bytes /\ wire \in Bytes
      BY <1>2, <2>1 DEF StreamTypes
    <3>2. (taken \o SubSeq(wire, 1, n)) \o (SubSeq(wire, n + 1, Len(wire)) \o lost)
              = taken \o (wire \o lost)
      BY <3>1, Shift
    <3>3. taken' = taken \o SubSeq(wire, 1, n) /\ wire' = SubSeq(wire, n + 1, Len(wire))
      BY <1>4, <2>1 DEF front, back
    <3>4. wire \o lost \in Seq(Nat) /\ wire' \o lost \in Seq(Nat)
      BY <1>3, <2>1, ConcatProperties DEF StreamTypes, Bytes
    <3>5. <<>> \o (wire \o lost) = wire \o lost /\ <<>> \o (wire' \o lost) = wire' \o lost
      BY <3>4, ConcatEmptySeq
    <3>6. QED
      BY <1>7, <2>1, <3>2, <3>3, <3>5
  <2>4. buffer' \in Bytes
    BY <2>1 DEF Bytes
  <2> HIDE DEF source, front, back
  <2>5. QED
    BY <1>3, <1>5, <2>1, <2>2, <2>3, <2>4
<1>8. QED
  BY <1>6, <1>7

\* Where more lies ahead than what has been read there is a next frame.
LEMMA CurrentType ==
    ASSUME StreamTypes, Len(received) < Len(begun)
    PROVE  Len(received) + 1 \in 1 .. Len(begun) /\ Current \in Bytes
<1>1. Len(received) \in Nat /\ Len(begun) \in Nat
  BY LenProperties DEF StreamTypes
<1>2. Len(received) + 1 \in 1 .. Len(begun)
  BY <1>1
<1>3. \A k \in 1 .. Len(begun) : begun[k] \in Bytes
  BY ElementOfSeq DEF StreamTypes
<1>4. QED
  BY <1>2, <1>3 DEF Current

\* The frame that the caller gets is the next one.
LEMMA FrameIsCurrent ==
    ASSUME StreamConstants, StreamTypes, ReaderInv, reader = "frame"
    PROVE  /\ Len(received) < Len(begun) /\ Current \in Bytes
           /\ taken = Encode(Current) /\ Body(taken) = Current
           /\ Current \in Decodable /\ Len(Current) <= MaxFrame
<1>1. /\ Len(received) < Len(begun) /\ taken = Encode(Current)
      /\ Current \in Decodable /\ Len(Current) <= MaxFrame
  BY DEF ReaderInv
<1>2. Current \in Bytes
  BY <1>1, CurrentType
<1>3. Body(taken) = Current
  BY <1>1, <1>2, Encoded
<1>4. QED
  BY <1>1, <1>2, <1>3

-----------------------------------------------------------------------------
LEMMA TypesStep ==
    ASSUME StreamConstants, StreamInv, StreamNext
    PROVE  StreamTypes'
<1> USE DEF StreamInv
<1>0. <<>> \in Bytes /\ Len(<<>>) = 0
  BY DEF Bytes
<1>1. ASSUME NEW body \in Bytes, BeginFrame(body), begun' = Append(begun, body), UNCHANGED received
      PROVE  StreamTypes'
  <2>1. Encode(body) \in Bytes
    BY Encoded
  <2>2. begun' \in Seq(Bytes)
    BY <1>1, AppendProperties DEF StreamTypes
  <2>3. QED
    BY <1>1, <2>1, <2>2 DEF StreamTypes, BeginFrame
<1>2. CASE TakeFrame /\ received' = Append(received, Body(taken)) /\ UNCHANGED begun
  <2>1. Body(taken) \in Bytes
    BY <1>2, FrameIsCurrent DEF TakeFrame
  <2>2. received' \in Seq(Bytes)
    BY <1>2, <2>1, AppendProperties DEF StreamTypes
  <2>3. QED
    BY <1>2, <2>2 DEF StreamTypes, TakeFrame
<1>3. CASE UNCHANGED <<begun, received>>
  <2> USE <1>3
  <2>1. CASE WriteSome
    <3>1. wire' \in Bytes /\ unwritten' \in Bytes /\ Len(wire') <= Capacity
      BY <2>1, WriteMoves
    <3>2. writer' \in {"idle", "writing"} /\ (writer' # "writing" => unwritten' = <<>>)
      BY <2>1 DEF WriteSome
    <3>3. UNCHANGED <<reader, buffer, taken, hungUp>>
      BY <2>1 DEF WriteSome
    <3>4. QED
      BY <3>1, <3>2, <3>3 DEF StreamTypes
  <2>2. CASE WriteFails
    BY <1>0, <2>2 DEF StreamTypes, WriteFails
  <2>3. CASE BeginRead
    BY <1>0, <2>3 DEF StreamTypes, BeginRead
  <2>4. CASE FillBuffer
    <3>1. wire' \in Bytes /\ buffer' \in Bytes /\ Len(wire') <= Capacity
      BY <2>4, FillMoves
    <3>2. UNCHANGED <<writer, unwritten, reader, taken, hungUp>>
      BY <2>4 DEF FillBuffer
    <3>3. QED
      BY <3>1, <3>2 DEF StreamTypes
  <2>5. CASE ReadSome
    <3>1. taken' \in Bytes /\ wire' \in Bytes /\ buffer' \in Bytes /\ Len(wire') <= Capacity
      BY <2>5, ReadMoves
    <3>2. UNCHANGED <<writer, unwritten, hungUp>>
      BY <2>5 DEF ReadSome
    <3>3. reader' \in {"reading", "frame", "TooLarge", "Undecodable"}
      BY <2>5 DEF ReadSome, Progress
    <3>4. QED
      BY <3>1, <3>2, <3>3 DEF StreamTypes
  <2>6. CASE ReadEnds
    BY <2>6 DEF StreamTypes, ReadEnds
  <2>7. CASE CloseWriter \/ CloseReader
    BY <2>7 DEF StreamTypes, CloseWriter, CloseReader
  <2>8. CASE UNCHANGED streamVars
    BY <2>8 DEF StreamTypes, streamVars
  <2>9. CASE StreamNext
    BY <2>1, <2>2, <2>3, <2>4, <2>5, <2>6, <2>7, <2>8, <1>1, <1>2
       DEF StreamNext, Continue, Reading
  <2>10. QED
    BY <2>9
<1>4. QED
  BY <1>1, <1>2, <1>3 DEF StreamNext

\* Where the bodies stay what they are, the invariant holds again if what lies
\* ahead is what lay ahead.
LEMMA SameAhead ==
    ASSUME ConveyInv, UNCHANGED <<begun, received>>,
           \A lost \in Bytes :
               (writer # "failed" => lost = unwritten) =>
                   \E again \in Bytes :
                       /\ writer' # "failed" => again = unwritten'
                       /\ InProgress' \o (buffer' \o (wire' \o again))
                              = InProgress \o (buffer \o (wire \o lost))
    PROVE  ConveyInv'
<1>1. PICK lost \in Bytes, rest \in [1 .. Len(begun) + 1 -> Bytes] :
          /\ writer # "failed" => lost = unwritten
          /\ Remaining(rest)
          /\ InProgress \o (buffer \o (wire \o lost)) = rest[Len(received) + 1]
  BY DEF ConveyInv
<1>2. PICK again \in Bytes :
          /\ writer' # "failed" => again = unwritten'
          /\ InProgress' \o (buffer' \o (wire' \o again))
                 = InProgress \o (buffer \o (wire \o lost))
  BY <1>1
<1>3. Remaining(rest)'
  BY <1>1 DEF Remaining
<1>4. /\ InProgress' \o (buffer' \o (wire' \o again)) = rest[Len(received') + 1]
      /\ rest \in [1 .. Len(begun') + 1 -> Bytes] /\ Len(received') <= Len(begun')
  BY <1>1, <1>2 DEF ConveyInv
<1>5. QED
  BY <1>2, <1>3, <1>4 DEF ConveyInv

\* A frame that is begun comes after all that lies ahead.
LEMMA BeginConveys ==
    ASSUME StreamConstants, StreamInv, NEW body \in Bytes,
           BeginFrame(body), begun' = Append(begun, body), UNCHANGED received
    PROVE  ConveyInv'
<1> USE DEF StreamInv
<1> DEFINE frame == Encode(body)
<1>1. frame \in Bytes
  BY Encoded
<1> HIDE DEF frame
<1>2. unwritten = <<>> /\ writer = "idle" /\ writer' = "writing" /\ unwritten' = frame
  BY DEF BeginFrame, StreamTypes, frame
<1>3. PICK rest \in [1 .. Len(begun) + 1 -> Bytes] :
          /\ Remaining(rest)
          /\ InProgress \o (buffer \o (wire \o <<>>)) = rest[Len(received) + 1]
  BY <1>2 DEF ConveyInv
<1>4. PICK n \in Nat : n = Len(begun)
  BY LenProperties DEF StreamTypes
<1>5. PICK r \in Nat : r = Len(received) /\ r <= n
  BY <1>4, LenProperties DEF StreamTypes, ConveyInv
<1>6. /\ Len(begun') = n + 1 /\ begun'[n + 1] = body
      /\ \A k \in 1 .. n : begun'[k] = begun[k]
  BY <1>4, AppendProperties DEF StreamTypes
<1> DEFINE more == [k \in 1 .. n + 2 |-> IF k = n + 2 THEN <<>> ELSE rest[k] \o frame]
<1>7. \A k \in 1 .. n + 1 : rest[k] \in Bytes /\ rest[k] \o frame \in Bytes
  BY <1>1, <1>3, <1>4, ConcatProperties DEF Bytes
<1>8. more \in [1 .. n + 2 -> Bytes]
  <2>1. <<>> \in Bytes
    BY DEF Bytes
  <2>2. \A k \in 1 .. n + 2 : k = n + 2 \/ k \in 1 .. n + 1
    BY <1>4
  <2>3. QED
    BY <1>7, <2>1, <2>2
<1>9. more[n + 2] = <<>> /\ \A k \in 1 .. n + 1 : more[k] = rest[k] \o frame
  BY <1>4
<1> HIDE DEF more
<1>10. Remaining(more)'
  <2>1. more[Len(begun') + 1] = <<>>
    BY <1>4, <1>6, <1>9
  <2>2. more[n + 1] = Encode(body) \o more[n + 2]
    <3>1. rest[n + 1] = <<>>
      BY <1>3, <1>4 DEF Remaining
    <3>2. <<>> \o frame = frame /\ frame \o <<>> = frame
      BY <1>1, ConcatEmptySeq DEF Bytes
    <3>3. n + 1 \in 1 .. n + 1
      BY <1>4
    <3>4. QED
      BY <1>9, <3>1, <3>2, <3>3 DEF frame
  <2>3. ASSUME NEW k \in 1 .. n
        PROVE  more[k] = Encode(begun[k]) \o more[k + 1]
    <3>1. k \in 1 .. n + 1 /\ k + 1 \in 1 .. n + 1
      BY <1>4
    <3>2. begun[k] \in Bytes
      BY <1>4, ElementOfSeq DEF StreamTypes
    <3>3. Encode(begun[k]) \in Bytes
      BY <3>2, Encoded
    <3>4. rest[k] = Encode(begun[k]) \o rest[k + 1]
      BY <1>3, <1>4 DEF Remaining
    <3>5. (Encode(begun[k]) \o rest[k + 1]) \o frame = Encode(begun[k]) \o (rest[k + 1] \o frame)
      BY <1>1, <1>7, <3>1, <3>3, Associative
    <3>6. QED
      BY <1>9, <3>1, <3>4, <3>5
  <2>4. \A k \in 1 .. n + 1 : more[k] = Encode(begun'[k]) \o more[k + 1]
    <3>1. \A k \in 1 .. n + 1 : k \in 1 .. n \/ k = n + 1
      BY <1>4
    <3>2. more[n + 1] = Encode(begun'[n + 1]) \o more[(n + 1) + 1]
      <4>1. (n + 1) + 1 = n + 2
        BY <1>4
      <4>2. QED
        BY <1>6, <2>2, <4>1
    <3>3. QED
      BY <1>6, <2>3, <3>1, <3>2
  <2>5. QED
    BY <1>6, <2>1, <2>4 DEF Remaining
<1>11. InProgress' \o (buffer' \o (wire' \o frame)) = more[Len(received') + 1]
  <2>1. UNCHANGED <<InProgress, buffer, wire, received>>
    BY DEF BeginFrame, InProgress
  <2>2. InProgress \in Bytes
    BY DEF StreamTypes, InProgress, Bytes
  <2> DEFINE p == InProgress
  <2> HIDE DEF p
  <2>3. p \in Bytes /\ buffer \in Bytes /\ wire \in Bytes
    BY <2>2 DEF StreamTypes, p
  <2>4. buffer \o wire \in Bytes /\ wire \o frame \in Bytes
    BY <1>1, <2>3, ConcatProperties DEF Bytes
  <2>5. wire \o <<>> = wire
    BY <2>3, ConcatEmptySeq DEF Bytes
  <2>6. (p \o (buffer \o wire)) \o frame = p \o ((buffer \o wire) \o frame)
    <3> DEFINE q == buffer \o wire
    <3>1. q \in Bytes
      BY <2>4
    <3> HIDE DEF q
    <3>2. (p \o q) \o frame = p \o (q \o frame)
      BY <1>1, <2>3, <3>1, Associative
    <3>3. QED
      BY <3>2 DEF q
  <2>7. (buffer \o wire) \o frame = buffer \o (wire \o frame)
    BY <1>1, <2>3, Associative
  <2>8. rest[r + 1] = p \o (buffer \o wire)
    BY <1>3, <1>5, <2>5 DEF p
  <2>9. more[r + 1] = rest[r + 1] \o frame
    <3>1. r + 1 \in 1 .. n + 1
      BY <1>5
    <3>2. QED
      BY <1>9, <3>1
  <2>10. QED
    BY <1>5, <2>1, <2>6, <2>7, <2>8, <2>9 DEF p
<1>12. Len(received') <= Len(begun')
  BY <1>4, <1>5, <1>6
<1>13. more \in [1 .. Len(begun') + 1 -> Bytes]
  <2>1. Len(begun') + 1 = n + 2
    BY <1>4, <1>6
  <2>2. QED
    BY <1>8, <2>1
<1>14. QED
  BY <1>1, <1>2, <1>10, <1>11, <1>12, <1>13 DEF ConveyInv

\* The frame that the caller takes is the first of what lay ahead.
LEMMA TakeConveys ==
    ASSUME StreamConstants, StreamInv,
           TakeFrame, received' = Append(received, Body(taken)), UNCHANGED begun
    PROVE  ConveyInv'
<1> USE DEF StreamInv
<1>1. /\ Len(received) < Len(begun) /\ Current \in Bytes
      /\ taken = Encode(Current) /\ Body(taken) = Current
  BY FrameIsCurrent DEF TakeFrame
<1>2. PICK n \in Nat : n = Len(begun)
  BY LenProperties DEF StreamTypes
<1>3. PICK r \in Nat : r = Len(received) /\ r < n
  BY <1>1, <1>2, LenProperties DEF StreamTypes
<1>4. Len(received') = r + 1
  BY <1>1, <1>3, AppendProperties DEF StreamTypes
<1>5. PICK lost \in Bytes, rest \in [1 .. Len(begun) + 1 -> Bytes] :
          /\ writer # "failed" => lost = unwritten
          /\ Remaining(rest)
          /\ InProgress \o (buffer \o (wire \o lost)) = rest[Len(received) + 1]
  BY DEF ConveyInv
<1> DEFINE ahead == buffer \o (wire \o lost)
<1>6. ahead \in Bytes
  BY <1>5, ConcatProperties DEF StreamTypes, Bytes
<1>7. ahead = rest[r + 2]
  <2> HIDE DEF ahead
  <2>1. rest[r + 1] = taken \o rest[(r + 1) + 1]
    <3>1. r + 1 \in 1 .. n
      BY <1>3
    <3>2. QED
      BY <1>1, <1>2, <1>3, <1>5, <3>1 DEF Remaining, Current
  <2>2. rest[r + 1] = taken \o ahead
    BY <1>3, <1>5 DEF TakeFrame, InProgress, ahead
  <2>3. (r + 1) + 1 = r + 2 /\ r + 2 \in 1 .. n + 1
    BY <1>3
  <2>4. rest[r + 2] \in Bytes /\ taken \in Bytes
    BY <1>2, <1>5, <2>3 DEF StreamTypes
  <2>5. taken \o ahead = taken \o rest[r + 2]
    BY <2>1, <2>2, <2>3
  <2>6. QED
    BY <1>6, <2>4, <2>5, SameCut
<1>8. InProgress' \o (buffer' \o (wire' \o lost)) = ahead
  <2>1. InProgress' = <<>> /\ UNCHANGED <<buffer, wire>>
    BY DEF TakeFrame, InProgress
  <2>2. <<>> \o ahead = ahead
    <3> HIDE DEF ahead
    <3>1. QED
      BY <1>6, ConcatEmptySeq DEF Bytes
  <2>3. QED
    BY <2>1, <2>2
<1>9. Len(received') + 1 = r + 2 /\ Len(received') <= Len(begun')
  BY <1>2, <1>3, <1>4
<1>10. Remaining(rest)' /\ (writer' # "failed" => lost = unwritten')
  BY <1>5 DEF Remaining, TakeFrame
<1>11. rest \in [1 .. Len(begun') + 1 -> Bytes]
  BY <1>5
<1>12. InProgress' \o (buffer' \o (wire' \o lost)) = rest[Len(received') + 1]
  BY <1>7, <1>8, <1>9
<1>13. QED
  BY <1>5, <1>9, <1>10, <1>11, <1>12 DEF ConveyInv

LEMMA ConveyStep ==
    ASSUME StreamConstants, StreamInv, StreamNext
    PROVE  ConveyInv'
<1>1. ASSUME NEW body \in Bytes, BeginFrame(body), begun' = Append(begun, body), UNCHANGED received
      PROVE  ConveyInv'
  BY <1>1, BeginConveys
<1>2. CASE TakeFrame /\ received' = Append(received, Body(taken)) /\ UNCHANGED begun
  BY <1>2, TakeConveys
<1>3. CASE (Continue \/ UNCHANGED streamVars) /\ UNCHANGED <<begun, received>>
  <2>0. StreamTypes /\ ReaderInv /\ ConveyInv
    BY DEF StreamInv
  <2>1. SUFFICES ASSUME NEW lost \in Bytes, writer # "failed" => lost = unwritten
                 PROVE  \E again \in Bytes :
                            /\ writer' # "failed" => again = unwritten'
                            /\ InProgress' \o (buffer' \o (wire' \o again))
                                   = InProgress \o (buffer \o (wire \o lost))
    BY <1>3, <2>0, SameAhead
  <2>2. CASE WriteSome
    <3>1. PICK n \in 0 .. Len(unwritten) :
              /\ wire' = wire \o SubSeq(unwritten, 1, n)
              /\ unwritten' = SubSeq(unwritten, n + 1, Len(unwritten))
              /\ unwritten' \in Bytes
      BY <2>0, <2>2, WriteMoves
    <3>2. lost = unwritten /\ UNCHANGED <<InProgress, buffer>>
      BY <2>1, <2>2 DEF WriteSome, InProgress
    <3>3. wire \in Bytes /\ unwritten \in Bytes /\ <<>> \in Bytes
      BY <2>0 DEF StreamTypes, Bytes
    <3>4. (wire \o SubSeq(unwritten, 1, n)) \o (SubSeq(unwritten, n + 1, Len(unwritten)) \o <<>>)
              = wire \o (unwritten \o <<>>)
      <4>1. n \in 0 .. Len(unwritten)
        BY <3>1
      <4>2. QED
        BY <3>3, <4>1, Shift
    <3>5. /\ SubSeq(unwritten, n + 1, Len(unwritten)) \o <<>>
                 = SubSeq(unwritten, n + 1, Len(unwritten))
          /\ unwritten \o <<>> = unwritten
      <4>1. \A s \in Bytes : s \o <<>> = s
        BY ConcatEmptySeq DEF Bytes
      <4>2. QED
        BY <3>1, <3>3, <4>1
    <3>6. wire' \o unwritten' = wire \o lost
      BY <3>1, <3>2, <3>4, <3>5
    <3>7. QED
      BY <3>1, <3>2, <3>6
  <2>3. CASE WriteFails
    BY <2>3 DEF WriteFails, InProgress
  <2>4. CASE BeginRead
    BY <2>1, <2>4 DEF BeginRead, InProgress
  <2>5. CASE FillBuffer
    <3>1. PICK n \in 0 .. Len(wire) :
              /\ buffer = <<>> /\ buffer' = SubSeq(wire, 1, n)
              /\ wire' = SubSeq(wire, n + 1, Len(wire))
              /\ buffer' \in Bytes /\ wire' \in Bytes
      BY <2>0, <2>5, FillMoves
    <3>2. UNCHANGED <<writer, unwritten, InProgress>>
      BY <2>5 DEF FillBuffer, InProgress
    <3>3. <<>> \in Bytes /\ wire \in Bytes
      BY <2>0 DEF StreamTypes, Bytes
    <3>4. (<<>> \o SubSeq(wire, 1, n)) \o (SubSeq(wire, n + 1, Len(wire)) \o lost)
              = <<>> \o (wire \o lost)
      <4> DEFINE none == <<>>
      <4>1. n \in 0 .. Len(wire) /\ none \in Bytes
        BY <3>1, <3>3
      <4> HIDE DEF none
      <4>2. (none \o SubSeq(wire, 1, n)) \o (SubSeq(wire, n + 1, Len(wire)) \o lost)
                = none \o (wire \o lost)
        BY <2>1, <3>3, <4>1, Shift
      <4>3. QED
        BY <4>2 DEF none
    <3>5. <<>> \o SubSeq(wire, 1, n) = SubSeq(wire, 1, n)
      <4>1. \A s \in Bytes : <<>> \o s = s
        BY ConcatEmptySeq DEF Bytes
      <4>2. QED
        BY <3>1, <4>1
    <3>6. buffer' \o (wire' \o lost) = buffer \o (wire \o lost)
      BY <3>1, <3>4, <3>5
    <3>7. QED
      BY <2>1, <3>2, <3>6
  <2>6. CASE ReadSome
    <3>1. taken' \o (buffer' \o (wire' \o lost)) = taken \o (buffer \o (wire \o lost))
      BY <2>0, <2>6, ReadMoves
    <3>2. InProgress = taken /\ InProgress' = taken' /\ UNCHANGED <<writer, unwritten>>
      BY <2>6 DEF ReadSome, Progress, InProgress
    <3>3. QED
      BY <2>1, <3>1, <3>2
  <2>7. CASE ReadEnds
    BY <2>1, <2>7 DEF ReadEnds, InProgress
  <2>8. CASE CloseWriter \/ CloseReader
    BY <2>1, <2>8 DEF CloseWriter, CloseReader, InProgress
  <2>9. CASE UNCHANGED streamVars
    BY <2>1, <2>9 DEF streamVars, InProgress
  <2>10. QED
    BY <1>3, <2>2, <2>3, <2>4, <2>5, <2>6, <2>7, <2>8, <2>9 DEF Continue, Reading
<1>4. QED
  BY <1>1, <1>2, <1>3 DEF StreamNext

\* Once the prefix is read it is that of the next frame, and with as many bytes
\* as it says the frame is whole.
LEMMA ReadsCurrent ==
    ASSUME StreamConstants, StreamInv, ReadSome, Len(taken') >= PrefixLength
    PROVE  /\ Len(received) < Len(begun) /\ Current \in Bytes
           /\ DeclaredLength(taken') = Len(Current)
           /\ Len(taken') = PrefixLength + Len(Current) => taken' = Encode(Current)
<1> USE DEF StreamInv
<1>1. PICK lost \in Bytes, rest \in [1 .. Len(begun) + 1 -> Bytes] :
          /\ Remaining(rest)
          /\ InProgress \o (buffer \o (wire \o lost)) = rest[Len(received) + 1]
  BY DEF ConveyInv
<1>2. taken' \in Bytes /\ buffer' \in Bytes /\ wire' \in Bytes
  BY ReadMoves
<1> DEFINE ahead == buffer' \o (wire' \o lost)
<1>3. ahead \in Bytes
  BY <1>1, <1>2, ConcatProperties DEF Bytes
<1>4. taken' \o ahead = rest[Len(received) + 1]
  <2>1. InProgress = taken
    BY DEF ReadSome, InProgress
  <2>2. taken' \o ahead = taken \o (buffer \o (wire \o lost))
    BY <1>1, ReadMoves
  <2>3. QED
    BY <1>1, <2>1, <2>2
<1> HIDE DEF ahead
<1>5. PICK n \in Nat : n = Len(begun)
  BY LenProperties DEF StreamTypes
<1>6. PICK r \in Nat : r = Len(received) /\ r <= n
  BY <1>5, LenProperties DEF StreamTypes, ConveyInv
<1>7. r < n
  <2>1. r # n
    <3>1. SUFFICES ASSUME r = n PROVE FALSE
      OBVIOUS
    <3>2. taken' \o ahead = <<>>
      BY <1>1, <1>4, <1>5, <1>6, <3>1 DEF Remaining
    <3>3. Len(taken' \o ahead) = Len(taken') + Len(ahead)
      BY <1>2, <1>3, ConcatProperties DEF Bytes
    <3>4. Len(taken') \in Nat /\ Len(ahead) \in Nat /\ Len(taken') >= 2
      BY <1>2, <1>3, LenProperties DEF Bytes, PrefixLength
    <3>5. Len(<<>>) = 0
      OBVIOUS
    <3>6. QED
      BY <3>2, <3>3, <3>4, <3>5
  <2>2. QED
    BY <1>6, <2>1
<1>8. Len(received) < Len(begun) /\ Current \in Bytes
  <2>1. Len(received) < Len(begun)
    BY <1>5, <1>6, <1>7
  <2>2. QED
    BY <2>1, CurrentType
<1>9. rest[r + 1] = Encode(Current) \o rest[r + 2] /\ rest[r + 2] \in Bytes
  <2>1. r + 1 \in 1 .. n /\ r + 2 \in 1 .. n + 1 /\ (r + 1) + 1 = r + 2
    BY <1>6, <1>7
  <2>2. QED
    BY <1>1, <1>5, <1>6, <2>1 DEF Remaining, Current
<1>10. taken' \o ahead = Encode(Current) \o rest[r + 2]
  BY <1>4, <1>6, <1>9
<1>11. QED
  <2> DEFINE t == taken'
             y == rest[r + 2]
             c == Current
  <2>1. t \in Bytes /\ y \in Bytes /\ c \in Bytes /\ Len(t) >= PrefixLength
    BY <1>2, <1>8, <1>9
  <2>2. t \o ahead = Encode(c) \o y
    BY <1>10
  <2> HIDE DEF t, y, c
  <2>3. DeclaredLength(t) = Len(c) /\ (Len(t) = PrefixLength + Len(c) => t = Encode(c))
    BY <1>3, <2>1, <2>2, FrontOfFrame
  <2>4. QED
    BY <1>8, <2>3 DEF t, c

\* A read of some bytes: the reader stops where the prefix says that the frame
\* is too long, and otherwise goes on until the frame is whole.
LEMMA ReadKeepsReader ==
    ASSUME StreamConstants, StreamInv, ReadSome, UNCHANGED <<begun, received>>
    PROVE  ReaderInv'
<1> USE DEF StreamInv
<1>1. reader = "reading" /\ Progress
  BY DEF ReadSome
<1>2. PICK m \in Nat : m = Len(taken)
  BY LenProperties DEF StreamTypes, Bytes
<1>3. PICK t \in Nat : t = Len(taken')
  BY ReadMoves, LenProperties DEF Bytes
<1>4. UNCHANGED Current
  BY DEF Current
<1>5. \A k \in 1 .. Len(received') :
          received'[k] = begun'[k] /\ Len(received'[k]) <= MaxFrame
  BY DEF ReaderInv
<1>6. CASE t < 2
  <2>1. reader' = "reading"
    <3>1. Len(taken') < PrefixLength /\ ~TooLarge(taken')
      BY <1>3, <1>6 DEF PrefixLength, TooLarge
    <3>2. QED
      BY <1>1, <3>1 DEF Progress
  <2>2. Len(taken') < PrefixLength
    BY <1>3, <1>6 DEF PrefixLength
  <2>3. QED
    BY <1>5, <2>1, <2>2 DEF ReaderInv
<1>7. CASE t >= 2
  <2>1. /\ Len(received) < Len(begun) /\ Current \in Bytes
        /\ DeclaredLength(taken') = Len(Current)
        /\ Len(taken') = PrefixLength + Len(Current) => taken' = Encode(Current)
    <3>1. Len(taken') >= PrefixLength
      BY <1>3, <1>7 DEF PrefixLength
    <3>2. QED
      BY <3>1, ReadsCurrent
  <2>2. PICK d \in Nat : d = Len(Current)
    BY <2>1, LenProperties DEF Bytes
  <2>3. Lacking(taken') = 2 + d - t
    BY <1>3, <1>7, <2>1, <2>2 DEF Lacking, PrefixLength
  <2>4. TooLarge(taken') <=> t = 2 /\ d > MaxFrame
    BY <1>3, <2>1, <2>2 DEF TooLarge, PrefixLength
  <2>5. ~(Len(taken') < PrefixLength)
    BY <1>3, <1>7 DEF PrefixLength
  <2>6. t = 2 \/ (d <= MaxFrame /\ t <= 2 + d)
    <3>1. PICK l \in Nat : l = Lacking(taken)
      BY <1>1, LackingType
    <3>2. t <= m + l
      BY <1>2, <1>3, <3>1, ReadMoves
    <3>3. CASE m < 2
      <4>1. l = 2 - m
        BY <1>1, <1>2, <3>1, <3>3, LackingType DEF PrefixLength
      <4>2. QED
        BY <1>7, <3>2, <4>1
    <3>4. CASE m >= 2
      <4>1. l = 2 + DeclaredLength(taken) - m
        BY <1>1, <1>2, <3>1, <3>4, LackingType DEF PrefixLength
      <4>2. DeclaredLength(taken) <= MaxFrame
        BY <1>1, <1>2, <3>4 DEF ReaderInv, PrefixLength
      <4>3. DeclaredLength(taken) = DeclaredLength(taken')
        <5>1. PICK n : taken' = taken \o SubSeq(IF buffer # <<>> THEN buffer ELSE wire, 1, n)
                       /\ n \in 1 .. Least(Lacking(taken), AtHand)
          BY DEF ReadSome, TakeBytes
        <5> DEFINE source == IF buffer # <<>> THEN buffer ELSE wire
                   front == SubSeq(source, 1, n)
        <5>2. front \in Bytes
          <6>1. source \in Bytes /\ AtHand = Len(source)
            BY DEF StreamTypes, AtHand
          <6> HIDE DEF source
          <6>2. n \in 0 .. Len(source)
            <7>1. n \in 1 .. Least(l, Len(source))
              BY <3>1, <5>1, <6>1
            <7>2. QED
              BY <6>1, <7>1, Taken
          <6>3. QED
            BY <6>1, <6>2, Cut
        <5>3. taken' = taken \o front
          BY <5>1
        <5> HIDE DEF front, source
        <5>4. (taken \o front)[1] = taken[1] /\ (taken \o front)[2] = taken[2]
          <6>1. \A i \in 1 .. Len(taken) + Len(front) :
                    (taken \o front)[i] = IF i <= Len(taken) THEN taken[i]
                                          ELSE front[i - Len(taken)]
            BY <5>2, ConcatProperties DEF StreamTypes, Bytes
          <6>2. Len(front) \in Nat
            BY <5>2, LenProperties DEF Bytes
          <6>3. QED
            BY <1>2, <3>4, <6>1, <6>2
        <5>5. QED
          BY <5>3, <5>4 DEF DeclaredLength
      <4>4. QED
        BY <2>1, <2>2, <3>2, <4>1, <4>2, <4>3
    <3>5. QED
      BY <3>3, <3>4
  <2>7. CASE t = 2 /\ d > MaxFrame
    <3>1. reader' = "TooLarge"
      BY <1>1, <2>4, <2>5, <2>7 DEF Progress
    <3>2. Len(Current') > MaxFrame /\ Len(taken') = PrefixLength /\ Len(received') < Len(begun')
      BY <1>3, <1>4, <2>1, <2>2, <2>7 DEF PrefixLength
    <3>3. QED
      BY <1>5, <3>1, <3>2 DEF ReaderInv
  <2>8. CASE ~(t = 2 /\ d > MaxFrame)
    <3>1. d <= MaxFrame /\ t <= 2 + d
      BY <1>7, <2>2, <2>6, <2>8 DEF StreamConstants
    <3>2. reader' = IF Lacking(taken') > 0 THEN "reading"
                    ELSE IF Body(taken') \in Decodable THEN "frame" ELSE "Undecodable"
      BY <1>1, <2>4, <2>5, <2>8 DEF Progress
    <3>3. CASE t < 2 + d
      <4>1. reader' = "reading"
        BY <2>3, <3>2, <3>3
      <4>2. DeclaredLength(taken') <= MaxFrame /\ Len(taken') < PrefixLength + DeclaredLength(taken')
        BY <1>3, <2>1, <2>2, <3>1, <3>3 DEF PrefixLength
      <4>3. QED
        BY <1>5, <4>1, <4>2 DEF ReaderInv
    <3>4. CASE t = 2 + d
      <4>1. taken' = Encode(Current)
        BY <1>3, <2>1, <2>2, <3>4 DEF PrefixLength
      <4>2. Body(taken') = Current
        BY <2>1, <4>1, Encoded
      <4>3. reader' = IF Current \in Decodable THEN "frame" ELSE "Undecodable"
        BY <2>3, <3>2, <3>4, <4>2
      <4>4. /\ taken' = Encode(Current') /\ Len(Current') <= MaxFrame
            /\ Len(received') < Len(begun')
        BY <1>4, <2>1, <2>2, <3>1, <4>1
      <4>5. QED
        BY <1>4, <1>5, <4>3, <4>4 DEF ReaderInv
    <3>5. QED
      BY <3>1, <3>3, <3>4
  <2>9. QED
    BY <2>7, <2>8
<1>8. QED
  BY <1>6, <1>7

LEMMA ReaderStep ==
    ASSUME StreamConstants, StreamInv, StreamNext
    PROVE  ReaderInv'
<1> USE DEF StreamInv
<1>1. ASSUME NEW body \in Bytes, BeginFrame(body), begun' = Append(begun, body), UNCHANGED received
      PROVE  ReaderInv'
  <2>1. PICK n \in Nat : n = Len(begun)
    BY LenProperties DEF StreamTypes
  <2>2. PICK r \in Nat : r = Len(received) /\ r <= n
    BY <2>1, LenProperties DEF StreamTypes, ConveyInv
  <2>3. Len(begun') = n + 1 /\ \A k \in 1 .. n : begun'[k] = begun[k]
    BY <1>1, <2>1, AppendProperties DEF StreamTypes
  <2>4. \A k \in 1 .. Len(received') :
            received'[k] = begun'[k] /\ Len(received'[k]) <= MaxFrame
    <3>1. \A k \in 1 .. r : k \in 1 .. n
      BY <2>2
    <3>2. QED
      BY <1>1, <2>2, <2>3, <3>1 DEF ReaderInv
  <2>5. Len(received) < Len(begun) => Current' = Current /\ Len(received') < Len(begun')
    <3>1. r < n => r + 1 \in 1 .. n /\ r < n + 1
      BY <2>1, <2>2
    <3>2. QED
      BY <1>1, <2>1, <2>2, <2>3, <3>1 DEF Current
  <2>6. UNCHANGED <<reader, taken, shut>>
    BY <1>1 DEF BeginFrame
  <2>7. QED
    BY <2>4, <2>5, <2>6 DEF ReaderInv
<1>2. CASE TakeFrame /\ received' = Append(received, Body(taken)) /\ UNCHANGED begun
  <2>1. /\ Len(received) < Len(begun) /\ Current \in Bytes
        /\ Body(taken) = Current /\ Len(Current) <= MaxFrame
    BY <1>2, FrameIsCurrent DEF TakeFrame
  <2>2. PICK r \in Nat : r = Len(received)
    BY LenProperties DEF StreamTypes
  <2>3. /\ Len(received') = r + 1 /\ received'[r + 1] = begun[r + 1]
        /\ Len(received'[r + 1]) <= MaxFrame
        /\ \A k \in 1 .. r : received'[k] = received[k]
    BY <1>2, <2>1, <2>2, AppendProperties DEF StreamTypes, Current
  <2>4. \A k \in 1 .. r + 1 : received'[k] = begun[k] /\ Len(received'[k]) <= MaxFrame
    <3>1. \A k \in 1 .. r + 1 : k \in 1 .. r \/ k = r + 1
      BY <2>2
    <3>2. \A k \in 1 .. r : received[k] = begun[k] /\ Len(received[k]) <= MaxFrame
      BY <2>2 DEF ReaderInv
    <3>3. QED
      BY <2>3, <3>1, <3>2
  <2>5. reader' = "idle"
    BY <1>2 DEF TakeFrame
  <2>6. QED
    BY <1>2, <2>3, <2>4, <2>5 DEF ReaderInv
<1>3. CASE (Continue \/ UNCHANGED streamVars) /\ UNCHANGED <<begun, received>>
  <2>1. UNCHANGED Current
    BY <1>3 DEF Current
  <2>2. CASE WriteSome \/ WriteFails \/ FillBuffer
    <3>1. UNCHANGED <<reader, taken, shut>>
      BY <2>2 DEF WriteSome, WriteFails, FillBuffer
    <3>2. QED
      BY <1>3, <2>1, <3>1 DEF ReaderInv
  <2>3. CASE BeginRead
    <3>1. reader' = "reading" /\ Len(taken') < PrefixLength
      BY <2>3 DEF BeginRead, PrefixLength
    <3>2. QED
      BY <1>3, <3>1 DEF ReaderInv
  <2>4. CASE ReadSome
    BY <1>3, <2>4, ReadKeepsReader
  <2>5. CASE ReadEnds
    <3>1. reader' = "Io" /\ shut'
      BY <2>5 DEF ReadEnds
    <3>2. QED
      BY <1>3, <3>1 DEF ReaderInv
  <2>6. CASE CloseWriter \/ CloseReader
    <3>1. UNCHANGED <<reader, taken>> /\ (shut => shut')
      BY <2>6 DEF CloseWriter, CloseReader
    <3>2. QED
      BY <1>3, <2>1, <3>1 DEF ReaderInv
  <2>7. CASE UNCHANGED streamVars
    <3>1. UNCHANGED <<reader, taken, shut>>
      BY <2>7 DEF streamVars
    <3>2. QED
      BY <1>3, <2>1, <3>1 DEF ReaderInv
  <2>8. QED
    BY <1>3, <2>2, <2>3, <2>4, <2>5, <2>6, <2>7 DEF Continue, Reading
<1>4. QED
  BY <1>1, <1>2, <1>3 DEF StreamNext

\* However the bytes are cut, no step of the stream loses, repeats or alters a
\* frame, or reads past its end into the next one (write_frame, read_frame).
LEMMA StreamStep ==
    ASSUME StreamConstants, StreamInv, StreamNext
    PROVE  StreamInv'
BY TypesStep, ConveyStep, ReaderStep DEF StreamInv
=============================================================================
