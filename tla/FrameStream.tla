----------------------------- MODULE FrameStream -----------------------------
(***************************************************************************)
(* One direction of a stream socket and the length-prefixed frames on it:  *)
(* write_frame, which writes as much as there is room for at a time, and   *)
(* read_frame, which reads the prefix, checks the length, reads the body   *)
(* and decodes it, however the bytes are cut on their way.  The codec of   *)
(* the router, the one of the daemon and the one of the supervision socket *)
(* do the same.  A byte is a digit, and the prefix has two of them.        *)
(***************************************************************************)
EXTENDS Naturals, SequencesExt

CONSTANTS Decodable,   \* the bodies that decode
          MaxFrame,    \* the longest body that is read
          Capacity,    \* how many bytes the kernel holds
          Base,        \* a byte is a number below this
          Buffered     \* does the reader read through a BufReader?

VARIABLES writer,      \* "idle", "writing" or "failed"
          unwritten,   \* what write_all has still to write
          wire,        \* the bytes in the kernel
          shut,        \* the writer's end is closed
          reader,      \* "idle", "reading", "frame", or the error of the read
          buffer,      \* the bytes the BufReader holds
          taken,       \* the bytes read_frame has read
          hungUp       \* the reader's end is closed

streamVars == <<writer, unwritten, wire, shut, reader, buffer, taken, hungUp>>

StreamInit ==
    /\ writer = "idle" /\ unwritten = <<>> /\ wire = <<>> /\ shut = FALSE
    /\ reader = "idle" /\ buffer = <<>> /\ taken = <<>> /\ hungUp = FALSE

PrefixLength == 2

\* encode_length_prefixed: the length in big-endian order, then the body.
Encode(body) == <<Len(body) \div Base, Len(body) % Base>> \o body

\* from_be_bytes of the prefix.
DeclaredLength(bytes) == bytes[1] * Base + bytes[2]

Body(bytes) == SubSeq(bytes, PrefixLength + 1, Len(bytes))

Least(m, n) == IF m < n THEN m ELSE n

-----------------------------------------------------------------------------
(***************************************************************************)
(* write_frame                                                             *)
(***************************************************************************)

\* The limit is not looked at here.
BeginFrame(body) ==
    /\ writer = "idle"
    /\ ~shut
    /\ writer' = "writing"
    /\ unwritten' = Encode(body)
    /\ UNCHANGED <<wire, shut, reader, buffer, taken, hungUp>>

\* Mutant: what the first write takes is all that is written.
WriteOnce ==
    /\ writer = "writing"
    /\ ~shut /\ ~hungUp
    /\ \E n \in 1 .. Least(Len(unwritten), Capacity - Len(wire)) :
           wire' = wire \o SubSeq(unwritten, 1, n)
    /\ unwritten' = <<>>
    /\ writer' = "idle"
    /\ UNCHANGED <<shut, reader, buffer, taken, hungUp>>

\* One write of write_all.
WriteSome ==
    /\ writer = "writing"
    /\ ~shut /\ ~hungUp
    /\ \E n \in 1 .. Least(Len(unwritten), Capacity - Len(wire)) :
           /\ wire' = wire \o SubSeq(unwritten, 1, n)
           /\ unwritten' = SubSeq(unwritten, n + 1, Len(unwritten))
    /\ writer' = IF unwritten' = <<>> THEN "idle" ELSE "writing"
    /\ UNCHANGED <<shut, reader, buffer, taken, hungUp>>

WriteFails ==
    /\ writer = "writing"
    /\ ~shut /\ hungUp
    /\ writer' = "failed"
    /\ unwritten' = <<>>
    /\ UNCHANGED <<wire, shut, reader, buffer, taken, hungUp>>

-----------------------------------------------------------------------------
(***************************************************************************)
(* read_frame                                                              *)
(***************************************************************************)

BeginRead ==
    /\ reader = "idle"
    /\ ~hungUp
    /\ reader' = "reading"
    /\ taken' = <<>>
    /\ UNCHANGED <<writer, unwritten, wire, shut, buffer, hungUp>>

\* What the read_exact in progress still lacks.
Lacking(bytes) ==
    IF Len(bytes) < PrefixLength
    THEN PrefixLength - Len(bytes)
    ELSE PrefixLength + DeclaredLength(bytes) - Len(bytes)

\* Mutant: a frame is longer than its body.
TooLargeByOne(bytes) ==
    Len(bytes) = PrefixLength /\ DeclaredLength(bytes) >= MaxFrame

TooLarge(bytes) == Len(bytes) = PrefixLength /\ DeclaredLength(bytes) > MaxFrame

\* The BufReader is empty and takes what it gets, past the frame or not.
FillBuffer ==
    /\ Buffered
    /\ reader = "reading"
    /\ ~hungUp
    /\ buffer = <<>>
    /\ \E n \in 1 .. Len(wire) :
           /\ buffer' = SubSeq(wire, 1, n)
           /\ wire' = SubSeq(wire, n + 1, Len(wire))
    /\ UNCHANGED <<writer, unwritten, shut, reader, taken, hungUp>>

\* Takes n bytes, those of the BufReader first.
TakeBytes(n) ==
    IF buffer # <<>>
    THEN /\ taken' = taken \o SubSeq(buffer, 1, n)
         /\ buffer' = SubSeq(buffer, n + 1, Len(buffer))
         /\ UNCHANGED wire
    ELSE /\ taken' = taken \o SubSeq(wire, 1, n)
         /\ wire' = SubSeq(wire, n + 1, Len(wire))
         /\ UNCHANGED buffer

\* What a read may get at a time.
AtHand == IF buffer # <<>> THEN Len(buffer) ELSE Len(wire)

\* Mutant: a frame of the right length is a frame.
ProgressUndecoded ==
    reader' =
        CASE Len(taken') < PrefixLength -> "reading"
          [] TooLarge(taken') -> "TooLarge"
          [] OTHER -> IF Lacking(taken') > 0 THEN "reading" ELSE "frame"

\* After the last byte of the prefix the length is checked, after the last one
\* of the body the frame is decoded.
Progress ==
    reader' =
        CASE Len(taken') < PrefixLength -> "reading"
          [] TooLarge(taken') -> "TooLarge"
          [] OTHER -> IF Lacking(taken') > 0 THEN "reading"
                      ELSE IF Body(taken') \in Decodable THEN "frame"
                      ELSE "Undecodable"

\* Mutant: read in place of read_exact, which may get less than was asked for.
ReadOnce ==
    /\ reader = "reading"
    /\ ~hungUp
    /\ \E n \in 1 .. Least(Lacking(taken), AtHand) : TakeBytes(n)
    /\ reader' = IF Len(taken') > PrefixLength THEN "frame"
                 ELSE IF Len(taken') = PrefixLength /\ TooLarge(taken') THEN "TooLarge"
                 ELSE "reading"
    /\ UNCHANGED <<writer, unwritten, shut, hungUp>>

\* One read of read_exact.
ReadSome ==
    /\ reader = "reading"
    /\ ~hungUp
    /\ \E n \in 1 .. Least(Lacking(taken), AtHand) : TakeBytes(n)
    /\ Progress
    /\ UNCHANGED <<writer, unwritten, shut, hungUp>>

\* The stream ends before the frame does.
ReadEnds ==
    /\ reader = "reading"
    /\ ~hungUp
    /\ wire = <<>> /\ buffer = <<>> /\ shut
    /\ reader' = "Io"
    /\ UNCHANGED <<writer, unwritten, wire, shut, buffer, taken, hungUp>>

\* The caller has the frame.
TakeFrame ==
    /\ reader = "frame"
    /\ reader' = "idle"
    /\ UNCHANGED <<writer, unwritten, wire, shut, buffer, taken, hungUp>>

ReadFailed == reader \in {"TooLarge", "Undecodable", "Io"}

\* The steps of a write and of a read in progress.
Writing == WriteSome \/ WriteFails
Reading == FillBuffer \/ ReadSome \/ ReadEnds

CloseWriter == shut' = TRUE /\ UNCHANGED <<writer, unwritten, wire, reader, buffer, taken, hungUp>>
CloseReader == hungUp' = TRUE /\ UNCHANGED <<writer, unwritten, wire, shut, reader, buffer, taken>>
=============================================================================
