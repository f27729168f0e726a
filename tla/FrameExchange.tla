---------------------------- MODULE FrameExchange ----------------------------
(***************************************************************************)
(* A client and a server that exchange length-prefixed frames over the two *)
(* directions of one stream socket.  The server is the daemon, which       *)
(* serves one frame of a connection, or the supervision server, which goes *)
(* on to the next; the client is the CLI or a supervisor, and may leave.   *)
(* Every step is one read or write of some bytes.                          *)
(***************************************************************************)
EXTENDS Naturals, SequencesExt

CONSTANTS RequestLists,   \* the bodies a client may send, in order
          ReplyBodies,    \* the bodies a server may reply with
          MaxServed,      \* how many frames of a connection are served
          Decodable, MaxFrame, Capacity, Base,
          Buffered        \* does the server read through a BufReader? (the daemon)

ASSUME FrameExchangeAssumption ==
    /\ RequestLists \subseteq Seq(Seq(Nat)) /\ ReplyBodies \subseteq Seq(Nat)
    /\ MaxServed \in Nat /\ MaxFrame \in Nat /\ Capacity \in Nat
    /\ Base \in Nat \ {0}

VARIABLES upWriter, upUnwritten, upWire, upShut,
          upReader, upBuffer, upTaken, upHungUp,
          downWriter, downUnwritten, downWire, downShut,
          downReader, downBuffer, downTaken, downHungUp,
          requests,    \* what the client means to send
          alternates,  \* does the client await each reply before it goes on?
          sent,        \* how many frames it has begun to write
          serving,     \* "expect", "read", "reply" or "closed"
          got,         \* the bodies the server has read
          given,       \* the bodies the server has begun to write
          answers,     \* the bodies the client has read
          left         \* the client has closed its stream

Up == INSTANCE FrameStream
    WITH writer <- upWriter, unwritten <- upUnwritten, wire <- upWire, shut <- upShut,
         reader <- upReader, buffer <- upBuffer, taken <- upTaken, hungUp <- upHungUp

Down == INSTANCE FrameStream
    WITH writer <- downWriter, unwritten <- downUnwritten, wire <- downWire,
         shut <- downShut, reader <- downReader, buffer <- downBuffer,
         taken <- downTaken, hungUp <- downHungUp, Buffered <- FALSE

up == <<upWriter, upUnwritten, upWire, upShut,
        upReader, upBuffer, upTaken, upHungUp>>
down == <<downWriter, downUnwritten, downWire, downShut,
          downReader, downBuffer, downTaken, downHungUp>>
client == <<requests, alternates, sent, answers, left>>
server == <<serving, got, given>>

vars == <<up, down, client, server>>

Init ==
    /\ Up!StreamInit /\ Down!StreamInit
    /\ requests \in RequestLists
    /\ alternates \in BOOLEAN
    /\ sent = 0 /\ answers = <<>> /\ left = FALSE
    /\ serving = "expect" /\ got = <<>> /\ given = <<>>

-----------------------------------------------------------------------------
(***************************************************************************)
(* The server                                                              *)
(***************************************************************************)

\* Mutant: the daemon goes on to the next frame of a connection.
ExpectAgain ==
    /\ serving = "expect"
    /\ Up!BeginRead
    /\ serving' = "read"
    /\ UNCHANGED <<down, client, got, given>>

Expect ==
    /\ serving = "expect"
    /\ Len(got) < MaxServed
    /\ Up!BeginRead
    /\ serving' = "read"
    /\ UNCHANGED <<down, client, got, given>>

Read ==
    /\ serving = "read"
    /\ Up!Reading
    /\ UNCHANGED <<down, client, server>>

\* The request is handled, and its reply is begun.
Reply ==
    /\ serving = "read"
    /\ Up!TakeFrame
    /\ got' = Append(got, Up!Body(upTaken))
    /\ \E body \in ReplyBodies :
           /\ Down!BeginFrame(body)
           /\ given' = Append(given, body)
    /\ serving' = "reply"
    /\ UNCHANGED client

WriteReply ==
    /\ serving = "reply"
    /\ Down!Writing
    /\ serving' = IF downWriter' = "idle" THEN "expect" ELSE "reply"
    /\ UNCHANGED <<up, client, got, given>>

\* All is served, or a read or a write has failed: the stream drops.
Close ==
    /\ \/ serving = "expect" /\ Len(got) = MaxServed
       \/ serving = "read" /\ Up!ReadFailed
       \/ serving = "reply" /\ downWriter = "failed"
    /\ Up!CloseReader /\ Down!CloseWriter
    /\ serving' = "closed"
    /\ UNCHANGED <<client, got, given>>

Server == Expect \/ Read \/ Reply \/ WriteReply \/ Close

-----------------------------------------------------------------------------
(***************************************************************************)
(* The client                                                              *)
(***************************************************************************)

\* The CLI awaits the reply to one frame before it writes another.
Request ==
    /\ sent < Len(requests)
    /\ alternates => Len(answers) = sent
    /\ Up!BeginFrame(requests[sent + 1])
    /\ sent' = sent + 1
    /\ UNCHANGED <<down, requests, alternates, answers, left, server>>

WriteRequest ==
    /\ Up!Writing
    /\ UNCHANGED <<down, client, server>>

\* The CLI reads once it has written; another client reads while it writes.
Await ==
    /\ Len(answers) < sent
    /\ alternates => upWriter # "writing"
    /\ Down!BeginRead
    /\ UNCHANGED <<up, client, server>>

ReadReply ==
    /\ Down!Reading
    /\ UNCHANGED <<up, client, server>>

TakeReply ==
    /\ Down!TakeFrame
    /\ answers' = Append(answers, Down!Body(downTaken))
    /\ UNCHANGED <<up, requests, alternates, sent, left, server>>

\* The client has its answers, or is killed, or gives up, at any point.
Leave ==
    /\ ~left
    /\ left' = TRUE
    /\ Up!CloseWriter /\ Down!CloseReader
    /\ UNCHANGED <<requests, alternates, sent, answers, server>>

Client == Request \/ WriteRequest \/ Await \/ ReadReply \/ TakeReply

Next == Server \/ Client \/ Leave

Spec == Init /\ [][Next]_vars

\* The server is scheduled, and a client goes on with what it has begun: it
\* reads the replies it is owed, and is free to leave.
FairSpec ==
    /\ Spec
    /\ WF_vars(Server)
    /\ WF_vars(Request \/ WriteRequest)
    /\ WF_vars(Await \/ ReadReply \/ TakeReply)

-----------------------------------------------------------------------------
(***************************************************************************)
(* Properties                                                              *)
(***************************************************************************)

TypeOK ==
    /\ Len(upWire) <= Capacity /\ Len(downWire) <= Capacity
    /\ Len(got) <= sent /\ Len(answers) <= Len(given)
    /\ Len(given) = Len(got) /\ Len(got) <= MaxServed
    /\ serving = "closed" <=> upHungUp
    /\ left <=> upShut

\* Each side reads the other's frames whole, unaltered and in order, however
\* the bytes were cut and wherever the other side broke off; with the steps of
\* MessageDaemon and Supervision a frame is one message (read_frame).
FramesInOrder ==
    /\ IsPrefix(got, requests)
    /\ IsPrefix(answers, given)

\* A frame is refused for what it is: longer than the limit, and then nothing
\* of its body was read, or no frame at all; a read that ends early is one the
\* client broke off.  What is over the limit is never accepted (read_frame).
RefusedForCause ==
    LET next == requests[Len(got) + 1] IN
    /\ upReader = "TooLarge" => Len(next) > MaxFrame /\ Len(upTaken) = 2
    /\ upReader = "Undecodable" => next \notin Decodable
    /\ upReader = "Io" => left
    /\ \A k \in DOMAIN got : Len(got[k]) <= MaxFrame

Exchange == INSTANCE MessageExchange
    WITH Messages <- UNION {Range(list) : list \in RequestLists}, Replies <- ReplyBodies,
         offered <- SubSeq(requests, 1, sent), over <- (serving = "closed")

\* With its bytes hidden, the connection is a sequence of whole messages, each
\* read once, in order, and only if it decodes; and the server ends it for no
\* other cause than a bad message, the client's leaving, or that all is served
\* (read_frame, write_frame, serve_connection).
RefinesExchange == Exchange!Spec

WithinLimit(bodies) ==
    \A k \in DOMAIN bodies : bodies[k] \in Decodable /\ Len(bodies[k]) <= MaxFrame

\* A client whose frames are in order, and that stays to read, has an answer to
\* each of them, also where a frame is longer than the kernel holds
\* (write_all and read_exact on both sides).
AllAnswered ==
    WithinLimit(requests) /\ Len(requests) <= MaxServed
        => <>(Len(answers) = Len(requests) \/ left \/ ~WithinLimit(given))
=============================================================================
