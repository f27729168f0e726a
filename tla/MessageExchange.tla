--------------------------- MODULE MessageExchange ---------------------------
(***************************************************************************)
(* What an exchange of frames promises, without bytes: a connection is a   *)
(* sequence of whole messages, each of which is answered by one; it ends   *)
(* for a cause, which is never how its bytes came.                         *)
(***************************************************************************)
EXTENDS Naturals, Sequences

CONSTANTS Messages,    \* what a client may offer
          Replies,     \* what a server may reply with
          Decodable,   \* the messages that can be read ...
          MaxFrame,    \* ... if they are no longer than this
          MaxServed    \* how many are served

VARIABLES offered,   \* what the client has begun to write
          got,       \* what the server has read
          given,     \* what the server has begun to write
          answers,   \* what the client has read
          left,      \* the client has closed its stream
          over       \* the server has

exchangeVars == <<offered, got, given, answers, left, over>>

Readable(message) == message \in Decodable /\ Len(message) <= MaxFrame

Init ==
    /\ offered = <<>> /\ got = <<>> /\ given = <<>> /\ answers = <<>>
    /\ left = FALSE /\ over = FALSE

Offer ==
    /\ ~left
    /\ \E message \in Messages : offered' = Append(offered, message)
    /\ UNCHANGED <<got, given, answers, left, over>>

\* The next message is read, also if the client has left since.
Serve ==
    /\ ~over
    /\ Len(got) < MaxServed
    /\ Len(got) < Len(offered)
    /\ Readable(offered[Len(got) + 1])
    /\ got' = Append(got, offered[Len(got) + 1])
    /\ \E reply \in Replies : given' = Append(given, reply)
    /\ UNCHANGED <<offered, answers, left, over>>

Receive ==
    /\ Len(answers) < Len(given)
    /\ Readable(given[Len(answers) + 1])
    /\ answers' = Append(answers, given[Len(answers) + 1])
    /\ UNCHANGED <<offered, got, given, left, over>>

Leave ==
    /\ ~left
    /\ left' = TRUE
    /\ UNCHANGED <<offered, got, given, answers, over>>

\* All is served, or the next message is none, or there will be no next one.
End ==
    /\ ~over
    /\ \/ Len(got) = MaxServed
       \/ Len(got) < Len(offered) /\ ~Readable(offered[Len(got) + 1])
       \/ left
    /\ over' = TRUE
    /\ UNCHANGED <<offered, got, given, answers, left>>

Next == Offer \/ Serve \/ Receive \/ Leave \/ End

Spec == Init /\ [][Next]_exchangeVars
=============================================================================
