--------------------------- MODULE IngressService ---------------------------
(***************************************************************************)
(* What the message component promises: a relay that takes one request of  *)
(* each client, records it at most once with the router, under provenance  *)
(* of its own making, and tells a client only what became of the client's  *)
(* own request.  There are no sockets, frames, threads or failures here:   *)
(* a request that fails is one that is never recorded, or never answered.  *)
(***************************************************************************)
EXTENDS Naturals, Sequences, SignalFrames

CONSTANTS Clients,
          RequestsOf,    \* the requests each client may make
          OriginOf,      \* the origin each client has
          MaxTimestamp

VARIABLES request,   \* the request of each client, as an option
          ledger,    \* what the router has taken charge of, in order
          told       \* the reply each client was given, as an option

serviceVars == <<request, ledger, told>>

Recorded(c) == \E n \in DOMAIN ledger : ledger[n].sender = c

\* The forms in which the request of client c may be recorded; a stamp that a
\* client wrote may be recorded in none.
Recordable(c) ==
    CASE request[c] = <<InboxQuery(c)>> -> {InboxQuery(c)}
      [] request[c] = <<MessageSubmission(c)>> ->
             {StampedMessageSubmission(c, OriginOf[c], time) :
                 time \in 0 .. MaxTimestamp}
      [] OTHER -> {}

\* The reply that says what became of the request in place n of the ledger.
ReplyAbout(n) ==
    IF ledger[n].kind = "InboxQuery" THEN InboxListing(n) ELSE SubmissionAccepted(n)

Init ==
    /\ request = [c \in Clients |-> <<>>]
    /\ ledger = <<>>
    /\ told = [c \in Clients |-> <<>>]

Submit(c) ==
    /\ request[c] = <<>>
    /\ \E r \in RequestsOf[c] : request' = [request EXCEPT ![c] = <<r>>]
    /\ UNCHANGED <<ledger, told>>

\* The client may have gone by then.
Record(c) ==
    /\ ~Recorded(c)
    /\ \E entry \in Recordable(c) : ledger' = Append(ledger, entry)
    /\ UNCHANGED <<request, told>>

Tell(c) ==
    /\ told[c] = <<>>
    /\ \E n \in DOMAIN ledger :
           /\ ledger[n].sender = c
           /\ told' = [told EXCEPT ![c] = <<ReplyAbout(n)>>]
    /\ UNCHANGED <<request, ledger>>

Refuse(c) ==
    /\ told[c] = <<>>
    /\ request[c] # <<>>
    /\ request[c][1].kind = "StampedMessageSubmission"
    /\ told' = [told EXCEPT ![c] = <<MessageRequestUnimplemented>>]
    /\ UNCHANGED <<request, ledger>>

Next == \E c \in Clients : Submit(c) \/ Record(c) \/ Tell(c) \/ Refuse(c)

Spec == Init /\ [][Next]_serviceVars
=============================================================================
