----------------------------- MODULE NotaSurface -----------------------------
(***************************************************************************)
(* The records that the command line reads and prints, their NOTA text,    *)
(* and their projections to requests and from replies of the contract.     *)
(* A text is the sequence of its top-level items, an item a record of a    *)
(* head and typed fields; what lexing makes of the characters is left to   *)
(* the codec.  A decoder returns Ok(value) or Err(kind of error).          *)
(***************************************************************************)
EXTENDS Sequences, Naturals

Ok(value) == [ok |-> TRUE, value |-> value]
Err(kind) == [ok |-> FALSE, error |-> kind]

Record(head, fields) == [head |-> head, fields |-> fields]

\* An item that is no record, or no token at all.
Stray == Record("", <<>>)

\* A field is known by the one type that it reads as.
Text(value) == [String |-> value]
Number(value) == [u64 |-> value]
List(records) == [Vec |-> records]

\* Does the record have this head and fields of these types, no more, no less?
Shaped(item, head, types) ==
    /\ item.head = head
    /\ Len(item.fields) = Len(types)
    /\ \A k \in DOMAIN types : DOMAIN item.fields[k] = {types[k]}

\* What lexing yields: a sequence of records, whose fields read as one type each.
IsSequence(list) == list \in Seq({list[k] : k \in DOMAIN list})

IsField(field) ==
    \/ DOMAIN field = {"String"} /\ field = Text(field["String"])
    \/ DOMAIN field = {"u64"} /\ field = Number(field["u64"])
    \/ DOMAIN field = {"Vec"} /\ field = List(field["Vec"])

IsItem(item) ==
    /\ item = Record(item.head, item.fields)
    /\ IsSequence(item.fields)
    /\ \A k \in DOMAIN item.fields : IsField(item.fields[k])

IsText(text) == IsSequence(text) /\ \A k \in DOMAIN text : IsItem(text[k])

Field(item, k) == LET field == item.fields[k] IN field[CHOOSE t \in DOMAIN field : TRUE]

-----------------------------------------------------------------------------
(***************************************************************************)
(* Input                                                                   *)
(***************************************************************************)

Send(recipient, body) == [kind |-> "Send", recipient |-> recipient, body |-> body]
Inbox(recipient) == [kind |-> "Inbox", recipient |-> recipient]

EncodeInput(input) ==
    IF input.kind = "Send"
    THEN Record("Send", <<Text(input.recipient), Text(input.body)>>)
    ELSE Record("Inbox", <<Text(input.recipient)>>)

\* peek_record_head decides the kind, and the kind how the fields are read.
DecodeInput(item) ==
    CASE Shaped(item, "Send", <<"String", "String">>) ->
             Ok(Send(Field(item, 1), Field(item, 2)))
      [] Shaped(item, "Inbox", <<"String">>) -> Ok(Inbox(Field(item, 1)))
      [] OTHER -> Err("Nota")

\* Mutant: what follows the first record is not looked at.
ExpectEndUnchecked(text) == Len(text) >= 1

\* Nothing follows the first item.
ExpectEnd(text) == Len(text) = 1

First(text) == IF text = <<>> THEN Stray ELSE text[1]

\* from_nota: what the first item decodes to, if nothing follows it.
FromNota(text, decoded) ==
    IF decoded.ok /\ ~ExpectEnd(text) THEN Err("Nota") ELSE decoded

InputFromNota(text) == FromNota(text, DecodeInput(First(text)))

\* Neither carries a sender: the daemon decides who the sender is.
IntoMessageRequest(input) ==
    IF input.kind = "Send"
    THEN [kind |-> "MessageSubmission", recipient |-> input.recipient,
          messageKind |-> "Send", body |-> input.body]
    ELSE [kind |-> "InboxQuery", recipient |-> input.recipient]

-----------------------------------------------------------------------------
(***************************************************************************)
(* Output                                                                  *)
(***************************************************************************)

\* An entry of a listing, in the reply and on the command line.
InboxEntry(slot, sender, body) == [slot |-> slot, sender |-> sender, body |-> body]

\* from_signal: the entry of a listing as the command line knows it.
FromSignal(entry) == InboxEntry(entry.slot, entry.sender, entry.body)

\* from_router_reply: each reply has one output, entry by entry for a listing.
FromRouterReply(reply) ==
    CASE reply.kind = "SubmissionAccepted" ->
             [kind |-> "SubmissionAccepted", slot |-> reply.slot]
      [] reply.kind = "SubmissionRejected" ->
             [kind |-> "SubmissionRejected", reason |-> reply.reason]
      [] reply.kind = "InboxListing" ->
             [kind |-> "RouterInboxListing",
              messages |-> [k \in DOMAIN reply.messages |-> FromSignal(reply.messages[k])]]
      [] reply.kind = "MessageRequestUnimplemented" ->
             [kind |-> "MessageRequestUnimplemented",
              operation |-> reply.operation, reason |-> reply.reason]

\* The words that are reasons of a rejection.
Reasons == {"StoreRejected", "RecipientNotFound"}

\* Mutant: a record that does not hold its fields in their order.
EncodeEntrySwapped(entry) ==
    Record("RouterInboxEntry",
           <<Number(entry.slot), Text(entry.body), Text(entry.sender)>>)

EncodeEntry(entry) ==
    Record("RouterInboxEntry",
           <<Number(entry.slot), Text(entry.sender), Text(entry.body)>>)

\* to_nota: one record.
EncodeOutput(output) ==
    CASE output.kind = "SubmissionAccepted" ->
             <<Record("SubmissionAccepted", <<Number(output.slot)>>)>>
      [] output.kind = "SubmissionRejected" ->
             <<Record("SubmissionRejected", <<Text(output.reason)>>)>>
      [] output.kind = "RouterInboxListing" ->
             <<Record("RouterInboxListing",
                   <<List([k \in DOMAIN output.messages |->
                               EncodeEntry(output.messages[k])])>>)>>
      [] output.kind = "MessageRequestUnimplemented" ->
             <<Record("MessageRequestUnimplemented",
                   <<Text(output.operation), Text(output.reason)>>)>>

DecodeEntry(item) == InboxEntry(Field(item, 1), Field(item, 2), Field(item, 3))

\* A listing decodes if each of its entries does.
ListingDecodes(item) ==
    /\ Shaped(item, "RouterInboxListing", <<"Vec">>)
    /\ \A k \in DOMAIN Field(item, 1) :
           Shaped(Field(item, 1)[k], "RouterInboxEntry", <<"u64", "String", "String">>)

DecodeOutput(item) ==
    CASE Shaped(item, "SubmissionAccepted", <<"u64">>) ->
             Ok([kind |-> "SubmissionAccepted", slot |-> Field(item, 1)])
      [] Shaped(item, "SubmissionRejected", <<"String">>) /\ Field(item, 1) \in Reasons ->
             Ok([kind |-> "SubmissionRejected", reason |-> Field(item, 1)])
      [] ListingDecodes(item) ->
             Ok([kind |-> "RouterInboxListing",
                 messages |-> [k \in DOMAIN Field(item, 1) |->
                                   DecodeEntry(Field(item, 1)[k])]])
      [] Shaped(item, "MessageRequestUnimplemented", <<"String", "String">>) ->
             Ok([kind |-> "MessageRequestUnimplemented",
                 operation |-> Field(item, 1), reason |-> Field(item, 2)])
      [] OTHER -> Err("Nota")

OutputFromNota(text) == FromNota(text, DecodeOutput(First(text)))
=============================================================================
