-------------------------- MODULE ReplyArtifactProofs --------------------------
(***************************************************************************)
(* The two command-line tools, for every list of arguments, file,          *)
(* environment and reply: what an error of the CLI says, what it submits,  *)
(* what it prints, and what the validator makes of that.                   *)
(***************************************************************************)
EXTENDS ReplyArtifact, SequenceTheorems, TLAPS

\* Nothing is written before the socket is found, no file is read before the
\* arguments are counted, and the outcome is open until the CLI has exited.
EffectInv ==
    /\ step \in {"arguments", "decode", "socket"} => submitted = <<>>
    /\ step = "arguments" => reads = 0
    /\ step # "exited" => exit = "running"
    /\ LocalErrorHasNoEffect

\* Text that does not decode is an error of its own kind.
LEMMA DecodeErrors ==
    ASSUME NEW t, ~InputFromNota(t).ok
    PROVE  InputFromNota(t).error = "Nota"
<1>1. \A item : DecodeInput(item).ok \/ DecodeInput(item).error = "Nota"
  BY DEF DecodeInput, Ok, Err
<1>2. QED
  BY <1>1 DEF InputFromNota, FromNota, Ok, Err

\* A call starts at the arguments, with nothing read and nothing written.
LEMMA EffectInit == ArtifactInit => EffectInv
<1>1. ASSUME NEW session, Called(session.arguments, session.environment)
      PROVE  EffectInv
  BY <1>1 DEF Called, EffectInv, LocalErrorHasNoEffect, ArgumentErrors
<1>2. QED
  BY <1>1 DEF ArtifactInit

\* The steps of decode_input.
LEMMA DecodeInputKeepsEffect == EffectInv /\ DecodeInputSteps => EffectInv'
<1> SUFFICES ASSUME EffectInv, DecodeInputSteps PROVE EffectInv'
  OBVIOUS
<1> USE DEF EffectInv, LocalErrorHasNoEffect, ArgumentErrors, Exit, Goes, Fails, user
<1>1. CASE MissingInput
  BY <1>1 DEF MissingInput
<1>2. CASE UnexpectedArgument
  BY <1>2 DEF UnexpectedArgument
<1>3. CASE InvalidInlineArgument
  BY <1>3 DEF InvalidInlineArgument
<1>4. CASE InlineText
  BY <1>4 DEF InlineText
<1>5. CASE ReadInputFile
  BY <1>5 DEF ReadInputFile
<1>6. CASE Decode
  <2>1. InputFromNota(text).ok \/ InputFromNota(text).error = "Nota"
    BY DecodeErrors
  <2>2. QED
    BY <1>6, <2>1 DEF Decode
<1>7. QED
  BY <1>1, <1>2, <1>3, <1>4, <1>5, <1>6 DEF DecodeInputSteps

\* The steps of run and submit, and the daemon's answer.
LEMMA RunKeepsEffect == EffectInv /\ (Run \/ Answer) => EffectInv'
<1> SUFFICES ASSUME EffectInv, Run \/ Answer PROVE EffectInv'
  OBVIOUS
<1> USE DEF EffectInv, LocalErrorHasNoEffect, ArgumentErrors, Exit, Goes, Fails, user
<1>1. CASE FindSocket
  BY <1>1 DEF FindSocket
<1>2. CASE Connect
  BY <1>2 DEF Connect
<1>3. CASE ConnectFails
  BY <1>3 DEF ConnectFails
<1>4. CASE WriteFrame
  BY <1>4 DEF WriteFrame
<1>5. CASE WriteFrameFails
  BY <1>5 DEF WriteFrameFails
<1>6. CASE ReadReply
  BY <1>6 DEF ReadReply
<1>7. CASE ReplyFails
  BY <1>7 DEF ReplyFails, ReplyErrors
<1>8. CASE PrintReply
  BY <1>8 DEF PrintReply
<1>9. CASE PrintReplyFails
  BY <1>9 DEF PrintReplyFails
<1>10. CASE Answer
  BY <1>10 DEF Answer
<1>11. QED
  BY <1>1, <1>2, <1>3, <1>4, <1>5, <1>6, <1>7, <1>8, <1>9, <1>10 DEF Run

\* A user who reads an error about the arguments, or that no socket is named,
\* knows that nothing was sent, and in the first case that no file was read
\* (decode_input, run).
THEOREM LocalErrorHolds == ArtifactSpec => []LocalErrorHasNoEffect
<1>1. EffectInv /\ [ArtifactNext]_artifactVars => EffectInv'
  <2> SUFFICES ASSUME EffectInv, [ArtifactNext]_artifactVars PROVE EffectInv'
    OBVIOUS
  <2>1. CASE Message
    BY <2>1, DecodeInputKeepsEffect, RunKeepsEffect DEF Message, Next
  <2>2. CASE UNCHANGED cliVars
    BY <2>2 DEF cliVars, EffectInv, LocalErrorHasNoEffect, ArgumentErrors
  <2>3. QED
    BY <2>1, <2>2 DEF ArtifactNext, ValidateOutput, artifactVars
<1>2. EffectInv => LocalErrorHasNoEffect
  BY DEF EffectInv
<1>3. QED
  BY EffectInit, <1>1, <1>2, PTL DEF ArtifactSpec

-----------------------------------------------------------------------------
(***************************************************************************)
(* The codec: a text that decodes is the text of what it decoded to        *)
(***************************************************************************)

\* A field holds the value it was made of, and is known by its type.
LEMMA FieldOf ==
    ASSUME NEW item, NEW k, NEW v
    PROVE  /\ item.fields[k] = Text(v) =>
                  Field(item, k) = v /\ DOMAIN item.fields[k] = {"String"}
           /\ item.fields[k] = Number(v) =>
                  Field(item, k) = v /\ DOMAIN item.fields[k] = {"u64"}
           /\ item.fields[k] = List(v) =>
                  Field(item, k) = v /\ DOMAIN item.fields[k] = {"Vec"}
<1>1. item.fields[k] = Text(v) => Field(item, k) = v /\ DOMAIN item.fields[k] = {"String"}
  BY DEF Field, Text
<1>2. item.fields[k] = Number(v) => Field(item, k) = v /\ DOMAIN item.fields[k] = {"u64"}
  BY DEF Field, Number
<1>3. item.fields[k] = List(v) => Field(item, k) = v /\ DOMAIN item.fields[k] = {"Vec"}
  BY DEF Field, List
<1>4. QED
  BY <1>1, <1>2, <1>3

\* A field that reads as a string is the text of its value.
LEMMA StringField ==
    ASSUME NEW item, NEW k, IsField(item.fields[k]), DOMAIN item.fields[k] = {"String"}
    PROVE  item.fields[k] = Text(Field(item, k))
BY DEF Field, Text, IsField

\* A sequence of one or two is given by its members.
LEMMA ShortSequence ==
    ASSUME NEW list, IsSequence(list)
    PROVE  /\ Len(list) \in Nat /\ DOMAIN list = 1 .. Len(list)
           /\ Len(list) = 0 => list = <<>>
           /\ Len(list) = 1 => list = <<list[1]>>
           /\ Len(list) = 2 => list = <<list[1], list[2]>>
<1> DEFINE S == {list[k] : k \in DOMAIN list}
<1>1. list \in Seq(S)
  BY DEF IsSequence
<1>2. Len(list) \in Nat /\ DOMAIN list = 1 .. Len(list) /\ list \in [1 .. Len(list) -> S]
  BY <1>1, LenProperties
<1>3. Len(list) = 0 => list = <<>>
  BY <1>1, EmptySeq
<1>4. ASSUME Len(list) = 1 PROVE list = <<list[1]>>
  <2>1. list[1] \in S
    BY <1>2, <1>4
  <2>2. <<list[1]>> \in Seq(S) /\ Len(<<list[1]>>) = 1
    BY <2>1
  <2>3. \A i \in 1 .. Len(list) : list[i] = <<list[1]>>[i]
    BY <1>4
  <2> HIDE DEF S
  <2>4. QED
    BY <1>1, <1>4, <2>2, <2>3, SeqEqual
<1>5. ASSUME Len(list) = 2 PROVE list = <<list[1], list[2]>>
  <2>1. list[1] \in S /\ list[2] \in S
    BY <1>2, <1>5
  <2>2. <<list[1], list[2]>> \in Seq(S) /\ Len(<<list[1], list[2]>>) = 2
    BY <2>1
  <2>3. \A i \in 1 .. Len(list) : list[i] = <<list[1], list[2]>>[i]
    BY <1>5
  <2> HIDE DEF S
  <2>4. QED
    BY <1>1, <1>5, <2>2, <2>3, SeqEqual
<1>6. QED
  BY <1>2, <1>3, <1>4, <1>5

\* What an item decodes to has that item for its text (from_nota, to_nota).
LEMMA DecodedItem ==
    ASSUME NEW item, IsItem(item), DecodeInput(item).ok
    PROVE  /\ EncodeInput(DecodeInput(item).value) = item
           /\ DecodeInput(item).value.kind \in {"Send", "Inbox"}
<1>1. item = Record(item.head, item.fields) /\ IsSequence(item.fields)
  BY DEF IsItem
<1>2. CASE Shaped(item, "Send", <<"String", "String">>)
  <2>1. item.head = "Send" /\ Len(item.fields) = 2
        /\ DOMAIN item.fields[1] = {"String"} /\ DOMAIN item.fields[2] = {"String"}
    BY <1>2 DEF Shaped
  <2>2. DOMAIN item.fields = 1 .. 2
    BY <1>1, <2>1, ShortSequence
  <2>3. item.fields[1] = Text(Field(item, 1)) /\ item.fields[2] = Text(Field(item, 2))
    BY <2>1, <2>2, StringField DEF IsItem
  <2>4. item.fields = <<Text(Field(item, 1)), Text(Field(item, 2))>>
    BY <1>1, <2>1, <2>3, ShortSequence
  <2>5. DecodeInput(item).value = Send(Field(item, 1), Field(item, 2))
    <3>1. ~Shaped(item, "Inbox", <<"String">>)
      BY <2>1 DEF Shaped
    <3>2. DecodeInput(item) = Ok(Send(Field(item, 1), Field(item, 2)))
      BY <1>2, <3>1 DEF DecodeInput
    <3>3. QED
      BY <3>2 DEF Ok
  <2>6. QED
    BY <1>1, <2>1, <2>4, <2>5 DEF EncodeInput, Send
<1>3. CASE ~Shaped(item, "Send", <<"String", "String">>) /\ Shaped(item, "Inbox", <<"String">>)
  <2>1. item.head = "Inbox" /\ Len(item.fields) = 1 /\ DOMAIN item.fields[1] = {"String"}
    BY <1>3 DEF Shaped
  <2>2. DOMAIN item.fields = 1 .. 1
    BY <1>1, <2>1, ShortSequence
  <2>3. item.fields[1] = Text(Field(item, 1))
    BY <2>1, <2>2, StringField DEF IsItem
  <2>4. item.fields = <<Text(Field(item, 1))>>
    BY <1>1, <2>1, <2>3, ShortSequence
  <2>5. DecodeInput(item).value = Inbox(Field(item, 1))
    <3>1. ~Shaped(item, "Send", <<"String", "String">>)
      BY <1>3
    <3>2. DecodeInput(item) = Ok(Inbox(Field(item, 1)))
      BY <1>3, <3>1 DEF DecodeInput
    <3>3. QED
      BY <3>2 DEF Ok
  <2>6. QED
    BY <1>1, <2>1, <2>4, <2>5 DEF EncodeInput, Inbox
<1>4. QED
  BY <1>2, <1>3 DEF DecodeInput, Err

\* A text that decodes is the one item that its input has for its text.
LEMMA DecodedText ==
    ASSUME NEW t, IsText(t), InputFromNota(t).ok
    PROVE  /\ t = <<EncodeInput(InputFromNota(t).value)>>
           /\ InputFromNota(t).value.kind \in {"Send", "Inbox"}
<1>1. InputFromNota(t) = DecodeInput(First(t)) /\ Len(t) = 1
  BY DEF InputFromNota, FromNota, ExpectEnd, Err
<1>2. t = <<t[1]>> /\ IsItem(t[1])
  BY <1>1, ShortSequence DEF IsText
<1>3. First(t) = t[1]
  BY <1>2 DEF First
<1>4. QED
  BY <1>1, <1>2, <1>3, DecodedItem

\* An entry of a listing decodes to itself (from_signal, to_nota).
LEMMA EntryRoundTrip ==
    ASSUME NEW entry
    PROVE  LET e == FromSignal(entry)
               item == EncodeEntry(e) IN
           /\ Shaped(item, "RouterInboxEntry", <<"u64", "String", "String">>)
           /\ DecodeEntry(item) = e
<1> DEFINE e == FromSignal(entry)
           item == EncodeEntry(e)
<1>1. /\ item.head = "RouterInboxEntry" /\ Len(item.fields) = 3
      /\ DOMAIN item.fields = 1 .. 3
      /\ item.fields[1] = Number(e.slot)
      /\ item.fields[2] = Text(e.sender)
      /\ item.fields[3] = Text(e.body)
  BY DEF EncodeEntry, Record
<1>2. /\ Field(item, 1) = e.slot /\ DOMAIN item.fields[1] = {"u64"}
      /\ Field(item, 2) = e.sender /\ DOMAIN item.fields[2] = {"String"}
      /\ Field(item, 3) = e.body /\ DOMAIN item.fields[3] = {"String"}
  <2> HIDE DEF item, e
  <2>1. QED
    BY <1>1, FieldOf
<1>3. Shaped(item, "RouterInboxEntry", <<"u64", "String", "String">>)
  <2> HIDE DEF item, e
  <2>1. QED
    BY <1>1, <1>2 DEF Shaped
<1>4. DecodeEntry(item) = e
  <2>1. e = InboxEntry(e.slot, e.sender, e.body)
    BY DEF FromSignal, InboxEntry
  <2> HIDE DEF item, e
  <2>2. QED
    BY <1>2, <2>1 DEF DecodeEntry
<1>5. QED
  BY <1>3, <1>4

\* A text of one item decodes to what the item decodes to.
LEMMA DecodedOutput ==
    ASSUME NEW item
    PROVE  OutputFromNota(<<item>>) = DecodeOutput(item)
<1>1. Len(<<item>>) = 1 /\ <<item>> # <<>> /\ <<item>>[1] = item
  OBVIOUS
<1>2. QED
  BY <1>1 DEF OutputFromNota, FromNota, First, ExpectEnd

\* A text of no item, or of one that is no record, does not decode.
LEMMA StrayOutput ==
    /\ OutputFromNota(<<>>) = Err("Nota")
    /\ OutputFromNota(<<Stray>>) = Err("Nota")
<1>1. Stray.head = ""
  BY DEF Stray, Record
<1>2. DecodeOutput(Stray) = Err("Nota")
  BY <1>1 DEF DecodeOutput, ListingDecodes, Shaped
<1>3. ~Err("Nota").ok
  BY DEF Err
<1>4. QED
  BY <1>2, <1>3, DecodedOutput DEF OutputFromNota, FromNota, First

\* What the CLI prints of a reply is one record, and decodes to what the reply
\* says (from_router_reply, to_nota, from_nota).
LEMMA OutputRoundTrip ==
    ASSUME NEW r \in Replies
    PROVE  LET output == FromRouterReply(r) IN
           /\ Len(EncodeOutput(output)) = 1
           /\ OutputFromNota(EncodeOutput(output)) = Ok(output)
<1> DEFINE output == FromRouterReply(r)
<1> SUFFICES \E item : EncodeOutput(output) = <<item>> /\ DecodeOutput(item) = Ok(output)
  <2> ASSUME NEW item, EncodeOutput(output) = <<item>>, DecodeOutput(item) = Ok(output)
      PROVE  /\ Len(EncodeOutput(output)) = 1
             /\ OutputFromNota(EncodeOutput(output)) = Ok(output)
    <3>1. Len(<<item>>) = 1
      OBVIOUS
    <3> HIDE DEF output
    <3>2. QED
      BY <3>1, DecodedOutput
  <2> QED
    OBVIOUS
<1>1. CASE r.kind = "SubmissionAccepted"
  <2> DEFINE item == Record("SubmissionAccepted", <<Number(r.slot)>>)
  <2>1. output = [kind |-> "SubmissionAccepted", slot |-> r.slot]
    BY <1>1 DEF FromRouterReply
  <2>2. EncodeOutput(output) = <<item>>
    <3> HIDE DEF output
    <3>1. output.kind = "SubmissionAccepted" /\ output.slot = r.slot
      BY <2>1
    <3>2. QED
      BY <3>1 DEF EncodeOutput
  <2>3. /\ item.head = "SubmissionAccepted" /\ Len(item.fields) = 1
        /\ item.fields[1] = Number(r.slot)
    BY DEF Record
  <2> HIDE DEF item
  <2>4. Field(item, 1) = r.slot /\ DOMAIN item.fields[1] = {"u64"}
    BY <2>3, FieldOf
  <2>5. DOMAIN item.fields = 1 .. 1
    BY DEF item, Record
  <2>6. Shaped(item, "SubmissionAccepted", <<"u64">>)
    BY <2>3, <2>4, <2>5 DEF Shaped
  <2>7. DecodeOutput(item) = Ok(output)
    <3>1. /\ ~Shaped(item, "SubmissionRejected", <<"String">>)
          /\ ~ListingDecodes(item)
          /\ ~Shaped(item, "MessageRequestUnimplemented", <<"String", "String">>)
      BY <2>3 DEF Shaped, ListingDecodes
    <3>2. DecodeOutput(item) = Ok([kind |-> "SubmissionAccepted", slot |-> Field(item, 1)])
      BY <2>6, <3>1 DEF DecodeOutput
    <3>3. QED
      BY <2>1, <2>4, <3>2
  <2>8. QED
    BY <2>2, <2>7
<1>2. CASE r.kind = "SubmissionRejected"
  <2> DEFINE item == Record("SubmissionRejected", <<Text(r.reason)>>)
  <2>1. output = [kind |-> "SubmissionRejected", reason |-> r.reason]
    BY <1>2 DEF FromRouterReply
  <2>2. EncodeOutput(output) = <<item>>
    <3> HIDE DEF output
    <3>1. output.kind = "SubmissionRejected" /\ output.reason = r.reason
      BY <2>1
    <3>2. QED
      BY <3>1 DEF EncodeOutput
  <2>3. /\ item.head = "SubmissionRejected" /\ Len(item.fields) = 1
        /\ item.fields[1] = Text(r.reason)
        /\ DOMAIN item.fields = 1 .. 1
    BY DEF Record
  <2> HIDE DEF item
  <2>4. Field(item, 1) = r.reason /\ DOMAIN item.fields[1] = {"String"}
    BY <2>3, FieldOf
  <2>5. Shaped(item, "SubmissionRejected", <<"String">>) /\ Field(item, 1) \in Reasons
    BY <1>2, <2>3, <2>4, RepliesAssumption DEF Shaped
  <2>6. DecodeOutput(item) = Ok(output)
    <3>1. /\ ~Shaped(item, "SubmissionAccepted", <<"u64">>)
          /\ ~ListingDecodes(item)
          /\ ~Shaped(item, "MessageRequestUnimplemented", <<"String", "String">>)
      BY <2>3 DEF Shaped, ListingDecodes
    <3>2. DecodeOutput(item) = Ok([kind |-> "SubmissionRejected", reason |-> Field(item, 1)])
      BY <2>5, <3>1 DEF DecodeOutput
    <3>3. QED
      BY <2>1, <2>4, <3>2
  <2>7. QED
    BY <2>2, <2>6
<1>3. CASE r.kind = "MessageRequestUnimplemented"
  <2> DEFINE item == Record("MessageRequestUnimplemented",
                            <<Text(r.operation), Text(r.reason)>>)
  <2>1. output = [kind |-> "MessageRequestUnimplemented",
                  operation |-> r.operation, reason |-> r.reason]
    BY <1>3 DEF FromRouterReply
  <2>2. EncodeOutput(output) = <<item>>
    <3> HIDE DEF output
    <3>1. /\ output.kind = "MessageRequestUnimplemented"
          /\ output.operation = r.operation /\ output.reason = r.reason
      BY <2>1
    <3>2. QED
      BY <3>1 DEF EncodeOutput
  <2>3. /\ item.head = "MessageRequestUnimplemented" /\ Len(item.fields) = 2
        /\ item.fields[1] = Text(r.operation)
        /\ item.fields[2] = Text(r.reason)
        /\ DOMAIN item.fields = 1 .. 2
    BY DEF Record
  <2> HIDE DEF item
  <2>4. /\ Field(item, 1) = r.operation /\ DOMAIN item.fields[1] = {"String"}
        /\ Field(item, 2) = r.reason /\ DOMAIN item.fields[2] = {"String"}
    BY <2>3, FieldOf
  <2>5. Shaped(item, "MessageRequestUnimplemented", <<"String", "String">>)
    BY <2>3, <2>4 DEF Shaped
  <2>6. DecodeOutput(item) = Ok(output)
    <3>1. /\ ~Shaped(item, "SubmissionAccepted", <<"u64">>)
          /\ ~Shaped(item, "SubmissionRejected", <<"String">>)
          /\ ~ListingDecodes(item)
      BY <2>3 DEF Shaped, ListingDecodes
    <3>2. DecodeOutput(item) = Ok([kind |-> "MessageRequestUnimplemented",
                                   operation |-> Field(item, 1), reason |-> Field(item, 2)])
      BY <2>5, <3>1 DEF DecodeOutput
    <3>3. QED
      BY <2>1, <2>4, <3>2
  <2>7. QED
    BY <2>2, <2>6
<1>4. CASE r.kind = "InboxListing"
  <2> DEFINE entries == [k \in DOMAIN r.messages |-> FromSignal(r.messages[k])]
             items == [k \in DOMAIN entries |-> EncodeEntry(entries[k])]
             item == Record("RouterInboxListing", <<List(items)>>)
  <2>1. output = [kind |-> "RouterInboxListing", messages |-> entries]
    BY <1>4 DEF FromRouterReply
  <2>2. EncodeOutput(output) = <<item>>
    <3>1. output.kind = "RouterInboxListing" /\ output.messages = entries
      BY <2>1
    <3> HIDE DEF output, entries
    <3>2. QED
      BY <3>1 DEF EncodeOutput
  <2>3. /\ item.head = "RouterInboxListing" /\ Len(item.fields) = 1
        /\ item.fields[1] = List(items)
        /\ DOMAIN item.fields = 1 .. 1
    <3> HIDE DEF items
    <3>1. QED
      BY DEF Record
  <2>4. Field(item, 1) = items /\ DOMAIN item.fields[1] = {"Vec"}
    <3> HIDE DEF items, item
    <3>1. QED
      BY <2>3, FieldOf
  <2>5. DOMAIN items = DOMAIN entries /\ DOMAIN entries = DOMAIN r.messages
    OBVIOUS
  <2>6. \A k \in DOMAIN items :
            /\ Shaped(items[k], "RouterInboxEntry", <<"u64", "String", "String">>)
            /\ DecodeEntry(items[k]) = entries[k]
    <3> TAKE k \in DOMAIN items
    <3>1. items[k] = EncodeEntry(FromSignal(r.messages[k]))
          /\ entries[k] = FromSignal(r.messages[k])
      OBVIOUS
    <3> HIDE DEF items, entries
    <3>2. QED
      BY <3>1, EntryRoundTrip
  <2>7. [k \in DOMAIN items |-> DecodeEntry(items[k])] = entries
    <3> DEFINE decoded == [k \in DOMAIN items |-> DecodeEntry(items[k])]
    <3>1. DOMAIN decoded = DOMAIN entries /\ \A k \in DOMAIN decoded : decoded[k] = entries[k]
      BY <2>5, <2>6
    <3>2. entries = [k \in DOMAIN entries |-> entries[k]]
      OBVIOUS
    <3>3. decoded = [k \in DOMAIN decoded |-> decoded[k]]
      OBVIOUS
    <3> HIDE DEF decoded, entries
    <3>4. decoded = entries
      BY <3>1, <3>2, <3>3
    <3>5. QED
      BY <3>4 DEF decoded
  <2> HIDE DEF items, item
  <2>8. ListingDecodes(item)
    <3>1. Shaped(item, "RouterInboxListing", <<"Vec">>)
      BY <2>3, <2>4 DEF Shaped
    <3>2. QED
      BY <2>4, <2>6, <3>1 DEF ListingDecodes
  <2>9. DecodeOutput(item) = Ok(output)
    <3>1. /\ ~Shaped(item, "SubmissionAccepted", <<"u64">>)
          /\ ~Shaped(item, "SubmissionRejected", <<"String">>)
          /\ ~Shaped(item, "MessageRequestUnimplemented", <<"String", "String">>)
      BY <2>3 DEF Shaped
    <3>2. DecodeOutput(item) =
              Ok([kind |-> "RouterInboxListing",
                  messages |-> [k \in DOMAIN Field(item, 1) |->
                                    DecodeEntry(Field(item, 1)[k])]])
      BY <2>8, <3>1 DEF DecodeOutput
    <3>3. QED
      BY <2>1, <2>4, <2>7, <3>2
  <2>10. QED
    BY <2>2, <2>9
<1>5. QED
  BY <1>1, <1>2, <1>3, <1>4, RepliesAssumption

-----------------------------------------------------------------------------
(***************************************************************************)
(* One invocation of the CLI                                               *)
(***************************************************************************)

\* What the two tools are called with is what the assumptions say of sessions.
CalledInv ==
    /\ IsSequence(arguments)
    /\ \A k \in DOMAIN arguments : IsArgument(arguments[k])
    /\ FromEnvironment \in {<<>>} \cup {<<path>> : path \in Sockets}
    /\ IsSequence(validatorArguments)

\* The CLI has exited once its outcome is known, and reads one file at most.
StepInv ==
    /\ step \in {"arguments", "decode", "socket", "connect", "write", "reply",
                 "print", "exited"}
    /\ step = "exited" <=> exit # "running"
    /\ reads \in 0 .. 1
    /\ step = "arguments" => reads = 0

\* The text that is decoded is the one the arguments stand for, and the input
\* is all that it says; the socket is the one the environment names.
InputInv ==
    /\ step = "decode" => TextOf(arguments) = <<text>> /\ IsText(text)
    /\ step \in {"arguments", "decode"} => input = <<>>
    /\ step \in {"socket", "connect", "write", "reply", "print"} => input # <<>>
    /\ input # <<>> => /\ TextOf(arguments) = <<<<EncodeInput(input[1])>>>>
                       /\ input[1].kind \in {"Send", "Inbox"}
    /\ step \in {"connect", "write", "reply", "print"} =>
           socket = FromEnvironment /\ socket # <<>>

\* A frame has left by the time a reply is awaited, and none before that.
SubmissionInv ==
    /\ step \in {"arguments", "decode", "socket", "connect", "write"} => submitted = <<>>
    /\ step \in {"reply", "print"} => submitted # <<>>
    /\ submitted # <<>> =>
           /\ input # <<>> /\ FromEnvironment # <<>>
           /\ submitted = <<[socket |-> FromEnvironment[1],
                             request |-> IntoMessageRequest(input[1])]>>

\* The reply that can be printed, and is all of it when the CLI succeeds.
HasReply == reply # <<>> /\ reply[1] \in Replies
ReplyText == EncodeOutput(FromRouterReply(reply[1]))

PrintInv ==
    /\ reply # <<>> => \E r \in Replies \cup {BadReply} : reply = <<r>>
    /\ step = "print" => HasReply
    /\ step # "exited" => printed = <<>>
    /\ printed \notin {<<>>, <<Stray>>} => HasReply /\ printed = ReplyText
    /\ exit = "ok" => HasReply /\ printed = ReplyText /\ submitted # <<>>

CliInv == CalledInv /\ StepInv /\ InputInv /\ SubmissionInv /\ PrintInv

\* Nothing that a session is called with changes.
LEMMA CalledStays ==
    CalledInv /\ UNCHANGED <<arguments, environment, validatorArguments>> => CalledInv'
BY DEF CalledInv, FromEnvironment

\* A session that is called is one that the assumptions speak of.
LEMMA CliInit == ArtifactInit => CliInv
<1> SUFFICES ASSUME NEW session \in Sessions,
                    Called(session.arguments, session.environment),
                    Validator!Called(session.validator)
             PROVE  CliInv
  BY DEF ArtifactInit
<1>1. CalledInv
  BY SessionsAssumption DEF Called, Validator!Called, CalledInv, FromEnvironment
<1>2. StepInv /\ InputInv /\ SubmissionInv /\ PrintInv
  BY DEF Called, StepInv, InputInv, SubmissionInv, PrintInv
<1>3. QED
  BY <1>1, <1>2 DEF CliInv

\* The outcome of a step that fails is an error.
LEMMA StepStep == StepInv /\ [Next]_cliVars => StepInv'
<1> SUFFICES ASSUME StepInv, [Next]_cliVars PROVE StepInv'
  OBVIOUS
<1> USE DEF StepInv, Exit, Goes, Fails, user
<1>1. CASE MissingInput
  BY <1>1 DEF MissingInput
<1>2. CASE UnexpectedArgument
  BY <1>2 DEF UnexpectedArgument
<1>3. CASE InvalidInlineArgument
  BY <1>3 DEF InvalidInlineArgument
<1>4. CASE InlineText
  BY <1>4 DEF InlineText
<1>5. CASE ReadInputFile
  BY <1>5 DEF ReadInputFile
<1>6. CASE Decode
  <2>1. InputFromNota(text).ok \/ InputFromNota(text).error = "Nota"
    BY DecodeErrors
  <2>2. QED
    BY <1>6, <2>1 DEF Decode
<1>7. CASE FindSocket
  BY <1>7 DEF FindSocket
<1>8. CASE Connect
  BY <1>8 DEF Connect
<1>9. CASE ConnectFails
  BY <1>9 DEF ConnectFails
<1>10. CASE WriteFrame
  BY <1>10 DEF WriteFrame
<1>11. CASE WriteFrameFails
  BY <1>11 DEF WriteFrameFails
<1>12. CASE ReadReply
  BY <1>12 DEF ReadReply
<1>13. CASE ReplyFails
  BY <1>13 DEF ReplyFails, ReplyErrors
<1>14. CASE PrintReply
  BY <1>14 DEF PrintReply
<1>15. CASE PrintReplyFails
  BY <1>15 DEF PrintReplyFails
<1>16. CASE Answer
  BY <1>16 DEF Answer
<1>17. CASE UNCHANGED cliVars
  BY <1>17 DEF cliVars
<1>18. QED
  BY <1>1, <1>2, <1>3, <1>4, <1>5, <1>6, <1>7, <1>8, <1>9,
     <1>10, <1>11, <1>12, <1>13, <1>14, <1>15, <1>16, <1>17
     DEF Next, DecodeInputSteps, Run

\* The text and the input are taken from the arguments.
LEMMA InputStep == CalledInv /\ InputInv /\ [Next]_cliVars => InputInv'
<1> SUFFICES ASSUME CalledInv /\ InputInv, [Next]_cliVars PROVE InputInv'
  OBVIOUS
<1> USE DEF InputInv, FromEnvironment, Exit, Goes, Fails, user
<1>1. CASE MissingInput
  BY <1>1 DEF MissingInput
<1>2. CASE UnexpectedArgument
  BY <1>2 DEF UnexpectedArgument
<1>3. CASE InvalidInlineArgument
  BY <1>3 DEF InvalidInlineArgument
<1>4. CASE InlineText
  <2>1. Len(arguments) = 1 /\ DOMAIN arguments = 1 .. 1
    BY <1>4, ShortSequence DEF InlineText, SingleArgument, CalledInv
  <2>2. IsText(arguments[1].text)
    BY <1>4, <2>1 DEF InlineText, CalledInv, IsArgument
  <2>3. TextOf(arguments) = <<arguments[1].text>>
    BY <1>4, <2>1 DEF InlineText, TextOf
  <2>4. QED
    BY <1>4, <2>2, <2>3 DEF InlineText, TextOf
<1>5. CASE ReadInputFile
  <2>1. Len(arguments) = 1 /\ DOMAIN arguments = 1 .. 1
    BY <1>5, ShortSequence DEF ReadInputFile, SingleArgument, CalledInv
  <2>2. TextOf(arguments) = arguments[1].content
    BY <1>5, <2>1 DEF ReadInputFile, TextOf
  <2>3. arguments[1].content # <<>> =>
            /\ arguments[1].content = <<arguments[1].content[1]>>
            /\ IsText(arguments[1].content[1])
    BY <1>5, <2>1 DEF ReadInputFile, CalledInv, IsArgument
  <2>4. QED
    BY <1>5, <2>2, <2>3 DEF ReadInputFile, TextOf
<1>6. CASE Decode
  <2>1. TextOf(arguments) = <<text>> /\ IsText(text)
    BY <1>6 DEF Decode
  <2>2. TextOf(arguments)' = TextOf(arguments)
    BY <1>6 DEF Decode, TextOf
  <2>3. ASSUME InputFromNota(text).ok
        PROVE  /\ input' = <<InputFromNota(text).value>> /\ step' = "socket"
               /\ text = <<EncodeInput(input'[1])>>
               /\ input'[1].kind \in {"Send", "Inbox"}
    BY <1>6, <2>1, <2>3, DecodedText DEF Decode
  <2>4. ASSUME ~InputFromNota(text).ok PROVE input' = <<>> /\ step' = "exited"
    BY <1>6, <2>4 DEF Decode
  <2>5. QED
    BY <2>1, <2>2, <2>3, <2>4
<1>7. CASE FindSocket
  BY <1>7 DEF FindSocket
<1>8. CASE Connect
  BY <1>8 DEF Connect
<1>9. CASE ConnectFails
  BY <1>9 DEF ConnectFails
<1>10. CASE WriteFrame
  BY <1>10 DEF WriteFrame
<1>11. CASE WriteFrameFails
  BY <1>11 DEF WriteFrameFails
<1>12. CASE ReadReply
  BY <1>12 DEF ReadReply
<1>13. CASE ReplyFails
  BY <1>13 DEF ReplyFails, ReplyErrors
<1>14. CASE PrintReply
  BY <1>14 DEF PrintReply
<1>15. CASE PrintReplyFails
  BY <1>15 DEF PrintReplyFails
<1>16. CASE Answer
  BY <1>16 DEF Answer
<1>17. CASE UNCHANGED cliVars
  BY <1>17 DEF cliVars
<1>18. QED
  BY <1>1, <1>2, <1>3, <1>4, <1>5, <1>6, <1>7, <1>8, <1>9,
     <1>10, <1>11, <1>12, <1>13, <1>14, <1>15, <1>16, <1>17
     DEF Next, DecodeInputSteps, Run

\* The one frame is written with the input and the socket at hand.
LEMMA SubmissionStep == InputInv /\ SubmissionInv /\ [Next]_cliVars => SubmissionInv'
<1> SUFFICES ASSUME InputInv /\ SubmissionInv, [Next]_cliVars PROVE SubmissionInv'
  OBVIOUS
<1> USE DEF SubmissionInv, FromEnvironment, Exit, Goes, Fails, user
<1>1. CASE MissingInput
  BY <1>1 DEF MissingInput
<1>2. CASE UnexpectedArgument
  BY <1>2 DEF UnexpectedArgument
<1>3. CASE InvalidInlineArgument
  BY <1>3 DEF InvalidInlineArgument
<1>4. CASE InlineText
  BY <1>4 DEF InlineText
<1>5. CASE ReadInputFile
  BY <1>5 DEF ReadInputFile
<1>6. CASE Decode
  <2>1. step = "decode" /\ step' \in {"socket", "exited"} /\ UNCHANGED submitted
    BY <1>6 DEF Decode
  <2>2. submitted' = <<>>
    BY <2>1
  <2>3. QED
    BY <2>1, <2>2
<1>7. CASE FindSocket
  BY <1>7 DEF FindSocket
<1>8. CASE Connect
  BY <1>8 DEF Connect
<1>9. CASE ConnectFails
  BY <1>9 DEF ConnectFails
<1>10. CASE WriteFrame
  <2>1. submitted = <<>> /\ input # <<>> /\ socket = FromEnvironment /\ socket # <<>>
    BY <1>10 DEF WriteFrame, InputInv
  <2>2. submitted' = <<[socket |-> socket[1], request |-> IntoMessageRequest(input[1])]>>
    BY <1>10, <2>1 DEF WriteFrame
  <2>3. QED
    BY <1>10, <2>1, <2>2 DEF WriteFrame
<1>11. CASE WriteFrameFails
  BY <1>11 DEF WriteFrameFails
<1>12. CASE ReadReply
  BY <1>12 DEF ReadReply
<1>13. CASE ReplyFails
  BY <1>13 DEF ReplyFails, ReplyErrors
<1>14. CASE PrintReply
  BY <1>14 DEF PrintReply
<1>15. CASE PrintReplyFails
  BY <1>15 DEF PrintReplyFails
<1>16. CASE Answer
  BY <1>16 DEF Answer
<1>17. CASE UNCHANGED cliVars
  BY <1>17 DEF cliVars
<1>18. QED
  BY <1>1, <1>2, <1>3, <1>4, <1>5, <1>6, <1>7, <1>8, <1>9,
     <1>10, <1>11, <1>12, <1>13, <1>14, <1>15, <1>16, <1>17
     DEF Next, DecodeInputSteps, Run

\* What is printed is the reply that was read, or a part of it when the CLI fails.
LEMMA PrintStep == StepInv /\ SubmissionInv /\ PrintInv /\ [Next]_cliVars => PrintInv'
<1> SUFFICES ASSUME StepInv /\ SubmissionInv /\ PrintInv, [Next]_cliVars PROVE PrintInv'
  OBVIOUS
<1> USE DEF PrintInv, HasReply, ReplyText, Exit, Goes, Fails, user
<1>1. CASE MissingInput
  BY <1>1 DEF MissingInput
<1>2. CASE UnexpectedArgument
  BY <1>2 DEF UnexpectedArgument
<1>3. CASE InvalidInlineArgument
  BY <1>3 DEF InvalidInlineArgument
<1>4. CASE InlineText
  BY <1>4 DEF InlineText
<1>5. CASE ReadInputFile
  BY <1>5 DEF ReadInputFile
<1>6. CASE Decode
  <2>1. InputFromNota(text).ok \/ InputFromNota(text).error = "Nota"
    BY DecodeErrors
  <2>2. QED
    BY <1>6, <2>1 DEF Decode
<1>7. CASE FindSocket
  BY <1>7 DEF FindSocket
<1>8. CASE Connect
  BY <1>8 DEF Connect
<1>9. CASE ConnectFails
  BY <1>9 DEF ConnectFails
<1>10. CASE WriteFrame
  BY <1>10 DEF WriteFrame
<1>11. CASE WriteFrameFails
  BY <1>11 DEF WriteFrameFails
<1>12. CASE ReadReply
  BY <1>12 DEF ReadReply
<1>13. CASE ReplyFails
  BY <1>13 DEF ReplyFails, ReplyErrors
<1>14. CASE PrintReply
  <2>1. submitted # <<>> /\ HasReply
    BY <1>14 DEF PrintReply, SubmissionInv
  <2>2. printed' = ReplyText /\ exit' = "ok" /\ step' = "exited"
        /\ UNCHANGED <<reply, submitted>>
    BY <1>14 DEF PrintReply
  <2>3. QED
    BY <2>1, <2>2
<1>15. CASE PrintReplyFails
  BY <1>15 DEF PrintReplyFails
<1>16. CASE Answer
  BY <1>16 DEF Answer
<1>17. CASE UNCHANGED cliVars
  BY <1>17 DEF cliVars
<1>18. QED
  BY <1>1, <1>2, <1>3, <1>4, <1>5, <1>6, <1>7, <1>8, <1>9,
     <1>10, <1>11, <1>12, <1>13, <1>14, <1>15, <1>16, <1>17
     DEF Next, DecodeInputSteps, Run

\* The validator touches nothing of the CLI, and no argument of its own.
LEMMA ValidatorKeepsArguments == Validator!Next => UNCHANGED validatorArguments
BY DEF Validator!Next, Validator!FromArguments, Validator!ExpectOptionName,
       Validator!FileValue, Validator!Expectation, Validator!OptionalSender,
       Validator!OptionValue, Validator!InvalidArgument, Validator!ExpectFinished,
       Validator!CheckOutput, Validator!ReadOutputFails, Validator!Finish

LEMMA CliInvariant == ArtifactSpec => []CliInv
<1>1. CliInv /\ [ArtifactNext]_artifactVars => CliInv'
  <2> SUFFICES ASSUME CliInv, [ArtifactNext]_artifactVars PROVE CliInv'
    OBVIOUS
  <2>1. [Next]_cliVars /\ UNCHANGED validatorArguments
    BY ValidatorKeepsArguments
       DEF ArtifactNext, Message, ValidateOutput, artifactVars, validatorOnly
  <2>2. UNCHANGED <<arguments, environment>>
    BY <2>1
       DEF Next, DecodeInputSteps, Run, MissingInput, UnexpectedArgument,
           InvalidInlineArgument, InlineText, ReadInputFile, Decode, FindSocket, Connect,
           ConnectFails, WriteFrame, WriteFrameFails, ReadReply, ReplyFails, PrintReply,
           PrintReplyFails, Answer, Fails, user, cliVars
  <2>3. QED
    BY <2>1, <2>2, CalledStays, StepStep, InputStep, SubmissionStep, PrintStep DEF CliInv
<1>2. QED
  BY CliInit, <1>1, PTL DEF ArtifactSpec

\* At most one frame leaves the CLI, at the socket that the environment names
\* first, and only for arguments that are one record and nothing else: it holds
\* what that record says (decode_input, from_nota, into_message_request).
THEOREM SubmitsWholeInputOnceHolds == ArtifactSpec => []SubmitsWholeInputOnce
<1>1. CliInv => SubmitsWholeInputOnce
  <2> SUFFICES ASSUME CliInv, submitted # <<>> PROVE SubmitsWholeInputOnce
    BY DEF SubmitsWholeInputOnce
  <2>1. TextOf(arguments) = <<<<EncodeInput(input[1])>>>>
    BY DEF CliInv, InputInv, SubmissionInv
  <2>2. PICK path \in Sockets : FromEnvironment = <<path>>
    BY DEF CliInv, CalledInv, SubmissionInv
  <2>3. submitted = <<[socket |-> path, request |-> IntoMessageRequest(input[1])]>>
    BY <2>2 DEF CliInv, SubmissionInv
  <2>4. QED
    BY <2>1, <2>2, <2>3 DEF SubmitsWholeInputOnce
<1>2. QED
  BY <1>1, CliInvariant, PTL

\* The CLI succeeds only with the daemon's reply, printed as the one record
\* that decodes to what the reply says (from_router_reply, to_nota, from_nota).
THEOREM SuccessPrintsReplyHolds == ArtifactSpec => []SuccessPrintsReply
<1>1. CliInv => SuccessPrintsReply
  <2> SUFFICES ASSUME CliInv, exit = "ok" PROVE SuccessPrintsReply
    BY DEF SuccessPrintsReply
  <2>1. HasReply /\ printed = ReplyText /\ submitted # <<>>
    BY DEF CliInv, PrintInv
  <2>2. Len(submitted) = 1
    BY <2>1 DEF CliInv, SubmissionInv
  <2>3. OutputFromNota(printed) = Ok(FromRouterReply(reply[1])) /\ Len(printed) = 1
    BY <2>1, OutputRoundTrip DEF HasReply, ReplyText
  <2>4. QED
    BY <2>1, <2>2, <2>3 DEF SuccessPrintsReply, HasReply
<1>2. QED
  BY <1>1, CliInvariant, PTL

-----------------------------------------------------------------------------
(***************************************************************************)
(* The argument parser of the validator                                    *)
(***************************************************************************)

Word(k, word) == k <= Len(validatorArguments) /\ validatorArguments[k] = word

\* A sequence is the concatenation of two if its members are theirs in turn.
LEMMA Concatenation ==
    ASSUME NEW S, NEW front \in Seq(S), NEW back \in Seq(S), NEW flat \in Seq(S),
           Len(flat) = Len(front) + Len(back),
           \A i \in 1 .. Len(flat) :
               flat[i] = IF i <= Len(front) THEN front[i] ELSE back[i - Len(front)]
    PROVE  front \o back = flat
<1>1. /\ front \o back \in Seq(S)
      /\ Len(front \o back) = Len(flat)
      /\ \A i \in 1 .. Len(flat) : (front \o back)[i] = flat[i]
  BY ConcatProperties
<1>2. QED
  BY <1>1, SeqEqual

\* The command lines the validator understands, word by word.
LEMMA Flattened ==
    ASSUME NEW path, NEW word, NEW sender, NEW body
    PROVE  /\ Validator!Rendered(path, word, <<>>, <<>>) = <<"--file", path, word>>
           /\ Validator!Rendered(path, word, <<>>, <<body>>) =
                  <<"--file", path, word, "--body", body>>
           /\ Validator!Rendered(path, word, <<sender>>, <<body>>) =
                  <<"--file", path, word, "--sender", sender, "--body", body>>
<1> DEFINE S == {"--file", path, word, "--sender", sender, "--body", body}
           head == <<"--file", path, word>>
           senderPart == <<"--sender", sender>>
           bodyPart == <<"--body", body>>
<1>1. head \in Seq(S) /\ senderPart \in Seq(S) /\ bodyPart \in Seq(S) /\ <<>> \in Seq(S)
  OBVIOUS
<1>2. Len(head) = 3 /\ Len(senderPart) = 2 /\ Len(bodyPart) = 2
  OBVIOUS
<1>3. <<>> # <<sender>> /\ <<>> # <<body>> /\ <<sender>>[1] = sender /\ <<body>>[1] = body
  OBVIOUS
<1>4. /\ Validator!Rendered(path, word, <<>>, <<>>) = (head \o <<>>) \o <<>>
      /\ Validator!Rendered(path, word, <<>>, <<body>>) = (head \o <<>>) \o bodyPart
      /\ Validator!Rendered(path, word, <<sender>>, <<body>>) = (head \o senderPart) \o bodyPart
  BY <1>3 DEF Validator!Rendered
<1>5. head \o <<>> = head
  <2> HIDE DEF S, head
  <2>1. QED
    BY <1>1, ConcatEmptySeq
<1>6. head \o bodyPart = <<"--file", path, word, "--body", body>>
  <2> DEFINE flat == <<"--file", path, word, "--body", body>>
  <2>1. flat \in Seq(S) /\ Len(flat) = 5
    OBVIOUS
  <2>2. \A i \in 1 .. 5 : flat[i] = IF i <= 3 THEN head[i] ELSE bodyPart[i - 3]
    OBVIOUS
  <2> HIDE DEF S, head, bodyPart, flat
  <2>3. Len(flat) = Len(head) + Len(bodyPart)
    BY <1>2, <2>1
  <2>4. \A i \in 1 .. Len(flat) :
            flat[i] = IF i <= Len(head) THEN head[i] ELSE bodyPart[i - Len(head)]
    BY <1>2, <2>1, <2>2
  <2>5. head \o bodyPart = flat
    BY <1>1, <2>1, <2>3, <2>4, Concatenation
  <2>6. QED
    BY <2>5 DEF flat
<1>7. (head \o senderPart) \o bodyPart =
          <<"--file", path, word, "--sender", sender, "--body", body>>
  <2> DEFINE front == <<"--file", path, word, "--sender", sender>>
             flat == <<"--file", path, word, "--sender", sender, "--body", body>>
  <2>1. /\ front \in Seq(S) /\ Len(front) = 5
        /\ flat \in Seq(S) /\ Len(flat) = 7
    OBVIOUS
  <2>2. \A i \in 1 .. 5 : front[i] = IF i <= 3 THEN head[i] ELSE senderPart[i - 3]
    OBVIOUS
  <2>3. \A i \in 1 .. 7 : flat[i] = IF i <= 5 THEN front[i] ELSE bodyPart[i - 5]
    OBVIOUS
  <2> HIDE DEF S, head, senderPart, bodyPart, front, flat
  <2>4. Len(front) = Len(head) + Len(senderPart) /\ Len(flat) = Len(front) + Len(bodyPart)
    BY <1>2, <2>1
  <2>5. /\ \A i \in 1 .. Len(front) :
               front[i] = IF i <= Len(head) THEN head[i] ELSE senderPart[i - Len(head)]
        /\ \A i \in 1 .. Len(flat) :
               flat[i] = IF i <= Len(front) THEN front[i] ELSE bodyPart[i - Len(front)]
    BY <1>2, <2>1, <2>2, <2>3
  <2>6. head \o senderPart = front
    BY <1>1, <2>1, <2>4, <2>5, Concatenation
  <2>7. front \o bodyPart = flat
    BY <1>1, <2>1, <2>4, <2>5, Concatenation
  <2>8. QED
    BY <2>6, <2>7 DEF flat
<1>8. QED
  BY <1>4, <1>5, <1>6, <1>7

\* What it takes for the list of arguments to be such a command line.
LEMMA RenderedArguments ==
    ASSUME IsSequence(validatorArguments), NEW word, NEW sender, NEW body
    PROVE  /\ Validator!Renders(validatorArguments, word, <<>>, <<>>) <=>
                  Len(validatorArguments) = 3 /\ Word(1, "--file") /\ Word(3, word)
           /\ Validator!Renders(validatorArguments, word, <<>>, <<body>>) <=>
                  /\ Len(validatorArguments) = 5 /\ Word(1, "--file") /\ Word(3, word)
                  /\ Word(4, "--body") /\ Word(5, body)
           /\ Validator!Renders(validatorArguments, word, <<sender>>, <<body>>) <=>
                  /\ Len(validatorArguments) = 7 /\ Word(1, "--file") /\ Word(3, word)
                  /\ Word(4, "--sender") /\ Word(5, sender)
                  /\ Word(6, "--body") /\ Word(7, body)
<1> DEFINE args == validatorArguments
           S == {args[k] : k \in DOMAIN args} \cup {"--file", args[2], word, "--sender",
                                                     sender, "--body", body}
<1>1. args \in Seq(S) /\ Len(args) \in Nat
  <2>1. args \in Seq({args[k] : k \in DOMAIN args})
    BY DEF IsSequence
  <2>2. QED
    BY <2>1, SeqMonotonic, LenProperties
<1>2. ASSUME NEW flat \in Seq(S), Len(flat) \in Nat
      PROVE  args = flat <=> Len(args) = Len(flat) /\ \A i \in 1 .. Len(flat) : args[i] = flat[i]
  <2> HIDE DEF args, S
  <2>1. QED
    BY <1>1, <1>2, SeqEqual
<1>3. Validator!Renders(args, word, <<>>, <<>>) <=>
          Len(args) = 3 /\ Word(1, "--file") /\ Word(3, word)
  <2> DEFINE flat == <<"--file", args[2], word>>
  <2>1. flat \in Seq(S) /\ Len(flat) = 3
    OBVIOUS
  <2>2. args = flat <=> Len(args) = 3 /\ \A i \in 1 .. 3 : args[i] = flat[i]
    <3> HIDE DEF flat, S, args
    <3>1. QED
      BY <1>2, <2>1
  <2>3. Validator!Renders(args, word, <<>>, <<>>) <=> Len(args) >= 3 /\ args = flat
    BY Flattened DEF Validator!Renders
  <2>4. QED
    BY <1>1, <2>2, <2>3 DEF Word
<1>4. Validator!Renders(args, word, <<>>, <<body>>) <=>
          /\ Len(args) = 5 /\ Word(1, "--file") /\ Word(3, word)
          /\ Word(4, "--body") /\ Word(5, body)
  <2> DEFINE flat == <<"--file", args[2], word, "--body", body>>
  <2>1. flat \in Seq(S) /\ Len(flat) = 5
    OBVIOUS
  <2>2. args = flat <=> Len(args) = 5 /\ \A i \in 1 .. 5 : args[i] = flat[i]
    <3> HIDE DEF flat, S, args
    <3>1. QED
      BY <1>2, <2>1
  <2>3. Validator!Renders(args, word, <<>>, <<body>>) <=> Len(args) >= 3 /\ args = flat
    BY Flattened DEF Validator!Renders
  <2>4. QED
    BY <1>1, <2>2, <2>3 DEF Word
<1>5. Validator!Renders(args, word, <<sender>>, <<body>>) <=>
          /\ Len(args) = 7 /\ Word(1, "--file") /\ Word(3, word)
          /\ Word(4, "--sender") /\ Word(5, sender)
          /\ Word(6, "--body") /\ Word(7, body)
  <2> DEFINE flat == <<"--file", args[2], word, "--sender", sender, "--body", body>>
  <2>1. flat \in Seq(S) /\ Len(flat) = 7
    OBVIOUS
  <2>2. args = flat <=> Len(args) = 7 /\ \A i \in 1 .. 7 : args[i] = flat[i]
    <3> HIDE DEF flat, S, args
    <3>1. QED
      BY <1>2, <2>1
  <2>3. Validator!Renders(args, word, <<sender>>, <<body>>) <=> Len(args) >= 3 /\ args = flat
    BY Flattened DEF Validator!Renders
  <2>4. QED
    BY <1>1, <2>2, <2>3 DEF Word
<1>6. QED
  BY <1>3, <1>4, <1>5

\* The words of which a command line is made are in their places, as far as the
\* parser has come, and the options hold the words that follow their names.
Accepted == expectation = "expect-submission-accepted"
Entry == expectation = "expect-inbox-entry"
Absent == expectation = "expect-inbox-body-absent"

Options(sender, body) == option["--sender"] = sender /\ option["--body"] = body

\* No sender is asked for, or the one that follows the name.
SenderTaken(next) ==
    \/ /\ index = next /\ Options(<<>>, <<>>)
       /\ Absent \/ (Entry /\ ~Word(4, "--sender"))
    \/ /\ index = next + 2 /\ Options(<<validatorArguments[5]>>, <<>>)
       /\ Entry /\ Word(4, "--sender")

\* The whole command line up to the index.
AllTaken ==
    \/ index = 3 /\ Accepted /\ Options(<<>>, <<>>)
    \/ /\ index = 5
       /\ Absent \/ Entry
       /\ Word(4, "--body") /\ Options(<<>>, <<validatorArguments[5]>>)
    \/ /\ index = 7 /\ Entry /\ Word(4, "--sender") /\ Word(6, "--body")
       /\ Options(<<validatorArguments[5]>>, <<validatorArguments[7]>>)

Parsed ==
    /\ parsing = "--file" => index = 0
    /\ parsing = "path" => index = 1
    /\ parsing = "expectation" => index = 2
    /\ parsing = "--sender" => index = 3 /\ Entry
    /\ parsing = "sender" => index = 4 /\ Entry /\ Word(4, "--sender")
    /\ parsing \in {"--file", "path", "expectation", "--sender", "sender"} => Options(<<>>, <<>>)
    /\ parsing = "--body" => SenderTaken(3)
    /\ parsing = "body" => SenderTaken(4) /\ Word(index, "--body")
    /\ parsing = "finished" => AllTaken
    /\ parsing = "file" => AllTaken /\ index = Len(validatorArguments)
    /\ verdict \in {"ok", "OutputValidation"} => AllTaken
    /\ option["--sender"] # <<>> => Entry

ParserInv ==
    /\ index \in 0 .. Len(validatorArguments)
    /\ parsing \in {"--file", "path", "expectation", "--sender", "sender", "--body",
                    "body", "finished", "file", "exited"}
    /\ parsing = "exited" <=> verdict # "running"
    /\ DOMAIN option = {"--sender", "--body"}
    /\ parsing \notin {"--file", "exited"} => Word(1, "--file")
    /\ parsing \notin {"--file", "path", "expectation", "exited"} => Word(3, expectation)
    /\ Parsed
    /\ verdict \in {"InvalidValidatorArgument", "UnexpectedArgument"} =>
           ~Validator!WellFormed(validatorArguments)

\* The command lines the validator understands, seen from their words.
LEMMA WellFormedWords ==
    ASSUME IsSequence(validatorArguments), Validator!WellFormed(validatorArguments)
    PROVE  /\ Word(1, "--file")
           /\ \/ Len(validatorArguments) = 3 /\ Word(3, "expect-submission-accepted")
              \/ /\ Len(validatorArguments) = 5
                 /\ Word(3, "expect-inbox-entry") \/ Word(3, "expect-inbox-body-absent")
                 /\ Word(4, "--body") /\ validatorArguments[5] \notin NotUtf8
              \/ /\ Len(validatorArguments) = 7 /\ Word(3, "expect-inbox-entry")
                 /\ Word(4, "--sender") /\ validatorArguments[5] \notin NotUtf8
                 /\ Word(6, "--body") /\ validatorArguments[7] \notin NotUtf8
<1> DEFINE args == validatorArguments
           words == {args[k] : k \in DOMAIN args} \ NotUtf8
           some == {<<w>> : w \in words}
<1>1. \/ Validator!Renders(args, "expect-submission-accepted", <<>>, <<>>)
      \/ \E body \in some :
             \/ Validator!Renders(args, "expect-inbox-body-absent", <<>>, body)
             \/ \E sender \in {<<>>} \cup some :
                    Validator!Renders(args, "expect-inbox-entry", sender, body)
  BY DEF Validator!WellFormed
<1>2. CASE Validator!Renders(args, "expect-submission-accepted", <<>>, <<>>)
  BY <1>2, RenderedArguments
<1>3. ASSUME NEW b \in words, Validator!Renders(args, "expect-inbox-body-absent", <<>>, <<b>>)
      PROVE  /\ Len(args) = 5 /\ Word(1, "--file") /\ Word(3, "expect-inbox-body-absent")
             /\ Word(4, "--body") /\ args[5] \notin NotUtf8
  BY <1>3, RenderedArguments DEF Word
<1>4. ASSUME NEW b \in words, Validator!Renders(args, "expect-inbox-entry", <<>>, <<b>>)
      PROVE  /\ Len(args) = 5 /\ Word(1, "--file") /\ Word(3, "expect-inbox-entry")
             /\ Word(4, "--body") /\ args[5] \notin NotUtf8
  BY <1>4, RenderedArguments DEF Word
<1>5. ASSUME NEW b \in words, NEW s \in words,
             Validator!Renders(args, "expect-inbox-entry", <<s>>, <<b>>)
      PROVE  /\ Len(args) = 7 /\ Word(1, "--file") /\ Word(3, "expect-inbox-entry")
             /\ Word(4, "--sender") /\ args[5] \notin NotUtf8
             /\ Word(6, "--body") /\ args[7] \notin NotUtf8
  BY <1>5, RenderedArguments DEF Word
<1>6. \A body \in some : \E b \in words : body = <<b>>
  OBVIOUS
<1> HIDE DEF args, words, some
<1>7. QED
  BY <1>1, <1>2, <1>3, <1>4, <1>5, <1>6 DEF args

\* A command line goes on no further than its last option.
LEMMA NothingFollows ==
    ASSUME IsSequence(validatorArguments), AllTaken, Word(3, expectation),
           index < Len(validatorArguments)
    PROVE  ~Validator!WellFormed(validatorArguments)
<1> SUFFICES ASSUME Validator!WellFormed(validatorArguments) PROVE FALSE
  OBVIOUS
<1>1. PICK n \in Nat : n = Len(validatorArguments)
  BY ShortSequence
<1>2. \/ n = 3 /\ Word(3, "expect-submission-accepted")
      \/ n = 5 /\ Word(4, "--body")
      \/ n = 7 /\ Word(4, "--sender")
  BY <1>1, WellFormedWords
<1>3. index < n
  BY <1>1
<1>4. CASE index = 3 /\ Accepted
  <2>1. Word(3, "expect-submission-accepted")
    BY <1>4 DEF Accepted
  <2>2. n = 3
    BY <1>1, <2>1, WellFormedWords DEF Word
  <2>3. QED
    BY <1>3, <1>4, <2>2
<1>5. CASE index = 5 /\ Word(4, "--body")
  <2>1. n = 7 /\ Word(4, "--sender")
    BY <1>2, <1>3, <1>5
  <2>2. QED
    BY <1>5, <2>1 DEF Word
<1>6. CASE index = 7
  BY <1>2, <1>3, <1>6
<1>7. QED
  BY <1>4, <1>5, <1>6 DEF AllTaken

\* The validator reads a text as the CLI's codec does.
LEMMA SameCodec ==
    ASSUME NEW t
    PROVE  Validator!OutputFromNota(t) = OutputFromNota(t)
<1>1. \A item, k : Validator!Field(item, k) = Field(item, k)
  BY DEF Field, Validator!Field
<1>2. \A item, head, types : Validator!Shaped(item, head, types) <=> Shaped(item, head, types)
  BY DEF Shaped, Validator!Shaped
<1>3. \A item : Validator!DecodeEntry(item) = DecodeEntry(item)
  BY <1>1 DEF DecodeEntry, Validator!DecodeEntry, InboxEntry, Validator!InboxEntry
<1>4. \A item : Validator!ListingDecodes(item) <=> ListingDecodes(item)
  BY <1>1, <1>2 DEF ListingDecodes, Validator!ListingDecodes
<1>5. \A item : Validator!DecodeOutput(item) = DecodeOutput(item)
  BY <1>1, <1>2, <1>3, <1>4
     DEF DecodeOutput, Validator!DecodeOutput, Ok, Validator!Ok, Err, Validator!Err,
         Reasons, Validator!Reasons
<1>6. Validator!First(t) = First(t)
  BY DEF First, Validator!First, Stray, Validator!Stray, Record, Validator!Record
<1>7. QED
  BY <1>5, <1>6
     DEF OutputFromNota, Validator!OutputFromNota, FromNota, Validator!FromNota,
         ExpectEnd, Validator!ExpectEnd, Err, Validator!Err

\* Output that does not decode is an error of its own kind.
LEMMA OutputErrors ==
    ASSUME NEW t, ~OutputFromNota(t).ok
    PROVE  OutputFromNota(t).error = "Nota"
<1>1. \A item : DecodeOutput(item).ok \/ DecodeOutput(item).error = "Nota"
  BY DEF DecodeOutput, Ok, Err
<1>2. QED
  BY <1>1 DEF OutputFromNota, FromNota, Ok, Err

\* A word is taken from its place or the list is refused, and a list that is
\* refused is no command line the validator understands.
LEMMA ParserStep ==
    IsSequence(validatorArguments) /\ ParserInv /\ Validator!Next => ParserInv'
<1> SUFFICES ASSUME IsSequence(validatorArguments), ParserInv, Validator!Next
             PROVE  ParserInv'
  OBVIOUS
<1>0. Len(validatorArguments) \in Nat
  BY ShortSequence
<1> USE <1>0
    DEF ParserInv, Parsed, Word, Options, Accepted, Entry, Absent, SenderTaken, AllTaken,
        Validator!Take, Validator!HasValue, Validator!RequiredValue, Validator!HasWord,
        Validator!NextWordIs
<1>1. CASE Validator!ExpectOptionName("--file", "path")
  BY <1>1 DEF Validator!ExpectOptionName
<1>2. CASE Validator!FileValue
  BY <1>2 DEF Validator!FileValue
<1>3. CASE Validator!Expectation("expect-submission-accepted", "finished")
  BY <1>3 DEF Validator!Expectation
<1>4. CASE Validator!Expectation("expect-inbox-entry", "--sender")
  BY <1>4 DEF Validator!Expectation
<1>5. CASE Validator!Expectation("expect-inbox-body-absent", "--body")
  BY <1>5 DEF Validator!Expectation
<1>6. CASE Validator!OptionalSender
  BY <1>6, WordsAssumption DEF Validator!OptionalSender
<1>7. CASE Validator!OptionValue("sender", "--sender", "--body")
  BY <1>7 DEF Validator!OptionValue
<1>8. CASE Validator!ExpectOptionName("--body", "body")
  BY <1>8 DEF Validator!ExpectOptionName
<1>9. CASE Validator!OptionValue("body", "--body", "finished")
  BY <1>9 DEF Validator!OptionValue
<1>10. CASE Validator!InvalidArgument
  BY <1>10, WellFormedWords, WordsAssumption DEF Validator!InvalidArgument, Validator!Finish
<1>11. CASE Validator!ExpectFinished
  <2>1. CASE index < Len(validatorArguments)
    <3>1. AllTaken /\ Word(3, expectation)
      BY <1>11 DEF Validator!ExpectFinished
    <3>2. ~Validator!WellFormed(validatorArguments)
      BY <2>1, <3>1, NothingFollows
    <3>3. QED
      BY <1>11, <2>1, <3>2 DEF Validator!ExpectFinished, Validator!Finish
  <2>2. CASE ~(index < Len(validatorArguments))
    BY <1>11, <2>2 DEF Validator!ExpectFinished
  <2>3. QED
    BY <2>1, <2>2
<1>12. CASE Validator!CheckOutput
  <2>1. verdict' \in {"Nota", "ok", "OutputValidation"} /\ parsing = "file"
    BY <1>12, SameCodec, OutputErrors DEF Validator!CheckOutput, Validator!Finish
  <2>2. /\ parsing' = "exited"
        /\ UNCHANGED <<validatorArguments, index, expectation, option>>
    BY <1>12 DEF Validator!CheckOutput, Validator!Finish
  <2>3. QED
    BY <2>1, <2>2
<1>13. CASE Validator!ReadOutputFails
  BY <1>13 DEF Validator!ReadOutputFails, Validator!Finish
<1>14. QED
  BY <1>1, <1>2, <1>3, <1>4, <1>5, <1>6, <1>7, <1>8, <1>9, <1>10, <1>11, <1>12, <1>13
     DEF Validator!Next, Validator!FromArguments

\* The parser starts at the first word, with nothing taken.
LEMMA ParserInit == ArtifactInit => ParserInv
<1> SUFFICES ASSUME NEW session \in Sessions, Validator!Called(session.validator)
             PROVE  ParserInv
  BY DEF ArtifactInit
<1>1. Len(validatorArguments) \in Nat
  BY SessionsAssumption, ShortSequence DEF Validator!Called
<1>2. DOMAIN option = {"--sender", "--body"} /\ Options(<<>>, <<>>)
  BY DEF Validator!Called, Options
<1>3. index = 0 /\ parsing = "--file" /\ verdict = "running"
  BY DEF Validator!Called
<1>4. \A n \in Nat : 0 \in 0 .. n
  OBVIOUS
<1>5. index \in 0 .. Len(validatorArguments)
  BY <1>1, <1>3, <1>4
<1>6. QED
  BY <1>2, <1>3, <1>5 DEF ParserInv, Parsed, Options

\* No step of the CLI is one of the parser.
LEMMA ParserStays == UNCHANGED validatorOnly => (ParserInv <=> ParserInv')
BY DEF validatorOnly, ParserInv, Parsed, Word, Options, Accepted, Entry, Absent,
       SenderTaken, AllTaken

LEMMA ToolsInvariant == ArtifactSpec => [](CliInv /\ ParserInv)
<1>1. CliInv /\ ParserInv /\ [ArtifactNext]_artifactVars => ParserInv'
  BY ParserStep, ParserStays
     DEF ArtifactNext, Message, ValidateOutput, artifactVars, CliInv, CalledInv
<1>2. QED
  BY CliInvariant, ParserInit, <1>1, PTL DEF ArtifactSpec

LEMMA AtMostOne == \A list : (list = <<>> \/ \E x : list = <<x>>) => Len(list) <= 1
<1>1. Len(<<>>) = 0 /\ \A x : Len(<<x>>) = 1
  OBVIOUS
<1>2. \A n \in {0, 1} : n <= 1
  OBVIOUS
<1>3. QED
  BY <1>1, <1>2

\* What is printed of a reply is one record.
LEMMA OneRecord == \A r \in Replies : \E item : EncodeOutput(FromRouterReply(r)) = <<item>>
<1> SUFFICES ASSUME NEW r \in Replies
             PROVE  \E item : EncodeOutput(FromRouterReply(r)) = <<item>>
  OBVIOUS
<1>1. FromRouterReply(r).kind \in {"SubmissionAccepted", "SubmissionRejected",
                                  "RouterInboxListing", "MessageRequestUnimplemented"}
  BY RepliesAssumption DEF FromRouterReply
<1>2. QED
  BY <1>1 DEF EncodeOutput

\* The places of both tools hang together with what they have written and taken
\* (run, from_parser).
THEOREM ArtifactTypeCorrect == ArtifactSpec => []ArtifactTypeOK
<1>1. CliInv => TypeOK
  <2> SUFFICES ASSUME CliInv PROVE TypeOK
    OBVIOUS
  <2>1. submitted = <<>> \/ \E x : submitted = <<x>>
    BY DEF CliInv, SubmissionInv
  <2>2. reply = <<>> \/ \E x : reply = <<x>>
    BY DEF CliInv, PrintInv
  <2>3. printed = <<>> \/ \E x : printed = <<x>>
    BY OneRecord DEF CliInv, PrintInv, HasReply, ReplyText
  <2>4. QED
    BY <2>1, <2>2, <2>3, AtMostOne DEF CliInv, StepInv, InputInv, TypeOK
<1>2. ParserInv => Validator!TypeOK
  <2> SUFFICES ASSUME ParserInv PROVE Validator!TypeOK
    OBVIOUS
  <2>1. ASSUME parsing \in {"finished", "file"}
        PROVE  (expectation = "expect-submission-accepted") = (option["--body"] = <<>>)
    <3>1. AllTaken
      BY <2>1 DEF ParserInv, Parsed
    <3>2. Accepted <=> option["--body"] = <<>>
      BY <3>1 DEF AllTaken, Options, Accepted, Entry, Absent
    <3>3. QED
      BY <3>2 DEF Accepted
  <2>2. QED
    BY <2>1 DEF ParserInv, Parsed, Entry, Validator!TypeOK
<1>3. QED
  BY <1>1, <1>2, ToolsInvariant, PTL DEF ArtifactTypeOK

\* The parser accepts the well-formed command lines and no other, and what it
\* takes out of one says the same as the list did (from_arguments, from_parser).
THEOREM ParsesWhatWasWrittenHolds == ArtifactSpec => []ParsesWhatWasWritten
<1>1. CliInv /\ ParserInv => ParsesWhatWasWritten
  <2> SUFFICES ASSUME CliInv, ParserInv PROVE Validator!ParsesCommandLines
    BY DEF ParsesWhatWasWritten
  <2>1. IsSequence(validatorArguments)
    BY DEF CliInv, CalledInv
  <2>2. ASSUME parsing = "file"
        PROVE  Validator!Renders(validatorArguments, expectation,
                                 option["--sender"], option["--body"])
    <3>1. /\ AllTaken /\ index = Len(validatorArguments)
          /\ Word(1, "--file") /\ Word(3, expectation)
      BY <2>2 DEF ParserInv, Parsed
    <3>2. CASE index = 3 /\ Options(<<>>, <<>>)
      BY <2>1, <3>1, <3>2, RenderedArguments DEF Options
    <3>3. CASE /\ index = 5 /\ Word(4, "--body")
               /\ Options(<<>>, <<validatorArguments[5]>>)
      <4>1. Word(5, validatorArguments[5])
        BY <3>1, <3>3 DEF Word
      <4>2. QED
        BY <2>1, <3>1, <3>3, <4>1, RenderedArguments DEF Options
    <3>4. CASE /\ index = 7 /\ Word(4, "--sender") /\ Word(6, "--body")
               /\ Options(<<validatorArguments[5]>>, <<validatorArguments[7]>>)
      <4>1. Word(5, validatorArguments[5]) /\ Word(7, validatorArguments[7])
        BY <3>1, <3>4 DEF Word
      <4>2. QED
        BY <2>1, <3>1, <3>4, <4>1, RenderedArguments DEF Options
    <3>5. QED
      BY <3>1, <3>2, <3>3, <3>4 DEF AllTaken
  <2>3. QED
    BY <2>2 DEF ParserInv, Validator!ParsesCommandLines
<1>2. QED
  BY <1>1, ToolsInvariant, PTL

-----------------------------------------------------------------------------
(***************************************************************************)
(* The verdict                                                             *)
(***************************************************************************)

\* What the expectation finds in the output is in the reply it was made of
\* (from_router_reply, from_signal, check).
LEMMA ChecksTheReply ==
    ASSUME NEW r \in Replies, AllTaken
    PROVE  Validator!Checks(FromRouterReply(r)) <=> Validator!Meets(r)
<1> DEFINE output == FromRouterReply(r)
<1>1. output.kind = "SubmissionAccepted" <=> r.kind = "SubmissionAccepted"
  BY RepliesAssumption DEF FromRouterReply
<1>2. output.kind = "RouterInboxListing" <=> r.kind = "InboxListing"
  BY RepliesAssumption DEF FromRouterReply
<1>3. ASSUME r.kind = "InboxListing"
      PROVE  /\ DOMAIN output.messages = DOMAIN r.messages
             /\ \A k \in DOMAIN r.messages :
                    /\ output.messages[k].sender = r.messages[k].sender
                    /\ output.messages[k].body = r.messages[k].body
  BY <1>3 DEF FromRouterReply, FromSignal, InboxEntry
<1> HIDE DEF output
<1>4. CASE Accepted
  BY <1>1, <1>4 DEF Accepted, Validator!Checks, Validator!Meets, output
<1>5. CASE Entry
  <2>1. PICK body : option["--body"] = <<body>>
    BY <1>5 DEF AllTaken, Options, Entry, Accepted
  <2>2. option["--sender"] = <<>> \/ \E sender : option["--sender"] = <<sender>>
    BY DEF AllTaken, Options
  <2>3. ASSUME r.kind = "InboxListing", NEW k \in DOMAIN r.messages
        PROVE  (/\ output.messages[k].body = option["--body"][1]
                /\ option["--sender"] # <<>> =>
                       output.messages[k].sender = option["--sender"][1])
               <=> /\ <<r.messages[k].body>> = option["--body"]
                   /\ option["--sender"] \in {<<>>, <<r.messages[k].sender>>}
    <3>1. /\ output.messages[k].body = r.messages[k].body
          /\ output.messages[k].sender = r.messages[k].sender
      BY <1>3, <2>3
    <3>2. r.messages[k].body = option["--body"][1] <=> <<r.messages[k].body>> = option["--body"]
      BY <2>1
    <3>3. CASE option["--sender"] = <<>>
      BY <3>1, <3>2, <3>3
    <3>4. ASSUME NEW sender, option["--sender"] = <<sender>>
          PROVE  /\ option["--sender"] # <<>>
                 /\ r.messages[k].sender = option["--sender"][1]
                        <=> option["--sender"] \in {<<>>, <<r.messages[k].sender>>}
      BY <3>4
    <3>5. QED
      BY <2>2, <3>1, <3>2, <3>3, <3>4
  <2>4. Validator!Checks(output) <=>
            /\ output.kind = "RouterInboxListing"
            /\ Validator!ContainsEntry(output, option["--sender"], option["--body"][1])
    BY <1>5 DEF Entry, Validator!Checks
  <2>5. Validator!Meets(r) <=>
            /\ r.kind = "InboxListing"
            /\ \E k \in DOMAIN r.messages :
                   /\ <<r.messages[k].body>> = option["--body"]
                   /\ option["--sender"] \in {<<>>, <<r.messages[k].sender>>}
    BY <1>5 DEF Entry, Validator!Meets
  <2>6. QED
    BY <1>2, <1>3, <2>3, <2>4, <2>5 DEF Validator!ContainsEntry, output
<1>6. CASE Absent
  <2>1. PICK body : option["--body"] = <<body>>
    BY <1>6 DEF AllTaken, Options, Absent, Accepted
  <2>2. ASSUME r.kind = "InboxListing", NEW k \in DOMAIN r.messages
        PROVE  output.messages[k].body = option["--body"][1]
               <=> <<r.messages[k].body>> = option["--body"]
    BY <1>3, <2>1, <2>2
  <2>3. Validator!Checks(output) <=>
            /\ output.kind = "RouterInboxListing"
            /\ ~Validator!ContainsBody(output, option["--body"][1])
    BY <1>6 DEF Absent, Validator!Checks
  <2>4. Validator!Meets(r) <=>
            /\ r.kind = "InboxListing"
            /\ \A k \in DOMAIN r.messages : <<r.messages[k].body>> # option["--body"]
    BY <1>6 DEF Absent, Validator!Meets
  <2>5. QED
    BY <1>2, <1>3, <2>2, <2>3, <2>4
       DEF Validator!ContainsBody, Validator!ContainsEntry, output
<1>7. QED
  BY <1>4, <1>5, <1>6 DEF AllTaken

\* The validator has run only after the CLI has exited.
VerdictInv ==
    /\ verdict # "running" => step = "exited"
    /\ VerdictIsTheReplys

\* The verdict is about the reply whose text the file holds.
LEMMA VerdictStep ==
    CliInv /\ ParserInv /\ VerdictInv /\ [ArtifactNext]_artifactVars => VerdictInv'
<1> SUFFICES ASSUME CliInv, ParserInv, VerdictInv, [ArtifactNext]_artifactVars
             PROVE  VerdictInv'
  OBVIOUS
<1>1. CASE Message
  <2>1. step # "exited"
    BY <1>1
       DEF Message, Next, DecodeInputSteps, Run, MissingInput, UnexpectedArgument,
           InvalidInlineArgument, InlineText, ReadInputFile, Decode, FindSocket, Connect,
           ConnectFails, WriteFrame, WriteFrameFails, ReadReply, ReplyFails, PrintReply,
           PrintReplyFails, Answer
  <2>2. verdict = "running" /\ UNCHANGED verdict
    BY <1>1, <2>1 DEF VerdictInv, Message, validatorOnly
  <2>3. QED
    BY <2>2 DEF VerdictInv, VerdictIsTheReplys
<1>2. CASE ValidateOutput /\ Validator!CheckOutput
  <2>1. /\ parsing = "file" /\ AllTaken /\ step' = "exited"
        /\ UNCHANGED <<reply, expectation, option>>
    BY <1>2 DEF ValidateOutput, cliVars, Validator!CheckOutput, Validator!Finish,
                ParserInv, Parsed
  <2>2. Validator!Meets(reply[1])' <=> Validator!Meets(reply[1])
    BY <2>1 DEF Validator!Meets
  <2>3. ASSUME ~OutputFromNota(printed).ok PROVE verdict' = "Nota"
    BY <1>2, <2>3, SameCodec, OutputErrors DEF Validator!CheckOutput, Validator!Finish
  <2>4. ASSUME OutputFromNota(printed).ok
        PROVE  /\ HasReply
               /\ verdict' = IF Validator!Meets(reply[1]) THEN "ok" ELSE "OutputValidation"
    <3>1. printed \notin {<<>>, <<Stray>>}
      BY <2>4, StrayOutput DEF Err
    <3>2. HasReply /\ printed = ReplyText
      BY <3>1 DEF CliInv, PrintInv
    <3>3. OutputFromNota(printed) = Ok(FromRouterReply(reply[1]))
      BY <3>2, OutputRoundTrip DEF HasReply, ReplyText
    <3>4. Validator!Checks(FromRouterReply(reply[1])) <=> Validator!Meets(reply[1])
      BY <2>1, <3>2, ChecksTheReply DEF HasReply
    <3>5. verdict' = IF Validator!Checks(FromRouterReply(reply[1]))
                     THEN "ok" ELSE "OutputValidation"
      BY <1>2, <3>3, SameCodec DEF Validator!CheckOutput, Validator!Finish, Ok
    <3>6. QED
      BY <3>2, <3>4, <3>5
  <2>5. QED
    BY <2>1, <2>2, <2>3, <2>4 DEF VerdictInv, VerdictIsTheReplys, HasReply
<1>3. CASE /\ ValidateOutput
           /\ Validator!FromArguments \/ Validator!ReadOutputFails
  <2>1. /\ verdict = "running" /\ step' = "exited"
        /\ verdict' \in {"running", "InvalidValidatorArgument", "UnexpectedArgument", "Io"}
    BY <1>3
       DEF ValidateOutput, cliVars, ParserInv, Validator!FromArguments,
           Validator!ExpectOptionName, Validator!FileValue, Validator!Expectation,
           Validator!OptionalSender, Validator!OptionValue, Validator!InvalidArgument,
           Validator!ExpectFinished, Validator!ReadOutputFails, Validator!Finish
  <2>2. QED
    BY <2>1 DEF VerdictInv, VerdictIsTheReplys
<1>4. CASE UNCHANGED artifactVars
  BY <1>4 DEF artifactVars, cliVars, validatorOnly, VerdictInv, VerdictIsTheReplys,
              Validator!Meets
<1>5. QED
  BY <1>1, <1>2, <1>3, <1>4 DEF ArtifactNext, ValidateOutput, Validator!Next

\* The verdict on what the CLI left in the file is the truth about the daemon's
\* reply, whatever the reply and wherever the CLI failed (from_router_reply,
\* to_nota, from_nota, check).
THEOREM VerdictIsTheReplysHolds == ArtifactSpec => []VerdictIsTheReplys
<1>1. ArtifactInit => VerdictInv
  BY DEF ArtifactInit, Validator!Called, VerdictInv, VerdictIsTheReplys
<1>2. VerdictInv => VerdictIsTheReplys
  BY DEF VerdictInv
<1>3. QED
  BY <1>1, <1>2, ToolsInvariant, VerdictStep, PTL DEF ArtifactSpec
=============================================================================
