--------------------------- MODULE MC_ReplyArtifact ---------------------------
(***************************************************************************)
(* Two kinds of sessions.  In the one, a user passes any list of up to two *)
(* arguments to the CLI, under any of the two variables, and the validator *)
(* looks for an absent body; in the other, an inbox is queried as it ought *)
(* to be, and the validator is called with each of its command lines, with *)
(* each list that is one edit away from one, and with up to three words.   *)
(***************************************************************************)
EXTENDS ReplyArtifact, SequencesExt

SendItem == EncodeInput(Send("designer", "hello"))
InboxItem == EncodeInput(Inbox("designer"))

\* Whole records, records that lack a field or have one too many or of another
\* type, two records in one text, an unknown head, no record at all.
Texts ==
    {<<SendItem>>, <<InboxItem>>, <<SendItem, InboxItem>>, <<SendItem, Stray>>,
     <<Stray>>, <<>>,
     <<Record("Send", <<Text("designer")>>)>>,
     <<Record("Send", <<Text("designer"), Text("hello"), Text("owner")>>)>>,
     <<Record("Inbox", <<List(<<>>)>>)>>,
     <<Record("SubmissionAccepted", <<Number(1)>>)>>}

\* Inline text starts with its first record; a file holds any, or none.
Arguments ==
    {InlineArgument(t, TRUE) : t \in {t \in Texts : t # <<>> /\ t[1] # Stray}}
        \cup {InlineArgument(<<SendItem>>, FALSE)}
        \cup {PathArgument(<<t>>) : t \in Texts}
        \cup {PathArgument(<<>>)}

MCSockets == {"message.sock", "other.sock"}

Environments ==
    [{"PERSONA_MESSAGE_SOCKET", "PERSONA_SOCKET_PATH"} ->
         {<<>>} \cup {<<path>> : path \in MCSockets}]

MCReplies ==
    {[kind |-> "SubmissionAccepted", slot |-> 1],
     [kind |-> "MessageRequestUnimplemented", operation |-> "MessageSubmission",
      reason |-> "NotBuiltYet"]}
    \cup {[kind |-> "SubmissionRejected", reason |-> r] : r \in Reasons}
    \cup {[kind |-> "InboxListing", messages |-> m] :
              m \in {<<>>, <<InboxEntry(1, "owner", "hello")>>,
                     <<InboxEntry(1, "hello", "owner"), InboxEntry(2, "owner", "hello")>>}}

MCNotUtf8 == {"raw"}

Words ==
    {"--file", "--sender", "--body", "expect-submission-accepted",
     "expect-inbox-entry", "expect-inbox-body-absent", "owner", "hello", "raw"}

Values == {"owner", "hello", "--body"}

BodyAbsent(body) ==
    Validator!Rendered("hello", "expect-inbox-body-absent", <<>>, <<body>>)

CommandLines ==
    {Validator!Rendered(p, "expect-submission-accepted", <<>>, <<>>) : p \in {"raw", "hello"}}
        \cup {BodyAbsent(b) : b \in Values}
        \cup {Validator!Rendered("hello", "expect-inbox-entry", s, <<b>>) :
                  s \in {<<>>} \cup {<<v>> : v \in Values}, b \in Values}

OneEdit(args) ==
    {[args EXCEPT ![k] = w] : k \in DOMAIN args, w \in Words}
        \cup {RemoveAt(args, k) : k \in DOMAIN args}
        \cup {InsertAt(args, k, w) : k \in 1 .. Len(args) + 1, w \in Words}

MCSessions ==
    [arguments : UNION {[1 .. n -> Arguments] : n \in 0 .. 2},
     environment : Environments,
     validator : {BodyAbsent("hello")}]
    \cup
    [arguments : {<<InlineArgument(<<InboxItem>>, TRUE)>>},
     environment : {[variable \in {"PERSONA_MESSAGE_SOCKET", "PERSONA_SOCKET_PATH"} |->
                         <<"message.sock">>]},
     validator : CommandLines \cup UNION {OneEdit(args) : args \in CommandLines}
                     \cup UNION {[1 .. n -> Words] : n \in 0 .. 3}]
=============================================================================
