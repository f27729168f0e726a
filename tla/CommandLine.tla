----------------------------- MODULE CommandLine -----------------------------
(***************************************************************************)
(* One invocation of the message CLI, from its arguments to what it prints *)
(* and how it exits, against a daemon that takes its request and answers,  *)
(* answers badly, or closes.  An argument is either inline text, one whose *)
(* first character is a parenthesis, or the path of a file, known by what  *)
(* reading it yields.                                                      *)
(***************************************************************************)
EXTENDS NotaSurface

CONSTANTS Sockets,    \* the paths the two variables may hold
          Replies     \* the replies of the daemon

\* The replies of the contract: Reasons are those a rejection has.
ASSUME RepliesAssumption ==
    \A r \in Replies :
        /\ r.kind \in {"SubmissionAccepted", "SubmissionRejected", "InboxListing",
                       "MessageRequestUnimplemented"}
        /\ r.kind = "SubmissionRejected" => r.reason \in Reasons

InlineArgument(text, utf8) == [inline |-> TRUE, utf8 |-> utf8, text |-> text]

\* What read_to_string makes of the file: <<>> when it fails.
PathArgument(content) == [inline |-> FALSE, content |-> content]

IsArgument(argument) ==
    /\ argument.inline \in BOOLEAN
    /\ IF argument.inline
       THEN IsText(argument.text) /\ argument.utf8 \in BOOLEAN
       ELSE argument.content # <<>> =>
                /\ argument.content = <<argument.content[1]>>
                /\ IsText(argument.content[1])

VARIABLES arguments,     \* what the user passed
          environment,   \* the two variables: <<>>, or <<a path>>
          step,          \* what run does next
          text,          \* the text that is to be decoded
          input,         \* the input it decoded, as an option
          socket,        \* the path it connects to, as an option
          submitted,     \* the frames written, and where
          reply,         \* what the daemon answered, as an option
          printed,       \* what is on standard output
          reads,         \* how many files were read
          exit           \* "running", "ok" or the kind of the error

cliVars == <<arguments, environment, step, text, input, socket, submitted,
             reply, printed, reads, exit>>

\* A reply that read_frame does not take, being over its limit or no frame, or
\* that reply_from_frame_for_exchange does not admit.
BadReply == [kind |-> "BadReply"]

\* A user calls the CLI with a list of arguments, under these variables.
Called(list, variables) ==
    /\ arguments = list
    /\ environment = variables
    /\ step = "arguments"
    /\ text = <<>> /\ input = <<>> /\ socket = <<>> /\ submitted = <<>>
    /\ reply = <<>> /\ printed = <<>> /\ reads = 0
    /\ exit = "running"

user == <<arguments, environment>>

Exit(kind) ==
    /\ exit' = kind
    /\ step' = "exited"

\* The ? of the step that fails with an error of this kind.
Fails(kind) ==
    /\ Exit(kind)
    /\ UNCHANGED <<user, text, input, socket, submitted, reply, printed, reads>>

Goes(label) == step' = label /\ UNCHANGED exit

-----------------------------------------------------------------------------
(***************************************************************************)
(* decode_input                                                            *)
(***************************************************************************)

MissingInput ==
    /\ step = "arguments"
    /\ arguments = <<>>
    /\ Fails("MissingInput")

\* Mutant: the file is read before the arguments are counted.
UnexpectedArgumentAfterRead ==
    /\ step = "arguments"
    /\ Len(arguments) > 1
    /\ reads' = IF arguments[1].inline THEN reads ELSE reads + 1
    /\ Exit("UnexpectedArgument")
    /\ UNCHANGED <<user, text, input, socket, submitted, reply, printed>>

UnexpectedArgument ==
    /\ step = "arguments"
    /\ Len(arguments) > 1
    /\ Fails("UnexpectedArgument")

SingleArgument == Len(arguments) = 1

InvalidInlineArgument ==
    /\ step = "arguments"
    /\ SingleArgument
    /\ arguments[1].inline
    /\ ~arguments[1].utf8
    /\ Fails("InvalidInlineNotaArgument")

InlineText ==
    /\ step = "arguments"
    /\ SingleArgument
    /\ arguments[1].inline
    /\ arguments[1].utf8
    /\ text' = arguments[1].text
    /\ Goes("decode")
    /\ UNCHANGED <<user, input, socket, submitted, reply, printed, reads>>

ReadInputFile ==
    /\ step = "arguments"
    /\ SingleArgument
    /\ ~arguments[1].inline
    /\ reads' = reads + 1
    /\ IF arguments[1].content = <<>>
       THEN Exit("Io") /\ UNCHANGED text
       ELSE Goes("decode") /\ text' = arguments[1].content[1]
    /\ UNCHANGED <<user, input, socket, submitted, reply, printed>>

\* Input::from_nota.
Decode ==
    /\ step = "decode"
    /\ LET decoded == InputFromNota(text) IN
           IF decoded.ok
           THEN Goes("socket") /\ input' = <<decoded.value>>
           ELSE Exit(decoded.error) /\ UNCHANGED input
    /\ UNCHANGED <<user, text, socket, submitted, reply, printed, reads>>

-----------------------------------------------------------------------------
(***************************************************************************)
(* Input::run and SignalMessageClient::submit                              *)
(***************************************************************************)

\* PERSONA_MESSAGE_SOCKET, or else PERSONA_SOCKET_PATH.
FromEnvironment ==
    IF environment["PERSONA_MESSAGE_SOCKET"] # <<>>
    THEN environment["PERSONA_MESSAGE_SOCKET"]
    ELSE environment["PERSONA_SOCKET_PATH"]

FindSocket ==
    /\ step = "socket"
    /\ socket' = FromEnvironment
    /\ IF FromEnvironment = <<>> THEN Exit("SignalMessageSocketMissing")
                                 ELSE Goes("connect")
    /\ UNCHANGED <<user, text, input, submitted, reply, printed, reads>>

Connect ==
    /\ step = "connect"
    /\ Goes("write")
    /\ UNCHANGED <<user, text, input, socket, submitted, reply, printed, reads>>

ConnectFails == step = "connect" /\ Fails("Io")

\* The daemon may have the frame although the write fails.
WriteFrame ==
    /\ step = "write"
    /\ submitted' = Append(submitted, [socket |-> socket[1],
                                       request |-> IntoMessageRequest(input[1])])
    /\ Goes("reply") \/ Exit("Io")
    /\ UNCHANGED <<user, text, input, socket, reply, printed, reads>>

\* The frame cannot be encoded, or the stream takes none of it.
WriteFrameFails == step = "write" /\ \E kind \in {"SignalFrame", "Io"} : Fails(kind)

\* The daemon answers the frame.
Answer ==
    /\ step = "reply"
    /\ reply = <<>>
    /\ \E r \in Replies \cup {BadReply} : reply' = <<r>>
    /\ UNCHANGED <<user, step, text, input, socket, submitted, printed, reads, exit>>

ReplyErrors == {"DaemonFrameTooLarge", "SignalFrame", "UnexpectedRouterReply"}

\* Mutant: a stream that closes without a reply is asked again.
ReplyFailsRetry ==
    /\ step = "reply"
    /\ \/ reply = <<>> /\ Goes("connect")
       \/ reply = <<BadReply>> /\ \E kind \in ReplyErrors : Exit(kind)
    /\ UNCHANGED <<user, text, input, socket, submitted, reply, printed, reads>>

\* The daemon closed before a whole frame, or sent one that is no answer.
ReplyFails ==
    /\ step = "reply"
    /\ \/ reply = <<>> /\ Fails("Io")
       \/ reply = <<BadReply>> /\ \E kind \in ReplyErrors : Fails(kind)

ReadReply ==
    /\ step = "reply"
    /\ reply # <<>>
    /\ reply # <<BadReply>>
    /\ Goes("print")
    /\ UNCHANGED <<user, text, input, socket, submitted, reply, printed, reads>>

PrintReply ==
    /\ step = "print"
    /\ printed' = EncodeOutput(FromRouterReply(reply[1]))
    /\ Exit("ok")
    /\ UNCHANGED <<user, text, input, socket, submitted, reply, reads>>

\* The reply has no text, or standard output takes none of it, a part, or all
\* but the end of the line.
PrintReplyFails ==
    /\ step = "print"
    /\ \/ Exit("Nota") /\ UNCHANGED printed
       \/ Exit("Io") /\ printed' \in {<<>>, <<Stray>>, EncodeOutput(FromRouterReply(reply[1]))}
    /\ UNCHANGED <<user, text, input, socket, submitted, reply, reads>>

DecodeInputSteps ==
    MissingInput \/ UnexpectedArgument \/ InvalidInlineArgument \/ InlineText
        \/ ReadInputFile \/ Decode

Run ==
    FindSocket \/ Connect \/ ConnectFails \/ WriteFrame \/ WriteFrameFails
        \/ ReadReply \/ ReplyFails \/ PrintReply \/ PrintReplyFails

Next == DecodeInputSteps \/ Run \/ Answer

-----------------------------------------------------------------------------
(***************************************************************************)
(* Properties                                                              *)
(***************************************************************************)

\* The text that a list of arguments stands for, as an option.
TextOf(args) ==
    CASE Len(args) # 1 -> <<>>
      [] Len(args) = 1 /\ args[1].inline ->
             IF args[1].utf8 THEN <<args[1].text>> ELSE <<>>
      [] OTHER -> args[1].content

\* At most one frame leaves the CLI, at the socket that the environment names
\* first, and only for arguments that are one record and nothing else: it holds
\* what that record says (decode_input, from_nota, into_message_request).
SubmitsWholeInputOnce ==
    submitted # <<>> =>
        /\ TextOf(arguments) = <<<<EncodeInput(input[1])>>>>
        /\ \E path \in Sockets :
               /\ submitted = <<[socket |-> path,
                                request |-> IntoMessageRequest(input[1])]>>
               /\ FromEnvironment = <<path>>

ArgumentErrors == {"MissingInput", "UnexpectedArgument", "InvalidInlineNotaArgument"}

\* A user who reads one of these errors knows that nothing was sent, and, for
\* an error about the arguments, that no file was read: every check comes
\* before the first effect (decode_input, run).
LocalErrorHasNoEffect ==
    /\ exit \in ArgumentErrors \cup {"SignalMessageSocketMissing"} => submitted = <<>>
    /\ exit \in ArgumentErrors => reads = 0

\* What is written and what is still to be written hang together.
TypeOK ==
    /\ step \in {"arguments", "decode", "socket", "connect", "write", "reply",
                 "print", "exited"}
    /\ step = "exited" <=> exit # "running"
    /\ input = <<>> \/ input[1].kind \in {"Send", "Inbox"}
    /\ step \in {"connect", "write", "reply", "print"} => input # <<>> /\ socket # <<>>
    /\ Len(submitted) <= 1 /\ Len(reply) <= 1 /\ Len(printed) <= 1 /\ reads <= 1

\* The CLI succeeds only with the daemon's reply, printed as the one record
\* that decodes to what the reply says (from_router_reply, to_nota, from_nota).
SuccessPrintsReply ==
    exit = "ok" =>
        /\ Len(submitted) = 1
        /\ reply # <<>> /\ reply[1] \in Replies
        /\ OutputFromNota(printed) = Ok(FromRouterReply(reply[1]))
        /\ Len(printed) = 1
=============================================================================
