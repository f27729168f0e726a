--------------------------- MODULE OutputValidator ---------------------------
(***************************************************************************)
(* message-validate-output: the test tool that checks a file with what the *)
(* message CLI printed against an expectation given on its command line.   *)
(* The argument parser is a machine with an index, as in the code; what    *)
(* the file holds is up to the module that composes this one.              *)
(***************************************************************************)
EXTENDS NotaSurface

CONSTANT NotUtf8   \* the words that are no UTF-8

VARIABLES arguments,
          file,          \* the text in the file
          index,         \* how many of them are taken
          parsing,       \* what the parser takes next, or "file" or "exited"
          expectation,   \* the word of the expectation
          option,        \* the values of --sender and --body, as options
          verdict        \* "running", "ok" or the kind of the error

\* The tool is called with a list of words.
Called(list) ==
    /\ arguments = list
    /\ index = 0
    /\ parsing = "--file"
    /\ expectation = ""
    /\ option = [name \in {"--sender", "--body"} |-> <<>>]
    /\ verdict = "running"

-----------------------------------------------------------------------------
(***************************************************************************)
(* OutputValidatorArguments                                                *)
(***************************************************************************)

HasValue == index < Len(arguments)

\* required_value, with the next argument.
RequiredValue == arguments[index + 1]

\* required_word, with the next argument.
HasWord == HasValue /\ RequiredValue \notin NotUtf8

\* The next argument is this word: the text of one that is no UTF-8 is never.
NextWordIs(word) == HasWord /\ RequiredValue = word

Take(next) ==
    /\ index' = index + 1
    /\ parsing' = next

\* The tool ends, with "ok" or an error of this kind.
Finish(kind) ==
    /\ verdict' = kind
    /\ parsing' = "exited"
    /\ UNCHANGED <<arguments, index, expectation, option>>

\* expect_option_name: the name of an option that must be here.
ExpectOptionName(name, next) ==
    /\ parsing = name
    /\ NextWordIs(name)
    /\ Take(next)
    /\ UNCHANGED <<arguments, expectation, option, verdict>>

\* Any bytes are a path.
FileValue ==
    /\ parsing = "path"
    /\ HasValue
    /\ Take("expectation")
    /\ UNCHANGED <<arguments, expectation, option, verdict>>

\* The expectation decides which options are taken next.
Expectation(word, next) ==
    /\ parsing = "expectation"
    /\ NextWordIs(word)
    /\ expectation' = word
    /\ Take(next)
    /\ UNCHANGED <<arguments, option, verdict>>

\* Mutant: the option is taken whatever its name is.
OptionalAnything ==
    /\ parsing = "--sender"
    /\ IF HasValue /\ Len(arguments) - index > 2 THEN Take("sender")
       ELSE parsing' = "--body" /\ UNCHANGED index
    /\ UNCHANGED <<arguments, expectation, option, verdict>>

\* optional_string_option: the name is peeked at, and taken if it is there.
OptionalSender ==
    /\ parsing = "--sender"
    /\ IF NextWordIs("--sender") THEN Take("sender")
       ELSE parsing' = "--body" /\ UNCHANGED index
    /\ UNCHANGED <<arguments, expectation, option, verdict>>

\* required_word: the value of an option, whatever it looks like.
OptionValue(label, name, next) ==
    /\ parsing = label
    /\ HasWord
    /\ option' = [option EXCEPT ![name] = <<RequiredValue>>]
    /\ Take(next)
    /\ UNCHANGED <<arguments, expectation, verdict>>

\* A value is missing, no UTF-8 where a word is required, or not the name or
\* the expectation that must be here.
InvalidArgument ==
    /\ \/ parsing = "path" /\ ~HasValue
       \/ parsing \in {"sender", "body"} /\ ~HasWord
       \/ parsing \in {"--file", "--body"} /\ ~NextWordIs(parsing)
       \/ /\ parsing = "expectation"
          /\ \A word \in {"expect-submission-accepted", "expect-inbox-entry",
                          "expect-inbox-body-absent"} : ~NextWordIs(word)
    /\ Finish("InvalidValidatorArgument")

ExpectFinished ==
    /\ parsing = "finished"
    /\ IF HasValue THEN Finish("UnexpectedArgument")
       ELSE /\ parsing' = "file"
            /\ UNCHANGED <<arguments, index, expectation, option, verdict>>

FromArguments ==
    \/ ExpectOptionName("--file", "path")
    \/ FileValue
    \/ Expectation("expect-submission-accepted", "finished")
    \/ Expectation("expect-inbox-entry", "--sender")
    \/ Expectation("expect-inbox-body-absent", "--body")
    \/ OptionalSender
    \/ OptionValue("sender", "--sender", "--body")
    \/ ExpectOptionName("--body", "body")
    \/ OptionValue("body", "--body", "finished")
    \/ InvalidArgument
    \/ ExpectFinished

-----------------------------------------------------------------------------
(***************************************************************************)
(* OutputExpectation::check                                                *)
(***************************************************************************)

\* RouterInboxOutput: some entry has the body and, where it is given, the sender.
ContainsEntry(output, sender, body) ==
    \E k \in DOMAIN output.messages :
        /\ output.messages[k].body = body
        /\ sender # <<>> => output.messages[k].sender = sender[1]

ContainsBody(output, body) == ContainsEntry(output, <<>>, body)

\* Mutant: an output that is no listing contains no body.
ChecksAnyOutput(output) ==
    CASE expectation = "expect-submission-accepted" -> output.kind = "SubmissionAccepted"
      [] expectation = "expect-inbox-entry" ->
             /\ output.kind = "RouterInboxListing"
             /\ ContainsEntry(output, option["--sender"], option["--body"][1])
      [] OTHER -> output.kind = "RouterInboxListing" =>
                      ~ContainsBody(output, option["--body"][1])

\* A listing is required before anything is said of its entries.
Checks(output) ==
    CASE expectation = "expect-submission-accepted" -> output.kind = "SubmissionAccepted"
      [] expectation = "expect-inbox-entry" ->
             /\ output.kind = "RouterInboxListing"
             /\ ContainsEntry(output, option["--sender"], option["--body"][1])
      [] OTHER ->
             /\ output.kind = "RouterInboxListing"
             /\ ~ContainsBody(output, option["--body"][1])

CheckOutput ==
    /\ parsing = "file"
    /\ LET output == OutputFromNota(file) IN
           Finish(IF ~output.ok THEN output.error
                  ELSE IF Checks(output.value) THEN "ok" ELSE "OutputValidation")

\* The file is not there, or not to be read.
ReadOutputFails == parsing = "file" /\ Finish("Io")

Next == (FromArguments \/ CheckOutput \/ ReadOutputFails) /\ UNCHANGED file

-----------------------------------------------------------------------------
(***************************************************************************)
(* Properties                                                              *)
(***************************************************************************)

\* The command lines the tool understands, for a path of any bytes.
Rendered(path, word, sender, body) ==
    <<"--file", path, word>>
        \o (IF sender = <<>> THEN <<>> ELSE <<"--sender", sender[1]>>)
        \o (IF body = <<>> THEN <<>> ELSE <<"--body", body[1]>>)

\* Is the list one of these command lines, with these values?
Renders(args, word, sender, body) ==
    /\ Len(args) >= 3
    /\ args = Rendered(args[2], word, sender, body)

\* The same, over every way to take the values out of the list.
WellFormed(args) ==
    LET words == {args[k] : k \in DOMAIN args} \ NotUtf8
        some == {<<w>> : w \in words} IN
    \/ Renders(args, "expect-submission-accepted", <<>>, <<>>)
    \/ \E body \in some :
           \/ Renders(args, "expect-inbox-body-absent", <<>>, body)
           \/ \E sender \in {<<>>} \cup some :
                  Renders(args, "expect-inbox-entry", sender, body)

\* The parser accepts the well-formed command lines and no other, and what it
\* takes out of one says the same as the list did: no missing or swapped option
\* is ever taken for another one's value (from_arguments, from_parser).
ParsesCommandLines ==
    /\ parsing = "file" =>
           Renders(arguments, expectation, option["--sender"], option["--body"])
    /\ verdict \in {"InvalidValidatorArgument", "UnexpectedArgument"} =>
           ~WellFormed(arguments)

\* What an expectation says of the daemon's reply.
Meets(reply) ==
    CASE expectation = "expect-submission-accepted" -> reply.kind = "SubmissionAccepted"
      [] expectation = "expect-inbox-entry" ->
             /\ reply.kind = "InboxListing"
             /\ \E k \in DOMAIN reply.messages :
                    /\ <<reply.messages[k].body>> = option["--body"]
                    /\ option["--sender"] \in {<<>>, <<reply.messages[k].sender>>}
      [] expectation = "expect-inbox-body-absent" ->
             /\ reply.kind = "InboxListing"
             /\ \A k \in DOMAIN reply.messages :
                    <<reply.messages[k].body>> # option["--body"]

\* The verdict hangs together with the place in the parser, and the options
\* with the expectation.
TypeOK ==
    /\ index \in 0 .. Len(arguments)
    /\ parsing = "exited" <=> verdict # "running"
    /\ parsing \in {"finished", "file"} =>
           (expectation = "expect-submission-accepted") = (option["--body"] = <<>>)
    /\ option["--sender"] # <<>> => expectation = "expect-inbox-entry"
=============================================================================
