---------------------------- MODULE ReplyArtifact ----------------------------
(***************************************************************************)
(* The two command-line tools together: the message CLI with its standard  *)
(* output in a file, and then, whatever the CLI exited with, the output    *)
(* validator on that file.                                                 *)
(***************************************************************************)
EXTENDS CommandLine

CONSTANTS Sessions,   \* what the two are called with
          NotUtf8

\* Two lists of words and an environment; the words the tools know are UTF-8.
ASSUME SessionsAssumption ==
    \A session \in Sessions :
        /\ IsSequence(session.arguments)
        /\ \A k \in DOMAIN session.arguments : IsArgument(session.arguments[k])
        /\ \A variable \in {"PERSONA_MESSAGE_SOCKET", "PERSONA_SOCKET_PATH"} :
               session.environment[variable] \in {<<>>} \cup {<<path>> : path \in Sockets}
        /\ IsSequence(session.validator)

ASSUME WordsAssumption ==
    \A word \in {"--file", "--sender", "--body", "expect-submission-accepted",
                 "expect-inbox-entry", "expect-inbox-body-absent"} : word \notin NotUtf8

VARIABLES validatorArguments, index, parsing, expectation, option, verdict

Validator == INSTANCE OutputValidator
    WITH arguments <- validatorArguments, file <- printed

validatorOnly == <<validatorArguments, index, parsing, expectation, option, verdict>>

artifactVars == <<cliVars, validatorOnly>>

ArtifactInit ==
    \E session \in Sessions :
        /\ Called(session.arguments, session.environment)
        /\ Validator!Called(session.validator)

Message == Next /\ UNCHANGED validatorOnly

ValidateOutput == step = "exited" /\ Validator!Next /\ UNCHANGED cliVars

ArtifactNext == Message \/ ValidateOutput

ArtifactSpec == ArtifactInit /\ [][ArtifactNext]_artifactVars

-----------------------------------------------------------------------------
(***************************************************************************)
(* Properties                                                              *)
(***************************************************************************)

\* The types of both tools.
ArtifactTypeOK == TypeOK /\ Validator!TypeOK

\* The parser accepts the well-formed command lines and no other, and what it
\* takes out of one says the same as the list did: no missing or swapped option
\* is ever taken for another one's value (from_arguments, from_parser).
ParsesWhatWasWritten == Validator!ParsesCommandLines

\* The verdict on what the CLI left in the file is the truth about the daemon's
\* reply: a CLI that failed before it had one, or a reply of another kind, never
\* passes for an absent body (from_router_reply, to_nota, from_nota, check).
VerdictIsTheReplys ==
    /\ verdict = "ok" => reply # <<>> /\ Validator!Meets(reply[1])
    /\ verdict = "OutputValidation" => reply # <<>> /\ ~Validator!Meets(reply[1])
=============================================================================
