# persona-message in TLA+

This directory models `persona-message`, the message ingress of the persona
engine: a supervised daemon (`persona-message-daemon`) that accepts Signal
frames on Unix sockets, stamps them with provenance and forwards them to
`persona-router`, and the `message` CLI that talks to it. TLC checks small
instances; TLAPS proves every safety property, every action property and every
refinement that the runs check, for every instance. Liveness stays with TLC.

## 1. Inventory

### Components

| Component | Source | State | Operations |
|---|---|---|---|
| Main thread of the daemon | `src/daemon.rs` (`MessageDaemon::run`) | bound listeners, the accepted connection in hand | bind, set mode, poll and accept, read one request, ask the root actor, write the reply, stop, drop |
| Root actor | `src/daemon.rs` (`MessageDaemonRoot`) | `forwarded_count`, owner identity | `stamp_request`, `forward`, start and stop |
| Ingress provenance | `src/daemon.rs` (`MessageIngressAuthority`, `timestamp_now`) | none | `origin_for_peer`, the ingress time, the stamping decision |
| Signal codec and clients | `src/router.rs` | none kept between calls | `read_frame`, `request_from_frame`, `reply_from_frame_for_exchange`, `SignalMessageClient::submit`, `SignalRouterClient::submit` |
| Supervision relation | `src/supervision.rs` | `request_count`, the shared stop flag | accept, read a request, `SupervisionPhase::reply`, write the reply, test the flag |
| Socket paths | `src/daemon.rs` (`MessageSocketBinder`, `MessageSocketBinding`), `src/supervision.rs` (`spawn`) | what is at each path, in which mode | remove, bind, set the mode, remove again on `Drop` |
| `message` CLI | `src/command.rs`, `src/main.rs`, `src/surface.rs` | none | decode one NOTA argument, submit, print the reply |
| Output validator | `src/output_validator.rs` | a position in its arguments | parse arguments, check an output |
| Configuration | `src/bin/persona_message_daemon.rs` | none | decode, run |
| persona-router (external) | only its client is here, `src/router.rs` | a ledger of what it took charge of | answer, reject, stop, restart |
| Supervisor (external) | only its peer is here, `src/supervision.rs` | none known | connect, ask, hang up |

### Interactions

* A client connects to `message.sock` or to the ingress socket of a component
  instance, writes a frame and reads one back. The kernel queues connections;
  the main thread accepts one at a time, in the order of its bindings.
* The main thread asks the root actor and blocks; the actor, for one request at
  a time, opens a connection to `router.sock`, writes one frame, and blocks
  until it has read one.
* The supervision thread serves supervisors on a socket of its own. It shares
  one atomic flag with the main thread and nothing else; nobody joins it.
* A frame is a prefix of four bytes with the length, and as many bytes of body.
  Either side writes and reads it in as many pieces as the kernel makes of it.
* Daemons that use one configuration, one after another, share nothing but the
  paths of their sockets, and act on a path by its name.
* The CLI's answer is read back by the output validator, from a file.
* Every error of one connection leaves `run()` through `?`, and so ends the
  daemon for every client.

### What is hard here

Interleavings of two threads over one flag; clients that are silent, that hang
up at any moment, or that write more than the daemon reads; a router that stops
after it took charge of a request and before its reply is read; failures at
every step of startup and serving, with connections queued at sockets that are
about to be closed; a constant exchange identifier on every connection; clocks
at the ends of their range; frames cut anywhere, and peers that
break off inside one; paths that an earlier daemon left, or that a later one has
taken; a fixed order of polling with clients that never cease to arrive; lists
of arguments that are nearly right. The list `hazards` of `PROJECT.json`
has them one by one, at their lines.

### What makes each component correct

* **Provenance**: the router takes charge only of requests that clients really
  made first on a connection, under an origin that the socket and the peer
  credentials decide, never under a stamp in a payload.
* **Main thread**: a client is told only what became of its own request; one
  connection is recorded at most once, whatever fails; nothing is served before
  every socket has its mode; the end of the process releases sockets and paths;
  a stop ends it; nobody waits for ever.
* **Root actor**: the count agrees with the router's ledger until it saturates.
* **Supervision**: each request is answered once and in order; a stop is
  acknowledged once and last; the flag goes up only on request; every
  supervisor gets its turn.
* **Process**: the supervision thread does nothing to the main thread but raise
  the flag; a readiness answer means bound sockets; success means a stop was
  asked for.
* **Accept loop**: a stop ends it however many clients arrive, with at most one
  more served; a listener is served once those before it run dry.
* **Codec**: frames arrive whole and in order or not at all, and are refused only
  for what they are; a client that reads is answered.
* **Socket paths**: a daemon that serves owns its paths; what is left behind, or
  could not be removed, ends a startup rather than take a path from a daemon that
  serves; an ended daemon leaves one path at most, but for failed removals.
* **CLI**: the whole of its one argument is submitted once, or nothing is; an
  error about its input means that nothing was sent; success means that the
  daemon's reply was printed and reads back as itself.
* **Validator**: it accepts the command lines of its grammar and no other, and its
  verdict on the printed text is the truth about the daemon's reply.

## 2. Modules

| Module | What it is |
|---|---|
| `SignalFrames` | Requests, replies and frames as records, and what the codec admits (`RequestAdmitted`, `ReplyAdmitted`) |
| `MessageIngress` | `origin_for_peer`, `timestamp_now` and `stamp_request` as functions |
| `MessageDaemon` | The main thread, the sockets it binds, the clients and the router: state, one action per step, `Spec`, `FairSpec`, `TalkingSpec` |
| `MessageDaemonProperties` | Its type invariant, safety, refinement and liveness |
| `IngressService` | The abstract specification: an at-most-once relay that stamps, without sockets, threads or failures |
| `Supervision` | The supervision thread, the phase actor and the supervisors, with their properties |
| `PersonaMessage` | Both threads in one process, composed over the stop flag, with the properties of the whole |
| `AcceptLoop` | The accept loop over clients that never cease to arrive, with its properties |
| `FrameStream` | One direction of a stream socket, `write_frame` and `read_frame` byte by byte |
| `FrameExchange` | A client and a server over two `FrameStream`s, with the properties of both |
| `MessageExchange` | The abstract specification: an exchange of whole messages, ended only for a cause |
| `SocketPaths` | The paths of a configuration over the life of several daemons, with their properties |
| `PathOwnership` | The abstract specification: a path is owned by one daemon at a time |
| `NotaSurface` | The records of the CLI, their NOTA text and their projections, as functions |
| `CommandLine` | One invocation of the CLI, with its properties |
| `OutputValidator` | One invocation of the validator, with its properties |
| `ReplyArtifact` | The CLI, and then the validator on what the CLI left in a file, with the properties of both |
| `MessageDaemonProofs` | Theorems about `MessageDaemon`: types, listeners and connections, provenance, at most once, the count, what a client is told, the refinement of `IngressService` |
| `SupervisionProofs` | Theorems about `Supervision`: types, the order of answers, the acknowledgement, the flag |
| `PersonaMessageProofs` | Theorems about `PersonaMessage`: it implements both threads' modules; what only both together ensure |
| `AcceptLoopProofs` | Theorems about `AcceptLoop`: types, one more at most |
| `FrameStreamProofs` | Lemmas about one direction of a stream: no step loses, repeats, cuts or alters a frame |
| `FrameExchangeProofs` | Theorems about `FrameExchange`, whose two directions are streams as `FrameStreamProofs` has them |
| `SocketPathsProofs` | Theorems about `SocketPaths`: types, what is reachable, what is left, exclusive ownership |
| `ReplyArtifactProofs` | Theorems about the two tools: what the CLI sends and prints, what the validator parses, its verdict |
| `MC_MessageDaemon`, `MC_Supervision`, `MC_PersonaMessage`, `MC_AcceptLoop`, `MC_SocketPaths`, `MC_FrameExchange`, `MC_ReplyArtifact` | Instances for TLC |

`SignalFrames` <- `MessageIngress` <- `MessageDaemon` <-
`MessageDaemonProperties` <- `MessageDaemonProofs` is a chain of EXTENDS; `MessageDaemonProperties` instantiates `IngressService` with a
refinement mapping; `PersonaMessage` extends `MessageDaemon` and instantiates
`Supervision`, identifying the two copies of `stopRequested`. `FrameExchange`
instantiates `FrameStream` twice, once for each direction, and `MessageExchange`
with a refinement mapping; `SocketPaths`
instantiates `PathOwnership` with a refinement mapping; `CommandLine` and
`OutputValidator` both extend `NotaSurface`, and `ReplyArtifact` composes them
over the file that one leaves and the other reads. `PersonaMessageProofs` extends
`MessageDaemonProofs` and instantiates `SupervisionProofs`, and
`FrameExchangeProofs` instantiates `FrameStreamProofs` once for each direction, so
that the theorems of the parts are lemmas about the whole.

### MessageDaemon and the code

`pc` is the place in `run()`: `bind` and `applyMode` are the two halves of
`MessageSocketBinder::bind`, `spawnSupervision` and `startRoot` the rest of the
startup, `checkStop` the condition of the `while`, `poll` the loop of
`accept_one` with `slot` its index, `read`, `ask`, `await` and `reply` the steps
of `handle_connection`, `stopRoot` the end of `run()`, and `drop` the drop of
the bindings, one after the other. The root actor has no `pc` of its own: its
only caller blocks on every `ask`, so its steps are the main thread's
(`Forward`, `ReplyWithoutRouter`, `RouterAnswered`, `RouterFails`).
`Fail` is any `?` that leaves `run()`; `ServingFails` is one that leaves it
through `handle_connection`, dropping the client's and the router's streams.

`listener` and `linked` are a listening socket and its path, which live and die
apart: the path appears with `bind` and is removed by the next daemon or by
`Drop`; a killed daemon leaves it. `backlog` is the kernel's accept queue. A
client owns one connection: `cpc` is its end, `serverEnd` the daemon's, `sent`
what it wrote, `outbound` what was written to it. `link`, `toRouter` and
`fromRouter` are the one connection to the router, and `routerLog` is the
ledger of the router, which the daemon cannot see.

Frames are records. The text of a message is represented by the client that
sent it (`sender`), since nothing in the daemon rewrites recipient or body; the
router's replies by the place in its ledger of the request they answer. A reply
of kind `SubmissionAccepted` stands for any answer to a submission, rejections
by the router's store included: the daemon and the codec treat them alike. The
frames a raw client may write are one of each kind that the codec tells apart:
good, of another exchange, of a verb that does not fit, of two operations, a
forged stamp, a body that is no request, bytes that do not decode. The router,
too, may answer with each kind of frame that the codec refuses.

`Init` starts with any set of stale paths and with a router that is up or not.

### Supervision and PersonaMessage and the code

`spc` is the place in `SupervisionServer::run` (`check`, `accept`) and
`serve_connection` (`read`, `ask`, `write`, `written`). A thread that is spawned
is at `start`: its runtime starts (`StartRuntime`), or its `expect` panics
(`RuntimeFails`), which closes the listener and which the main thread never
notices. Raising the flag and
computing the reply are one step of the phase actor (`Handle`); writing the
reply is another, and testing the flag a third. In `PersonaMessage` the
process may end between any two of them (`ProcessReturns`, `ProcessKilled`).

### AcceptLoop and the code

`MessageDaemon` follows a few clients through one connection each, so that no
run of it can show what a client in an endless stream of others may expect.
`AcceptLoop` keeps of the daemon only the `while` of `run()` and the `for` of
`accept_one` (`polled` is its place), and of the clients only how many wait at
each listener. `late` remembers how many were accepted since the stop.

### FrameStream and FrameExchange and the code

`taken` is what `read_frame` has read: at two digits (four bytes in the code) the
length is checked, before anything of the body is asked for; at the declared
length the body is decoded. `write_frame` checks no length. A step of `WriteSome`
is one write of `write_all`, one of `ReadSome` one read of `read_exact`, of as
many bytes as the kernel has room for or holds. The daemon reads through a
`BufReader` (`FillBuffer`), which may take the start of a frame it will never
use; the supervision server and the clients read from the stream. `SignalFrames`
and the modules over it take a frame for one step; `FramesInOrder`,
`RefusedForCause` and `RefinesExchange` are why they may. `MaxServed` is how many frames of a
connection the server serves: one in the daemon, all in the supervision server.

### SocketPaths and the code

`at` is whose socket a path leads to, `modeBy` whose `set_permissions` its file
had last; `open` are the listeners a daemon holds, which need not be those its
paths lead to. `RemoveFile`, `Bind` and `ApplyMode` are the three calls of
`MessageSocketBinder::bind`, and again of `SupervisionListener::spawn` for the
last slot; `Drop` removes a path, whoever's it is by then, and closes the
listener. The code discards the errors of `remove_file`, so both removals may
leave what is there; `bind` then finds its path in use, and fails. The supervision
thread may end, and close its listener, at any time after `spawn`
(`CloseSupervision`): it has seen the stop flag, or its runtime did not start.

`Overlaps` says whether a daemon may start while another one runs: the code does
nothing to prevent it, and the persona engine, which starts the daemons, is not in
this repository. Two variables are history and drive nothing: `crowded`, the
daemons that have run beside another one, and `stuck`, the paths that a daemon's
`Drop` failed to remove.

When daemons overlap, `ServingOwnsPaths` and `RefinesOwnership` do not hold: a
daemon that ends removes the path its successor has bound, and two that start
together remove each other's sockets. No document says that daemons may overlap.
What is left under overlap is `ReachableHasMode`, `LeavesOnlyLast`, and
`AloneOwnsPaths`: the harm does not outlast the overlap, since a daemon that has
had no other one beside it owns its paths whenever it serves.

### NotaSurface, CommandLine, OutputValidator, ReplyArtifact and the code

A text is the sequence of its top-level items, an item a record with a head and
typed fields; lexing is `nota-codec`'s. `FromNota` is `from_nota` of `Input` and
of `Output`: the first record decodes, and then nothing may follow. `CommandLine`
goes through `decode_input`, `run` and `submit` in their order, with `reads` and
`submitted` the two effects whose order matters. `OutputValidator` keeps the
`index` of the code's parser; `parsing` is what the parser takes next. In
`ReplyArtifact` its `file` is the CLI's `printed`: nothing, a part of a line or a
line, whatever the CLI exited with.

## 3. Runs

| Run | Instance | What it asks, and shows |
|---|---|---|
| `daemon_frames` | CLI client on `message.sock`, raw client on a component ingress, clock before, in and past its range, `TalkingSpec` | `TypeOK`; `ReplyMatchesRequest`; `RefinesIngress`, provenance included; `StopExits`; `ClientsResolved` |
| `daemon_clients` | the owner's CLI client and another user's raw client with two frames on one socket, two bindings | `ProvenanceMinted` with two users; `CountMatchesLedger`; `ModeBeforeAccept`; `ReleasedOnExit` over every failure of startup, serving and shutdown; `ForwardedAtMostOnce` although the router breaks off calls and a client writes more than is read |
| `daemon_silent_client` | a raw client, `FairSpec` | a counterexample to `StopExits`: a silent client keeps the daemon from stopping |
| `daemon_long_lived` | one CLI client | a counterexample to `LongLived`: one failed connection ends the daemon |
| `supervision` | two supervisors, two frames each, `FairSpec` | `TypeOK`; `AnswersInOrder`; `AcknowledgedLast`; `StopOnlyOnRequest`; `SupervisorsServed` |
| `process` | both threads, CLI client, two bindings, one supervisor with two frames, `FairProcessSpec` | `AnswersOnceBound`; `CleanExitOnStop`; `ProcessRefinesDaemon`; `StopEndsProcess` |
| `process_acknowledgement` | both threads, one supervisor | a counterexample to `AcknowledgementDelivered` |
| `accept_loop` | three listeners, two places in each queue, `FairSpec` | `TypeOK`; `OneMoreAtMost`; `StopSeen`; `ServedInTurn` |
| `frames` | up to three frames of five kinds, two of them served, `FairSpec` | `TypeOK`; `FramesInOrder`; `RefusedForCause`; `RefinesExchange`; `AllAnswered` |
| `paths_restarts` | three daemons one after another, two ingresses, removals that may fail | `TypeOK`; `ServingOwnsPaths`; `RefinesOwnership` |
| `paths_overlaps` | three daemons that may overlap, `message.sock` and the supervision socket, removals that may fail | `AloneOwnsPaths`; `ReachableHasMode`; `LeavesOnlyLast` |
| `reply_artifact` | the CLI with every list of up to two arguments out of 20, both variables, every reply; then the validator with every one of its command lines over three values, every edit of one, every three words | `ArtifactTypeOK`; `SubmitsWholeInputOnce`; `LocalErrorHasNoEffect`; `SuccessPrintsReply`; `ParsesWhatWasWritten`; `VerdictIsTheReplys` |

`RefinesIngress` maps a client's request to the payload of its first frame when
that frame is admitted, the ledger to `routerLog`, and what the client was told
to `answer`. `ProcessRefinesDaemon` says that every behaviour of the process,
seen without the supervision thread's variables, is one of `MessageDaemon!Spec`:
the safety of the daemon carries over to the process. `RefinesExchange` maps what
the client offered to the requests it has begun to write, hides where each byte
is, and takes the server's closing of the stream for the end: the end needs a
cause, which is a message that is no good, a client that left, or a service that
is complete, and never where a read or a write was cut.

### Findings

* `AcknowledgementDelivered` (`process_acknowledgement`): the phase actor raises
  the flag (`src/src/supervision.rs:162`) before the acknowledgement is written,
  and the main thread, once it has seen the flag, ends the process without
  waiting for the supervision thread. A supervisor that asked for a graceful
  stop may read end of file. The test of graceful stop
  (`src/tests/message.rs:455`) expects to read the acknowledgement. In practice
  the main thread tests the flag every 10 ms, which makes the outcome rare.
* `StopExits` without talking clients (`daemon_silent_client`): the blocking read
  of `handle_connection` has no time limit, and the flag is tested only between
  connections; `ARCHITECTURE.md` says that a graceful stop exits the daemon.
* `LongLived` (`daemon_long_lived`): `handle_connection(..)?` lets one
  connection's error end the daemon that `ARCHITECTURE.md` calls long-lived.

### Bounds, and why they are enough

* `MaxFrames` (1 or 2): the daemon reads one frame of a connection, so a second
  one is all it takes to see whether it is ever read.
* One connection per client: a client that connects again is another client, and
  two clients contend for everything there is to contend for.
* `NumBindings` 1 or 2: `message.sock` and one component ingress, which the
  code treats as it treats the others; two are needed for half-done startups.
* `ClockReadings` {-1, 1, 3} with `MaxTimestamp` 2 (`u64::MAX` nanoseconds):
  before the epoch, in range, past the range.
* `MaxForwardedCount` 1 (`u64::MAX`): two requests reach saturation.
  `MaxRequestCount` 2 likewise for the phase actor.
* `MaxAsks` (1 or 2): a request pipelined behind another one.
* `AcceptLoop`: `Bindings` 3, so that a listener has one before and one after it;
  `Backlog` 2, so that a queue can be served and still not be empty.
* `FrameExchange`: bytes of base 2 and a prefix of two digits reach lengths 0 to 3
  around a `MaxFrame` of 2: under, at and over the limit. `Capacity` 3 is less
  than the longest frame (5), so that every write may have to wait for a read.
* `SocketPaths`: three daemons, so that one's leavings outlive the next one, and
  two can overlap before a third runs alone; two ingress sockets and the
  supervision socket in `paths_restarts`, one in `paths_overlaps`, where it is a
  path that a binding's `Drop` removes and the supervision path one that stays.
  Each daemon runs once; a daemon that is started again is another one.
  `paths_overlaps` treats the daemons as
  interchangeable, which they are.
* `ReplyArtifact`: two arguments of the CLI are one too many. Its arguments and the
  validator's are varied in separate sessions, since neither tool sees the other's.
  Of the validator's words six are the tool's own, one is no UTF-8, and one
  value looks like an option: an edit of a well-formed list is where a parser
  that peeks would go wrong.
* The accept queue of `MessageDaemon` has no limit, and the router's ledger grows
  by at most one entry for each connection; no other counter is unbounded.

### Fairness

* The main thread and the supervision thread are threads of the kernel: weak
  fairness of each (`WF(Daemon)`, `WF(Server)`). Their sleeps of 10 ms are
  finite and are left out. Failures of system calls are steps of `Daemon` too:
  fairness never forces the failing outcome over the other.
* A router answers, rejects or stops: `WF(Handle)`, enabled only while it is up.
  It may stay down for ever.
* A CLI client goes on with `submit` (`WF(Submit(c))`): it is a program of this
  repository. It may still be killed at any time.
* A raw client owes nothing under `FairSpec`; `TalkingSpec` adds that it writes
  a frame or hangs up. That is an assumption on the environment which the code
  does not enforce, and `daemon_silent_client` shows what becomes of the daemon
  without it.
* A supervisor owes nothing in `PersonaMessage`. In `Supervision!FairSpec` it
  hangs up in the end, because the server reads from it without a time limit,
  and `Accept` is strongly fair: a connection that the kernel holds again and
  again at `accept` is returned by it.
* `AcceptLoop`: weak fairness of the main thread alone. Clients arrive and the stop
  comes as they please; that every connection is served in the end is the
  assumption that `MessageDaemon` discusses.
* `FrameExchange`: weak fairness of the server, of the client's writing and of its
  reading. The CLI does both. A supervisor that pipelines requests and never reads
  would block the server in `write_reply` until it hangs up; the code has no
  limit for that, and `AllAnswered` does not claim it.

Deadlock is checked in the runs of the daemon and of the process, where it says
little: a router can always start or stop, so some step is always possible.
That nobody waits for ever is what `StopExits`, `ClientsResolved`,
`SupervisorsServed` and `StopEndsProcess` say. `supervision` turns it
off: once the process has ended and the supervisors have hung up, nothing is left
to do. So do the runs of `AcceptLoop`,
`FrameExchange`, `SocketPaths` and `ReplyArtifact`, where the programs end.

## 4. Proofs

Every invariant, action property and refinement of the passing runs is a theorem.
None of the invariants is inductive as the runs state it; what follows names,
for each, the inductive invariant and why it is needed. The parts of one were
checked with TLC on the runs' instances before they were proved, but for what
TLC cannot enumerate (`ConveyInv` of `FrameStreamProofs`).

### MessageDaemon

For every set of clients, finite or infinite, any number of bindings, any owner,
clock and bound, `MessageDaemonProofs` proves:

* `TypeCorrect`: `Spec => []TypeOK`. The step that reads `received[1]` needs a
  request to be in hand, the router's step needs the connection to carry one.
  `TypeInv` adds `ControlOK`: what the place in `run()` says of `current`,
  `received`, `reply` and the link. One lemma for each part of `TypeInv` goes
  through the actions (`ThreadTypeStep`, `SocketTypeStep`, `ClientTypeStep`,
  `RouterTypeStep`, `ControlStep`). Since `Replies` depends on the router's
  ledger, the theorem also says that no reply on its way ever names an entry the
  ledger does not have (`RepliesUnchanged`, `RepliesGrow`, `RouterReplies`).
* `ModeBeforeAcceptHolds` and `ReleasedOnExitHolds`, from `LifeInv`.
  `ConnectionInv`: the one accepted connection is the one in hand, and a
  connection is queued once, at its own binding. `ListenerInv`: at each place of
  `run()`, which listeners the loops over the bindings have dealt with and which
  not; this is what an error in the middle of startup or of the drops leaves
  behind. `ReleaseInv`: a path goes before its listener does, and the queue with it.
* `ProvenanceHolds`: `Spec => []ProvenanceMinted`. The invariant is strengthened
  by the same claim of the request that is on its way to the router
  (`ProvenanceInv`). The codec admits only well-formed frames of one request
  (`AdmittedFrames`); what `stamp_request` forwards is the inbox query itself or
  the submission under the minted origin (`DecisionToForward`, `OriginMinted`,
  `DecisionGenuine`); a client can append to what it wrote but not change its
  first frame (`FirstFrameStays`, `GenuineStays`); and only `Forward` and the
  router touch the rest (`OnlyForward`).
* `ForwardedOnceHolds`: `Spec => []ForwardedAtMostOnce`. `OnceInv` adds `LedgerInv`
  to `ConnectionInv`: every sender in the ledger, and that of the request on its
  way, is `Past`: its connection is closed, or is in hand with its one call made.
  A closed connection stays closed (`ClosedStays`), so a client that is past stays
  past (`PastStays`), and `Forward` serves a client that is not (`LedgerStep`). A
  retry after a broken call would break `PastStays`.
* `CountMatchesLedgerHolds`: `Spec => []CountMatchesLedger`. In the middle of a call
  the count and the ledger do not agree. `CountInv` says by how much: the ledger is
  ahead by one exactly while an answer that the codec admits is on its way
  (`Uncounted`). What is lost is never counted, and ends the daemon.
* `ReplyMatchesRequestHolds`: `Spec => []ReplyMatchesRequest`, from `ExchangeInv`,
  which adds to `OnceInv` two ends of one argument. `RouterInv`: the request that
  is with the router is the one in hand; once recorded it is the last of the
  ledger, and an admitted answer is about that entry, although every connection
  uses one and the same exchange. `ToldInv`: from the actor to the frame to the
  client, the reply stays an answer to the client's own first request.
* `RefinesIngressHolds`: `Spec => RefinesIngress`, from `ExchangeInv`. A
  client's first frame, if it is admitted, is `Submit` of the service
  (`WriteFrameRefines`), the router's taking charge is `Record`
  (`RouterProcessRefines`), the client's reading of its reply is `Tell` or `Refuse`
  (`ReceiveReplyRefines`); all else is a stutter
  (`ServiceSteps`). At most once is what the second needs, and the match of reply
  and request what the third needs.

### Supervision and the process

`SupervisionProofs` proves, for any supervisors and any bounds, the type
invariant, `AnswersInOrderHolds`, `AcknowledgedLastHolds` and
`StopOnlyOnRequestHolds`, from `SupervisionInv`. `AnswerInv` relates what was
read, what is in hand and what was answered: the supervisor that is served lacks
the answer to the request in hand and no other. `AcknowledgementInv`: from the
acknowledgement on the thread is on its way out, at places that neither read nor
accept. `ControlInv` and `QueueInv` say whom the thread serves.

`PersonaMessageProofs` proves that the process implements `MessageDaemon`
(`ProcessRefinesDaemonHolds`) and `Supervision` (`ProcessRefinesSupervision`): all
that is shared is the flag, which the one only raises and the other only reads
(`DaemonSteps`, `ThreadSteps`). `ThreadInv` is needed for the end of the process,
which must find the thread where `Supervision` lets it go. So what is proved of
each part holds of the process, `RefinesIngress` among it
(`ProcessRefinesIngress`) and, of the supervisors, `ProcessAnswersHold` and
`ProcessStopsOnRequest`. Two properties need both: `AnswersOnceBoundHolds`, since
the thread is spawned after the last mode (`SpawnedInv`), and
`CleanExitOnStopHolds`: `run()` gets to its end only by the flag (`CleanInv`), and
a flag that is up was asked for by a frame that was read (`RequestedInv` of
`SupervisionProofs`).

`AcceptLoopProofs` proves `TypeOK` and `OneMoreHolds` for any number of listeners
and any queue: `LateInv` says that with one late connection served the loop does
not come back to the listeners.

### Frames

`FrameStreamProofs` proves `StreamStep`, for one direction, any bodies (sequences
of naturals), any base, limit and capacity, buffered or not. Its invariant
`ConveyInv` is a conservation law: what `read_frame` has taken of the present
frame, what the `BufReader` holds, what is on the wire and what `write_all` still
has, in this order, are exactly the frames from the next one on. Since it is a
matter of the concatenation of all of them, which would be an induction, it is
stated with the sequence of what remains from each frame on (`Remaining`), which
a new frame extends and a frame read shortens. `ReadsCurrent` draws from it what
the prefix that was read says, and `ReaderInv` that the reader stops at the end
of the frame: `SameFront` and `FrontOfFrame` are the arithmetic of it, and
`Encoded` the two digits of the length. A body longer
than the prefix can say (4 GiB in the code) is outside the model: its first digit
would have to be `Base` or more.

`FrameExchangeProofs` takes `StreamStep` for both directions (`UpSteps`,
`DownSteps`) and adds `ServingInv`, one reply for each frame read. From this
`ExchangeTypeCorrect`, `FramesInOrderHolds` and `RefusedForCauseHolds`, and
`RefinesExchangeHolds`: the first byte of a request is `Offer`
(`RequestRefines`), the reply that is begun is `Serve` (`ReplyRefines`), the reply
that is read `Receive` (`TakeReplyRefines`), the closing of the stream `End`
(`CloseRefines`), and every other step but `Leave` moves bytes only
(`ExchangeStutters`). `Serve` needs that a frame that is accepted is the next
message and decodes, and `End` that a write fails only at an end that the client
has closed, which is why `StreamTypes` and `ReaderInv` say so.

### Socket paths

`SocketPathsProofs` proves, for any set of daemons and any number of sockets:

* `PathsTypeCorrect`, `ReachableHasModeHolds` and `LeavesOnlyLastHolds`, whether
  or not daemons overlap. The inductive invariant `PathsInv` says of each daemon
  alone how far it has come: which listeners it holds (`OpenSoFar`), that a path
  never has its socket without its having bound it (`BoundInOrder`), that what it
  bound before the present slot has had a mode (`ModeSoFar`), and which paths it
  can still remove (`LeftToDrop`). It holds under overlap because another daemon
  can only take a path away, or set a mode on it.
* `AloneOwnsPathsHolds`, whether or not daemons overlap, from `AloneInv`, and
  `ServingOwnsPathsHolds` and `RefinesOwnershipHolds` on the assumption `~Overlaps`,
  under which no daemon is ever `crowded`. Two daemons that run at the same time
  are both `crowded` (`Alone`), so in a step of one the others that are not are
  still (`OthersAreStill`). One that is not owns every path up to its slot while it
  opens, and all of them while it serves (`OwnsSoFar`), holds no listener past its
  slot (`HeldInOrder`), and owns what it has still to drop (`OwnsToDrop`). A removal
  that fails breaks none of it: the guard of `Bind` does the rest. For the
  refinement each action maps to one of `PathOwnership`, or to a stutter: a
  removal to `Clear` or `Withdraw`, or to a stutter when it fails, and `Return`,
  with `OwnsToDrop`, to `Leave`.

### The tools

`ReplyArtifactProofs` proves, for every list of arguments, file, environment and
reply, and every list of words that the validator may be called with:

* `LocalErrorHolds`: an error is the last thing a call does, so `EffectInv` adds
  where the two effects can first happen; `DecodeErrors` says that text which does
  not decode is an error of its own kind.
* `SubmitsWholeInputOnceHolds` and `SuccessPrintsReplyHolds`, from `CliInv`: at each
  step, what the text, the input and the socket are (`InputInv`), whether a frame
  has left (`SubmissionInv`) and what can have been printed (`PrintInv`).
  Underneath is the codec: `DecodedText` and `EntryRoundTrip`, and `OutputRoundTrip`,
  that every reply reads back from its NOTA text as itself.
* `ParsesWhatWasWrittenHolds`, from `ParserInv`: what the parser has taken is the
  front of the list up to its index, spelt out for each place of it (`Parsed`).
* `VerdictIsTheReplysHolds`, from both: the file holds nothing, a stray part or the
  text of the reply, `StrayOutput` never decodes and `ChecksTheReply` says what
  `check` makes of the rest.

### Assumptions, and what is not proved

The assumptions are those that the modules declare and TLC evaluates in every
run: `ClientsAssumption` (CLI and raw clients are disjoint, `NoClient` is none of
them), `BindingsAssumption` (at least one binding, every client uses one),
`BoundsAssumption` and `MaxTimestampAssumption` (the bounds are naturals, the
clock an integer), `OwnerAssumption` (the owner is a record of kind and user),
`SupervisionAssumption` and, the same of the process, `SupervisorsAssumption`
(`NoSupervisor` is none, the bounds are naturals), `AcceptLoopAssumption` (one
listener and one place in a queue at least), `FrameExchangeAssumption` (bodies are
sequences of naturals, the base is not zero), `SocketPathsAssumption` (the mark for
no daemon is none, and there is at least one ingress), `RepliesAssumption` (the
router's replies are of the four kinds the code matches on), `SessionsAssumption`
(arguments are texts of records, or paths) and `WordsAssumption` (the tool's own
words are UTF-8).

Only model-checked are the liveness properties `StopExits`, `ClientsResolved`,
`SupervisorsServed`, `StopEndsProcess`, `StopSeen`, `ServedInTurn` and `AllAnswered`:
liveness under fairness, and `ENABLED` on which it rests, are out of the prover's
reach. The properties that the code does not have (`LongLived`,
`AcknowledgementDelivered`, `StopExits` without talking clients) are refuted by TLC.
No module uses a RECURSIVE operator.

## 5. Plan

Done: every component of section 1 that has a behaviour of its own is modelled, and
every safety property and refinement of the runs is proved. Left is
that each read and write of `MessageDaemon` and `Supervision` is a step of
`MessageExchange` for the connection it is about, which would make one refinement
of the two levels.

## 6. What is not modelled

* rkyv and NOTA at the level of characters and bytes: which bodies decode is a
  constant of `FrameStream`, and which text is which record is `nota-codec`'s.
* How much longer a frame becomes by its stamp: that a request under the limit may
  be over it when it is forwarded is a case of `RefusedForCause` on the link to
  the router, and ends the daemon as `RouterFails` of `MessageDaemon` does.
* A panic of an actor; the actors do nothing that panics.
* In `MessageDaemon`, a removal in `Drop` that fails: `ReleasedOnExit` takes it to
  succeed. (One that fails in `bind` is a case of `BindListenerFails`.)
  `SocketPaths` lets both fail, and `LeavesOnlyLast` says what stays then.
* Two ingresses configured with one path; something other than a socket or a file
  at a path, which `remove_file` would leave; a full accept queue.
* Configuration decoding (`nota-config`), which comes before `run()`, and the
  wording of errors (`src/error.rs`), whose kinds are outcomes of `CommandLine`
  and `OutputValidator`.
* The order in which several threads of one client write; a client is one actor.
* The persona engine and the router, beyond what this repository's code sends
  to them and admits from them.
