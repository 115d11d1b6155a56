# Wehe command line client: TLA+ models

The client runs *tests* against one or more Wehe servers at once. A test is two
*replays* of recorded traffic, the original and a randomised one, over TCP or
UDP. While a replay runs the client samples the throughput it gets; it sends the
samples to the servers over a TLS *side channel*, asks them to analyze the test
and decides from the answer whether the traffic is differentiated.

Paths below are relative to `src/`.

## Inventory

| part | state | operations | talks to |
|---|---|---|---|
| application (`main.go`, `internal/app/app.go`) | user ID, test ID, tests, servers, replay order; a user file it only reads (and nothing ever writes) | `main`: command line and configuration; `Run`: read IDs, select tests, choose and initialise servers, run the tests one by one | all the others, by calls; M-Lab locator and websockets |
| test orchestrator (`internal/testorchestrator`) | `replayID`, `isLastReplay`, `samplesPerReplay`, `areaTestThreshold`, `testResults` | `Run` and its eleven steps, each looping over the servers; `cleanUp` | server handlers (calls; goroutines and channels in a replay) |
| server handler (`internal/serverhandler`) | side channel, websocket, analyzer of a server | requests of a test, `SendAndReceivePackets`, `CleanUp`; M-Lab look-up | side channel, clients, analyzer |
| TCP and UDP clients (`internal/network/tcp.go`, `udp.go`) | a connection | `SendPackets` and `RecvPackets`, a goroutine each | handler (unbuffered error channels), shared context, analyzer, server |
| analyzer (`internal/analyzer`) | byte count, samples, sample times, throughputs, ticker | `Run` (a sampling goroutine), `AddBytesRead`, `Stop`, `GetAverageThroughput` | receiver, main goroutine (shared memory, no lock) |
| side channel (`internal/network/sidechannel.go`) | a TLS connection | one request and its response at a time | server |
| test data (`internal/testdata`) | none | parse the test list and replay files, select tests | files |
| configuration (`internal/config`) | none | parse and range-check an INI file | file |
| results (`internal/results`) | none | none (empty package) | |

What is hard here:

- **A replay is concurrent.** With n servers, 1 + 4n goroutines (main; a handler,
  a sender, a receiver and a sampler each) share a context, pass results over
  unbuffered channels, and stop each other by cancelling the context, which is
  only polled.
- **Failure.** Any dial, read, write or request may fail, for one server while
  the others go on. Errors must reach the caller, stop everybody else, and not
  be made up.
- **Time.** Timeouts are polled before a packet, reads have a deadline of one
  second, writes and side channel reads have none.
- **Unlocked shared memory.** The analyzer's fields.
- **State reused across servers, replays and tests.** Thresholds, sample counts,
  the replay index, websockets.

What makes each part correct: *replay engine*: a nil means that everybody
finished and nothing failed, an error that something did; everybody stops after
an error; the replay ends; the figures sent are those of a finished replay.
*Analyzer*: bytes are conserved, sample times are sound, figures correspond to
each other. *Application*: the tests that run are those asked for, in the order of
the list; a test starts only on the configured number of distinct, connected
servers; the tries told to a server account for every server tried; no websocket
outlives a start; IDs are not reused by accident. *Files*: a replay file is read
just if a replay can be made of it. *Side channel*: a request arrives as it was
sent. *Configuration*: what is accepted is within the ranges the other parts rely
on. *Orchestrator*: servers see the protocol in order and agree on the
replay that is run; a successful test is complete; nothing stays open; no value
of one server or test is used for another.

## Modules

| module | models | state and actions |
|---|---|---|
| `App` | the client, start after start: `main.go`, `app.go` and the choice of servers in `serverhandler.go` | the step `main` or `Run` is at, the user's files, configuration, IDs, tests, servers with their websockets and deferred clean-ups; an action per step, with its failures |
| `Configuration` | `config.go`: names from the command line; which value each key accepts | operators only |
| `Selection` | the loop that selects elements of a slice, of both | operators only |
| `TestData` | `testdata.go`: selection of tests by name; reading of replay files, with error or panic | operators only |
| `SideChannel` | `sidechannel.go` and `checkPermissions`: headers, responses, permissions | operators only |
| `ReplayTiming` | time-outs, `initAnalyzer`, the sample duration of `NewAnalyzer` | operators only |
| `Replay` | one replay on all servers, from `sendAndReceivePackets` to `sendThroughputs` | a program counter per goroutine (`main`, `handler`, `sender`, `receiver`), connections, the context, the server's end of each connection; an action per stretch of code between two visible effects |
| `FirstErrorJoin` | what `sendAndReceivePackets` promises | a verdict per worker and the caller's outcome |
| `Analyzer` | one analyzer with its sampling goroutine and the receiver | the fields of the struct, local copies `seen` and `loaded`, a program counter each; a load or a store of a shared field is an action |
| `Orchestrator` | the loop over the tests in one start of the client (`app.go:115-128`) and all of `testorchestrator.go` | the fields of `TestOrchestrator`, a program counter and the server whose turn it is, channels and websockets; an action per step and server |
| `SideChannelSession` | the order of requests a server may rely on | a phase per server |
| `TestLoop` | what the loop over the tests (`app.go:115-128`) promises to a start of the client | how many tests are left, how many IDs have been declared, whether a websocket is open; the ways to end a test |
| `ReplayProofs`, `AnalyzerProofs`, `OrchestratorProofs`, `AppProofs`, `TestDataProofs`, `SideChannelProofs` | inductive invariants and theorems about the module of that name | |
| `Induction` | lemmas of induction up to a number, for the definitions that go through a slice | |

`Replay` extends `ReplayTiming` and implements `FirstErrorJoin` (`Join`);
`Orchestrator` implements `SideChannelSession` (`Sessions`) and takes a whole
replay as one step that succeeds or fails, which is what `FirstErrorJoin` says
of it. `Orchestrator` extends `TestData` and `SideChannel`, with which it decides
what loading a replay or a request comes to. `App` extends `Configuration` and
`TestData`; a test is one step of it that may succeed, fail before or after a
server has been told the IDs, panic, or crash the process. `Orchestrator` shows the
inside of that step, and has the same loop around it. That it leaves a test in
just these ways is not left to reading: both modules implement `TestLoop`
(`ImplementsLoop`), each with its own view of it (for `App` the loop is "off" but
in a start that has come to its first test; for `Orchestrator` a test ends, and
its ID counts as declared, with its `CleanUp`). What
`Orchestrator` takes for granted at the start (the number of servers, websockets
open, more than one server only with M-Lab) is `ServersReady` of `App`. (A test
that hangs is a start that never ends, in `Orchestrator` the step `Blocked`.)
`Analyzer` looks inside the analyzer of which `Replay` keeps the phase.

How the code is read:

- A hand-over on an unbuffered channel is one joint step of the two goroutines.
  A goroutine with a result is in the state `nil` or `err` until somebody
  receives it. The receiver goes on to its deferred `Stop` (state `stop`) only
  after that, and a handler to its deferred `CleanUp` (state `cleanup`).
- The clock is left out of `Replay`: a sender finds its timeout expired, and a
  sampling goroutine gets its first tick, at any time. A read returns because
  data came or because its deadline passed; both lead back to the check of the
  context, and the bytes belong to `Analyzer`.
- The server is external. It may close a TCP connection at any time (`peer`
  becomes `closed`), after which reads give end of file, and a packet sent to it
  is answered by a reset, after which reads and writes may fail. A server in
  `Faulty` may make any call fail at any time. On the side channel it may refuse
  or not answer any request.
- An empty response panics in `sendAndReceive`, and a replay file that lacks an
  entry or a field panics in `ParseReplayJSON`, both in the main goroutine, so
  that deferred calls still run; a panic in a replay's goroutines ends the process.
- `received`, `failed`, `report`, `raced`, `late`, `told`, `answer`, `session`,
  `ran` and `declared` are history: the code has no such variable, and what an
  action does to the code's own variables does not depend on one. (`received` also
  carries the bound on reads.)
- A replay file is a record of what the code looks at: which entries there are,
  which optional fields a packet has, whether payloads decode, what is wrong with
  an address pair. A third entry that is no list of strings is an error like a bad
  pair.
- A user ID made up by the client is named after the start that made it up: that
  random IDs are unlike each other and unlike the one in the file is assumed. The
  files are not changed between starts, as the client does not write them.
- A configuration file has at most one value that is not the usual one: the first
  thing wrong ends the start, and the keys are accepted one by one.
- In `Analyzer` a slice is one value. Its header is three words, and a race on
  it could in principle mix two headers; the properties checked do not depend on
  the contents of a slice that is read while it is being written, except for the
  receiver's reads in `Stop`, where the only concurrent write is the append of a
  late sample, whose element is cut off or not looked at.
- The operators called "seeded fault" are not part of the specifications. Each
  is a plausible error in the definition below it; replacing that definition by
  it must violate a property, which shows that the property can fail.

## Runs

| run | checks | shows |
|---|---|---|
| `replay_tcp` | `TypeOK`, `QuiescentOnSuccess`, `ErrorsCancel`, `ErrorHasCause`, `ImplementsJoin`, `EndsUnlessServerStaysOpen`, `SuccessReleases` | two servers, the second failing, two packets: the meaning of nil and error, the verdict, and that a replay that does not end waits for a server that has got everything and never closes its connection |
| `replay_udp` | `IndInv`, `ClosedUnderCancelOnly`, `SuccessMeansNoFailure`, `AtMostOnePacketAfterCancel`, `CancellationDrains`, `ErrorSettles` | two failing servers, two packets: how everything stops, and exactly what a failed replay leaves behind: which goroutines stay blocked and which connections open |
| `analyzer_sampling` | `TypeOK`, `TimesSound`, `BytesConservedUnlessRaced`, `FiguresAligned`, `AtMostOneLateSample` | three ticks and two reads in all interleavings |
| `orchestrator_tests` | `TypeOK`, `ReplayAgreed`, `ThroughputsComplete`, `ResultsComplete`, `ChannelsReleased`, `PermissionsCurrent`, `ReadIffWellFormed`, `SessionsInOrder`, `ImplementsLoop`, `EndsUnlessBlocked` | two tests on three M-Lab servers, anything failing, panicking or hanging: what servers are told and permit, what a successful test has stored, what is closed, that a test ends in one of the ways `App` has for it, and that the client ends unless it waits for a server |
| `app_starts` | `TypeOK`, `TestsAsRequested`, `TriesAccountedFor`, `ServersReady`, `WebsocketsReleased`, `ReuseOnlyFromFile`, `ImplementsLoop` | two starts with any two names, list of two tests, user file, and three M-Lab servers each of which may fail: which tests run, on which servers, under which IDs, what is closed, and that the loop over the tests is that of `TestLoop` |

Runs in which the code does not do what it or its documentation says:

| run | property | what happens |
|---|---|---|
| `replay_udp_never_ends` | `Terminates` | all packets are sent in time, nobody cancels the context, the receiver polls for ever |
| `replay_tcp_write_error` | `SuccessMeansNoFailure` | `tcp.go:87` answers a failed write with nil |
| `replay_reports_early` | `ReportsFinishedReplay` | main overtakes the receiver's deferred `Stop` |
| `replay_panics_at_stop` | `NoPanic` | the replay ends before the first sample |
| `analyzer_loses_bytes` | `BytesConserved` | `AddBytesRead` overlaps `createSample` |
| `orchestrator_threshold` | `ThresholdOfResult` | the 30% threshold sticks |
| `orchestrator_websocket` | `WebsocketOpenDuringTest` | the first test closes the websockets of the second |

Close relatives of these, seen with other constants of the same
configurations: with `IsTCP = TRUE` a TCP replay need not end either, as the
timeout is not looked at once the packets are out (`EndsUnlessServerStaysOpen`
says that this is the only way); with
`TestLength = 1` (the Deezer entry of `res/config/tests_list.json`) the ticker is
created with a period of zero and panics; one server's timeout cancels the
context all servers share; where servers ask for different numbers of samples,
that of the last one is used for all (`testorchestrator.go:179`). The comments at `tcp.go:17` and `udp.go:17` give 40
and 45 seconds for constants of 45 and 40; the models use the constants.

### Bounds

Two servers are the least for one to fail while main waits for the other; in a
replay servers interact only through the context and the order in which main
collects. Three servers let a loop over servers fail in its middle, with servers
served and not served on either side. Two packets give a sender a step
before, at and after a cancellation. Two tests let state survive one. Three
ticks give the analyzer a sample before `Stop`, one served while `Stop` runs and
one left in the ticker's channel. `Areas` has a value below, between and above
the two thresholds.
`SampleCounts` has two values, so that an answer may differ from the one before.
In `App` two images make the list long enough to have a test twice, one asked for
and one not (`MaxTests`, `MaxNames` = 2); three servers offered (`MaxOffered`) let one fail
before, between and after those that work, for a configured number of 1, 2 or 4;
`MaxStarts` = 2 is the least for an ID to be reused. Replay files in the runs have
up to two packets and one pair, so that the second packet may differ from the
first; the proofs have them of any length.
The single-server violation runs use the least instance that shows the point.

### Fairness

`FairSpec` asks of every goroutine of a replay that it does not stay runnable for
ever without a step: Go's scheduler is fair, a sleep ends, and a read has a
deadline of a second. That a *write* returns is an assumption about the network,
as writes have no deadline. Nothing is assumed of failures, timeouts, ticks or
of servers. A TCP receiver may therefore wait for ever for its server to close the
connection (`tcp.go:126`), which is why `EndsUnlessServerStaysOpen` is no plain
"the replay ends": it says what the replay then waits for, `AwaitsClose` from some
time on, so that it ends with servers that do close.

A goroutine blocked at a hand-over nobody takes is not runnable, so fairness does
not hide it. `ErrorSettles` tells these apart from those that end: after an error the
handlers of later servers stay blocked, with their connections open, and so does
a receiver its handler has not waited for. This is what the code does; the
client ends with a failed test, and these goroutines with it.

`FairSpec` of `Orchestrator` asks that the main goroutine goes on while it can. A
call that never returns is not hidden in it: it is the step `Blocked`, which may
come at any call that waits for a server or a replay. The property
`EndsUnlessBlocked` excepts it: it says that there is no *other* way not to end (a
failure, refusal or panic in any loop), and nothing of the waits themselves, such
as those for a response (`sidechannel.go:201`) or for the client's own address
(`serverhandler.go:253`), which have no deadline. No property covers these.

## Proofs

Every theorem holds for all values of the constants that satisfy the assumption
named in the module; nothing else is assumed. All invariance proofs have the same
form: `IndInv` holds initially (`InitIndInv`), every step preserves it
(`NextIndInv`, from one lemma per action or goroutine), and it implies the
property.

**`ReplayProofs`**, for any number of servers and packets, both protocols and any
faulty servers (`ReplayAssumption`):

- `TypeCorrectness`, `Quiescence`, `ErrorCancellation`, `ErrorCause`,
  `CloseDiscipline`: the properties of the same subject checked by the runs;
- `UDPSuccess`: a UDP replay loses no failure (`ASSUME ~IsTCP`; for TCP the
  statement is false, see `replay_tcp_write_error`);
- `PacketsAfterCancel` (`AtMostOnePacketAfterCancel`, an action property under a
  box of its own): once the context is cancelled a sender sends at most the packet
  it is about to send. `Drained` says which senders can send none any more, and no
  step of a cancelled replay leads out of it (`DrainedStep`);
- `Refinement`: `Spec => Join!Spec`, so that a caller may think of a replay as n
  workers whose first error, in list order, is returned.

None of these is inductive. That a nil result means that the receiver is through,
for instance, needs to know what the receiver could be doing at each phase of the
handler, and the main goroutine's success needs the same of all handlers it has
released. `IndInv` adds this: `HandlerInv` ties connection, sender and receiver to
the handler's phase, `AnalyzerInv` the analyzer to the receiver's, `MainInv` says
which handlers have been released with what result, `CancelInv` and `CauseInv`
carry cancellation and cause along the path of an error from the packet loop to
main, `SentInv` bounds the packets, and `UDPFailureInv` says where the error of a
failed call is on its way. The packet loops leave `MainInv` alone by `MainFrame`.
The refinement needs `IndInv` to know that a verdict is given once, and that all
servers before the collected one have succeeded.

**`AnalyzerProofs`**, for any length of replay and number of samples, reads and
ticks (`AnalyzerAssumption`): `TypeCorrectness`, `IncreasingTimes`
(`TimesSound`), `AlignedThroughputs` (`FiguresAligned`), `LateSamples`
(`AtMostOneLateSample`) and `ConservedBytes` (`BytesConservedUnlessRaced`), in spite
of the races. The difficulty is a sample captured
while `Stop` trims: either goroutine may write back a slice it has loaded before
the other's store. `IndInv` therefore speaks of slices *whoever holds them*: each of
`samples` and the two local copies begins with the samples converted so far
(`Covers`), as long as it may still be stored; `TimesFloor` is the least number of
sample times at each step of `Stop`; and `ClockInv` and `LateInv` count ticks
against samples, so that at most one comes late. For `ConservedBytes`,
`ConservedInv` says at each pair of places of the two goroutines where every byte
received is: in the samples, whichever copy of the slice is the one to stay, in
`bytesRead`, or in the sampler's or the receiver's hands. It needs that appending a
sample adds it to the sum (`SumOfAppend`), by induction over the slice.

**`OrchestratorProofs`**, for any number of servers and tests and any permissions,
sample counts and areas (`OrchestratorAssumption`): `TypeCorrectness`, `Agreement`
(`ReplayAgreed`), `CurrentPermissions`, `CompleteThroughputs`, `CompleteResults`,
`ReleasedChannels`, `FilesRead` and `SessionRefinement` (`Spec => Sessions!Spec`,
module `SideChannelSession`). The properties speak of all servers at the end of a
step, the steps serve one at a time; `IndInv` says for each step which servers have
been served (`SessionsAt`: those before `turn`), what these were told, have
permitted and reported, and what the fields hold once the step is through.

- `SoundThresholds` and `WebsocketsOfOneTest` say when the two promises that the
  runs `orchestrator_threshold` and `orchestrator_websocket` show broken are kept:
  thresholds (`ThresholdOfResult`) on a single server or with the default switch
  off, websockets (`WebsocketOpenDuringTest`) for a single test or without M-Lab.
  So the runs' second server and second test are needed, and all that is needed.
- `LoopRefinement` (`Spec => Loop!Spec`, module `TestLoop`): all the steps between
  the start of a test and its `CleanUp` are none to the loop (`MiddleStep`), and the
  test ends there, at a first replay that cannot be loaded, or with the process.
  `LoopInv` has the ID the first server knows: that of the test before until
  `SendID`, from then on that of this one.

**`AppProofs`**, for any names of tests, lists of any length, number of servers
offered and number of starts (`AppAssumption`): `TypeCorrectness`,
`AccountedTries`, `ReadyServers`, `ReleasedWebsockets` and `FreshIDs`
(`ReuseOnlyFromFile`). `ChosenInv` keeps that servers are chosen in the order
offered, with which the tries add up and no server is chosen twice;
`WebsocketInv` that whatever is open has its clean-up deferred; `DeclaredInv` that
the IDs told are those of the start that told them and never ahead of `testID`.
`RequestedTestsRun` (`TestsAsRequested`) has an invariant of its own,
`SelectionInv`: from their selection on, what has run and what is still to run make
up the selection, in its order. What is in the selection is known from
`TestDataProofs`.

`LoopRefinement` is the refinement of `TestLoop` by `App`. Its `LoopInv` has that no
websocket is open but those of the servers chosen, which is why a test that gets
to its clean-up leaves none open; that the loop begins with at least one test comes
from `SelectionInv`.

**`TestDataProofs`**: `Reading`, that for a replay file of any length
`ParseReplayJSON` succeeds just if the file is `WellFormed`, and fails with an
error or a panic otherwise; "the first packet that cannot be read decides" needs a
least such packet (`LeastNumber`). `SelectedPicks`: the selecting loop returns the
elements that pass, all of them, in order and each as often as it comes
(`SelectedElements`: no other).

**`Induction`**: a set of numbers has a least one (by the well-foundedness of the
numbers), so what holds of 0 and passes from `i` to `i + 1` holds up to `n`
(`InductionUpTo`), and a function that is defined by a step from `i` to `i + 1`
exists (`IteratedStep`). With these the recursive functions of the models
(`PartialSums`, `SelectedUpTo`) are shown to satisfy their equations. Induction is
stated of sets of numbers throughout, as the library's theorems with an operator as
parameter are of no use to the provers.

**`SideChannelProofs`**: `RequestFraming`, that of a request the opcode always
arrives, and the length modulo 2^24: exactly if it is below 2^24, which the code does
not check.

Model-checked only: liveness (`EndsUnlessServerStaysOpen`, `SuccessReleases`, `ErrorSettles`,
`CancellationDrains`, `EndsUnlessBlocked`), as the provers do not reason about fairness
and `ENABLED`. Every safety property of a run that passes is a theorem, except
`SuccessMeansNoFailure`, which is false for TCP and a theorem for UDP.

## Plan

Done in this order: `Replay` and its timing, the join it implements, their
proofs; the analyzer; the orchestrator and the session it implements; test data
and side channel, and what the orchestrator makes of them; configuration and the
client as a whole; the proofs about all of these; the loop that joins the client
and the orchestrator. What could follow:

1. Liveness by hand-written ranking arguments, as far as they can be stated as
   invariants: that every step of a cancelled replay but `Tick` and `PeerCloses`
   brings it nearer to its end.
2. A model of the server's side, once its code is at hand, to compose with
   `SideChannelSession`.

## Not modelled

- `GetAverageThroughput`: an average of floating-point numbers, zero divided by
  zero (NaN) if there are none; that the list may be empty is seen in
  `replay_panics_at_stop`.
- The results package, which is empty.
- Certificates, DNS, the M-Lab locator's HTTP and the websockets' own protocol:
  external, modelled by their outcomes.
- Wording, printing and logging; payloads, ports and the contents of the files
  beyond what decides whether they are accepted.
- The server's side is external throughout.
