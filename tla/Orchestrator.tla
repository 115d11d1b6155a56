---------------------------- MODULE Orchestrator ----------------------------
(***************************************************************************)
(* The test loop of the client (app.go, Run) and the steps of one test     *)
(* (testorchestrator.go, Run): connect, identify, ask for permission, run  *)
(* the first replay, report it, declare the second, run it, report it and  *)
(* analyze, every step on every server in turn, and clean up on the way    *)
(* out, whatever happened.                                                 *)
(*                                                                         *)
(* A replay is one step here; modules Replay and FirstErrorJoin say what   *)
(* it is made of, and modules TestData and SideChannel how a replay file   *)
(* and a response are read.  The servers are external.  A server that does *)
(* not answer at all blocks the client, as no read of a request has a      *)
(* deadline.  Thresholds are whole percents, and of an average throughput  *)
(* only whether it is over 10 Mbps is kept.                                *)
(***************************************************************************)
EXTENDS TestData, SideChannel

CONSTANTS
  NumServers,            \* number of servers the tests run on
  NumTests,              \* number of tests to run
  UseMLab,               \* whether the servers are M-Lab ones
  SampleCounts,          \* numbers of samples a server may ask for
  UseDefaultThresholds,  \* configuration: use_default_thresholds
  AreaThreshold,         \* configuration: area_threshold, in percent
  Areas                  \* areas, in percent, a server's analysis may find

Servers == 1 .. NumServers
ReplayTypes == {"Original", "Random"}
KS2Results == [over10Mbps : BOOLEAN, area : Areas, belowP : BOOLEAN]

ASSUME OrchestratorAssumption ==
  /\ NumServers \in Nat \ {0} /\ NumTests \in Nat \ {0}
  /\ UseMLab \in BOOLEAN /\ UseDefaultThresholds \in BOOLEAN
  /\ NumServers > 1 => UseMLab
  /\ AreaThreshold \in 0 .. 100 /\ Areas \subseteq 0 .. 100
  /\ SampleCounts \subseteq Int

VARIABLES
  pc,                \* step of Run the main goroutine is at
  turn,              \* the server the step has come to
  test,              \* number of tests started
  outcome,           \* what Run is about to return
  replayTypes, replayID, isLastReplay, samplesPerReplay, areaTestThreshold,
  testResults,       \* fields of the TestOrchestrator
  replayInfo,        \* the type of the replay file that has been loaded
  throughput,        \* the test's OriginalThroughput and RandomThroughput: the
                     \* type of the replay file the stored average comes from
  channel,           \* the side channel of a server: none, open or closed
  websocket,         \* the M-Lab websocket of a server
  told,              \* history: what a server was told of the current replay
  answer,            \* history: the last permission a server has given
  session            \* history: what has happened on a server's side channel

toVars     == <<replayID, isLastReplay, replayInfo>>
serverVars == <<channel, websocket, told, answer, session>>
dataVars   == <<samplesPerReplay, areaTestThreshold, testResults, throughput>>
vars == <<pc, turn, test, outcome, replayTypes, toVars, serverVars, dataVars>>

(* Seeded fault: the slice of results is made with a length (of zero       *)
(* values, to which the results are appended) and not with a capacity.     *)
NewTestOrchestratorPreallocates ==
  /\ samplesPerReplay' = 0
  /\ areaTestThreshold' = AreaThreshold
  /\ testResults' = [s \in Servers |-> [host |-> 0, areaThreshold |-> 0, result |-> ""]]
  /\ throughput' = [type \in ReplayTypes |-> "unset"]

NewTestOrchestrator ==
  /\ samplesPerReplay' = 0
  /\ areaTestThreshold' = AreaThreshold
  /\ testResults' = <<>>
  /\ throughput' = [type \in ReplayTypes |-> "unset"]

(* generateReplayOrder draws the order once for all the tests.             *)
Init ==
  /\ pc = "nextTest" /\ turn = 1 /\ test = 0 /\ outcome = "nil"
  /\ replayTypes \in {<<"Original", "Random">>, <<"Random", "Original">>}
  /\ replayID = 1 /\ isLastReplay = FALSE /\ replayInfo = "none"
  /\ samplesPerReplay = 0 /\ areaTestThreshold = AreaThreshold
  /\ testResults = <<>> /\ throughput = [type \in ReplayTypes |-> "unset"]
  /\ channel = [s \in Servers |-> "none"]
  /\ websocket = [s \in Servers |-> IF UseMLab THEN "open" ELSE "none"]
  /\ told = [s \in Servers |-> [type |-> "none", name |-> "none", last |-> FALSE,
                             test |-> 0]]
  /\ answer = [s \in Servers |-> [replay |-> 0, n |-> 0]]
  /\ session = [s \in Servers |-> "none"]

-----------------------------------------------------------------------------
(***************************************************************************)
(* Run.  Every step loops over the servers; an error ends it at once.      *)
(***************************************************************************)

(* The step is done for the server whose turn it is.                       *)
ServedThen(step) ==
  IF turn = NumServers THEN turn' = 1 /\ pc' = step ELSE turn' = turn + 1 /\ pc' = pc

Notes(s, phase) == session' = [session EXCEPT ![s] = phase]

(* Run returns early; its deferred cleanUp comes first.                    *)
Abort(how) == pc' = "cleanUp" /\ turn' = 1 /\ outcome' = how

(* The type the server is told is that of replayID, the name that of the   *)
(* file that was loaded.                                                   *)
Tell(s, testID) ==
  told' = [told EXCEPT ![s] =
    [type |-> replayTypes[replayID], name |-> replayInfo, last |-> isLastReplay,
     test |-> testID]]

StartTest ==
  /\ pc = "nextTest" /\ test < NumTests
  /\ pc' = "load1" /\ turn' = 1 /\ test' = test + 1 /\ outcome' = "nil"
  /\ replayID' = 1 /\ isLastReplay' = FALSE
  /\ NewTestOrchestrator
  /\ UNCHANGED <<replayTypes, replayInfo, serverVars>>

LoadFirstReplay ==
  /\ pc = "load1"
  /\ pc' = "connect"
  /\ replayInfo' = replayTypes[replayID]
  /\ UNCHANGED <<turn, test, outcome, replayTypes, replayID, isLastReplay, serverVars, dataVars>>

(* What reading a replay file may come to.                                 *)
Reads == {ParseReplayJSON(file) : file \in ReplayFiles}

(* Nothing has been deferred yet.                                          *)
LoadFirstReplayFails ==
  /\ pc = "load1"
  /\ pc' = "returned" /\ outcome' \in Reads \ {"ok"}
  /\ UNCHANGED <<turn, test, replayTypes, toVars, serverVars, dataVars>>

Connect(s) ==
  /\ pc = "connect" /\ turn = s
  /\ ServedThen("sendID")
  /\ channel' = [channel EXCEPT ![s] = "open"]
  /\ Notes(s, "connected")
  /\ UNCHANGED <<test, outcome, replayTypes, toVars, websocket, told, answer, dataVars>>

(* The server keeps the side channel of an earlier test, if any.           *)
ConnectFails(s) ==
  /\ pc = "connect" /\ turn = s
  /\ Abort("err")
  /\ UNCHANGED <<test, replayTypes, toVars, serverVars, dataVars>>

(* There is no answer to the ID.                                           *)
SendID(s) ==
  /\ pc = "sendID" /\ turn = s
  /\ ServedThen("ask")
  /\ Tell(s, test)
  /\ Notes(s, "identified")
  /\ UNCHANGED <<test, outcome, replayTypes, toVars, channel, websocket, answer, dataVars>>

(* A permission comes with the number of samples to take.                  *)
Permitted(s, phase, n) ==
  /\ \E permission \in Permissions(SampleCounts) :
       CheckPermissions(permission) /\ n = permission.n
  /\ answer' = [answer EXCEPT ![s] = [replay |-> replayID, n |-> n]]
  /\ Notes(s, phase)

(* The one number the orchestrator keeps is that of the last server.       *)
Ask4Permission(s) ==
  /\ pc = "ask" /\ turn = s
  /\ ServedThen("replay1")
  /\ \E n \in SampleCounts : Permitted(s, "permitted1", n) /\ samplesPerReplay' = n
  /\ UNCHANGED <<test, outcome, replayTypes, toVars, channel, websocket, told,
                 areaTestThreshold, testResults, throughput>>

(* sendAndReceivePackets has returned nil.                                 *)
RunReplay(from, to, phase) ==
  /\ pc = from /\ pc' = to
  /\ session' = [s \in Servers |-> phase]
  /\ UNCHANGED <<turn, test, outcome, replayTypes, toVars, channel, websocket, told, answer,
                 dataVars>>

SendAndReceivePackets ==
  RunReplay("replay1", "report1", "replayed1") \/ RunReplay("replay2", "report2", "replayed2")

(* Seeded fault: after an error the test is begun again, for ever.         *)
ReplayFailsRetried ==
  /\ pc \in {"replay1", "replay2"}
  /\ pc' = "connect" /\ turn' = 1
  /\ replayID' = 1 /\ UNCHANGED <<isLastReplay, replayInfo>>
  /\ session' = [s \in Servers |-> "failed"]
  /\ UNCHANGED <<test, outcome, replayTypes, channel, websocket, told, answer, dataVars>>

(* A goroutine's panic ends the process, without the deferred calls.       *)
ReplayFails ==
  /\ pc \in {"replay1", "replay2"}
  /\ \/ Abort("err")
     \/ pc' = "exit" /\ outcome' = "crash" /\ UNCHANGED turn
  /\ session' = [s \in Servers |-> "failed"]
  /\ UNCHANGED <<test, replayTypes, toVars, channel, websocket, told, answer, dataVars>>

Report(s, from, to, phase) ==
  /\ pc = from /\ turn = s
  /\ ServedThen(to)
  /\ throughput' = [throughput EXCEPT ![replayTypes[replayID]] = replayInfo]
  /\ Notes(s, phase)
  /\ UNCHANGED <<test, outcome, replayTypes, toVars, channel, websocket, told, answer,
                 samplesPerReplay, areaTestThreshold, testResults>>

SendThroughputs(s) ==
  Report(s, "report1", "load2", "reported1") \/ Report(s, "report2", "analyze", "reported2")

(* Seeded fault: the second replay is not loaded.                          *)
LoadSecondReplayStale ==
  /\ pc = "load2"
  /\ pc' = "declare"
  /\ replayID' = replayID + 1 /\ isLastReplay' = TRUE
  /\ UNCHANGED <<turn, test, outcome, replayTypes, replayInfo, serverVars, dataVars>>

(* Seeded fault: the replay file is loaded before replayID is advanced.    *)
LoadSecondReplayEarly ==
  /\ pc = "load2"
  /\ pc' = "declare"
  /\ isLastReplay' = TRUE
  /\ replayInfo' = replayTypes[replayID + 1]
  /\ UNCHANGED <<turn, test, outcome, replayTypes, replayID, serverVars, dataVars>>

LoadSecondReplay ==
  /\ pc = "load2"
  /\ pc' = "declare"
  /\ replayID' = replayID + 1 /\ isLastReplay' = TRUE
  /\ replayInfo' = replayTypes[replayID']
  /\ UNCHANGED <<turn, test, outcome, replayTypes, serverVars, dataVars>>

LoadSecondReplayFails ==
  /\ pc = "load2"
  /\ \E read \in Reads \ {"ok"} : Abort(read)
  /\ replayID' = replayID + 1 /\ isLastReplay' = TRUE
  /\ UNCHANGED <<test, replayTypes, replayInfo, serverVars, dataVars>>

(* Seeded fault: the number of samples is that of the first replay.        *)
DeclareReplayKeepsSamples(s) ==
  /\ pc = "declare" /\ turn = s
  /\ ServedThen("replay2")
  /\ Tell(s, told[s].test)
  /\ \E n \in SampleCounts : Permitted(s, "permitted2", n)
  /\ UNCHANGED <<test, outcome, replayTypes, toVars, channel, websocket, dataVars>>

(* The ID of the test is not sent again.                                   *)
DeclareReplay(s) ==
  /\ pc = "declare" /\ turn = s
  /\ ServedThen("replay2")
  /\ Tell(s, told[s].test)
  /\ \E n \in SampleCounts : Permitted(s, "permitted2", n) /\ samplesPerReplay' = n
  /\ UNCHANGED <<test, outcome, replayTypes, toVars, channel, websocket,
                 areaTestThreshold, testResults, throughput>>

Status(ks2Result, threshold) ==
  IF ks2Result.area < threshold THEN "No Differentiation"
  ELSE IF ks2Result.belowP THEN "Differentiation Detected" ELSE "Results Inconclusive"

DetermineDifferentiation(s, ks2Result) ==
  /\ areaTestThreshold' =
       IF UseDefaultThresholds /\ ks2Result.over10Mbps THEN 30 ELSE areaTestThreshold
  /\ testResults' = Append(testResults,
       [host |-> s, ks2 |-> ks2Result, areaThreshold |-> areaTestThreshold',
        result |-> Status(ks2Result, areaTestThreshold')])

AnalyzeTest(s) ==
  /\ pc = "analyze" /\ turn = s
  /\ ServedThen("cleanUp")
  /\ \E ks2Result \in KS2Results : DetermineDifferentiation(s, ks2Result)
  /\ Notes(s, "analyzed")
  /\ UNCHANGED <<test, outcome, replayTypes, toVars, channel, websocket, told, answer,
                 samplesPerReplay, throughput>>

(* Seeded fault: a server that refuses the replay is passed over.          *)
RequestFailsIgnored(s) ==
  /\ pc \in {"sendID", "ask", "report1", "declare", "report2", "analyze"} /\ turn = s
  /\ turn < NumServers /\ turn' = turn + 1
  /\ UNCHANGED <<pc, outcome>>
  /\ Notes(s, "failed")
  /\ UNCHANGED <<test, replayTypes, toVars, channel, websocket, told, answer, dataVars>>

(* The request is not sent, its answer is broken off, empty, or an error,  *)
(* or the answer is no permission, or no result, that can be read.         *)
RequestFails(s) ==
  /\ pc \in {"sendID", "ask", "report1", "declare", "report2", "analyze"} /\ turn = s
  /\ \/ \E response \in Responses :
          pc # "sendID" /\ Received(response) # "ok" /\ Abort(Received(response))
     \/ \E permission \in Permissions(SampleCounts) :
          pc \in {"ask", "declare"} /\ ~CheckPermissions(permission) /\ Abort("err")
     \/ pc \in {"sendID", "analyze"} /\ Abort("err")
  /\ Notes(s, "failed")
  /\ UNCHANGED <<test, replayTypes, toVars, channel, websocket, told, answer, dataVars>>

(* The server says nothing, or its datagram with the client's address (UDP *)
(* replays) is lost; or a replay does not end (module Replay).             *)
Blocked ==
  /\ pc \in {"connect", "sendID", "ask", "replay1", "report1", "declare", "replay2",
             "report2", "analyze"}
  /\ pc' = "blocked"
  /\ UNCHANGED <<turn, test, outcome, replayTypes, toVars, serverVars, dataVars>>

Closed(f) == [s \in Servers |-> IF f[s] = "none" THEN "none" ELSE "closed"]

(* Seeded fault: only the side channels the last step has served are closed*)
CloseServedOnly ==
  /\ channel' = [s \in Servers |-> IF channel[s] = "none" \/ session[s] = "failed"
                                   THEN channel[s] ELSE "closed"]
  /\ websocket' = Closed(websocket)
  /\ session' = Closed(session)

(* Server.CleanUp of all servers: side channel and websocket.              *)
CloseAll ==
  /\ channel' = Closed(channel)
  /\ websocket' = Closed(websocket)
  /\ session' = Closed(session)

CleanUp ==
  /\ pc = "cleanUp"
  /\ pc' = IF outcome = "panic" THEN "leave" ELSE "returned"
  /\ CloseAll
  /\ UNCHANGED <<turn, test, outcome, replayTypes, toVars, told, answer, dataVars>>

-----------------------------------------------------------------------------
(* Seeded fault: the loop over the tests goes on after an error.           *)
ReturnIgnoresError ==
  /\ pc = "returned"
  /\ pc' = IF test < NumTests THEN "nextTest" ELSE "leave"
  /\ UNCHANGED <<turn, test, outcome, replayTypes, toVars, serverVars, dataVars>>

(* The loop over the tests ends with the first error.                      *)
Return ==
  /\ pc = "returned"
  /\ pc' = IF outcome = "nil" /\ test < NumTests THEN "nextTest" ELSE "leave"
  /\ UNCHANGED <<turn, test, outcome, replayTypes, toVars, serverVars, dataVars>>

(* The clean-up deferred for every M-Lab server.                           *)
Leave ==
  /\ pc = "leave" /\ pc' = "exit"
  /\ IF UseMLab THEN CloseAll ELSE UNCHANGED <<channel, websocket, session>>
  /\ UNCHANGED <<turn, test, outcome, replayTypes, toVars, told, answer, dataVars>>

Exited == pc \in {"exit", "blocked"} /\ UNCHANGED vars

Next ==
  \/ StartTest \/ LoadFirstReplay \/ LoadFirstReplayFails
  \/ \E s \in Servers :
       \/ Connect(s) \/ ConnectFails(s) \/ SendID(s) \/ Ask4Permission(s)
       \/ SendThroughputs(s) \/ DeclareReplay(s) \/ AnalyzeTest(s) \/ RequestFails(s)
  \/ SendAndReceivePackets \/ ReplayFails \/ LoadSecondReplay \/ LoadSecondReplayFails
  \/ Blocked \/ CleanUp \/ Return \/ Leave \/ Exited

Spec == Init /\ [][Next]_vars

(* The main goroutine runs on as long as it can.                           *)
FairSpec == Spec /\ WF_vars(Next)

-----------------------------------------------------------------------------
(***************************************************************************)
(* Properties.                                                             *)
(***************************************************************************)

TypeOK ==
  /\ pc \in {"nextTest", "load1", "connect", "sendID", "ask", "replay1", "report1",
             "load2", "declare", "replay2", "report2", "analyze", "cleanUp",
             "returned", "leave", "exit", "blocked"}
  /\ turn \in Servers /\ test \in 0 .. NumTests /\ outcome \in {"nil", "err", "panic", "crash"}
  /\ replayID \in 1 .. Len(replayTypes) /\ isLastReplay \in BOOLEAN
  /\ samplesPerReplay \in SampleCounts \cup {0}
  /\ areaTestThreshold \in {AreaThreshold, 30}
  /\ Len(testResults) <= NumServers
  /\ channel \in [Servers -> {"none", "open", "closed"}]
  /\ websocket \in [Servers -> {"none", "open", "closed"}]

(* Every server sees the requests of a test in the order of the protocol,  *)
(* and none after one that failed.                                         *)
Sessions == INSTANCE SideChannelSession WITH phase <- session

SessionsInOrder == Sessions!Spec

(* When a replay is run, every server has agreed to exactly that replay:   *)
(* it was told its name, the matching type, whether it is the last, and    *)
(* the ID of this test, which is sent with the first replay only.          *)
ReplayAgreed ==
  pc \in {"replay1", "replay2"} => \A s \in Servers :
    /\ session[s] = (IF pc = "replay1" THEN "permitted1" ELSE "permitted2")
    /\ told[s] = [type |-> replayInfo, name |-> replayInfo, last |-> pc = "replay2",
                  test |-> test]

(* A test that succeeds has stored the average throughput of both of its   *)
(* replays, each under its own type and in this test.                      *)
ThroughputsComplete ==
  pc = "returned" /\ outcome = "nil" => \A type \in ReplayTypes : throughput[type] = type

(* A test that succeeds has one result per server, in server order.        *)
ResultsComplete ==
  pc = "returned" /\ outcome = "nil" =>
    [i \in 1 .. Len(testResults) |-> testResults[i].host] = [s \in Servers |-> s]

(* However a test ends, short of a panic outside the main goroutine, none  *)
(* of its side channels is left open.                                      *)
ChannelsReleased ==
  pc \in {"nextTest", "returned", "leave"} => \A s \in Servers : channel[s] # "open"

(* "area test threshold default is 50%"; it is 30% "if default switch is   *)
(* on and one of the throughputs is over 10 Mbps".                         *)
ThresholdOfResult ==
  \A i \in 1 .. Len(testResults) :
    ~testResults[i].ks2.over10Mbps => testResults[i].areaThreshold = AreaThreshold

(* A replay is run only on the permission of every server for this very    *)
(* replay, and takes as many samples as one of them has just asked for,    *)
(* not as many as were asked for the replay before.                        *)
PermissionsCurrent ==
  pc \in {"replay1", "replay2"} =>
    /\ \A s \in Servers : answer[s].replay = replayID
    /\ \E s \in Servers : samplesPerReplay = answer[s].n

Readable   == {file \in ReplayFiles : ParseReplayJSON(file) = "ok"}
Replayable == {file \in ReplayFiles : WellFormed(file)}

(* The files whose reading succeeds are just those a replay can be made    *)
(* of; any other is an error or a panic before anything is sent of it.     *)
ReadIffWellFormed == pc \in {"load1", "load2"} => Readable = Replayable

(* Whatever fails, the client runs to its end, except where it waits for a *)
(* server, or a replay, without a deadline.                                *)
EndsUnlessBlocked == <>(pc \in {"exit", "blocked"})

InTest == pc \notin {"nextTest", "returned", "leave", "exit"}

LoopPhase ==
  IF InTest \/ pc = "nextTest" \/ (pc = "returned" /\ outcome = "nil") THEN "loop"
  ELSE IF pc = "exit" THEN "exit" ELSE "leave"

Loop == INSTANCE TestLoop WITH
  phase    <- LoopPhase,
  left     <- IF InTest THEN NumTests - test + 1 ELSE NumTests - test,
  declared <- IF InTest THEN test - 1 ELSE told[1].test,
  result   <- IF LoopPhase = "loop" THEN "nil" ELSE outcome,
  open     <- \E s \in Servers : websocket[s] = "open"

(* A test does to the loop over the tests what the one step that module    *)
(* App has for it may do: the first server knows its ID if it has          *)
(* succeeded or crashed, and it leaves websockets open only if it has not  *)
(* started, or crashed.                                                    *)
ImplementsLoop == Loop!Spec

(* "Connect to the websocket URL and have connection open for duration of  *)
(* test."                                                                  *)
WebsocketOpenDuringTest ==
  pc \in {"connect", "sendID", "ask", "replay1", "report1", "declare", "replay2",
          "report2", "analyze"} => \A s \in Servers : websocket[s] # "closed"

=============================================================================
