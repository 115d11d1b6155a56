------------------------- MODULE OrchestratorProofs -------------------------
(***************************************************************************)
(* Proofs, for any number of servers and tests and whatever the servers    *)
(* answer, of the safety properties of module Orchestrator, and that it    *)
(* keeps to the order of requests of module SideChannelSession.            *)
(***************************************************************************)
EXTENDS Orchestrator, TestDataProofs, TLAPS

(***************************************************************************)
(* The inductive invariant.  It says, for every step of Run, how far the   *)
(* servers before the one whose turn it is have come, and the others; and  *)
(* what the fields hold once the step that sets them has been through all. *)
(***************************************************************************)

Idle       == {"nextTest", "load1", "returned", "leave"}
FirstHalf  == {"connect", "sendID", "ask", "replay1", "report1", "load2"}
SecondHalf == {"declare", "replay2", "report2", "analyze"}
Phases     == {"none", "connected", "identified", "permitted1", "replayed1",
               "reported1", "permitted2", "replayed2", "reported2", "analyzed",
               "failed", "closed"}
Names      == ReplayTypes \cup {"none"}

StepType ==
  /\ pc \in Idle \cup FirstHalf \cup SecondHalf \cup {"cleanUp", "exit", "blocked"}
  /\ turn \in Servers /\ test \in 0 .. NumTests
  /\ outcome \in {"nil", "err", "panic"} \/ (outcome = "crash" /\ pc = "exit")

FieldType ==
  /\ replayTypes \in {<<"Original", "Random">>, <<"Random", "Original">>}
  /\ replayID \in {1, 2} /\ isLastReplay \in BOOLEAN /\ replayInfo \in Names
  /\ samplesPerReplay \in SampleCounts \cup {0}
  /\ areaTestThreshold \in {AreaThreshold, 30}

ServerType ==
  /\ channel \in [Servers -> {"none", "open", "closed"}]
  /\ websocket \in [Servers -> {"none", "open", "closed"}]
  /\ told \in [Servers -> [type : Names, name : Names, last : BOOLEAN,
                         test : 0 .. NumTests]]
  /\ answer \in [Servers -> [replay : {0, 1, 2}, n : SampleCounts \cup {0}]]
  /\ session \in [Servers -> Phases]

Results ==
  [host : Servers, ks2 : KS2Results, areaThreshold : {AreaThreshold, 30},
   result : {"No Differentiation", "Differentiation Detected", "Results Inconclusive"}]

ResultType ==
  /\ throughput \in [ReplayTypes -> Names \cup {"unset"}]
  /\ testResults \in Seq(Results)

(* replayID, isLastReplay and the loaded file advance together.            *)
ReplayInv ==
  /\ pc = "load1" => replayID = 1 /\ isLastReplay = FALSE
  /\ pc \in FirstHalf => replayID = 1 /\ isLastReplay = FALSE /\ replayInfo = replayTypes[1]
  /\ pc \in SecondHalf => replayID = 2 /\ isLastReplay = TRUE /\ replayInfo = replayTypes[2]

(* The servers before turn have been served in this step, the others not.  *)
SessionsAt(step, before, after) ==
  pc = step => \A s \in Servers : session[s] = IF s < turn THEN after ELSE before

SessionInv ==
  /\ pc \in {"load1", "replay1", "load2", "replay2"} => turn = 1
  /\ pc \in Idle => \A s \in Servers : session[s] \in {"none", "closed"}
  /\ pc = "connect" => \A s \in Servers :
       IF s < turn THEN session[s] = "connected" ELSE session[s] \in {"none", "closed"}
  /\ SessionsAt("sendID", "connected", "identified")
  /\ SessionsAt("ask", "identified", "permitted1")
  /\ SessionsAt("replay1", "permitted1", "replayed1")
  /\ SessionsAt("report1", "replayed1", "reported1")
  /\ SessionsAt("load2", "reported1", "reported1")
  /\ SessionsAt("declare", "reported1", "permitted2")
  /\ SessionsAt("replay2", "permitted2", "replayed2")
  /\ SessionsAt("report2", "replayed2", "reported2")
  /\ SessionsAt("analyze", "reported2", "analyzed")

ToldFirst(s) ==
  told[s] = [type |-> replayTypes[1], name |-> replayTypes[1], last |-> FALSE, test |-> test]

ToldSecond(s) ==
  told[s] = [type |-> replayTypes[2], name |-> replayTypes[2], last |-> TRUE, test |-> test]

ToldInv == \A s \in Servers :
  /\ pc \in {"ask", "replay1"} \/ (pc = "sendID" /\ s < turn) => ToldFirst(s)
  /\ pc = "replay2" \/ (pc = "declare" /\ s < turn) => ToldSecond(s)
  /\ pc \in SecondHalf \cup {"report1", "load2"} => told[s].test = test

AnswerInv ==
  /\ \A s \in Servers :
       /\ pc = "replay1" \/ (pc = "ask" /\ s < turn) => answer[s].replay = 1
       /\ pc = "replay2" \/ (pc = "declare" /\ s < turn) => answer[s].replay = 2
  /\ pc \in {"ask", "declare"} /\ turn > 1 => samplesPerReplay = answer[turn - 1].n
  /\ pc \in {"replay1", "replay2"} => samplesPerReplay = answer[NumServers].n

Stored(id) == throughput[replayTypes[id]] = replayTypes[id]

ThroughputInv ==
  /\ \/ pc \in SecondHalf \cup {"load2"}
     \/ pc = "report1" /\ turn > 1
     \/ pc \in {"cleanUp", "returned"} /\ outcome = "nil"
     => Stored(1)
  /\ \/ pc = "analyze"
     \/ pc = "report2" /\ turn > 1
     \/ pc \in {"cleanUp", "returned"} /\ outcome = "nil"
     => Stored(2)

ResultsInv ==
  /\ Len(testResults) <= NumServers
  /\ \A i \in 1 .. Len(testResults) : testResults[i].host = i
  /\ pc \in {"load1"} \cup FirstHalf \cup (SecondHalf \ {"analyze"}) => testResults = <<>>
  /\ pc = "analyze" => Len(testResults) = turn - 1
  /\ pc \in {"cleanUp", "returned"} /\ outcome = "nil" => Len(testResults) = NumServers

ChannelInv == pc \in Idle => \A s \in Servers : channel[s] # "open"

IndInv ==
  /\ StepType /\ FieldType /\ ServerType /\ ResultType
  /\ ReplayInv /\ SessionInv /\ ToldInv
  /\ AnswerInv /\ ThroughputInv /\ ResultsInv /\ ChannelInv

-----------------------------------------------------------------------------
(* What the parts of module TestData and SideChannel come to.              *)
LEMMA ReadOutcomes == Reads \subseteq {"ok", "err", "panic"}
<1> DEFINE Outcomes == {"ok", "err", "panic"}
<1> SUFFICES ASSUME NEW file \in ReplayFiles
             PROVE  ParseReplayJSON(file) \in Outcomes
  BY DEF Reads
<1>1. NewPackets(file.packets, IsTCPReplay(file)) \in Outcomes
  BY DEF NewPackets, NewPacket
<1>2. ReplayCSPair(file) \in Outcomes
  BY DEF ReplayCSPair, NewCSPair
<1>3. "err" \in Outcomes /\ "panic" \in Outcomes /\ "ok" \in Outcomes
  OBVIOUS
<1> HIDE DEF Outcomes
<1> QED  BY <1>1, <1>2, <1>3, Zenon DEF ParseReplayJSON

(* A response that is received is taken in one of three ways.              *)
LEMMA ResponseOutcomes ==
  \A response \in Responses : Received(response) \in {"ok", "err", "panic"}
BY DEF Received

(* The two replays of a test are of different types.                       *)
LEMMA TypeOrder ==
  ASSUME FieldType
  PROVE  /\ Len(replayTypes) = 2
         /\ replayTypes[1] \in ReplayTypes /\ replayTypes[2] \in ReplayTypes
         /\ replayTypes[1] # replayTypes[2]
BY DEF FieldType, ReplayTypes

(* A step that has served server turn goes on to the next server, or, with *)
(* all of them served, to the next step.                                   *)
LEMMA ServedCases ==
  ASSUME turn \in Servers, NEW to, ServedThen(to)
  PROVE  \/ /\ turn = NumServers /\ turn' = 1 /\ pc' = to
            /\ \A r \in Servers : r = turn \/ r < turn
         \/ /\ turn # NumServers /\ turn' = turn + 1 /\ pc' = pc
            /\ \A r \in Servers : r < turn' <=> r = turn \/ r < turn
BY OrchestratorAssumption DEF ServedThen, Servers

(* With the first server's turn, none has been served.                     *)
LEMMA NoneServed == 1 \in Servers /\ \A r \in Servers : ~(r < 1)
BY OrchestratorAssumption DEF Servers

(* A test starts with its fields as those before the first replay.         *)
LEMMA StartTestIndInv ==
  ASSUME IndInv, StartTest
  PROVE  IndInv'
<1> USE DEF IndInv, toVars, serverVars, dataVars, StartTest, NewTestOrchestrator
<1>1. StepType'
  BY OrchestratorAssumption DEF StepType, Servers, Idle, FirstHalf, SecondHalf
<1>2. FieldType'
  BY DEF FieldType
<1>3. ServerType'
  BY DEF ServerType
<1>4. ResultType'
  BY DEF ResultType
<1>5. ReplayInv'
  BY DEF ReplayInv, FirstHalf, SecondHalf
<1>6. SessionInv'
  BY DEF SessionInv, SessionsAt, Idle
<1>7. ToldInv'
  BY DEF ToldInv, ToldFirst, ToldSecond, SecondHalf
<1>8. AnswerInv'
  BY DEF AnswerInv
<1>9. ThroughputInv'
  BY DEF ThroughputInv, Stored, SecondHalf
<1>10. ResultsInv'
  BY OrchestratorAssumption, TypeOrder DEF StepType, ResultType, ResultsInv, Servers,
     Idle, FirstHalf, SecondHalf
<1>11. ChannelInv'
  BY DEF ChannelInv, Idle
<1> QED  BY <1>1, <1>2, <1>3, <1>4, <1>5, <1>6, <1>7, <1>8, <1>9, <1>10, <1>11 DEF
   IndInv

(* The first file is loaded before any server is connected to.             *)
LEMMA LoadFirstReplayIndInv ==
  ASSUME IndInv, LoadFirstReplay
  PROVE  IndInv'
<1> USE DEF IndInv, toVars, serverVars, dataVars, LoadFirstReplay
<1>1. StepType'
  BY DEF StepType, Idle, FirstHalf, SecondHalf
<1>2. FieldType'
  BY TypeOrder DEF FieldType, ReplayInv, Names, FirstHalf, SecondHalf
<1>3. ServerType'
  BY DEF ServerType
<1>4. ResultType'
  BY DEF ResultType
<1>5. ReplayInv'
  BY DEF ReplayInv, FirstHalf, SecondHalf
<1>6. SessionInv'
  BY OrchestratorAssumption, TypeOrder, NoneServed DEF StepType, ServerType, SessionInv,
     SessionsAt, Idle, FirstHalf, SecondHalf
<1>7. ToldInv'
  BY DEF ToldInv, ToldFirst, ToldSecond, SecondHalf
<1>8. AnswerInv'
  BY DEF AnswerInv
<1>9. ThroughputInv'
  BY DEF ThroughputInv, Stored, SecondHalf
<1>10. ResultsInv'
  BY DEF ResultsInv, FirstHalf, SecondHalf
<1>11. ChannelInv'
  BY DEF ChannelInv, Idle
<1> QED  BY <1>1, <1>2, <1>3, <1>4, <1>5, <1>6, <1>7, <1>8, <1>9, <1>10, <1>11 DEF
   IndInv

(* A test whose first replay cannot be loaded touches no server.           *)
LEMMA LoadFirstReplayFailsIndInv ==
  ASSUME IndInv, LoadFirstReplayFails
  PROVE  IndInv'
<1> USE DEF IndInv, toVars, serverVars, dataVars, LoadFirstReplayFails
<1>1. StepType'
  BY ReadOutcomes DEF StepType, Idle, FirstHalf, SecondHalf
<1>2. FieldType'
  BY DEF FieldType
<1>3. ServerType'
  BY DEF ServerType
<1>4. ResultType'
  BY DEF ResultType
<1>5. ReplayInv'
  BY DEF ReplayInv, FirstHalf, SecondHalf
<1>6. SessionInv'
  BY DEF SessionInv, SessionsAt, Idle
<1>7. ToldInv'
  BY DEF ToldInv, ToldFirst, ToldSecond, SecondHalf
<1>8. AnswerInv'
  BY DEF AnswerInv
<1>9. ThroughputInv'
  BY OrchestratorAssumption, TypeOrder, ReadOutcomes DEF StepType, FieldType,
     ResultType, ReplayInv, ThroughputInv, Stored, Idle, FirstHalf, SecondHalf
<1>10. ResultsInv'
  BY OrchestratorAssumption, TypeOrder, ReadOutcomes DEF StepType, ResultType,
     ResultsInv, Servers, Idle, FirstHalf, SecondHalf
<1>11. ChannelInv'
  BY DEF ChannelInv, Idle
<1> QED  BY <1>1, <1>2, <1>3, <1>4, <1>5, <1>6, <1>7, <1>8, <1>9, <1>10, <1>11 DEF
   IndInv

(* The server whose turn it is gets connected, the others stay.            *)
LEMMA ConnectIndInv ==
  ASSUME IndInv, NEW s \in Servers, Connect(s)
  PROVE  IndInv'
<1> USE DEF IndInv, toVars, serverVars, dataVars, Connect, Notes
<1>1. StepType'
  BY OrchestratorAssumption, ServedCases DEF StepType, Servers, Idle, FirstHalf,
     SecondHalf
<1>2. FieldType'
  BY DEF FieldType
<1>3. ServerType'
  BY DEF ServerType, Phases
<1>4. ResultType'
  BY DEF ResultType
<1>5. ReplayInv'
  BY DEF ServedThen, ReplayInv, FirstHalf, SecondHalf
<1>6. SessionInv'
  <2>1. pc = "connect" /\ turn \in Servers /\ ServedThen("sendID")
    BY DEF StepType
  <2>2. \A r \in Servers : IF r < turn THEN session[r] = "connected"
                           ELSE session[r] \in {"none", "closed"}
    BY <2>1 DEF SessionInv
  <2>3. \A r \in Servers : session'[r] = IF r = turn THEN "connected" ELSE session[r]
    BY DEF ServerType
  <2> HIDE DEF IndInv, Connect
  <2>4. \/ pc' = "sendID" /\ turn' = 1 /\ \A r \in Servers : session'[r] = "connected"
        \/ /\ pc' = "connect"
           /\ \A r \in Servers : IF r < turn' THEN session'[r] = "connected"
                                 ELSE session'[r] \in {"none", "closed"}
    BY <2>1, <2>2, <2>3, ServedCases
  <2> QED  BY <2>4, NoneServed DEF SessionInv, SessionsAt, Idle
<1>7. ToldInv'
  BY ServedCases, NoneServed DEF StepType, ServerType, ReplayInv, ToldInv, ToldFirst,
     ToldSecond, FirstHalf, SecondHalf
<1>8. AnswerInv'
  BY ServedCases, NoneServed DEF StepType, ServerType, ReplayInv, AnswerInv, FirstHalf,
     SecondHalf
<1>9. ThroughputInv'
  BY DEF ServedThen, ThroughputInv, Stored, SecondHalf
<1>10. ResultsInv'
  BY DEF ServedThen, ResultsInv, FirstHalf, SecondHalf
<1>11. ChannelInv'
  BY DEF ServedThen, ChannelInv, Idle
<1> QED  BY <1>1, <1>2, <1>3, <1>4, <1>5, <1>6, <1>7, <1>8, <1>9, <1>10, <1>11 DEF
   IndInv

(* A connection that fails leads to cleanUp, of what has been opened.      *)
LEMMA ConnectFailsIndInv ==
  ASSUME IndInv, NEW s \in Servers, ConnectFails(s)
  PROVE  IndInv'
<1> USE DEF IndInv, toVars, serverVars, dataVars, ConnectFails, Abort
<1>1. StepType'
  BY NoneServed DEF StepType, Idle, FirstHalf, SecondHalf
<1>2. FieldType'
  BY DEF FieldType
<1>3. ServerType'
  BY DEF ServerType
<1>4. ResultType'
  BY DEF ResultType
<1>5. ReplayInv'
  BY DEF ReplayInv, FirstHalf, SecondHalf
<1>6. SessionInv'
  BY DEF SessionInv, SessionsAt, Idle
<1>7. ToldInv'
  BY DEF ToldInv, ToldFirst, ToldSecond, SecondHalf
<1>8. AnswerInv'
  BY DEF AnswerInv
<1>9. ThroughputInv'
  BY DEF ThroughputInv, Stored, SecondHalf
<1>10. ResultsInv'
  BY DEF ResultsInv, FirstHalf, SecondHalf
<1>11. ChannelInv'
  BY DEF ChannelInv, Idle
<1> QED  BY <1>1, <1>2, <1>3, <1>4, <1>5, <1>6, <1>7, <1>8, <1>9, <1>10, <1>11 DEF
   IndInv

(* The server is told the replay that has been loaded.                     *)
LEMMA SendIDIndInv ==
  ASSUME IndInv, NEW s \in Servers, SendID(s)
  PROVE  IndInv'
<1> USE DEF IndInv, toVars, serverVars, dataVars, SendID, Notes, Tell
<1>1. StepType'
  BY OrchestratorAssumption, ServedCases DEF StepType, Servers, Idle, FirstHalf,
     SecondHalf
<1>2. FieldType'
  BY DEF FieldType
<1>3. ServerType'
  BY TypeOrder DEF StepType, FieldType, ServerType, Phases, Names
<1>4. ResultType'
  BY DEF ResultType
<1>5. ReplayInv'
  BY DEF ServedThen, ReplayInv, FirstHalf, SecondHalf
<1>6. SessionInv'
  <2>1. pc = "sendID" /\ turn \in Servers /\ ServedThen("ask")
    BY DEF StepType
  <2>2. \A r \in Servers : session[r] = IF r < turn THEN "identified" ELSE "connected"
    BY <2>1 DEF SessionInv, SessionsAt
  <2>3. \A r \in Servers : session'[r] = IF r = turn THEN "identified" ELSE session[r]
    BY DEF ServerType
  <2> HIDE DEF IndInv, SendID
  <2>4. \/ pc' = "ask" /\ turn' = 1 /\ \A r \in Servers : session'[r] = "identified"
        \/ /\ pc' = "sendID"
           /\ \A r \in Servers : session'[r] = IF r < turn' THEN "identified" ELSE "connected"
    BY <2>1, <2>2, <2>3, ServedCases
  <2> QED  BY <2>4, NoneServed DEF SessionInv, SessionsAt, Idle
<1>7. ToldInv'
  BY ServedCases, NoneServed DEF StepType, ServerType, ReplayInv, ToldInv, ToldFirst,
     ToldSecond, FirstHalf, SecondHalf
<1>8. AnswerInv'
  <2>1. pc' \in {"sendID", "ask"} /\ (pc' = "ask" => turn' = 1)
    BY DEF ServedThen
  <2> QED  BY <2>1, NoneServed DEF AnswerInv
<1>9. ThroughputInv'
  BY DEF ServedThen, ThroughputInv, Stored, SecondHalf
<1>10. ResultsInv'
  BY DEF ServedThen, ResultsInv, FirstHalf, SecondHalf
<1>11. ChannelInv'
  BY DEF ServedThen, ChannelInv, Idle
<1> QED  BY <1>1, <1>2, <1>3, <1>4, <1>5, <1>6, <1>7, <1>8, <1>9, <1>10, <1>11 DEF
   IndInv

(* The server's permission is for the first replay.                        *)
LEMMA Ask4PermissionIndInv ==
  ASSUME IndInv, NEW s \in Servers, Ask4Permission(s)
  PROVE  IndInv'
<1> USE DEF IndInv, toVars, serverVars, dataVars, Ask4Permission, Notes, Permitted
<1>1. StepType'
  BY OrchestratorAssumption, ServedCases DEF StepType, Servers, Idle, FirstHalf,
     SecondHalf
<1>2. FieldType'
  BY DEF FieldType
<1>3. ServerType'
  BY TypeOrder DEF FieldType, ServerType, Phases, Names
<1>4. ResultType'
  BY DEF ResultType
<1>5. ReplayInv'
  BY DEF ServedThen, ReplayInv, FirstHalf, SecondHalf
<1>6. SessionInv'
  <2>1. pc = "ask" /\ turn \in Servers /\ ServedThen("replay1")
    BY DEF StepType
  <2>2. \A r \in Servers : session[r] = IF r < turn THEN "permitted1" ELSE "identified"
    BY <2>1 DEF SessionInv, SessionsAt
  <2>3. \A r \in Servers : session'[r] = IF r = turn THEN "permitted1" ELSE session[r]
    BY DEF ServerType
  <2> HIDE DEF IndInv, Ask4Permission
  <2>4. \/ pc' = "replay1" /\ turn' = 1 /\ \A r \in Servers : session'[r] = "permitted1"
        \/ /\ pc' = "ask"
           /\ \A r \in Servers : session'[r] = IF r < turn' THEN "permitted1" ELSE "identified"
    BY <2>1, <2>2, <2>3, ServedCases
  <2> QED  BY <2>4, NoneServed DEF SessionInv, SessionsAt, Idle
<1>7. ToldInv'
  BY ServedCases DEF StepType, ServerType, ToldInv, ToldFirst, ToldSecond
<1>8. AnswerInv'
  BY OrchestratorAssumption, TypeOrder, ServedCases, NoneServed DEF StepType,
     ServerType, ReplayInv, AnswerInv, Servers, Idle, FirstHalf, SecondHalf
<1>9. ThroughputInv'
  BY DEF ServedThen, ThroughputInv, Stored, SecondHalf
<1>10. ResultsInv'
  BY DEF ServedThen, ResultsInv, FirstHalf, SecondHalf
<1>11. ChannelInv'
  BY DEF ServedThen, ChannelInv, Idle
<1> QED  BY <1>1, <1>2, <1>3, <1>4, <1>5, <1>6, <1>7, <1>8, <1>9, <1>10, <1>11 DEF
   IndInv

(* A replay serves all servers at once.                                    *)
LEMMA SendAndReceivePacketsIndInv ==
  ASSUME IndInv, SendAndReceivePackets
  PROVE  IndInv'
<1> USE DEF IndInv, toVars, serverVars, dataVars, SendAndReceivePackets, RunReplay
<1>1. StepType'
  BY DEF StepType, Idle, FirstHalf, SecondHalf
<1>2. FieldType'
  BY DEF FieldType
<1>3. ServerType'
  BY DEF ServerType, Phases
<1>4. ResultType'
  BY DEF ResultType
<1>5. ReplayInv'
  BY DEF ReplayInv, FirstHalf, SecondHalf
<1>6. SessionInv'
  BY NoneServed DEF SessionInv, SessionsAt, Idle
<1>7. ToldInv'
  BY DEF ToldInv, ToldFirst, ToldSecond
<1>8. AnswerInv'
  BY DEF AnswerInv
<1>9. ThroughputInv'
  <2>1. turn = 1 /\ (pc' = "report1" \/ (pc = "replay2" /\ pc' = "report2"))
    BY DEF SessionInv
  <2> QED  BY <2>1 DEF ThroughputInv, Stored, SecondHalf
<1>10. ResultsInv'
  BY DEF ResultsInv, FirstHalf, SecondHalf
<1>11. ChannelInv'
  BY DEF ChannelInv, Idle
<1> QED  BY <1>1, <1>2, <1>3, <1>4, <1>5, <1>6, <1>7, <1>8, <1>9, <1>10, <1>11 DEF
   IndInv

(* A replay that fails ends the test.                                      *)
LEMMA ReplayFailsIndInv ==
  ASSUME IndInv, ReplayFails
  PROVE  IndInv'
<1> USE DEF IndInv, toVars, serverVars, dataVars, ReplayFails, Abort
<1>1. StepType'
  BY NoneServed DEF StepType, Idle, FirstHalf, SecondHalf
<1>2. FieldType'
  BY DEF FieldType
<1>3. ServerType'
  BY DEF ServerType, Phases
<1>4. ResultType'
  BY DEF ResultType
<1>5. ReplayInv'
  BY DEF ReplayInv, FirstHalf, SecondHalf
<1>6. SessionInv'
  BY DEF SessionInv, SessionsAt, Idle
<1>7. ToldInv'
  BY DEF ToldInv, ToldFirst, ToldSecond
<1>8. AnswerInv'
  BY DEF AnswerInv
<1>9. ThroughputInv'
  BY DEF ThroughputInv, Stored, SecondHalf
<1>10. ResultsInv'
  BY DEF ResultsInv, FirstHalf, SecondHalf
<1>11. ChannelInv'
  BY DEF ChannelInv, Idle
<1> QED  BY <1>1, <1>2, <1>3, <1>4, <1>5, <1>6, <1>7, <1>8, <1>9, <1>10, <1>11 DEF
   IndInv

(* The first server stores the throughput; the others find it there.       *)
LEMMA SendThroughputsIndInv ==
  ASSUME IndInv, NEW s \in Servers, SendThroughputs(s)
  PROVE  IndInv'
<1> USE DEF IndInv, toVars, serverVars, dataVars, SendThroughputs, Report, Notes
<1>1. StepType'
  BY OrchestratorAssumption, ServedCases DEF StepType, Servers, Idle, FirstHalf,
     SecondHalf
<1>2. FieldType'
  BY DEF FieldType
<1>3. ServerType'
  BY DEF ServerType, Phases
<1>4. ResultType'
  BY TypeOrder DEF FieldType, ResultType, Names
<1>5. ReplayInv'
  BY DEF ServedThen, ReplayInv, FirstHalf, SecondHalf
<1>6. SessionInv'
  <2>1. CASE Report(s, "report1", "load2", "reported1")
    <3>1. pc = "report1" /\ turn \in Servers /\ ServedThen("load2")
      BY <2>1 DEF StepType
    <3>2. \A r \in Servers : session[r] = IF r < turn THEN "reported1" ELSE "replayed1"
      BY <3>1 DEF SessionInv, SessionsAt
    <3>3. \A r \in Servers : session'[r] = IF r = turn THEN "reported1" ELSE session[r]
      BY <2>1 DEF ServerType
    <3> HIDE DEF IndInv, SendThroughputs, Report
    <3>4. \/ pc' = "load2" /\ turn' = 1 /\ \A r \in Servers : session'[r] = "reported1"
          \/ /\ pc' = "report1"
             /\ \A r \in Servers : session'[r] = IF r < turn' THEN "reported1" ELSE "replayed1"
      BY <3>1, <3>2, <3>3, ServedCases
    <3> QED  BY <3>4, NoneServed DEF SessionInv, SessionsAt, Idle
  <2>2. CASE Report(s, "report2", "analyze", "reported2")
    <3>1. pc = "report2" /\ turn \in Servers /\ ServedThen("analyze")
      BY <2>2 DEF StepType
    <3>2. \A r \in Servers : session[r] = IF r < turn THEN "reported2" ELSE "replayed2"
      BY <3>1 DEF SessionInv, SessionsAt
    <3>3. \A r \in Servers : session'[r] = IF r = turn THEN "reported2" ELSE session[r]
      BY <2>2 DEF ServerType
    <3> HIDE DEF IndInv, SendThroughputs, Report
    <3>4. \/ pc' = "analyze" /\ turn' = 1 /\ \A r \in Servers : session'[r] = "reported2"
          \/ /\ pc' = "report2"
             /\ \A r \in Servers : session'[r] = IF r < turn' THEN "reported2" ELSE "replayed2"
      BY <3>1, <3>2, <3>3, ServedCases
    <3> QED  BY <3>4, NoneServed DEF SessionInv, SessionsAt, Idle
  <2> QED  BY <2>1, <2>2
<1>7. ToldInv'
  BY ServedCases DEF StepType, ServerType, ToldInv, ToldFirst, ToldSecond, SecondHalf
<1>8. AnswerInv'
  BY ServedCases, NoneServed DEF StepType, ServerType, ReplayInv, AnswerInv, FirstHalf,
     SecondHalf
<1>9. ThroughputInv'
  BY OrchestratorAssumption, TypeOrder, ServedCases DEF StepType, FieldType, ResultType,
     ReplayInv, ThroughputInv, Stored, Idle, FirstHalf, SecondHalf
<1>10. ResultsInv'
  BY DEF ServedThen, ResultsInv, FirstHalf, SecondHalf
<1>11. ChannelInv'
  BY DEF ServedThen, ChannelInv, Idle
<1> QED  BY <1>1, <1>2, <1>3, <1>4, <1>5, <1>6, <1>7, <1>8, <1>9, <1>10, <1>11 DEF
   IndInv

(* replayID, isLastReplay and the file advance together.                   *)
LEMMA LoadSecondReplayIndInv ==
  ASSUME IndInv, LoadSecondReplay
  PROVE  IndInv'
<1> USE DEF IndInv, toVars, serverVars, dataVars, LoadSecondReplay
<1>1. StepType'
  BY DEF StepType, Idle, FirstHalf, SecondHalf
<1>2. FieldType'
  BY TypeOrder DEF FieldType, ReplayInv, Names, FirstHalf, SecondHalf
<1>3. ServerType'
  BY DEF ServerType
<1>4. ResultType'
  BY DEF ResultType
<1>5. ReplayInv'
  BY DEF ReplayInv, FirstHalf, SecondHalf
<1>6. SessionInv'
  BY OrchestratorAssumption, TypeOrder, NoneServed DEF StepType, ServerType, SessionInv,
     SessionsAt, Idle, FirstHalf, SecondHalf
<1>7. ToldInv'
  <2>1. pc' = "declare" /\ turn' = 1
    BY DEF SessionInv
  <2> QED  BY <2>1, NoneServed DEF ToldInv
<1>8. AnswerInv'
  <2>1. pc' = "declare" /\ turn' = 1
    BY DEF SessionInv
  <2> QED  BY <2>1, NoneServed DEF AnswerInv
<1>9. ThroughputInv'
  BY DEF ThroughputInv, Stored, SecondHalf
<1>10. ResultsInv'
  BY DEF ResultsInv, FirstHalf, SecondHalf
<1>11. ChannelInv'
  BY DEF ChannelInv, Idle
<1> QED  BY <1>1, <1>2, <1>3, <1>4, <1>5, <1>6, <1>7, <1>8, <1>9, <1>10, <1>11 DEF
   IndInv

(* The second replay cannot be loaded; the test ends.                      *)
LEMMA LoadSecondReplayFailsIndInv ==
  ASSUME IndInv, LoadSecondReplayFails
  PROVE  IndInv'
<1> USE DEF IndInv, toVars, serverVars, dataVars, LoadSecondReplayFails, Abort
<1>1. StepType'
  BY NoneServed, ReadOutcomes DEF StepType, Idle, FirstHalf, SecondHalf
<1>2. FieldType'
  BY DEF FieldType, ReplayInv, FirstHalf, SecondHalf
<1>3. ServerType'
  BY DEF ServerType
<1>4. ResultType'
  BY DEF ResultType
<1>5. ReplayInv'
  BY DEF ReplayInv, FirstHalf, SecondHalf
<1>6. SessionInv'
  BY DEF SessionInv, SessionsAt, Idle
<1>7. ToldInv'
  BY DEF ToldInv, ToldFirst, ToldSecond
<1>8. AnswerInv'
  BY DEF AnswerInv
<1>9. ThroughputInv'
  BY OrchestratorAssumption, TypeOrder, ReadOutcomes DEF StepType, FieldType,
     ResultType, ReplayInv, ThroughputInv, Stored, Idle, FirstHalf, SecondHalf
<1>10. ResultsInv'
  BY OrchestratorAssumption, TypeOrder, ReadOutcomes DEF StepType, ResultType,
     ResultsInv, Servers, Idle, FirstHalf, SecondHalf
<1>11. ChannelInv'
  BY DEF ChannelInv, Idle
<1> QED  BY <1>1, <1>2, <1>3, <1>4, <1>5, <1>6, <1>7, <1>8, <1>9, <1>10, <1>11 DEF
   IndInv

(* The server is told the second replay, and permits it.                   *)
LEMMA DeclareReplayIndInv ==
  ASSUME IndInv, NEW s \in Servers, DeclareReplay(s)
  PROVE  IndInv'
<1> USE DEF IndInv, toVars, serverVars, dataVars, DeclareReplay, Notes, Tell, Permitted
<1>1. StepType'
  BY OrchestratorAssumption, ServedCases DEF StepType, Servers, Idle, FirstHalf,
     SecondHalf
<1>2. FieldType'
  BY DEF FieldType
<1>3. ServerType'
  BY TypeOrder DEF FieldType, ServerType, Phases, Names
<1>4. ResultType'
  BY DEF ResultType
<1>5. ReplayInv'
  BY DEF ServedThen, ReplayInv, FirstHalf, SecondHalf
<1>6. SessionInv'
  <2>1. pc = "declare" /\ turn \in Servers /\ ServedThen("replay2")
    BY DEF StepType
  <2>2. \A r \in Servers : session[r] = IF r < turn THEN "permitted2" ELSE "reported1"
    BY <2>1 DEF SessionInv, SessionsAt
  <2>3. \A r \in Servers : session'[r] = IF r = turn THEN "permitted2" ELSE session[r]
    BY DEF ServerType
  <2> HIDE DEF IndInv, DeclareReplay
  <2>4. \/ pc' = "replay2" /\ turn' = 1 /\ \A r \in Servers : session'[r] = "permitted2"
        \/ /\ pc' = "declare"
           /\ \A r \in Servers : session'[r] = IF r < turn' THEN "permitted2" ELSE "reported1"
    BY <2>1, <2>2, <2>3, ServedCases
  <2> QED  BY <2>4, NoneServed DEF SessionInv, SessionsAt, Idle
<1>7. ToldInv'
  BY ServedCases, NoneServed DEF StepType, ServerType, ReplayInv, ToldInv, ToldFirst,
     ToldSecond, FirstHalf, SecondHalf
<1>8. AnswerInv'
  BY OrchestratorAssumption, TypeOrder, ServedCases, NoneServed DEF StepType,
     ServerType, ReplayInv, AnswerInv, Servers, Idle, FirstHalf, SecondHalf
<1>9. ThroughputInv'
  BY DEF ServedThen, ThroughputInv, Stored, SecondHalf
<1>10. ResultsInv'
  BY DEF ServedThen, ResultsInv, FirstHalf, SecondHalf
<1>11. ChannelInv'
  BY DEF ServedThen, ChannelInv, Idle
<1> QED  BY <1>1, <1>2, <1>3, <1>4, <1>5, <1>6, <1>7, <1>8, <1>9, <1>10, <1>11 DEF
   IndInv

(* Each server adds one result, after those of the servers before.         *)
LEMMA AnalyzeTestIndInv ==
  ASSUME IndInv, NEW s \in Servers, AnalyzeTest(s)
  PROVE  IndInv'
<1> USE DEF IndInv, toVars, serverVars, dataVars, AnalyzeTest, Notes, DetermineDifferentiation
<1>1. StepType'
  BY OrchestratorAssumption, ServedCases DEF StepType, Servers, Idle, FirstHalf,
     SecondHalf
<1>2. FieldType'
  BY DEF FieldType
<1>3. ServerType'
  BY DEF ServerType, Phases
<1>4. ResultType'
  <2>1. PICK ks2Result \in KS2Results : DetermineDifferentiation(s, ks2Result)
    OBVIOUS
  <2>2. areaTestThreshold' \in {AreaThreshold, 30}
    BY <2>1 DEF FieldType
  <2>3. [host |-> s, ks2 |-> ks2Result, areaThreshold |-> areaTestThreshold',
         result |-> Status(ks2Result, areaTestThreshold')] \in Results
    BY <2>2 DEF Results, Status
  <2> QED  BY <2>1, <2>3 DEF ResultType
<1>5. ReplayInv'
  BY DEF ServedThen, ReplayInv, FirstHalf, SecondHalf
<1>6. SessionInv'
  <2>1. pc = "analyze" /\ turn \in Servers /\ ServedThen("cleanUp")
    BY DEF StepType
  <2>2. \A r \in Servers : session[r] = IF r < turn THEN "analyzed" ELSE "reported2"
    BY <2>1 DEF SessionInv, SessionsAt
  <2>3. \A r \in Servers : session'[r] = IF r = turn THEN "analyzed" ELSE session[r]
    BY DEF ServerType
  <2> HIDE DEF IndInv, AnalyzeTest
  <2>4. \/ pc' = "cleanUp" /\ turn' = 1 /\ \A r \in Servers : session'[r] = "analyzed"
        \/ /\ pc' = "analyze"
           /\ \A r \in Servers : session'[r] = IF r < turn' THEN "analyzed" ELSE "reported2"
    BY <2>1, <2>2, <2>3, ServedCases
  <2> QED  BY <2>4, NoneServed DEF SessionInv, SessionsAt, Idle
<1>7. ToldInv'
  BY ServedCases DEF StepType, ServerType, ToldInv, ToldFirst, ToldSecond, SecondHalf
<1>8. AnswerInv'
  BY ServedCases, NoneServed DEF StepType, ServerType, ReplayInv, AnswerInv, FirstHalf,
     SecondHalf
<1>9. ThroughputInv'
  <2>1. pc = "analyze" /\ UNCHANGED <<throughput, replayTypes, outcome>>
    OBVIOUS
  <2>2. pc' \in {"analyze", "cleanUp"}
    BY <2>1 DEF ServedThen
  <2>3. Stored(1) /\ Stored(2)
    BY <2>1 DEF ThroughputInv, SecondHalf
  <2> HIDE DEF IndInv, AnalyzeTest
  <2> QED  BY <2>1, <2>2, <2>3 DEF ThroughputInv, Stored
<1>10. ResultsInv'
  BY OrchestratorAssumption, TypeOrder, ServedCases DEF StepType, ResultType,
     ResultsInv, Servers, Idle, FirstHalf, SecondHalf
<1>11. ChannelInv'
  BY DEF ServedThen, ChannelInv, Idle
<1> QED  BY <1>1, <1>2, <1>3, <1>4, <1>5, <1>6, <1>7, <1>8, <1>9, <1>10, <1>11 DEF
   IndInv

(* A request that fails, or an answer that panics, ends the test.          *)
LEMMA RequestFailsIndInv ==
  ASSUME IndInv, NEW s \in Servers, RequestFails(s)
  PROVE  IndInv'
<1> USE DEF IndInv, toVars, serverVars, dataVars, RequestFails, Abort, Notes
<1>1. StepType'
  BY NoneServed, ResponseOutcomes DEF StepType, Idle, FirstHalf, SecondHalf
<1>2. FieldType'
  BY DEF FieldType
<1>3. ServerType'
  BY DEF ServerType, Phases
<1>4. ResultType'
  BY DEF ResultType
<1>5. ReplayInv'
  BY DEF ReplayInv, FirstHalf, SecondHalf
<1>6. SessionInv'
  BY DEF SessionInv, SessionsAt, Idle
<1>7. ToldInv'
  BY DEF ToldInv, ToldFirst, ToldSecond, SecondHalf
<1>8. AnswerInv'
  BY DEF AnswerInv
<1>9. ThroughputInv'
  BY OrchestratorAssumption, TypeOrder, ResponseOutcomes DEF StepType, FieldType,
     ResultType, ReplayInv, ThroughputInv, Stored, Idle, FirstHalf, SecondHalf
<1>10. ResultsInv'
  BY OrchestratorAssumption, TypeOrder, ResponseOutcomes DEF StepType, ResultType,
     ResultsInv, Servers, Idle, FirstHalf, SecondHalf
<1>11. ChannelInv'
  BY DEF ChannelInv, Idle
<1> QED  BY <1>1, <1>2, <1>3, <1>4, <1>5, <1>6, <1>7, <1>8, <1>9, <1>10, <1>11 DEF
   IndInv

(* A test that waits for ever keeps what it has.                           *)
LEMMA BlockedIndInv ==
  ASSUME IndInv, Blocked
  PROVE  IndInv'
<1> USE DEF IndInv, toVars, serverVars, dataVars, Blocked
<1>1. StepType'
  BY DEF StepType, Idle, FirstHalf, SecondHalf
<1>2. FieldType'
  BY DEF FieldType
<1>3. ServerType'
  BY DEF ServerType
<1>4. ResultType'
  BY DEF ResultType
<1>5. ReplayInv'
  BY DEF ReplayInv, FirstHalf, SecondHalf
<1>6. SessionInv'
  BY DEF SessionInv, SessionsAt, Idle
<1>7. ToldInv'
  BY DEF ToldInv, ToldFirst, ToldSecond, SecondHalf
<1>8. AnswerInv'
  BY DEF AnswerInv
<1>9. ThroughputInv'
  BY DEF ThroughputInv, Stored, SecondHalf
<1>10. ResultsInv'
  BY DEF ResultsInv, FirstHalf, SecondHalf
<1>11. ChannelInv'
  BY DEF ChannelInv, Idle
<1> QED  BY <1>1, <1>2, <1>3, <1>4, <1>5, <1>6, <1>7, <1>8, <1>9, <1>10, <1>11 DEF
   IndInv

(* All channels and websockets that are open get closed.                   *)
LEMMA CleanUpIndInv ==
  ASSUME IndInv, CleanUp
  PROVE  IndInv'
<1> USE DEF IndInv, toVars, serverVars, dataVars, CleanUp, CloseAll, Closed
<1>1. StepType'
  BY DEF StepType, Idle, FirstHalf, SecondHalf
<1>2. FieldType'
  BY DEF FieldType
<1>3. ServerType'
  BY DEF ServerType, Phases
<1>4. ResultType'
  BY DEF ResultType
<1>5. ReplayInv'
  BY DEF ReplayInv, FirstHalf, SecondHalf
<1>6. SessionInv'
  BY DEF SessionInv, SessionsAt, Idle
<1>7. ToldInv'
  BY DEF ToldInv, ToldFirst, ToldSecond, SecondHalf
<1>8. AnswerInv'
  BY DEF AnswerInv
<1>9. ThroughputInv'
  BY DEF ThroughputInv, Stored, SecondHalf
<1>10. ResultsInv'
  BY DEF ResultsInv, FirstHalf, SecondHalf
<1>11. ChannelInv'
  BY DEF ChannelInv, Idle
<1> QED  BY <1>1, <1>2, <1>3, <1>4, <1>5, <1>6, <1>7, <1>8, <1>9, <1>10, <1>11 DEF
   IndInv

(* What a test has opened is closed when it returns.                       *)
LEMMA ReturnIndInv ==
  ASSUME IndInv, Return
  PROVE  IndInv'
<1> USE DEF IndInv, toVars, serverVars, dataVars, Return
<1>1. StepType'
  BY DEF StepType, Idle, FirstHalf, SecondHalf
<1>2. FieldType'
  BY DEF FieldType
<1>3. ServerType'
  BY DEF ServerType
<1>4. ResultType'
  BY DEF ResultType
<1>5. ReplayInv'
  BY DEF ReplayInv, FirstHalf, SecondHalf
<1>6. SessionInv'
  BY DEF SessionInv, SessionsAt, Idle
<1>7. ToldInv'
  BY DEF ToldInv, ToldFirst, ToldSecond, SecondHalf
<1>8. AnswerInv'
  BY DEF AnswerInv
<1>9. ThroughputInv'
  BY DEF ThroughputInv, Stored, SecondHalf
<1>10. ResultsInv'
  BY DEF ResultsInv, FirstHalf, SecondHalf
<1>11. ChannelInv'
  BY DEF ChannelInv, Idle
<1> QED  BY <1>1, <1>2, <1>3, <1>4, <1>5, <1>6, <1>7, <1>8, <1>9, <1>10, <1>11 DEF
   IndInv

(* The deferred clean-ups close what is left.                              *)
LEMMA LeaveIndInv ==
  ASSUME IndInv, Leave
  PROVE  IndInv'
<1> USE DEF IndInv, toVars, serverVars, dataVars, Leave, CloseAll, Closed
<1>1. StepType'
  BY DEF StepType, Idle, FirstHalf, SecondHalf
<1>2. FieldType'
  BY DEF FieldType
<1>3. ServerType'
  BY DEF ServerType, Phases
<1>4. ResultType'
  BY DEF ResultType
<1>5. ReplayInv'
  BY DEF ReplayInv, FirstHalf, SecondHalf
<1>6. SessionInv'
  BY DEF SessionInv, SessionsAt, Idle
<1>7. ToldInv'
  BY DEF ToldInv, ToldFirst, ToldSecond, SecondHalf
<1>8. AnswerInv'
  BY DEF AnswerInv
<1>9. ThroughputInv'
  BY DEF ThroughputInv, Stored, SecondHalf
<1>10. ResultsInv'
  BY DEF ResultsInv, FirstHalf, SecondHalf
<1>11. ChannelInv'
  BY DEF ChannelInv, Idle
<1> QED  BY <1>1, <1>2, <1>3, <1>4, <1>5, <1>6, <1>7, <1>8, <1>9, <1>10, <1>11 DEF
   IndInv

(* The invariant holds of the initial states and is kept by every step.    *)
LEMMA InitIndInv == Init => IndInv
<1> SUFFICES ASSUME Init PROVE IndInv
  OBVIOUS
<1> USE DEF Init
<1>1. StepType
  BY OrchestratorAssumption DEF StepType, Servers, Idle
<1>2. FieldType
  BY DEF FieldType, Names
<1>3. ServerType
  BY OrchestratorAssumption DEF ServerType, Phases, Names
<1>4. ResultType
  BY DEF ResultType
<1>5. ReplayInv
  BY DEF ReplayInv, FirstHalf, SecondHalf
<1>6. SessionInv
  BY DEF SessionInv, SessionsAt
<1>7. ToldInv /\ AnswerInv
  BY DEF ToldInv, AnswerInv
<1>8. ThroughputInv
  BY DEF ThroughputInv, SecondHalf
<1>9. ResultsInv
  BY OrchestratorAssumption DEF ResultsInv, FirstHalf, SecondHalf
<1>10. ChannelInv
  BY DEF ChannelInv
<1> QED  BY <1>1, <1>2, <1>3, <1>4, <1>5, <1>6, <1>7, <1>8, <1>9, <1>10 DEF IndInv

(* Nothing changes.                                                        *)
LEMMA StutterIndInv ==
  ASSUME IndInv, UNCHANGED vars
  PROVE  IndInv'
<1> USE DEF vars, toVars, serverVars, dataVars
<1>1. StepType' /\ FieldType' /\ ServerType' /\ ResultType'
  BY DEF IndInv, StepType, FieldType, ServerType, ResultType
<1>2. ReplayInv' /\ ToldInv' /\ AnswerInv'
  BY DEF IndInv, ReplayInv, ToldInv, ToldFirst, ToldSecond, AnswerInv
<1>3. SessionInv'
  BY DEF IndInv, SessionInv, SessionsAt
<1>4. ThroughputInv' /\ ResultsInv' /\ ChannelInv'
  BY DEF IndInv, ThroughputInv, Stored, ResultsInv, ChannelInv
<1> QED  BY <1>1, <1>2, <1>3, <1>4 DEF IndInv

(* Every action keeps the invariant.                                      *)
LEMMA NextIndInv == IndInv /\ [Next]_vars => IndInv'
<1> SUFFICES ASSUME IndInv, [Next]_vars PROVE IndInv'
  OBVIOUS
<1>1. CASE StartTest \/ LoadFirstReplay \/ LoadFirstReplayFails
  BY <1>1, StartTestIndInv, LoadFirstReplayIndInv, LoadFirstReplayFailsIndInv
<1>2. ASSUME NEW s \in Servers,
             \/ Connect(s) \/ ConnectFails(s) \/ SendID(s) \/ Ask4Permission(s)
             \/ SendThroughputs(s) \/ DeclareReplay(s) \/ AnalyzeTest(s) \/ RequestFails(s)
      PROVE  IndInv'
  BY <1>2, ConnectIndInv, ConnectFailsIndInv, SendIDIndInv, Ask4PermissionIndInv,
     SendThroughputsIndInv, DeclareReplayIndInv, AnalyzeTestIndInv, RequestFailsIndInv
<1>3. CASE SendAndReceivePackets \/ ReplayFails \/ LoadSecondReplay \/ LoadSecondReplayFails
  BY <1>3, SendAndReceivePacketsIndInv, ReplayFailsIndInv, LoadSecondReplayIndInv,
     LoadSecondReplayFailsIndInv
<1>4. CASE Blocked \/ CleanUp \/ Return \/ Leave
  BY <1>4, BlockedIndInv, CleanUpIndInv, ReturnIndInv, LeaveIndInv
<1>5. CASE Exited \/ UNCHANGED vars
  BY <1>5, StutterIndInv DEF Exited
<1> QED  BY <1>1, <1>2, <1>3, <1>4, <1>5 DEF Next

(* The invariant holds in every state the client reaches.                  *)
THEOREM Invariance == Spec => []IndInv
BY InitIndInv, NextIndInv, PTL DEF Spec

(* Every variable keeps its type, and there is never more than one result  *)
(* per server (Run of testorchestrator.go).                                *)
THEOREM TypeCorrectness == Spec => []TypeOK
<1>1. IndInv => TypeOK
  BY TypeOrder DEF IndInv, TypeOK, StepType, FieldType, ServerType, ResultsInv, Idle,
     FirstHalf, SecondHalf
<1> QED  BY <1>1, Invariance, PTL

(* A replay is run only with all servers agreed to it: Run of              *)
(* testorchestrator.go advances replayID, loads the file and declares the  *)
(* replay in an order that keeps the three together.                       *)
THEOREM Agreement == Spec => []ReplayAgreed
<1>1. IndInv => ReplayAgreed
  <2> SUFFICES ASSUME IndInv, pc \in {"replay1", "replay2"}, NEW s \in Servers
               PROVE  /\ session[s] = IF pc = "replay1" THEN "permitted1" ELSE "permitted2"
                      /\ told[s] = [type |-> replayInfo, name |-> replayInfo,
                                    last |-> pc = "replay2", test |-> test]
    BY DEF ReplayAgreed
  <2>1. ~(s < turn)
    BY NoneServed DEF IndInv, SessionInv
  <2>2. CASE pc = "replay1"
    BY <2>1, <2>2 DEF IndInv, ReplayInv, SessionInv, SessionsAt, ToldInv, ToldFirst,
       FirstHalf
  <2>3. CASE pc = "replay2"
    BY <2>1, <2>3 DEF IndInv, ReplayInv, SessionInv, SessionsAt, ToldInv, ToldSecond,
       SecondHalf
  <2> QED  BY <2>2, <2>3
<1> QED  BY <1>1, Invariance, PTL

(* A replay is run on permissions for this replay, and with the number of  *)
(* samples of the last server that gave one.                               *)
THEOREM CurrentPermissions == Spec => []PermissionsCurrent
<1>1. IndInv => PermissionsCurrent
  <2>1. NumServers \in Servers
    BY OrchestratorAssumption DEF Servers
  <2> QED  BY <2>1 DEF IndInv, PermissionsCurrent, ReplayInv, AnswerInv, FirstHalf, SecondHalf
<1> QED  BY <1>1, Invariance, PTL

(* A test that succeeds has stored both throughputs (SendThroughputs).      *)
THEOREM CompleteThroughputs == Spec => []ThroughputsComplete
<1>1. IndInv => ThroughputsComplete
  <2> SUFFICES ASSUME IndInv, pc = "returned", outcome = "nil", NEW type \in ReplayTypes
               PROVE  throughput[type] = type
    BY DEF ThroughputsComplete
  <2>1. Stored(1) /\ Stored(2)
    BY DEF IndInv, ThroughputInv
  <2>2. type = replayTypes[1] \/ type = replayTypes[2]
    BY DEF IndInv, FieldType, ReplayTypes
  <2> QED  BY <2>1, <2>2 DEF Stored
<1> QED  BY <1>1, Invariance, PTL

(* The results of a test that succeeds are those of the servers, one each  *)
(* and in their order (AnalyzeTest).                                       *)
THEOREM CompleteResults == Spec => []ResultsComplete
<1>1. IndInv => ResultsComplete
  BY DEF IndInv, ResultsComplete, ResultsInv, Servers
<1> QED  BY <1>1, Invariance, PTL

(* No side channel outlives its test: Run of testorchestrator.go defers    *)
(* cleanUp before it connects.                                             *)
THEOREM ReleasedChannels == Spec => []ChannelsReleased
<1>1. IndInv => ChannelsReleased
  BY DEF IndInv, ChannelsReleased, ChannelInv, Idle
<1> QED  BY <1>1, Invariance, PTL

(* The replay files enumerated are among those of theorem Reading, so a    *)
(* file is read just if a replay can be made of it (ParseReplayJSON).      *)
THEOREM FilesRead == Spec => []ReadIffWellFormed
<1>1. ASSUME NEW n \in Nat, NEW S PROVE UpTo(n, S) \subseteq Seq(S)
  <2> SUFFICES ASSUME NEW k \in 0 .. n, NEW s \in [1 .. k -> S] PROVE s \in Seq(S)
    BY DEF UpTo
  <2>1. k \in Nat
    OBVIOUS
  <2> QED  BY <2>1
<1>2. UpTo(2, Packets) \subseteq Seq(Packets) /\ UpTo(1, CSPairs) \subseteq Seq(CSPairs)
  BY <1>1
<1>3. ReplayFiles \subseteq AnyFile
  BY <1>2 DEF ReplayFiles, AnyFile
<1>4. ReadIffWellFormed
  BY <1>3, Reading DEF ReadIffWellFormed, Readable, Replayable
<1> QED  BY <1>4, PTL

-----------------------------------------------------------------------------
(***************************************************************************)
(* When two promises are kept that the code does not keep in general.      *)
(***************************************************************************)

(* Until a result has been noted, and for good where the default switch is *)
(* off, the threshold is the one configured.                               *)
ThresholdInv ==
  /\ pc # "nextTest" /\ (~UseDefaultThresholds \/ testResults = <<>>)
       => areaTestThreshold = AreaThreshold
  /\ ThresholdOfResult

(* Only a result over 10 Mbps changes the threshold for those after it.    *)
LEMMA ThresholdStep ==
  ASSUME NumServers = 1 \/ ~UseDefaultThresholds, IndInv, ThresholdInv, [Next]_vars
  PROVE  ThresholdInv'
<1> USE DEF ThresholdInv, ThresholdOfResult, toVars, serverVars, dataVars
<1>1. CASE StartTest
  BY <1>1 DEF StartTest, NewTestOrchestrator
<1>2. ASSUME NEW s \in Servers, AnalyzeTest(s)
      PROVE  ThresholdInv'
  <2>1. PICK ks2Result \in KS2Results : DetermineDifferentiation(s, ks2Result)
    BY <1>2 DEF AnalyzeTest
  <2> DEFINE threshold == IF UseDefaultThresholds /\ ks2Result.over10Mbps THEN 30
                          ELSE areaTestThreshold
             new == [host |-> s, ks2 |-> ks2Result, areaThreshold |-> threshold,
                     result |-> Status(ks2Result, threshold)]
  <2>2. /\ pc = "analyze" /\ areaTestThreshold' = threshold
        /\ testResults' = Append(testResults, new)
    BY <1>2, <2>1 DEF AnalyzeTest, DetermineDifferentiation
  <2>3. testResults \in Seq(Results) /\ Len(testResults) = turn - 1 /\ turn \in Servers
    BY <2>2 DEF IndInv, ResultType, ResultsInv, StepType
  <2>4. areaTestThreshold = AreaThreshold
    <3>1. CASE NumServers = 1
      <4>1. Len(testResults) = 0
        BY <2>3, <3>1 DEF Servers
      <4>2. testResults = <<>>
        BY <2>3, <4>1
      <4> QED  BY <2>2, <4>2
    <3>2. CASE ~UseDefaultThresholds
      BY <2>2, <3>2
    <3> QED  BY <3>1, <3>2
  <2>5. ~ks2Result.over10Mbps \/ ~UseDefaultThresholds => new.areaThreshold = AreaThreshold
    BY <2>4
  <2>6. /\ Len(testResults') = Len(testResults) + 1 /\ Len(testResults) \in Nat
        /\ testResults'[Len(testResults) + 1] = new /\ new.ks2 = ks2Result
        /\ \A i \in 1 .. Len(testResults) : testResults'[i] = testResults[i]
    BY <2>2, <2>3
  <2> HIDE DEF new
  <2>7. \A i \in 1 .. Len(testResults') :
          ~testResults'[i].ks2.over10Mbps => testResults'[i].areaThreshold = AreaThreshold
    BY <2>5, <2>6
  <2>8. testResults' # <<>>
    BY <2>6
  <2>9. ~UseDefaultThresholds => areaTestThreshold' = AreaThreshold
    BY <2>2, <2>4
  <2> QED  BY <2>7, <2>8, <2>9
<1>3. CASE UNCHANGED vars
  BY <1>3 DEF vars
<1>4. CASE Next /\ ~StartTest /\ ~\E s \in Servers : AnalyzeTest(s)
  <2>1. UNCHANGED <<areaTestThreshold, testResults>> /\ (pc = "nextTest" => pc' = "nextTest")
    BY <1>4
       DEF Next, LoadFirstReplay, LoadFirstReplayFails, Connect, ConnectFails, SendID,
           Ask4Permission, SendThroughputs, Report, DeclareReplay, RequestFails,
           SendAndReceivePackets, RunReplay, ReplayFails, LoadSecondReplay,
           LoadSecondReplayFails, Blocked, CleanUp, Return, Leave, Exited, vars
  <2> QED  BY <2>1
<1> QED  BY <1>1, <1>2, <1>3, <1>4

(* The threshold of a result is the one documented on a single server, or  *)
(* with the default switch off; that a run shows it broken takes both the  *)
(* switch and a second server.                                             *)
THEOREM SoundThresholds ==
  ASSUME NumServers = 1 \/ ~UseDefaultThresholds
  PROVE  Spec => []ThresholdOfResult
<1>1. Init => ThresholdInv
  BY DEF Init, ThresholdInv, ThresholdOfResult
<1>2. IndInv /\ ThresholdInv /\ [Next]_vars => ThresholdInv'
  BY ThresholdStep
<1>3. ThresholdInv => ThresholdOfResult
  BY DEF ThresholdInv
<1> QED  BY <1>1, <1>2, <1>3, Invariance, PTL DEF Spec

(* The first clean-up of a client that closes websockets is that of its    *)
(* first test, after which there is no other.                              *)
WebsocketInv ==
  /\ pc # "nextTest" => test >= 1
  /\ UseMLab /\ pc \notin {"returned", "leave", "exit", "blocked"}
       => test <= 1 /\ \A s \in Servers : websocket[s] = "open"
  /\ ~UseMLab => \A s \in Servers : websocket[s] = "none"

(* What is closed by a clean-up stays closed, and no test follows.         *)
LEMMA WebsocketStep ==
  ASSUME NumTests = 1 \/ ~UseMLab, IndInv, WebsocketInv, [Next]_vars
  PROVE  WebsocketInv'
<1> USE DEF WebsocketInv, toVars, serverVars, dataVars
<1>1. CASE StartTest
  BY <1>1 DEF StartTest, IndInv, StepType
<1>2. CASE CleanUp \/ Leave
  BY <1>2 DEF CleanUp, Leave, CloseAll, Closed, IndInv, StepType, ServerType
<1>3. CASE Return
  BY <1>3 DEF Return, IndInv, StepType
<1>4. CASE UNCHANGED vars
  BY <1>4 DEF vars
<1>5. CASE Next /\ ~StartTest /\ ~CleanUp /\ ~Return /\ ~Leave
  <2>1. /\ UNCHANGED <<test, websocket>>
        /\ \/ pc' = pc
           \/ pc \notin {"nextTest", "returned", "leave", "exit", "blocked"} /\ pc' # "nextTest"
    BY <1>5
       DEF Next, LoadFirstReplay, LoadFirstReplayFails, Connect, ConnectFails, SendID,
           Ask4Permission, SendThroughputs, Report, DeclareReplay, RequestFails, AnalyzeTest,
           SendAndReceivePackets, RunReplay, ReplayFails, LoadSecondReplay, ServedThen, Abort,
           LoadSecondReplayFails, Blocked, Exited, vars
  <2> QED  BY <2>1
<1> QED  BY <1>1, <1>2, <1>3, <1>4, <1>5

(* The websocket of an M-Lab server stays open for a single test, the one  *)
(* whose end closes it; that a run shows it closed takes a second test.    *)
THEOREM WebsocketsOfOneTest ==
  ASSUME NumTests = 1 \/ ~UseMLab
  PROVE  Spec => []WebsocketOpenDuringTest
<1>1. Init => WebsocketInv
  BY DEF Init, WebsocketInv
<1>2. IndInv /\ WebsocketInv /\ [Next]_vars => WebsocketInv'
  BY WebsocketStep
<1>3. WebsocketInv => WebsocketOpenDuringTest
  BY DEF WebsocketInv, WebsocketOpenDuringTest
<1> QED  BY <1>1, <1>2, <1>3, Invariance, PTL DEF Spec

-----------------------------------------------------------------------------
(***************************************************************************)
(* The sessions with the servers keep to module SideChannelSession.        *)
(***************************************************************************)

(* The pairs of phases of a session that follow one another.               *)
LEMMA SessionOrder ==
  ASSUME NEW s,
         \/ session[s] = "connected" /\ session'[s] = "identified"
         \/ session[s] = "identified" /\ session'[s] = "permitted1"
         \/ session[s] = "permitted1" /\ session'[s] = "replayed1"
         \/ session[s] = "replayed1" /\ session'[s] = "reported1"
         \/ session[s] = "reported1" /\ session'[s] = "permitted2"
         \/ session[s] = "permitted2" /\ session'[s] = "replayed2"
         \/ session[s] = "replayed2" /\ session'[s] = "reported2"
         \/ session[s] = "reported2" /\ session'[s] = "analyzed"
  PROVE  Sessions!Advance(s)
<1>1. Len(Sessions!Order) = 9
  BY DEF Sessions!Order
<1>2. /\ Sessions!Order[1] = "connected" /\ Sessions!Order[2] = "identified"
      /\ Sessions!Order[3] = "permitted1" /\ Sessions!Order[4] = "replayed1"
      /\ Sessions!Order[5] = "reported1" /\ Sessions!Order[6] = "permitted2"
      /\ Sessions!Order[7] = "replayed2" /\ Sessions!Order[8] = "reported2"
      /\ Sessions!Order[9] = "analyzed"
  BY DEF Sessions!Order
<1>3. \E i \in 1 .. 8 : session[s] = Sessions!Order[i] /\ session'[s] = Sessions!Order[i + 1]
  BY <1>2
<1> QED  BY <1>1, <1>3 DEF Sessions!Advance

(* A session may fail in all phases but the last.                          *)
LEMMA SessionRuns ==
  ASSUME NEW s,
         session[s] \in {"connected", "identified", "permitted1", "replayed1", "reported1",
                         "permitted2", "replayed2", "reported2"},
         session'[s] = "failed"
  PROVE  Sessions!Fail(s)
<1>1. Len(Sessions!Order) = 9
  BY DEF Sessions!Order
<1>2. /\ Sessions!Order[1] = "connected" /\ Sessions!Order[2] = "identified"
      /\ Sessions!Order[3] = "permitted1" /\ Sessions!Order[4] = "replayed1"
      /\ Sessions!Order[5] = "reported1" /\ Sessions!Order[6] = "permitted2"
      /\ Sessions!Order[7] = "replayed2" /\ Sessions!Order[8] = "reported2"
  BY DEF Sessions!Order
<1>3. \E i \in 1 .. 8 : session[s] = Sessions!Order[i]
  BY <1>2
<1> QED  BY <1>1, <1>3 DEF Sessions!Fail, Sessions!Running

(* A step that notes something of one server leaves the others as they are.*)
LEMMA OneSession ==
  ASSUME ServerType, NEW s \in Servers, \E phase : Notes(s, phase),
         Sessions!Connect(s) \/ Sessions!Advance(s) \/ Sessions!Fail(s)
  PROVE  Sessions!Next
<1>1. session' = [r \in Servers |-> session'[r]]
  BY DEF ServerType, Notes
<1>2. \A r \in Servers \ {s} : Sessions!Stay(r)
  BY DEF ServerType, Notes, Sessions!Stay
<1> QED  BY <1>1, <1>2 DEF Sessions!Next

(* Before it is served, a server is where the step before has left it.     *)
LEMMA SessionAtTurn ==
  ASSUME IndInv, turn \in Servers
  PROVE  /\ pc = "connect" => session[turn] \in {"none", "closed"}
         /\ pc = "sendID" => session[turn] = "connected"
         /\ pc = "ask" => session[turn] = "identified"
         /\ pc = "report1" => session[turn] = "replayed1"
         /\ pc = "declare" => session[turn] = "reported1"
         /\ pc = "report2" => session[turn] = "replayed2"
         /\ pc = "analyze" => session[turn] = "reported2"
<1>1. ~(turn < turn)
  BY OrchestratorAssumption DEF Servers
<1> QED  BY <1>1 DEF IndInv, SessionInv, SessionsAt

(* What is done with one server is a step of its session.                  *)
LEMMA RequestSession ==
  ASSUME IndInv, NEW s \in Servers,
         \/ Connect(s) \/ SendID(s) \/ Ask4Permission(s) \/ SendThroughputs(s)
         \/ DeclareReplay(s) \/ AnalyzeTest(s) \/ RequestFails(s)
  PROVE  Sessions!Next
<1>1. ServerType
  BY DEF IndInv
<1>2. ASSUME NEW phase, Notes(s, phase) PROVE session'[s] = phase
  BY <1>1, <1>2 DEF ServerType, Notes
<1>3. CASE Connect(s)
  <2>1. turn = s /\ pc = "connect" /\ Notes(s, "connected")
    BY <1>3 DEF Connect
  <2>2. Sessions!Order[1] = "connected"
    BY DEF Sessions!Order
  <2>3. Sessions!Connect(s)
    BY <1>2, <2>1, <2>2, SessionAtTurn DEF Sessions!Connect
  <2> QED  BY <1>1, <2>1, <2>3, OneSession
<1>4. CASE SendID(s)
  <2>1. turn = s /\ pc = "sendID" /\ Notes(s, "identified")
    BY <1>4 DEF SendID
  <2>2. Sessions!Advance(s)
    BY <1>2, <2>1, SessionAtTurn, SessionOrder
  <2> QED  BY <1>1, <2>1, <2>2, OneSession
<1>5. CASE Ask4Permission(s)
  <2>1. turn = s /\ pc = "ask" /\ Notes(s, "permitted1")
    BY <1>5 DEF Ask4Permission, Permitted
  <2>2. Sessions!Advance(s)
    BY <1>2, <2>1, SessionAtTurn, SessionOrder
  <2> QED  BY <1>1, <2>1, <2>2, OneSession
<1>6. CASE SendThroughputs(s)
  <2>1. /\ turn = s
        /\ \/ pc = "report1" /\ Notes(s, "reported1")
           \/ pc = "report2" /\ Notes(s, "reported2")
    BY <1>6 DEF SendThroughputs, Report
  <2>2. Sessions!Advance(s)
    BY <1>2, <2>1, SessionAtTurn, SessionOrder
  <2> QED  BY <1>1, <2>1, <2>2, OneSession
<1>7. CASE DeclareReplay(s)
  <2>1. turn = s /\ pc = "declare" /\ Notes(s, "permitted2")
    BY <1>7 DEF DeclareReplay, Permitted
  <2>2. Sessions!Advance(s)
    BY <1>2, <2>1, SessionAtTurn, SessionOrder
  <2> QED  BY <1>1, <2>1, <2>2, OneSession
<1>8. CASE AnalyzeTest(s)
  <2>1. turn = s /\ pc = "analyze" /\ Notes(s, "analyzed")
    BY <1>8 DEF AnalyzeTest
  <2>2. Sessions!Advance(s)
    BY <1>2, <2>1, SessionAtTurn, SessionOrder
  <2> QED  BY <1>1, <2>1, <2>2, OneSession
<1>9. CASE RequestFails(s)
  <2>1. /\ pc \in {"sendID", "ask", "report1", "declare", "report2", "analyze"} /\ turn = s
        /\ Notes(s, "failed")
    BY <1>9 DEF RequestFails
  <2>2. Sessions!Fail(s)
    BY <1>2, <2>1, SessionAtTurn, SessionRuns
  <2> QED  BY <1>1, <2>1, <2>2, OneSession
<1> QED  BY <1>3, <1>4, <1>5, <1>6, <1>7, <1>8, <1>9

(* A replay ends, and the channels are closed, on all servers at once.     *)
LEMMA ReplaySession ==
  ASSUME IndInv, SendAndReceivePackets \/ ReplayFails
  PROVE  Sessions!Next
<1>1. \A r \in Servers : session[r] = IF pc = "replay1" THEN "permitted1" ELSE "permitted2"
  BY NoneServed DEF IndInv, SessionInv, SessionsAt, SendAndReceivePackets, RunReplay,
     ReplayFails
<1>2. CASE SendAndReceivePackets
  <2>1. \/ pc = "replay1" /\ session' = [r \in Servers |-> "replayed1"]
        \/ pc = "replay2" /\ session' = [r \in Servers |-> "replayed2"]
    BY <1>2 DEF SendAndReceivePackets, RunReplay
  <2>2. \A r \in Servers : Sessions!Advance(r)
    BY <1>1, <2>1, SessionOrder
  <2> QED  BY <2>1, <2>2 DEF Sessions!Next
<1>3. CASE ReplayFails
  <2>1. session' = [r \in Servers |-> "failed"]
    BY <1>3 DEF ReplayFails
  <2>2. \A r \in Servers : Sessions!Fail(r)
    BY <1>1, <2>1, SessionRuns
  <2> QED  BY <2>1, <2>2 DEF Sessions!Next
<1> QED  BY <1>2, <1>3

(* Closing what is open closes every session there is.                     *)
LEMMA CloseSession ==
  ASSUME IndInv, CleanUp \/ Leave
  PROVE  Sessions!Next \/ UNCHANGED session
<1>1. CASE UNCHANGED session
  BY <1>1
<1>2. CASE CloseAll
  <2>1. session' = [r \in Servers |-> IF session[r] = "none" THEN "none" ELSE "closed"]
    BY <1>2 DEF CloseAll, Closed
  <2>2. \A r \in Servers : Sessions!Close(r) \/ Sessions!Stay(r)
    BY <2>1 DEF Sessions!Close, Sessions!Stay
  <2> QED  BY <2>1, <2>2 DEF Sessions!Next
<1> QED  BY <1>1, <1>2 DEF CleanUp, Leave

(* What the servers see of Run of testorchestrator.go is what the protocol *)
(* of module SideChannelSession allows.                                    *)
THEOREM SessionRefinement == Spec => SessionsInOrder
<1>1. Init => Sessions!Init
  BY DEF Init, Sessions!Init
<1>2. IndInv /\ [Next]_vars => [Sessions!Next]_session
  <2> SUFFICES ASSUME IndInv, [Next]_vars PROVE Sessions!Next \/ UNCHANGED session
    OBVIOUS
  <2>1. CASE UNCHANGED session
    BY <2>1
  <2>2. ASSUME NEW s \in Servers,
               \/ Connect(s) \/ SendID(s) \/ Ask4Permission(s) \/ SendThroughputs(s)
               \/ DeclareReplay(s) \/ AnalyzeTest(s) \/ RequestFails(s)
        PROVE  Sessions!Next
    BY <2>2, RequestSession
  <2>3. CASE SendAndReceivePackets \/ ReplayFails
    BY <2>3, ReplaySession
  <2>4. CASE CleanUp \/ Leave
    BY <2>4, CloseSession
  <2>5. \/ StartTest \/ LoadFirstReplay \/ LoadFirstReplayFails \/ LoadSecondReplay
        \/ LoadSecondReplayFails \/ Blocked \/ Return \/ Exited \/ UNCHANGED vars
        \/ (\E s \in Servers : ConnectFails(s))
        => UNCHANGED session
    BY DEF StartTest, LoadFirstReplay, LoadFirstReplayFails, LoadSecondReplay,
       LoadSecondReplayFails, Blocked, Return, Exited, ConnectFails, serverVars, vars
  <2> QED  BY <2>1, <2>2, <2>3, <2>4, <2>5 DEF Next
<1> QED  BY <1>1, <1>2, Invariance, PTL DEF Spec, SessionsInOrder, Sessions!Spec

-----------------------------------------------------------------------------
(***************************************************************************)
(* The loop over the tests does what module TestLoop, and with it module   *)
(* App, has for it.                                                        *)
(***************************************************************************)

(* The ID the first server has been told is that of the test before, until *)
(* it is told the ID of this one; no later test begins before that.        *)
LoopInv ==
  /\ pc \in {"load1", "connect"} \/ (pc = "sendID" /\ turn = 1) => told[1].test = test - 1
  /\ InTest => told[1].test \in {test - 1, test}
  /\ pc = "nextTest" \/ (pc \in {"cleanUp", "returned"} /\ outcome = "nil")
       => told[1].test = test
  /\ ~UseMLab => \A s \in Servers : websocket[s] = "none"

(* The steps between the start of a test and its clean-up.                 *)
Middle ==
  \/ LoadFirstReplay \/ SendAndReceivePackets \/ LoadSecondReplay
  \/ LoadSecondReplayFails \/ Blocked \/ (ReplayFails /\ pc' = "cleanUp")
  \/ \E s \in Servers :
       \/ Connect(s) \/ ConnectFails(s) \/ SendID(s) \/ Ask4Permission(s)
       \/ SendThroughputs(s) \/ DeclareReplay(s) \/ AnalyzeTest(s) \/ RequestFails(s)

(* A test is left by cleanUp, by Run before its clean-up is deferred, or   *)
(* with the process.                                                       *)
LEMMA LoopSteps ==
  ASSUME IndInv, Next
  PROVE  \/ StartTest \/ LoadFirstReplayFails \/ Middle \/ CleanUp \/ Return \/ Leave
         \/ (ReplayFails /\ pc' = "exit") \/ Exited
BY DEF Next, Middle, ReplayFails, Abort

(* In the middle of a test no websocket changes, and only sendID changes   *)
(* the ID a server knows.                                                  *)
LEMMA MiddleStep ==
  ASSUME IndInv, Middle
  PROVE  /\ InTest /\ InTest' /\ UNCHANGED <<test, websocket>>
         /\ pc \notin {"cleanUp", "blocked"} /\ pc' \notin {"load1", "nextTest", "returned"}
<1> USE DEF Middle, toVars, serverVars, dataVars, InTest
<1>1. CASE \/ LoadFirstReplay \/ SendAndReceivePackets \/ LoadSecondReplay
           \/ LoadSecondReplayFails \/ Blocked \/ (ReplayFails /\ pc' = "cleanUp")
  BY <1>1 DEF LoadFirstReplay, SendAndReceivePackets, RunReplay, LoadSecondReplay,
     LoadSecondReplayFails, Blocked, ReplayFails, Abort
<1>2. ASSUME NEW s \in Servers,
             \/ Connect(s) \/ ConnectFails(s) \/ SendID(s) \/ Ask4Permission(s)
             \/ SendThroughputs(s) \/ DeclareReplay(s) \/ AnalyzeTest(s) \/ RequestFails(s)
      PROVE  /\ pc \in {"connect", "sendID", "ask", "report1", "declare", "report2", "analyze"}
             /\ pc' \in {pc, "sendID", "ask", "replay1", "load2", "replay2", "analyze", "cleanUp"}
             /\ UNCHANGED <<test, websocket>>
  BY <1>2 DEF Connect, ConnectFails, SendID, Ask4Permission, SendThroughputs, Report,
     DeclareReplay, AnalyzeTest, RequestFails, ServedThen, Abort
<1> QED  BY <1>1, <1>2

LEMMA MiddleID ==
  ASSUME IndInv, LoopInv, Middle
  PROVE  LoopInv'

<1>1. /\ InTest /\ InTest' /\ UNCHANGED <<test, websocket>> /\ test \in Nat /\ 1 \in Servers
      /\ pc \notin {"cleanUp", "blocked"} /\ pc' \notin {"load1", "nextTest", "returned"}
  BY OrchestratorAssumption, MiddleStep, NoneServed DEF IndInv, StepType
<1>2. ASSUME NEW s \in Servers, SendID(s)
      PROVE  LoopInv'
  <2>1. pc = "sendID" /\ turn = s /\ ServedThen("ask") /\ pc' \in {"sendID", "ask"}
    BY <1>2 DEF SendID, ServedThen
  <2>2. pc' = "sendID" => turn' # 1
    BY <2>1, ServedCases DEF ServedThen, Servers
  <2>3. told'[1].test \in {told[1].test, test}
    BY <1>1, <1>2 DEF SendID, Tell, IndInv, ServerType
  <2> QED  BY <1>1, <2>1, <2>2, <2>3 DEF LoopInv
<1>3. ASSUME ~\E s \in Servers : SendID(s)
      PROVE  LoopInv'
  <2> DEFINE Kept ==
        /\ told'[1].test = told[1].test
        /\ pc' = "connect" \/ (pc' = "sendID" /\ turn' = 1) => pc \in {"load1", "connect"}
        /\ pc' = "cleanUp" /\ outcome' = "nil" => pc = "analyze"
  <2>1. Kept
    <3> USE DEF toVars, serverVars, dataVars
    <3>1. CASE \/ LoadFirstReplay \/ SendAndReceivePackets \/ LoadSecondReplay
               \/ LoadSecondReplayFails \/ Blocked \/ (ReplayFails /\ pc' = "cleanUp")
      BY <3>1, ReadOutcomes DEF LoadFirstReplay, SendAndReceivePackets, RunReplay,
         LoadSecondReplay, LoadSecondReplayFails, Blocked, ReplayFails, Abort
    <3>2. ASSUME NEW s \in Servers,
                 \/ Connect(s) \/ ConnectFails(s) \/ Ask4Permission(s)
                 \/ SendThroughputs(s) \/ AnalyzeTest(s)
          PROVE  Kept
      BY <3>2, ServedCases DEF Connect, ConnectFails, Ask4Permission, SendThroughputs,
         Report, AnalyzeTest, ServedThen, Abort, IndInv, StepType
    <3>3. ASSUME NEW s \in Servers, DeclareReplay(s)
          PROVE  Kept
      BY <1>1, <3>3 DEF DeclareReplay, Tell, ServedThen, IndInv, ServerType
    <3>4. ASSUME NEW s \in Servers, RequestFails(s)
          PROVE  Kept
      BY <3>4, ResponseOutcomes DEF RequestFails, Abort
    <3> HIDE DEF Kept
    <3> QED  BY <1>3, <3>1, <3>2, <3>3, <3>4, Zenon DEF Middle
  <2>2. pc = "analyze" => told[1].test = test
    BY <1>1 DEF IndInv, ToldInv, SecondHalf
  <2> QED  BY <1>1, <2>1, <2>2 DEF LoopInv
<1> QED  BY <1>2, <1>3

LEMMA LoopInvStep ==
  ASSUME IndInv, LoopInv, [Next]_vars
  PROVE  LoopInv'
<1> USE DEF toVars, serverVars, dataVars
<1>1. test \in Nat /\ 1 \in Servers
  BY OrchestratorAssumption, NoneServed DEF IndInv, StepType
<1>2. CASE StartTest
  BY <1>1, <1>2 DEF StartTest, LoopInv, InTest
<1>3. CASE LoadFirstReplayFails
  BY <1>3, ReadOutcomes DEF LoadFirstReplayFails, LoopInv, InTest
<1>4. CASE Middle
  BY <1>4, MiddleID
<1>5. CASE CleanUp
  BY <1>5 DEF CleanUp, CloseAll, Closed, LoopInv, InTest
<1>6. CASE Return \/ Leave
  BY <1>6 DEF Return, Leave, LoopInv, InTest
<1>7. CASE ReplayFails /\ pc' = "exit"
  BY <1>7 DEF ReplayFails, LoopInv, InTest
<1>8. CASE Exited \/ UNCHANGED vars
  BY <1>8 DEF Exited, vars, LoopInv, InTest
<1> QED  BY <1>2, <1>3, <1>4, <1>5, <1>6, <1>7, <1>8, LoopSteps

(* Run of testorchestrator.go, however many servers it runs a test on, and *)
(* the loop around it implement the loop of which module App has the whole *)
(* test as one step: what App says of tests holds of the tests of this     *)
(* module.                                                                 *)
THEOREM LoopRefinement == Spec => ImplementsLoop
<1>1. Init => Loop!Init /\ LoopInv
  <2> SUFFICES ASSUME Init PROVE Loop!Init /\ LoopInv
    OBVIOUS
  <2>1. /\ pc = "nextTest" /\ test = 0 /\ told[1].test = 0 /\ ~InTest /\ LoopPhase = "loop"
        /\ ~UseMLab => \A s \in Servers : websocket[s] = "none"
    BY NoneServed DEF Init, LoopPhase, InTest
  <2>2. (\E s \in Servers : websocket[s] = "open") \in BOOLEAN
    OBVIOUS
  <2>3. NumTests - test \in Nat \ {0}
    BY OrchestratorAssumption, <2>1
  <2>4. Loop!Init
    BY <2>1, <2>2, <2>3 DEF Loop!Init, Loop!Looping
  <2> QED  BY <2>1, <2>4 DEF LoopInv
<1>2. IndInv /\ LoopInv /\ [Next]_vars => [Loop!Next]_(Loop!vars)
  <2> SUFFICES ASSUME IndInv, LoopInv, [Next]_vars PROVE Loop!Next \/ UNCHANGED Loop!vars
    OBVIOUS
  <2> USE DEF toVars, serverVars, dataVars, LoopPhase, InTest
  <2>1. /\ test \in Nat /\ NumTests \in Nat /\ test <= NumTests /\ 1 \in Servers
        /\ websocket \in [Servers -> {"none", "open", "closed"}]
        /\ pc # "exit" => outcome \in {"nil", "err", "panic"}
    BY OrchestratorAssumption, NoneServed DEF IndInv, StepType, ServerType
  <2>2. CASE StartTest
    BY <2>1, <2>2 DEF StartTest, LoopInv, Loop!vars
  <2>3. CASE LoadFirstReplayFails
    <3>1. outcome' \in {"err", "panic"}
      BY <2>3, ReadOutcomes DEF LoadFirstReplayFails
    <3> QED
      BY <2>1, <2>3, <3>1
         DEF LoadFirstReplayFails, LoopInv, Loop!Next, Loop!TestDoesNotStart, Loop!TestEnds
  <2>4. CASE Middle
    BY <2>4, MiddleStep DEF Loop!vars
  <2>5. CASE CleanUp
    <3>1. /\ pc = "cleanUp" /\ told[1].test \in {test - 1, test}
          /\ outcome = "nil" => told[1].test = test
          /\ UNCHANGED <<test, told, outcome>>
          /\ pc' = IF outcome = "panic" THEN "leave" ELSE "returned"
          /\ \A s \in Servers : websocket'[s] # "open"
      BY <2>1, <2>5 DEF CleanUp, CloseAll, Closed, LoopInv
    <3>2. CASE outcome = "nil"
      <4>1. Loop!TestSucceeds
        BY <2>1, <3>1, <3>2 DEF Loop!TestSucceeds, Loop!TestEnds
      <4> QED  BY <4>1 DEF Loop!Next
    <3>3. CASE outcome \in {"err", "panic"}
      <4>1. Loop!TestFails
        BY <2>1, <3>1, <3>3 DEF Loop!TestFails, Loop!TestEnds
      <4> QED  BY <4>1 DEF Loop!Next
    <3> QED  BY <2>1, <3>1, <3>2, <3>3
  <2>6. CASE Return
    BY <2>1, <2>6 DEF Return, Loop!Next, Loop!TestsDone, Loop!vars
  <2>7. CASE Leave
    <3>1. \A s \in Servers : websocket'[s] # "open"
      BY <2>1, <2>7 DEF Leave, CloseAll, Closed, LoopInv
    <3> QED  BY <2>1, <2>7, <3>1 DEF Leave, Loop!Next, Loop!Leave
  <2>8. CASE ReplayFails /\ pc' = "exit"
    <3>1. told[1].test = test
      BY <2>1, <2>8 DEF ReplayFails, Abort, IndInv, SessionInv, ToldInv, ToldFirst, SecondHalf
    <3>2. /\ pc \in {"replay1", "replay2"} /\ outcome' = "crash"
          /\ UNCHANGED <<test, told, websocket>>
      BY <2>8 DEF ReplayFails, Abort
    <3>3. Loop!TestCrashes
      BY <2>1, <2>8, <3>1, <3>2 DEF Loop!TestCrashes, Loop!TestEnds
    <3> QED  BY <3>3 DEF Loop!Next
  <2>9. CASE Exited \/ UNCHANGED vars
    BY <2>9 DEF Exited, vars, Loop!vars
  <2> QED  BY <2>2, <2>3, <2>4, <2>5, <2>6, <2>7, <2>8, <2>9, LoopSteps
<1>3. IndInv /\ LoopInv /\ [Next]_vars => LoopInv'
  BY LoopInvStep
<1> QED  BY <1>1, <1>2, <1>3, Invariance, PTL DEF Spec, ImplementsLoop, Loop!Spec

=============================================================================
