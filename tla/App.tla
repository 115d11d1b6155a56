-------------------------------- MODULE App --------------------------------
(***************************************************************************)
(* The client as a whole (main.go and app.go, Run), start after start: the *)
(* configuration is read, the user and test IDs are, the tests selected,   *)
(* the servers found (M-Lab servers by trying those offered one by one),   *)
(* and the tests run on them, until the first failure.                     *)
(*                                                                         *)
(* A test is one step, of which module Orchestrator shows the inside.  The *)
(* files, name resolution, M-Lab and the websockets are external.  A user  *)
(* ID generated by a start is taken to be unlike any other, so the start   *)
(* that generated it stands for it.                                        *)
(***************************************************************************)
EXTENDS Configuration, TestData

CONSTANTS
  Images,       \* names of tests
  MaxTests,     \* bound: length of the list of tests
  MaxNames,     \* bound: number of names on the command line
  MaxOffered,   \* bound: number of servers M-Lab offers
  MaxStarts     \* bound: number of starts of the client

ASSUME AppAssumption ==
  /\ Blank \notin Images
  /\ {MaxTests, MaxNames, MaxOffered} \subseteq Nat /\ MaxStarts \in Nat \ {0}

(* What server_display may name: M-Lab, or a host by the kind of address   *)
(* it resolves to; an address with a zone is no valid one to the client.   *)
Hosts == {"wehe4.meddle.mobi", "IPv4", "IPv6", "zoned", "unknown"}

(* The file with the user's IDs: as it should be, absent, or with one of   *)
(* its lines wrong.                                                        *)
UserFiles ==
  {[state |-> "valid", testID |-> n] : n \in {-1, 0, 7}} \cup
  {[state |-> state, testID |-> 0] : state \in {"absent", "badUserID", "notANumber"}}

(* Configuration files with at most one value that is not the usual one.   *)
UsualValue(key) ==
  CASE key = "num_servers" -> [is |-> "int", n |-> 1]
    [] key \in PercentKeys -> [is |-> "int", n |-> 50]
    [] key \in BoolKeys    -> [is |-> "bool", n |-> 0]
    [] key = "log_level"   -> [is |-> "level", n |-> 0]
    [] key \in TextKeys    -> [is |-> "text", n |-> 0]

Values ==
  [is : {"int"}, n : {-1, 0, 1, 2, 4, 5, 100, 101}] \cup
  [is : {"absent", "empty", "bool", "level", "text"}, n : {0}]

ConfigFiles ==
  {[k \in Keys |-> IF k = key THEN value ELSE UsualValue(k)] :
     key \in Keys, value \in Values}

VARIABLES
  pc,          \* step the client is at
  outcome,     \* how the start ends
  start,       \* number of starts
  testList,    \* file: the images of the list of tests
  userFile,    \* file: user and test ID of the user
  raw,         \* command line: the names given
  cfg,         \* configuration read: names, number of servers, host
  userID,      \* 0 for that of the file, else the start that generated it
  testID,
  tests,       \* the tests still to run
  offered,     \* number of servers offered by M-Lab
  tried,       \* number of them tried
  numTries,    \* number of them tried since the last that could be used
  servers,     \* the servers chosen
  deferred,    \* the M-Lab servers with a deferred clean-up
  websocket,   \* websocket of a server offered
  ran,         \* history: the tests run in this start
  declared     \* history: the IDs under which servers were told of a test

fileVars   == <<testList, userFile>>
idVars     == <<userID, testID, tests>>
serverVars == <<offered, tried, numTries, servers, deferred, websocket>>
vars == <<pc, outcome, start, fileVars, raw, cfg, idVars, serverVars, ran, declared>>

NoWebsockets == [host \in 1 .. MaxOffered |-> "none"]
NoConfig     == [names |-> <<>>, numServers |-> 0, host |-> "unknown"]

Init ==
  /\ pc = "off" /\ outcome = "nil" /\ start = 0
  /\ testList \in UpTo(MaxTests, Images)
  /\ userFile \in UserFiles
  /\ raw = <<>> /\ cfg = NoConfig
  /\ userID = 0 /\ testID = 0 /\ tests = <<>>
  /\ offered = 0 /\ tried = 0 /\ numTries = 0
  /\ servers = <<>> /\ deferred = {} /\ websocket = NoWebsockets
  /\ ran = <<>> /\ declared = <<>>

Goes(from, to) == pc = from /\ pc' = to /\ UNCHANGED outcome

(* An error is returned from Run, after its deferred calls.                *)
Fails(from) == pc = from /\ pc' = "leave" /\ outcome' = "err"

-----------------------------------------------------------------------------
(***************************************************************************)
(* main: the command line and the configuration.                           *)
(***************************************************************************)

(* "update" is not finished: it goes on without the name of a test.        *)
Start ==
  /\ pc = "off" /\ start < MaxStarts
  /\ start' = start + 1
  /\ \/ raw' \in UpTo(MaxNames, Images \cup {Blank}) /\ pc' = "config"  \* replay
     \/ raw' = <<Blank>> /\ pc' = "config"                              \* update
     \/ raw' = <<>> /\ pc' = "exit"                                     \* neither
  /\ outcome' = IF pc' = "exit" THEN "err" ELSE "nil"
  /\ UNCHANGED <<fileVars, cfg, idVars, serverVars, ran, declared>>

ReadConfig ==
  /\ Goes("config", "user")
  /\ \E file \in ConfigFiles, host \in Hosts :
       /\ NewSucceeds(raw, file)
       /\ cfg' = [names |-> TestNames(raw), numServers |-> file["num_servers"].n,
                  host |-> host]
  /\ UNCHANGED <<start, fileVars, raw, idVars, serverVars, ran, declared>>

ConfigRefused ==
  /\ pc = "config" /\ pc' = "exit" /\ outcome' = "err"
  /\ \E file \in ConfigFiles : ~NewSucceeds(raw, file)
  /\ UNCHANGED <<start, fileVars, raw, cfg, idVars, serverVars, ran, declared>>

(* Nothing of what has been done outlasts the process.                     *)
Exit ==
  /\ Goes("exit", "off")
  /\ cfg' = NoConfig /\ raw' = <<>> /\ ran' = <<>>
  /\ userID' = 0 /\ testID' = 0 /\ tests' = <<>>
  /\ offered' = 0 /\ tried' = 0 /\ numTries' = 0
  /\ servers' = <<>> /\ deferred' = {} /\ websocket' = NoWebsockets
  /\ UNCHANGED <<start, fileVars, declared>>

Finished == pc = "off" /\ start = MaxStarts /\ UNCHANGED vars

-----------------------------------------------------------------------------
(***************************************************************************)
(* Run: IDs, tests and servers.                                            *)
(***************************************************************************)

(* Seeded fault: an off-by-one.                                            *)
IsTestIDValidFromMinusOne(n) == n >= -1

IsTestIDValid(n) == n > -1

(* Both IDs are made up anew unless both are valid.                        *)
ReadUserConfig ==
  /\ Goes("user", "tests")
  /\ IF userFile.state = "valid" /\ IsTestIDValid(userFile.testID)
     THEN userID' = 0 /\ testID' = userFile.testID
     ELSE userID' = start /\ testID' = 0
  /\ UNCHANGED <<start, fileVars, raw, cfg, tests, serverVars, ran, declared>>

AllTests == [i \in 1 .. Len(testList) |-> [image |-> testList[i], entry |-> i]]

ParseTestJSON ==
  /\ Goes("tests", "useMLab")
  /\ InvalidTestNames(AllTests, cfg.names) = {}
  /\ tests' = UserRequestedTests(AllTests, cfg.names)
  /\ UNCHANGED <<start, fileVars, raw, cfg, userID, testID, serverVars, ran, declared>>

(* The list cannot be read, or one of the names is not in it.              *)
ParseTestJSONFails ==
  /\ Fails("tests")
  /\ UNCHANGED <<start, fileVars, raw, cfg, idVars, serverVars, ran, declared>>

(* UseMLab: by name, or because the address found is an IPv6 one.          *)
UseMLab ==
  /\ cfg.host \in {"wehe4.meddle.mobi", "IPv6"}
  /\ Goes("useMLab", "locate")
  /\ UNCHANGED <<start, fileVars, raw, cfg, idVars, serverVars, ran, declared>>

UseOwnServer ==
  /\ cfg.host = "IPv4"
  /\ Goes("useMLab", "direct")
  /\ UNCHANGED <<start, fileVars, raw, cfg, idVars, serverVars, ran, declared>>

UseMLabFails ==
  /\ cfg.host # "wehe4.meddle.mobi"
  /\ Fails("useMLab")
  /\ UNCHANGED <<start, fileVars, raw, cfg, idVars, serverVars, ran, declared>>

GetMLabServers ==
  /\ Goes("locate", "try")
  /\ offered' \in 0 .. MaxOffered
  /\ UNCHANGED <<start, fileVars, raw, cfg, idVars, tried, numTries, servers, deferred,
                 websocket, ran, declared>>

GetMLabServersFails ==
  /\ Fails("locate")
  /\ UNCHANGED <<start, fileVars, raw, cfg, idVars, serverVars, ran, declared>>

(* The next of the servers offered is tried while there are too few.       *)
Try(host) ==
  /\ Goes("try", "try")
  /\ tried < offered /\ Len(servers) # cfg.numServers
  /\ host = tried + 1 /\ tried' = host
  /\ UNCHANGED <<start, fileVars, raw, cfg, idVars, offered, ran, declared>>

(* New: the host name is not resolved.                                     *)
NewFails(host) ==
  /\ Try(host)
  /\ numTries' = numTries + 1
  /\ UNCHANGED <<servers, deferred, websocket>>

OpenWebsocketFails(host) ==
  /\ Try(host)
  /\ numTries' = numTries + 1
  /\ deferred' = deferred \cup {host}
  /\ UNCHANGED <<servers, websocket>>

(* Seeded fault: the clean-up is deferred for servers that fail only.      *)
OpenWebsocketUndeferred(host) ==
  /\ Try(host)
  /\ numTries' = 0
  /\ websocket' = [websocket EXCEPT ![host] = "open"]
  /\ servers' = Append(servers, [host |-> host, numMLabTries |-> numTries + 1])
  /\ UNCHANGED deferred

(* Seeded fault: the tries are not counted anew.                           *)
OpenWebsocketKeepsTries(host) ==
  /\ Try(host)
  /\ numTries' = numTries + 1
  /\ deferred' = deferred \cup {host}
  /\ websocket' = [websocket EXCEPT ![host] = "open"]
  /\ servers' = Append(servers, [host |-> host, numMLabTries |-> numTries + 1])

OpenWebsocket(host) ==
  /\ Try(host)
  /\ numTries' = 0
  /\ deferred' = deferred \cup {host}
  /\ websocket' = [websocket EXCEPT ![host] = "open"]
  /\ servers' = Append(servers, [host |-> host, numMLabTries |-> numTries + 1])

(* Seeded fault: the client makes do with the servers it has got.          *)
TooFewServersIgnored ==
  /\ Goes("try", "cert")
  /\ Len(servers) # cfg.numServers /\ tried = offered
  /\ UNCHANGED <<start, fileVars, raw, cfg, idVars, serverVars, ran, declared>>

TooFewServers ==
  /\ Fails("try")
  /\ Len(servers) # cfg.numServers /\ tried = offered
  /\ UNCHANGED <<start, fileVars, raw, cfg, idVars, serverVars, ran, declared>>

EnoughServers ==
  /\ Goes("try", "cert")
  /\ Len(servers) = cfg.numServers
  /\ UNCHANGED <<start, fileVars, raw, cfg, idVars, serverVars, ran, declared>>

(* Nothing is deferred for a server that is not an M-Lab one.              *)
NewServer ==
  /\ Goes("direct", "cert")
  /\ cfg.numServers <= 1
  /\ servers' = <<[host |-> 0, numMLabTries |-> 0]>>
  /\ UNCHANGED <<start, fileVars, raw, cfg, idVars, offered, tried, numTries, deferred,
                 websocket, ran, declared>>

NewServerFails ==
  /\ Fails("direct")
  /\ UNCHANGED <<start, fileVars, raw, cfg, idVars, serverVars, ran, declared>>

AddTrustedCACerts ==
  /\ Goes("cert", "loop") \/ Fails("cert")
  /\ UNCHANGED <<start, fileVars, raw, cfg, idVars, serverVars, ran, declared>>

-----------------------------------------------------------------------------
(***************************************************************************)
(* Run: the tests, and the deferred calls.                                 *)
(***************************************************************************)

(* Seeded fault: the test ID is not counted up.                            *)
NextTestSameID ==
  /\ pc = "loop" /\ tests # <<>>
  /\ testID' = testID /\ tests' = Tail(tests)
  /\ ran' = Append(ran, Head(tests))
  /\ UNCHANGED <<start, fileVars, raw, cfg, userID, offered, tried, numTries, servers,
                 deferred>>

(* Every test gets the ID after that of the test before.                   *)
NextTest ==
  /\ pc = "loop" /\ tests # <<>>
  /\ testID' = testID + 1 /\ tests' = Tail(tests)
  /\ ran' = Append(ran, Head(tests))
  /\ UNCHANGED <<start, fileVars, raw, cfg, userID, offered, tried, numTries, servers,
                 deferred>>

Declare == declared' = Append(declared, [start |-> start, user |-> userID, test |-> testID'])

Close(hosts) ==
  websocket' = [host \in DOMAIN websocket |->
    IF host \in hosts /\ websocket[host] = "open" THEN "closed" ELSE websocket[host]]

(* A test that has been started closes the websockets of its servers.      *)
CloseChosen == Close({server.host : server \in ToSet(servers)})

TestSucceeds ==
  /\ NextTest
  /\ pc' = pc /\ outcome' = outcome
  /\ Declare /\ CloseChosen

(* Seeded fault: after an error the next test is run.                      *)
TestFailsContinues ==
  /\ NextTest
  /\ pc' = pc /\ outcome' = outcome
  /\ Declare \/ UNCHANGED declared
  /\ CloseChosen

(* A request, or a replay, fails, or an answer panics: before or after the *)
(* first server has been told the IDs.                                     *)
TestFails ==
  /\ NextTest
  /\ pc' = "leave" /\ outcome' \in {"err", "panic"}
  /\ Declare \/ UNCHANGED declared
  /\ CloseChosen

(* The first replay cannot be loaded; the test has deferred nothing yet.   *)
TestDoesNotStart ==
  /\ NextTest
  /\ pc' = "leave" /\ outcome' \in {"err", "panic"}
  /\ UNCHANGED <<declared, websocket>>

(* A goroutine of a replay panics, and no deferred call is made.           *)
TestCrashes ==
  /\ NextTest
  /\ pc' = "exit" /\ outcome' = "crash"
  /\ Declare /\ UNCHANGED websocket

TestsDone ==
  /\ Goes("loop", "leave")
  /\ tests = <<>>
  /\ UNCHANGED <<start, fileVars, raw, cfg, idVars, serverVars, ran, declared>>

(* The deferred clean-ups of the M-Lab servers.                            *)
Leave ==
  /\ Goes("leave", "exit")
  /\ Close(deferred)
  /\ UNCHANGED <<start, fileVars, raw, cfg, idVars, offered, tried, numTries, servers,
                 deferred, ran, declared>>

Next ==
  \/ Start \/ ReadConfig \/ ConfigRefused \/ Exit \/ Finished
  \/ ReadUserConfig \/ ParseTestJSON \/ ParseTestJSONFails
  \/ UseMLab \/ UseOwnServer \/ UseMLabFails \/ GetMLabServers \/ GetMLabServersFails
  \/ \E host \in 1 .. MaxOffered :
       NewFails(host) \/ OpenWebsocketFails(host) \/ OpenWebsocket(host)
  \/ TooFewServers \/ EnoughServers \/ NewServer \/ NewServerFails \/ AddTrustedCACerts
  \/ TestSucceeds \/ TestFails \/ TestDoesNotStart \/ TestCrashes \/ TestsDone \/ Leave

Spec == Init /\ [][Next]_vars

-----------------------------------------------------------------------------
(***************************************************************************)
(* Properties.                                                             *)
(***************************************************************************)

TypeOK ==
  /\ pc \in {"off", "config", "user", "tests", "useMLab", "locate", "try", "direct",
             "cert", "loop", "leave", "exit"}
  /\ outcome \in {"nil", "err", "panic", "crash"}
  /\ start \in 0 .. MaxStarts
  /\ cfg.numServers \in 0 .. 4 /\ cfg.host \in Hosts
  /\ userID \in 0 .. MaxStarts /\ testID \in Nat
  /\ offered \in 0 .. MaxOffered /\ tried \in 0 .. offered /\ numTries \in 0 .. tried
  /\ Len(servers) <= 4 /\ deferred \subseteq 1 .. tried
  /\ websocket \in [1 .. MaxOffered -> {"none", "open", "closed"}]

(* Once selected, the tests run and those still to run are together the    *)
(* listed ones that were asked for by name, in the order of the list and   *)
(* each once, whatever was asked for twice or listed twice; every name     *)
(* asked for is among them, and a start without one gets no further.       *)
TestsAsRequested ==
  pc \in {"useMLab", "locate", "try", "direct", "cert", "loop"} =>
    LET selected == ran \o tests IN
      /\ \A i, j \in 1 .. Len(selected) : i < j => selected[i].entry < selected[j].entry
      /\ {test.entry : test \in ToSet(selected)}
           = {i \in 1 .. Len(testList) : testList[i] \in ToSet(raw)}
      /\ ToSet(raw) \ {Blank} = {test.image : test \in ToSet(selected)}
      /\ selected # <<>>

(* "Number of tries before successful connection to MLab server": the      *)
(* tries noted for the servers chosen, together with those pending, cover  *)
(* every server tried exactly once, whichever of them failed and how.      *)
TriesAccountedFor ==
  LET last(i) == IF i = 0 THEN 0 ELSE servers[i].host IN
    cfg.host # "IPv4" =>
      /\ \A i \in 1 .. Len(servers) :
           servers[i].numMLabTries = servers[i].host - last(i - 1)
      /\ numTries = tried - last(Len(servers))

(* What the tests of module Orchestrator take for granted when the first   *)
(* of them begins: as many servers as configured, no two of them the same, *)
(* several only from M-Lab, and the websockets of these open.              *)
ServersReady ==
  pc = "loop" /\ ran = <<>> =>
    /\ Len(servers) = cfg.numServers
    /\ \A i, j \in 1 .. Len(servers) : servers[i].host = servers[j].host => i = j
    /\ \A i \in 1 .. Len(servers) :
         IF servers[i].host = 0 THEN Len(servers) = 1
         ELSE websocket[servers[i].host] = "open"

(* However a start ends, short of a crash, it closes every websocket it    *)
(* has opened: also those of servers chosen before it turned out that      *)
(* there are too few, and those of tests that never began.                 *)
WebsocketsReleased ==
  pc = "exit" /\ outcome # "crash" =>
    \A host \in 1 .. MaxOffered : websocket[host] # "open"

(* A server is told the same user and test ID a second time only after a   *)
(* new start, and only if both IDs came from the user's file, which is     *)
(* never written: within a start IDs differ, and IDs made up by the client *)
(* are not made up again.                                                  *)
ReuseOnlyFromFile ==
  \A i, j \in 1 .. Len(declared) :
    i < j /\ declared[i].user = declared[j].user /\ declared[i].test = declared[j].test
      => declared[i].start < declared[j].start /\ declared[i].user = 0

(* Of a start that runs tests; of any other the loop has not begun.        *)
LoopPhase ==
  IF pc = "loop" \/ (pc \in {"leave", "exit"} /\ ran # <<>>) THEN pc ELSE "off"

Loop == INSTANCE TestLoop WITH
  phase    <- LoopPhase,
  left     <- IF LoopPhase = "off" THEN 0 ELSE Len(tests),
  declared <- Len(declared),
  result   <- IF LoopPhase = "off" THEN "nil" ELSE outcome,
  open     <- LoopPhase # "off" /\ \E host \in 1 .. MaxOffered : websocket[host] = "open"

(* The first test that fails is the last, every test before has been       *)
(* declared, and however a test ends it leaves open what the ways to end   *)
(* it in module TestLoop, which module Orchestrator implements too, say.   *)
ImplementsLoop == Loop!Spec

=============================================================================
