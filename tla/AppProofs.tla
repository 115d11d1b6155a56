----------------------------- MODULE AppProofs -----------------------------
(***************************************************************************)
(* Proofs, for any list of tests, any number of M-Lab servers offered and  *)
(* any number of starts, of safety properties of module App.               *)
(***************************************************************************)
EXTENDS App, TestDataProofs, SequenceTheorems, TLAPS

(***************************************************************************)
(* The inductive invariant.                                                *)
(***************************************************************************)

Before  == {"off", "config", "user", "tests", "useMLab"}
Ready   == {"cert", "loop"}
Steps   == Before \cup {"locate", "try", "direct"} \cup Ready \cup {"leave", "exit"}
Chosen  == [host : 0 .. MaxOffered, numMLabTries : Nat]

StepType ==
  /\ pc \in Steps /\ outcome \in {"nil", "err", "panic", "crash"}
  /\ start \in 0 .. MaxStarts /\ userID \in 0 .. start /\ testID \in Nat
  /\ userFile \in UserFiles
  /\ cfg.numServers \in 0 .. 4 /\ cfg.host \in Hosts

ServerType ==
  /\ offered \in 0 .. MaxOffered /\ tried \in 0 .. offered /\ numTries \in 0 .. tried
  /\ servers \in Seq(Chosen) /\ Len(servers) <= 4 /\ deferred \subseteq 1 .. tried
  /\ websocket \in [1 .. MaxOffered -> {"none", "open", "closed"}]

(* Which way the servers are found goes with the kind of host, and no      *)
(* server is looked for before that is clear.                              *)
PathInv ==
  /\ pc \notin {"off", "config", "exit"} => cfg.numServers >= 1
  /\ pc = "direct" => cfg.host = "IPv4"
  /\ pc \in {"locate", "try"} => cfg.host # "IPv4"
  /\ pc \in Before \cup {"locate", "direct"} => servers = <<>> /\ tried = 0
  /\ cfg.host = "IPv4" => tried = 0 /\ servers \in {<<>>, <<[host |-> 0, numMLabTries |-> 0]>>}

(* What is open has its clean-up deferred.                                 *)
WebsocketInv ==
  /\ \A host \in 1 .. MaxOffered : websocket[host] = "open" => host \in deferred
  /\ pc = "exit" /\ outcome # "crash" => \A host \in 1 .. MaxOffered : websocket[host] # "open"

LastHost(i) == IF i = 0 THEN 0 ELSE servers[i].host

(* The servers chosen are in the order in which they have been offered.    *)
ChosenInv ==
  cfg.host # "IPv4" =>
    /\ \A i \in 1 .. Len(servers) :
         /\ servers[i].host \in 1 .. tried
         /\ servers[i].numMLabTries = servers[i].host - LastHost(i - 1)
         /\ pc \in {"try", "cert"} \/ (pc = "loop" /\ ran = <<>>)
              => websocket[servers[i].host] = "open"
    /\ \A i, j \in 1 .. Len(servers) : i < j => servers[i].host < servers[j].host
    /\ numTries = tried - LastHost(Len(servers))

CountInv ==
  /\ pc \in {"try", "cert", "loop"} => Len(servers) <= cfg.numServers
  /\ pc \in Ready => Len(servers) = cfg.numServers

(* IDs told to a server are those of this start or of one before.          *)
DeclaredInv ==
  /\ declared \in Seq([start : 1 .. MaxStarts, user : 0 .. MaxStarts, test : Nat])
  /\ \A i \in 1 .. Len(declared) :
       /\ declared[i].start <= start /\ declared[i].user \in {0, declared[i].start}
       /\ pc \in {"config", "user"} => declared[i].start # start
       /\ pc # "off" /\ declared[i].start = start =>
            declared[i].user = userID /\ declared[i].test <= testID
  /\ userID \in {0, start} /\ (pc \in {"off", "config"} => userID = 0)
  /\ pc # "off" => start >= 1

IndInv ==
  /\ StepType /\ ServerType /\ PathInv /\ WebsocketInv /\ ChosenInv /\ CountInv
  /\ DeclaredInv /\ ReuseOnlyFromFile

(* The tests that have run are a sequence, of whatever they are.           *)
RanInv == \E S : ran \in Seq(S)

-----------------------------------------------------------------------------
(* Whatever the configuration file, a number of servers that is accepted   *)
(* lies between 1 and 4.                                                   *)
LEMMA NumServersInRange ==
  ASSUME NEW file \in ConfigFiles, Accepted("num_servers", file["num_servers"])
  PROVE  file["num_servers"].n \in 1 .. 4
<1>1. "num_servers" \in Keys
  BY DEF Keys
<1>2. UsualValue("num_servers").n = 1
  BY DEF UsualValue, PercentKeys, BoolKeys, TextKeys
<1>3. file["num_servers"].n \in Int
  BY <1>1, <1>2 DEF ConfigFiles, Values
<1>4. GetInt(file["num_servers"], 1, 4)
  BY DEF Accepted, PercentKeys, BoolKeys, TextKeys
<1> QED  BY <1>3, <1>4 DEF GetInt

(* An element of a sequence over S is in S.                                *)
LEMMA Element ==
  ASSUME NEW S, NEW s \in Seq(S), NEW i \in 1 .. Len(s)
  PROVE  s[i] \in S
<1> QED  OBVIOUS

(* IDs and starts are numbers.                                             *)
LEMMA DeclaredTypes ==
  ASSUME DeclaredInv
  PROVE  \A i \in 1 .. Len(declared) :
           declared[i].start \in Nat /\ declared[i].user \in Nat /\ declared[i].test \in Nat
<1> SUFFICES ASSUME NEW i \in 1 .. Len(declared)
             PROVE  declared[i].start \in Nat /\ declared[i].user \in Nat
                    /\ declared[i].test \in Nat
  OBVIOUS
<1>1. declared[i] \in [start : 1 .. MaxStarts, user : 0 .. MaxStarts, test : Nat]
  <2>1. declared \in Seq([start : 1 .. MaxStarts, user : 0 .. MaxStarts, test : Nat])
    BY DEF DeclaredInv
  <2> HIDE DEF DeclaredInv
  <2> QED  BY <2>1, Element
<1>2. declared[i].start \in 1 .. MaxStarts /\ declared[i].user \in 0 .. MaxStarts
      /\ declared[i].test \in Nat
  BY <1>1
<1>3. MaxStarts \in Nat
  BY AppAssumption
<1> QED  BY <1>2, <1>3

(* Before the first start nothing has been done.                           *)
LEMMA InitIndInv == Init => IndInv /\ RanInv
<1> SUFFICES ASSUME Init PROVE IndInv /\ RanInv
  OBVIOUS
<1> USE AppAssumption DEF Init, NoConfig, NoWebsockets
<1>1. StepType /\ ServerType /\ RanInv
  BY DEF StepType, ServerType, Steps, Before, Hosts, Chosen, RanInv
<1>2. PathInv /\ WebsocketInv /\ ChosenInv /\ CountInv
  BY DEF PathInv, Before, WebsocketInv, ChosenInv, LastHost, CountInv, Ready
<1>3. DeclaredInv /\ ReuseOnlyFromFile
  BY DEF DeclaredInv, ReuseOnlyFromFile
<1> QED  BY <1>1, <1>2, <1>3 DEF IndInv

(* Only pc and outcome change, and what the tests are.                     *)
Quiet == UNCHANGED <<start, userFile, cfg, userID, testID, serverVars, ran, declared>>

(* The steps that only lead from one place of Run to the next.             *)
LEMMA QuietIndInv ==
  ASSUME IndInv, RanInv, Quiet, outcome' \in {"nil", "err", "panic", "crash"},
         \/ pc = "tests" /\ pc' = "useMLab"
         \/ pc = "useMLab" /\ pc' = "locate" /\ cfg.host # "IPv4"
         \/ pc = "useMLab" /\ pc' = "direct" /\ cfg.host = "IPv4"
         \/ pc = "try" /\ pc' = "cert" /\ Len(servers) = cfg.numServers
         \/ pc = "cert" /\ pc' = "loop"
         \/ pc \notin {"off", "config", "exit"} /\ pc' = "leave"
         \/ pc' = pc /\ outcome' = outcome
  PROVE  IndInv' /\ RanInv'
<1> USE DEF IndInv, Quiet, serverVars
<1>1. StepType' /\ ServerType' /\ RanInv'
  BY DEF StepType, ServerType, Steps, Before, Ready, RanInv
<1>2. PathInv' /\ WebsocketInv'
  BY DEF PathInv, WebsocketInv, Before
<1>3. ChosenInv'
  BY DEF ChosenInv, LastHost
<1>4. CountInv'
  BY DEF CountInv, Ready
<1>5. DeclaredInv' /\ ReuseOnlyFromFile'
  BY DEF DeclaredInv, ReuseOnlyFromFile
<1> QED  BY <1>1, <1>2, <1>3, <1>4, <1>5

(* A start finds nothing but the files.                                    *)
LEMMA StartIndInv ==
  ASSUME IndInv, RanInv, Start
  PROVE  IndInv' /\ RanInv'
<1> USE AppAssumption DEF IndInv, Start, fileVars, idVars, serverVars
<1>1. StepType' /\ ServerType' /\ RanInv'
  BY DEF StepType, ServerType, Steps, Before, RanInv
<1>2. PathInv'
  BY DEF PathInv, Before
<1>3. WebsocketInv'
  BY DEF ServerType, PathInv, WebsocketInv, Before
<1>4. ChosenInv' /\ CountInv'
  BY DEF PathInv, Before, ChosenInv, LastHost, CountInv, Ready
<1>5. DeclaredInv'
  <2>1. /\ pc = "off" /\ pc' \in {"config", "exit"} /\ start' = start + 1
        /\ userID' = userID /\ testID' = testID /\ declared' = declared
    OBVIOUS
  <2>2. \A i \in 1 .. Len(declared) : declared[i].start \in Nat /\ declared[i].start < start'
    <3> HIDE DEF Start
    <3>1. start \in Nat
      BY DEF StepType
    <3>2. \A i \in 1 .. Len(declared) : declared[i].start <= start
      BY DEF DeclaredInv
    <3> QED  BY <2>1, <3>1, <3>2, DeclaredTypes
  <2>3. start \in Nat /\ userID = 0
    BY <2>1 DEF StepType, DeclaredInv
  <2>4. \A i \in 1 .. Len(declared) : declared[i].user \in {0, declared[i].start}
    BY DEF DeclaredInv
  <2>5. declared \in Seq([start : 1 .. MaxStarts, user : 0 .. MaxStarts, test : Nat])
    BY DEF DeclaredInv
  <2> HIDE DEF IndInv, Start
  <2> QED  BY <2>1, <2>2, <2>3, <2>4, <2>5 DEF DeclaredInv
<1>6. ReuseOnlyFromFile'
  BY DEF ReuseOnlyFromFile
<1> QED  BY <1>1, <1>2, <1>3, <1>4, <1>5, <1>6

(* A configuration that is accepted gives one to four servers.             *)
LEMMA ConfigIndInv ==
  ASSUME IndInv, RanInv, ReadConfig \/ ConfigRefused
  PROVE  IndInv' /\ RanInv'
<1> USE DEF IndInv, ReadConfig, ConfigRefused, Goes, fileVars, idVars, serverVars
<1>1. pc' = "user" => cfg'.numServers \in 1 .. 4 /\ cfg'.host \in Hosts
  <2> SUFFICES ASSUME NEW file \in ConfigFiles, NEW host \in Hosts, NewSucceeds(raw, file),
                      cfg' = [names |-> TestNames(raw), numServers |-> file["num_servers"].n,
                              host |-> host]
               PROVE  cfg'.numServers \in 1 .. 4 /\ cfg'.host \in Hosts
    OBVIOUS
  <2>1. Accepted("num_servers", file["num_servers"])
    BY DEF NewSucceeds, Keys
  <2> QED  BY <2>1, NumServersInRange
<1>2. pc = "config" /\ pc' \in {"user", "exit"} /\ (pc' = "exit" => cfg' = cfg)
  OBVIOUS
<1>3. UNCHANGED <<start, userFile, userID, testID, serverVars, ran, declared>>
      /\ outcome' \in {outcome, "err"}
  OBVIOUS
<1> HIDE DEF ReadConfig, ConfigRefused
<1>4. StepType' /\ ServerType' /\ RanInv'
  BY <1>1, <1>2, <1>3 DEF StepType, ServerType, Steps, Before, RanInv
<1>5. PathInv' /\ WebsocketInv'
  BY <1>1, <1>2, <1>3 DEF ServerType, PathInv, WebsocketInv, Before
<1>6. ChosenInv' /\ CountInv'
  BY <1>2, <1>3 DEF ServerType, PathInv, Before, ChosenInv, LastHost, CountInv, Ready
<1>7. DeclaredInv' /\ ReuseOnlyFromFile'
  BY <1>2, <1>3 DEF DeclaredInv, ReuseOnlyFromFile
<1> QED  BY <1>4, <1>5, <1>6, <1>7

(* Nothing but the files and the servers' memory survives.                 *)
LEMMA ExitIndInv ==
  ASSUME IndInv, RanInv, Exit
  PROVE  IndInv' /\ RanInv'
<1> USE AppAssumption DEF IndInv, Exit, Goes, fileVars, NoConfig, NoWebsockets
<1>1. StepType' /\ ServerType' /\ RanInv'
  BY DEF StepType, ServerType, Steps, Before, Hosts, RanInv
<1>2. PathInv' /\ WebsocketInv'
  BY DEF PathInv, WebsocketInv, Before
<1>3. ChosenInv' /\ CountInv'
  BY DEF ChosenInv, LastHost, CountInv, Ready
<1>4. DeclaredInv' /\ ReuseOnlyFromFile'
  BY DEF StepType, DeclaredInv, ReuseOnlyFromFile
<1> QED  BY <1>1, <1>2, <1>3, <1>4

(* IDs come from the file, or the user ID is that of this start.           *)
LEMMA ReadUserConfigIndInv ==
  ASSUME IndInv, RanInv, ReadUserConfig
  PROVE  IndInv' /\ RanInv'
<1> USE DEF IndInv, ReadUserConfig, Goes, fileVars, serverVars
<1>1. testID' \in Nat /\ userID' \in {0, start}
  BY DEF StepType, UserFiles, IsTestIDValid
<1>2. StepType' /\ ServerType' /\ RanInv'
  BY <1>1 DEF StepType, ServerType, Steps, Before, RanInv
<1>3. PathInv' /\ WebsocketInv'
  BY DEF PathInv, WebsocketInv, Before
<1>4. ChosenInv' /\ CountInv'
  BY DEF PathInv, Before, ChosenInv, LastHost, CountInv, Ready
<1>5. DeclaredInv' /\ ReuseOnlyFromFile'
  BY <1>1 DEF DeclaredInv, ReuseOnlyFromFile
<1> QED  BY <1>2, <1>3, <1>4, <1>5

(* No server has been tried before M-Lab has offered some.                 *)
LEMMA GetMLabServersIndInv ==
  ASSUME IndInv, RanInv, GetMLabServers
  PROVE  IndInv' /\ RanInv'
<1> USE DEF IndInv, GetMLabServers, Goes, fileVars, idVars
<1>1. StepType' /\ ServerType' /\ RanInv'
  BY AppAssumption DEF StepType, ServerType, PathInv, Steps, RanInv
<1>2. PathInv' /\ WebsocketInv'
  BY DEF PathInv, WebsocketInv, Before
<1>3. ChosenInv' /\ CountInv'
  BY DEF StepType, ServerType, PathInv, ChosenInv, LastHost, CountInv, Ready
<1>4. DeclaredInv' /\ ReuseOnlyFromFile'
  BY DEF DeclaredInv, ReuseOnlyFromFile
<1> QED  BY <1>1, <1>2, <1>3, <1>4

(* A server offered that cannot be used counts as a try.                   *)
LEMMA FailedTryIndInv ==
  ASSUME IndInv, RanInv, NEW host \in 1 .. MaxOffered,
         NewFails(host) \/ OpenWebsocketFails(host)
  PROVE  IndInv' /\ RanInv'
<1> USE DEF IndInv
<1>1. /\ pc = "try" /\ pc' = "try" /\ host = tried + 1 /\ tried' = host /\ tried < offered
      /\ UNCHANGED <<outcome, start, userFile, cfg, userID, testID, offered, ran, declared>>
      /\ numTries' = numTries + 1 /\ deferred' \in {deferred, deferred \cup {host}}
      /\ UNCHANGED <<servers, websocket>>
  BY DEF NewFails, OpenWebsocketFails, Try, Goes, fileVars, idVars
<1>2. StepType' /\ ServerType' /\ RanInv'
  BY <1>1, AppAssumption DEF StepType, ServerType, RanInv
<1>3. PathInv' /\ WebsocketInv'
  BY <1>1 DEF PathInv, WebsocketInv, Before
<1>4. ChosenInv' /\ CountInv'
  <2>1. tried \in Nat /\ numTries \in Nat
    BY AppAssumption DEF ServerType
  <2>2. cfg.host # "IPv4"
    BY <1>1 DEF PathInv
  <2>3. /\ \A i \in 1 .. Len(servers) :
             /\ servers[i].host \in 1 .. tried
             /\ servers[i].numMLabTries = servers[i].host - LastHost(i - 1)
             /\ websocket[servers[i].host] = "open"
        /\ \A i, j \in 1 .. Len(servers) : i < j => servers[i].host < servers[j].host
        /\ numTries = tried - LastHost(Len(servers))
    BY <1>1, <2>2 DEF ChosenInv
  <2>4. LastHost(Len(servers)) \in Int
    BY <2>1, <2>3 DEF LastHost, ServerType
  <2>5. \A i : LastHost(i)' = LastHost(i)
    BY <1>1 DEF LastHost
  <2>6. \A i \in 1 .. Len(servers) : servers[i].host \in 1 .. tried'
    BY <1>1, <2>1, <2>3
  <2>7. numTries' = tried' - LastHost(Len(servers))
    BY <1>1, <2>1, <2>3, <2>4
  <2>8. CountInv'
    BY <1>1 DEF CountInv, Ready
  <2> QED  BY <1>1, <2>3, <2>5, <2>6, <2>7, <2>8 DEF ChosenInv
<1>5. DeclaredInv' /\ ReuseOnlyFromFile'
  BY <1>1 DEF DeclaredInv, ReuseOnlyFromFile
<1> QED  BY <1>2, <1>3, <1>4, <1>5

(* A server chosen comes after those chosen before, and its tries are      *)
(* those since the last of them.                                           *)
LEMMA OpenWebsocketIndInv ==
  ASSUME IndInv, RanInv, NEW host \in 1 .. MaxOffered, OpenWebsocket(host)
  PROVE  IndInv' /\ RanInv'
<1> USE DEF IndInv
<1> DEFINE new == [host |-> host, numMLabTries |-> numTries + 1]
           n   == Len(servers)
           newLast(i) == IF i = 0 THEN 0 ELSE servers'[i].host
<1>1. /\ pc = "try" /\ pc' = "try" /\ host = tried + 1 /\ tried' = host /\ tried < offered
      /\ UNCHANGED <<outcome, start, userFile, cfg, userID, testID, offered, ran, declared>>
      /\ numTries' = 0 /\ deferred' = deferred \cup {host} /\ n # cfg.numServers
      /\ websocket' = [websocket EXCEPT ![host] = "open"] /\ servers' = Append(servers, new)
  BY DEF OpenWebsocket, Try, Goes, fileVars, idVars
<1>2. servers \in Seq(Chosen) /\ tried \in Nat /\ numTries \in Nat /\ MaxOffered \in Nat
  BY AppAssumption DEF ServerType
<1>3. new \in Chosen /\ n \in Nat /\ n < cfg.numServers /\ cfg.numServers \in 0 .. 4
  <2>1. new \in Chosen
    BY <1>2 DEF Chosen
  <2>2. n \in Nat /\ n <= cfg.numServers /\ cfg.numServers \in 0 .. 4
    BY <1>1, <1>2 DEF CountInv, StepType
  <2> QED  BY <1>1, <2>1, <2>2
<1>4. /\ servers' \in Seq(Chosen) /\ Len(servers') = n + 1 /\ servers'[n + 1] = new
      /\ \A i \in 1 .. n : servers'[i] = servers[i]
  BY <1>1, <1>2, <1>3
<1>5. StepType' /\ ServerType' /\ RanInv'
  BY <1>1, <1>2, <1>3, <1>4 DEF StepType, ServerType, RanInv
<1>6. PathInv' /\ WebsocketInv'
  BY <1>1 DEF PathInv, WebsocketInv, ServerType, Before
<1>7. CountInv'
  BY <1>1, <1>3, <1>4 DEF CountInv, Ready
<1>8. ChosenInv'
  <2>1. cfg.host # "IPv4"
    BY <1>1 DEF PathInv
  <2>2. /\ \A i \in 1 .. n :
             /\ servers[i].host \in 1 .. tried
             /\ servers[i].numMLabTries = servers[i].host - LastHost(i - 1)
             /\ websocket[servers[i].host] = "open"
        /\ \A i, j \in 1 .. n : i < j => servers[i].host < servers[j].host
        /\ numTries = tried - LastHost(n)
    BY <1>1, <2>1 DEF ChosenInv
  <2>3. LastHost(n) \in Int
    BY <1>2, <1>3, <2>2 DEF LastHost
  <2>4. newLast(n + 1) = host /\ \A i \in 1 .. n + 1 : newLast(i - 1) = LastHost(i - 1)
    <3>1. newLast(n + 1) = host
      <4>1. n + 1 # 0 /\ servers'[n + 1].host = host
        BY <1>3, <1>4
      <4> QED  BY <4>1
    <3>2. ASSUME NEW i \in 1 .. n + 1 PROVE newLast(i - 1) = LastHost(i - 1)
      <4>1. CASE i = 1
        BY <4>1 DEF LastHost
      <4>2. CASE i # 1
        <5>1. i - 1 \in 1 .. n
          BY <1>3, <4>2
        <5>2. servers'[i - 1] = servers[i - 1] /\ i - 1 # 0
          BY <1>3, <1>4, <5>1
        <5> QED  BY <5>2 DEF LastHost
      <4> QED  BY <4>1, <4>2
    <3> QED  BY <3>1, <3>2
  <2>5. ASSUME NEW i \in 1 .. n + 1
        PROVE  /\ servers'[i].host \in 1 .. tried'
               /\ servers'[i].numMLabTries = servers'[i].host - newLast(i - 1)
               /\ websocket'[servers'[i].host] = "open"
    <3>1. CASE i \in 1 .. n
      <4>1. websocket \in [1 .. MaxOffered -> {"none", "open", "closed"}]
        BY DEF ServerType
      <4>2. servers'[i] = servers[i] /\ newLast(i - 1) = LastHost(i - 1)
        BY <1>4, <2>4, <3>1
      <4> QED  BY <1>1, <1>2, <2>2, <3>1, <4>1, <4>2
    <3>2. CASE i = n + 1
      <4>1. websocket' [host] = "open"
        BY <1>1 DEF ServerType
      <4>2. newLast(i - 1) = LastHost(n) /\ servers'[i] = new
        BY <1>3, <1>4, <2>4, <3>2
      <4> QED  BY <1>1, <1>2, <2>2, <2>3, <4>1, <4>2
    <3> QED  BY <1>3, <3>1, <3>2
  <2>6. ASSUME NEW i \in 1 .. n + 1, NEW j \in 1 .. n + 1, i < j
        PROVE  servers'[i].host < servers'[j].host
    <3>1. i \in 1 .. n /\ servers'[i] = servers[i] /\ servers[i].host \in 1 .. tried
      BY <1>3, <1>4, <2>2, <2>6
    <3> QED  BY <1>1, <1>2, <1>3, <1>4, <2>2, <2>6, <3>1
  <2>7. numTries' = tried' - newLast(n + 1)
    BY <1>1, <1>2, <2>4
  <2>8. Len(servers)' = n + 1
    BY <1>4
  <2> QED  BY <2>5, <2>6, <2>7, <2>8 DEF ChosenInv, LastHost
<1>9. DeclaredInv' /\ ReuseOnlyFromFile'
  BY <1>1 DEF DeclaredInv, ReuseOnlyFromFile
<1> QED  BY <1>5, <1>6, <1>7, <1>8, <1>9

(* A server that is not an M-Lab one is the only one.                      *)
LEMMA NewServerIndInv ==
  ASSUME IndInv, RanInv, NewServer
  PROVE  IndInv' /\ RanInv'
<1> USE DEF IndInv
<1>1. /\ pc = "direct" /\ pc' = "cert" /\ cfg.numServers <= 1
      /\ servers' = <<[host |-> 0, numMLabTries |-> 0]>>
      /\ UNCHANGED <<outcome, start, userFile, cfg, userID, testID, offered, tried, numTries,
                     deferred, websocket, ran, declared>>
  BY DEF NewServer, Goes, fileVars, idVars
<1>2. [host |-> 0, numMLabTries |-> 0] \in Chosen /\ Len(servers') = 1 /\ cfg.numServers = 1
  BY <1>1, AppAssumption DEF Chosen, StepType, PathInv
<1>3. StepType' /\ ServerType' /\ RanInv'
  BY <1>1, <1>2 DEF StepType, ServerType, Steps, Ready, RanInv
<1>4. PathInv' /\ WebsocketInv'
  BY <1>1 DEF PathInv, WebsocketInv, Before
<1>5. ChosenInv' /\ CountInv'
  BY <1>1, <1>2 DEF PathInv, ChosenInv, CountInv
<1>6. DeclaredInv' /\ ReuseOnlyFromFile'
  BY <1>1 DEF DeclaredInv, ReuseOnlyFromFile
<1> QED  BY <1>3, <1>4, <1>5, <1>6

(* However a test ends, its ID is above those told in this start.          *)
LEMMA TestIndInv ==
  ASSUME IndInv, RanInv, TestSucceeds \/ TestFails \/ TestDoesNotStart \/ TestCrashes
  PROVE  IndInv' /\ RanInv'
<1> USE DEF IndInv
<1> DEFINE new == [start |-> start, user |-> userID, test |-> testID + 1]
           n   == Len(declared)
<1>1. /\ pc = "loop" /\ pc' \in {"loop", "leave", "exit"}
      /\ outcome' \in {outcome, "err", "panic", "crash"} /\ (pc' = "exit" => outcome' = "crash")
      /\ testID' = testID + 1 /\ ran' = Append(ran, Head(tests))
      /\ UNCHANGED <<start, userFile, cfg, userID, offered, tried, numTries, servers, deferred>>
  BY DEF TestSucceeds, TestFails, TestDoesNotStart, TestCrashes, NextTest, fileVars
<1>2. declared' \in {declared, Append(declared, new)}
  BY DEF TestSucceeds, TestFails, TestDoesNotStart, TestCrashes, NextTest, Declare
<1>3. /\ websocket' \in [1 .. MaxOffered -> {"none", "open", "closed"}]
      /\ \A host \in 1 .. MaxOffered : websocket'[host] = "open" => websocket[host] = "open"
  BY DEF TestSucceeds, TestFails, TestDoesNotStart, TestCrashes, CloseChosen, Close, ServerType
<1>4. RanInv' /\ ran' # <<>>
  <2>1. PICK S : ran \in Seq(S)
    BY DEF RanInv
  <2>2. ran \in Seq(S \cup {Head(tests)})
    BY <2>1
  <2>3. ran' \in Seq(S \cup {Head(tests)}) /\ Len(ran') = Len(ran) + 1 /\ Len(ran) \in Nat
    BY <1>1, <2>2
  <2> QED  BY <2>3 DEF RanInv
<1>5. StepType' /\ ServerType'
  BY <1>1, <1>3 DEF StepType, ServerType, Steps, Ready
<1>6. PathInv' /\ WebsocketInv'
  BY <1>1, <1>3 DEF PathInv, WebsocketInv, Before
<1>7. ChosenInv' /\ CountInv'
  BY <1>1, <1>4 DEF ChosenInv, LastHost, CountInv, Ready
<1>8. DeclaredInv' /\ ReuseOnlyFromFile'
  <2>1. /\ start \in 1 .. MaxStarts /\ MaxStarts \in Nat /\ testID \in Nat
        /\ userID \in {0, start} /\ n \in Nat
        /\ declared \in Seq([start : 1 .. MaxStarts, user : 0 .. MaxStarts, test : Nat])
    BY <1>1, AppAssumption DEF StepType, DeclaredInv
  <2>2. \A i \in 1 .. n :
          /\ declared[i].start \in Nat /\ declared[i].test \in Nat
          /\ declared[i].start <= start /\ declared[i].user \in {0, declared[i].start}
          /\ declared[i].start = start => declared[i].user = userID /\ declared[i].test <= testID
    BY <1>1, DeclaredTypes DEF DeclaredInv
  <2>3. CASE declared' = declared
    <3>1. \A i \in 1 .. n : declared[i].test <= testID => declared[i].test <= testID + 1
      BY <2>1, DeclaredTypes
    <3> QED  BY <1>1, <2>1, <2>2, <2>3, <3>1 DEF DeclaredInv, ReuseOnlyFromFile
  <2>4. CASE declared' = Append(declared, new)
    <3>1. new \in [start : 1 .. MaxStarts, user : 0 .. MaxStarts, test : Nat]
      BY <2>1
    <3>2. /\ declared' \in Seq([start : 1 .. MaxStarts, user : 0 .. MaxStarts, test : Nat])
          /\ Len(declared') = n + 1 /\ declared'[n + 1] = new
          /\ \A i \in 1 .. n : declared'[i] = declared[i]
      BY <2>1, <2>4, <3>1
    <3>3. ASSUME NEW i \in 1 .. n + 1
          PROVE  /\ declared'[i].start <= start
                 /\ declared'[i].user \in {0, declared'[i].start}
                 /\ declared'[i].start = start =>
                      declared'[i].user = userID /\ declared'[i].test <= testID + 1
      <4>1. CASE i \in 1 .. n
        <5>1. declared'[i] = declared[i]
          BY <3>2, <4>1
        <5>2. /\ declared[i].start <= start /\ declared[i].user \in {0, declared[i].start}
              /\ declared[i].test \in Nat
              /\ declared[i].start = start =>
                   declared[i].user = userID /\ declared[i].test <= testID
          BY <2>2, <4>1
        <5> QED  BY <2>1, <5>1, <5>2
      <4>2. CASE i = n + 1
        BY <2>1, <3>2, <4>2
      <4> QED  BY <2>1, <4>1, <4>2
    <3>4. DeclaredInv'
      BY <1>1, <2>1, <3>2, <3>3 DEF DeclaredInv
    <3>5. ASSUME NEW i \in 1 .. n + 1, NEW j \in 1 .. n + 1, i < j,
                 declared'[i].user = declared'[j].user, declared'[i].test = declared'[j].test
          PROVE  declared'[i].start < declared'[j].start /\ declared'[i].user = 0
      <4>1. i \in 1 .. n /\ declared'[i] = declared[i]
        <5>1. i \in 1 .. n
          BY <2>1, <3>5
        <5> QED  BY <3>2, <5>1
      <4>2. CASE j \in 1 .. n
        BY <3>2, <3>5, <4>1, <4>2 DEF ReuseOnlyFromFile
      <4>3. CASE j = n + 1
        <5>1. declared[i].user = userID /\ declared[i].test = testID + 1
          <6>1. declared'[j] = new
            BY <3>2, <4>3
          <6> QED  BY <3>5, <4>1, <6>1
        <5>2. declared[i].start \in Nat /\ declared[i].start < start
          <6>1. /\ declared[i].start \in Nat /\ declared[i].start <= start
                /\ declared[i].start = start => declared[i].test <= testID
            BY <2>2, <4>1
          <6> QED  BY <2>1, <5>1, <6>1
        <5>3. declared[i].user \in {0, declared[i].start}
          BY <2>2, <4>1
        <5>4. declared'[j].start = start
          BY <3>2, <4>3
        <5> QED  BY <2>1, <4>1, <5>1, <5>2, <5>3, <5>4
      <4> QED  BY <2>1, <4>2, <4>3
    <3>6. Len(declared)' = n + 1
      BY <3>2
    <3>7. ReuseOnlyFromFile'
      BY <3>5, <3>6 DEF ReuseOnlyFromFile
    <3> QED  BY <3>4, <3>7
  <2> QED  BY <1>2, <2>3, <2>4
<1> QED  BY <1>4, <1>5, <1>6, <1>7, <1>8

(* All that is open is closed, since its clean-up is deferred.             *)
LEMMA LeaveIndInv ==
  ASSUME IndInv, RanInv, Leave
  PROVE  IndInv' /\ RanInv'
<1> USE DEF IndInv
<1>1. /\ pc = "leave" /\ pc' = "exit"
      /\ UNCHANGED <<outcome, start, userFile, cfg, userID, testID, offered, tried, numTries,
                     servers, deferred, ran, declared>>
  BY DEF Leave, Goes, fileVars, idVars
<1>2. /\ websocket' \in [1 .. MaxOffered -> {"none", "open", "closed"}]
      /\ \A host \in 1 .. MaxOffered : websocket'[host] # "open"
  BY DEF Leave, Close, ServerType, WebsocketInv
<1>3. StepType' /\ ServerType' /\ RanInv'
  BY <1>1, <1>2 DEF StepType, ServerType, Steps, RanInv
<1>4. PathInv' /\ WebsocketInv'
  BY <1>1, <1>2 DEF PathInv, WebsocketInv, Before
<1>5. ChosenInv' /\ CountInv'
  BY <1>1 DEF ChosenInv, LastHost, CountInv, Ready
<1>6. DeclaredInv' /\ ReuseOnlyFromFile'
  BY <1>1 DEF DeclaredInv, ReuseOnlyFromFile
<1> QED  BY <1>3, <1>4, <1>5, <1>6

-----------------------------------------------------------------------------
(* Every action keeps the invariant.                                       *)
LEMMA NextIndInv == IndInv /\ RanInv /\ [Next]_vars => IndInv' /\ RanInv'
<1> SUFFICES ASSUME IndInv, RanInv, [Next]_vars PROVE IndInv' /\ RanInv'
  OBVIOUS
<1> DEFINE Goal == IndInv' /\ RanInv'
<1>1. CASE Start
  BY <1>1, StartIndInv
<1>2. CASE ReadConfig \/ ConfigRefused
  BY <1>2, ConfigIndInv
<1>3. CASE Exit
  BY <1>3, ExitIndInv
<1>4. CASE ReadUserConfig
  BY <1>4, ReadUserConfigIndInv
<1>5. CASE GetMLabServers
  BY <1>5, GetMLabServersIndInv
<1>6. ASSUME NEW host \in 1 .. MaxOffered,
             NewFails(host) \/ OpenWebsocketFails(host) \/ OpenWebsocket(host)
      PROVE  Goal
  BY <1>6, FailedTryIndInv, OpenWebsocketIndInv
<1>7. CASE NewServer
  BY <1>7, NewServerIndInv
<1>8. CASE TestSucceeds \/ TestFails \/ TestDoesNotStart \/ TestCrashes
  BY <1>8, TestIndInv
<1>9. CASE Leave
  BY <1>9, LeaveIndInv
<1>10. CASE ParseTestJSON \/ UseMLab \/ UseOwnServer \/ EnoughServers
  <2>1. /\ Quiet /\ outcome' = outcome
        /\ \/ pc = "tests" /\ pc' = "useMLab"
           \/ pc = "useMLab" /\ pc' = "locate" /\ cfg.host # "IPv4"
           \/ pc = "useMLab" /\ pc' = "direct" /\ cfg.host = "IPv4"
           \/ pc = "try" /\ pc' = "cert" /\ Len(servers) = cfg.numServers
    BY <1>10 DEF ParseTestJSON, UseMLab, UseOwnServer, EnoughServers, Goes, Quiet, fileVars,
                 idVars
  <2> QED  BY <2>1, QuietIndInv DEF IndInv, StepType
<1>11. CASE ParseTestJSONFails \/ UseMLabFails \/ GetMLabServersFails \/ TooFewServers
            \/ NewServerFails \/ TestsDone
  <2>1. /\ Quiet /\ outcome' \in {outcome, "err"}
        /\ pc \notin {"off", "config", "exit"} /\ pc' = "leave"
    BY <1>11 DEF ParseTestJSONFails, UseMLabFails, GetMLabServersFails, TooFewServers,
                 NewServerFails, TestsDone, Goes, Fails, Quiet, fileVars, idVars
  <2> QED  BY <2>1, QuietIndInv DEF IndInv, StepType
<1>12. CASE AddTrustedCACerts
  <2>1. /\ Quiet /\ outcome' \in {outcome, "err"} /\ pc = "cert" /\ pc' \in {"loop", "leave"}
    BY <1>12 DEF AddTrustedCACerts, Goes, Fails, Quiet, fileVars, idVars
  <2> QED  BY <2>1, QuietIndInv DEF IndInv, StepType
<1>13. CASE Finished \/ UNCHANGED vars
  <2>1. Quiet /\ outcome' = outcome /\ pc' = pc
    BY <1>13 DEF Finished, vars, Quiet, fileVars, idVars
  <2> QED  BY <2>1, QuietIndInv DEF IndInv, StepType
<1> QED
  BY <1>1, <1>2, <1>3, <1>4, <1>5, <1>6, <1>7, <1>8, <1>9, <1>10, <1>11, <1>12, <1>13 DEF Next

(* The conjuncts of IndInv hold at every step of every start.              *)
THEOREM Invariance == Spec => [](IndInv /\ RanInv)
<1> QED  BY InitIndInv, NextIndInv, PTL DEF Spec

(* The types of module App, for any list of tests, any number of servers   *)
(* that M-Lab offers and any number of starts.                             *)
THEOREM TypeCorrectness == Spec => []TypeOK
<1>1. IndInv => TypeOK
  BY AppAssumption DEF IndInv, StepType, ServerType, Steps, Before, Ready, TypeOK
<1> QED  BY <1>1, Invariance, PTL

(* However many servers M-Lab offers and whichever of them fail, the tries *)
(* noted for those chosen account for every one tried.                     *)
THEOREM AccountedTries == Spec => []TriesAccountedFor
<1>1. IndInv => TriesAccountedFor
  BY DEF IndInv, ChosenInv, LastHost, TriesAccountedFor
<1> QED  BY <1>1, Invariance, PTL

(* When the first test begins, the servers configured are there, distinct, *)
(* and connected.                                                          *)
THEOREM ReadyServers == Spec => []ServersReady
<1>1. ASSUME IndInv PROVE ServersReady
  <2>1. CASE cfg.host = "IPv4"
    BY <1>1, <2>1 DEF IndInv, PathInv, CountInv, Ready, ServersReady
  <2>2. CASE cfg.host # "IPv4"
    <3> SUFFICES ASSUME pc = "loop", ran = <<>>
                 PROVE  /\ Len(servers) = cfg.numServers
                        /\ \A i, j \in 1 .. Len(servers) :
                             servers[i].host = servers[j].host => i = j
                        /\ \A i \in 1 .. Len(servers) :
                             servers[i].host # 0 /\ websocket[servers[i].host] = "open"
      BY DEF ServersReady
    <3>1. /\ \A i \in 1 .. Len(servers) :
               servers[i].host \in 1 .. tried /\ websocket[servers[i].host] = "open"
          /\ \A i, j \in 1 .. Len(servers) : i < j => servers[i].host < servers[j].host
      BY <1>1, <2>2 DEF IndInv, ChosenInv
    <3>2. tried \in Nat /\ Len(servers) \in Nat /\ Len(servers) = cfg.numServers
      BY <1>1, AppAssumption DEF IndInv, ServerType, CountInv, Ready
    <3> QED  BY <3>1, <3>2
  <2> QED  BY <2>1, <2>2
<1> QED  BY <1>1, Invariance, PTL

(* No websocket is left open by a start that does not crash.               *)
THEOREM ReleasedWebsockets == Spec => []WebsocketsReleased
<1>1. IndInv => WebsocketsReleased
  BY DEF IndInv, WebsocketInv, WebsocketsReleased
<1> QED  BY <1>1, Invariance, PTL

(* However often the client is started, a server is told the same IDs      *)
(* again only by another start, which has read them from the user's file.  *)
THEOREM FreshIDs == Spec => []ReuseOnlyFromFile
<1>1. IndInv => ReuseOnlyFromFile
  BY DEF IndInv
<1> QED  BY <1>1, Invariance, PTL

-----------------------------------------------------------------------------
(***************************************************************************)
(* The tests that are run.                                                 *)
(***************************************************************************)

Tests == [image : Images, entry : Nat]

(* From their selection on, the tests that have run and those still to run *)
(* make up the selection, in its order.                                    *)
SelectionInv ==
  /\ testList \in Seq(Images) /\ raw \in Seq(Images \cup {Blank})
  /\ ran \in Seq(Tests) /\ tests \in Seq(Tests)
  /\ pc \in {"off", "config", "user", "tests"} => ran = <<>>
  /\ pc \notin {"off", "config", "exit"} => cfg.names = TestNames(raw) /\ cfg.names # <<>>
  /\ pc \in {"useMLab", "locate", "try", "direct", "cert", "loop"} =>
       /\ InvalidTestNames(AllTests, cfg.names) = {}
       /\ ran \o tests = UserRequestedTests(AllTests, cfg.names)

LEMMA AllTestsListed ==
  ASSUME testList \in Seq(Images)
  PROVE  /\ AllTests \in Seq(Tests) /\ Len(AllTests) = Len(testList)
         /\ \A i \in 1 .. Len(testList) :
              AllTests[i].image = testList[i] /\ AllTests[i].entry = i
<1>1. Len(testList) \in Nat /\ \A i \in 1 .. Len(testList) : testList[i] \in Images
  OBVIOUS
<1> QED  BY <1>1 DEF AllTests, Tests

(* What a selection from the list for the names given has in it.           *)
LEMMA RequestedTests ==
  ASSUME testList \in Seq(Images), raw \in Seq(Images \cup {Blank}),
         TestNames(raw) # <<>>, InvalidTestNames(AllTests, TestNames(raw)) = {},
         NEW selected, selected = UserRequestedTests(AllTests, TestNames(raw))
  PROVE  /\ \A i, j \in 1 .. Len(selected) : i < j => selected[i].entry < selected[j].entry
         /\ {test.entry : test \in ToSet(selected)}
              = {i \in 1 .. Len(testList) : testList[i] \in ToSet(raw)}
         /\ ToSet(raw) \ {Blank} = {test.image : test \in ToSet(selected)}
         /\ selected # <<>>
<1> DEFINE names == TestNames(raw)
           asked == Requested(AllTests, names)
           n == Len(testList)
<1>1. /\ AllTests \in Seq(Tests) /\ Len(AllTests) = n /\ n \in Nat
      /\ \A i \in 1 .. n : AllTests[i].image = testList[i] /\ AllTests[i].entry = i
  BY AllTestsListed
<1>2. names \in Seq(Images \cup {Blank}) /\ ToSet(names) = ToSet(raw) \ {Blank}
  <2>1. ToSet(names) = ToSet(raw) \cap (ToSet(raw) \ {Blank})
    BY SelectedElements DEF TestNames
  <2> QED  BY <2>1, SelectedPicks DEF TestNames
<1>3. \A name : Contains(names, name) <=> name \in ToSet(names)
  <2> HIDE DEF names
  <2>1. DOMAIN names = 1 .. Len(names)
    BY <1>2
  <2>2. ToSet(names) = {names[i] : i \in 1 .. Len(names)}
    BY <2>1 DEF ToSet
  <2> QED  BY <2>2 DEF Contains
<1>4. \A k \in 1 .. n : testList[k] # Blank
  BY AppAssumption
<1> HIDE DEF names, n
<1>5. \A k \in 1 .. n : AllTests[k] \in asked <=> testList[k] \in ToSet(raw)
  <2>1. ASSUME NEW k \in 1 .. n PROVE AllTests[k] \in ToSet(AllTests)
    BY <1>1 DEF ToSet
  <2>2. ASSUME NEW k \in 1 .. n
        PROVE  Contains(names, AllTests[k].image) <=> testList[k] \in ToSet(raw)
    BY <1>1, <1>2, <1>3, <1>4
  <2> QED  BY <2>1, <2>2 DEF Requested
<1> HIDE DEF asked
<1>6. PICK f : Picks(f, selected, AllTests, n, asked)
  BY <1>1, SelectedPicks DEF UserRequestedTests, names, asked
<1>7. selected \in Seq(Tests) /\ ToSet(selected) = {selected[a] : a \in 1 .. Len(selected)}
  BY <1>1, SelectedPicks, SelectedElements DEF UserRequestedTests, names, asked
<1>8. /\ \A a, b \in 1 .. Len(selected) : a < b => f[a] < f[b]
      /\ \A a \in 1 .. Len(selected) :
           /\ f[a] \in 1 .. n /\ selected[a] = AllTests[f[a]] /\ selected[a].entry = f[a]
           /\ selected[a].image = testList[f[a]] /\ testList[f[a]] \in ToSet(raw)
      /\ \A k \in 1 .. n : testList[k] \in ToSet(raw) => \E a \in 1 .. Len(selected) : f[a] = k
  BY <1>1, <1>5, <1>6 DEF Picks
<1>9. \A i, j \in 1 .. Len(selected) : i < j => selected[i].entry < selected[j].entry
  BY <1>8
<1>10. {test.entry : test \in ToSet(selected)} = {i \in 1 .. n : testList[i] \in ToSet(raw)}
  BY <1>7, <1>8
<1>11. \A name \in ToSet(names) : \E test \in ToSet(selected) : test.image = name
  BY DEF InvalidTestNames, names
<1>12. ToSet(raw) \ {Blank} = {test.image : test \in ToSet(selected)}
  BY <1>2, <1>4, <1>7, <1>8, <1>11
<1>13. selected # <<>>
  <2>1. PICK name : name \in ToSet(names)
    <3>1. names # <<>>
      BY DEF names
    <3>2. names[1] \in ToSet(names)
      <4>1. 1 \in DOMAIN names
        BY <1>2, <3>1
      <4> QED  BY <4>1 DEF ToSet
    <3> QED  BY <3>2
  <2>2. PICK a \in 1 .. Len(selected) : TRUE
    BY <1>7, <1>11, <2>1
  <2> QED  BY <1>7, <2>2
<1> QED  BY <1>9, <1>10, <1>12, <1>13 DEF n

(* The next test to run is taken off the tests to run.                     *)
LEMMA NextTestMoves ==
  ASSUME ran \in Seq(Tests), tests \in Seq(Tests), NextTest
  PROVE  /\ ran' \in Seq(Tests) /\ tests' \in Seq(Tests) /\ ran' \o tests' = ran \o tests
         /\ pc = "loop" /\ UNCHANGED <<testList, raw, cfg>>
<1>1. /\ tests # <<>> /\ tests' = Tail(tests) /\ ran' = Append(ran, Head(tests))
      /\ pc = "loop" /\ UNCHANGED <<testList, raw, cfg>>
  BY DEF NextTest, fileVars
<1>2. Head(tests) \in Tests /\ Tail(tests) \in Seq(Tests)
  BY <1>1
<1>3. ran' = ran \o <<Head(tests)>>
  BY <1>1, <1>2, AppendIsConcat
<1>4. tests = <<Head(tests)>> \o Tail(tests)
  BY <1>1, <1>2
<1>5. ran' \o tests' = ran \o (<<Head(tests)>> \o Tail(tests))
  BY <1>1, <1>2, <1>3, ConcatAssociative
<1> QED  BY <1>1, <1>2, <1>4, <1>5

(* A step that leaves alone which tests there are, and on the way to the   *)
(* tests does not come from before their selection.                        *)
LEMMA SelectionFrame ==
  ASSUME SelectionInv, UNCHANGED <<testList, raw, cfg, tests, ran>>,
         \/ pc' = pc \/ pc' = "exit"
         \/ pc \notin {"off", "config", "exit"} /\ pc' = "leave"
         \/ pc \in {"useMLab", "locate", "try", "direct", "cert", "loop"}
            /\ pc' \in {"locate", "try", "direct", "cert", "loop", "leave"}
         \/ pc = "user" /\ pc' = "tests"
  PROVE  SelectionInv'
<1>1. AllTests' = AllTests
  BY DEF AllTests
<1> HIDE DEF AllTests
<1> QED  BY <1>1 DEF SelectionInv

LEMMA SelectionStep ==
  ASSUME SelectionInv, [Next]_vars
  PROVE  SelectionInv'
<1> USE DEF Goes, Fails, fileVars, idVars, serverVars
<1>1. CASE Start
  <2> DEFINE Names == Images \cup {Blank}
  <2>1. /\ pc = "off" /\ pc' \in {"config", "exit"}
        /\ raw' \in UpTo(MaxNames, Names) \/ raw' = <<Blank>> \/ raw' = <<>>
        /\ UNCHANGED <<testList, cfg, tests, ran>>
    BY <1>1 DEF Start
  <2>2. UpTo(MaxNames, Names) \subseteq Seq(Names) /\ Blank \in Names
    BY AppAssumption DEF UpTo
  <2>3. raw' \in Seq(Names)
    <3> HIDE DEF Names
    <3>1. <<>> \in Seq(Names) /\ \A name \in Names : <<name>> \in Seq(Names)
      OBVIOUS
    <3> QED  BY <2>1, <2>2, <3>1
  <2> QED  BY <2>1, <2>3 DEF SelectionInv
<1>2. CASE ReadConfig
  <2>1. /\ pc = "config" /\ pc' = "user" /\ cfg'.names = TestNames(raw) /\ TestNames(raw) # <<>>
        /\ UNCHANGED <<testList, raw, tests, ran>>
    BY <1>2 DEF ReadConfig, NewSucceeds
  <2> QED  BY <2>1 DEF SelectionInv
<1>3. CASE Exit
  <2>1. /\ pc' = "off" /\ raw' = <<>> /\ ran' = <<>> /\ tests' = <<>> /\ testList' = testList
    BY <1>3 DEF Exit
  <2> QED  BY <2>1 DEF SelectionInv
<1>4. CASE ParseTestJSON
  <2>1. /\ pc = "tests" /\ pc' = "useMLab" /\ InvalidTestNames(AllTests, cfg.names) = {}
        /\ tests' = UserRequestedTests(AllTests, cfg.names)
        /\ UNCHANGED <<testList, raw, cfg, ran>>
    BY <1>4 DEF ParseTestJSON
  <2>2. AllTests \in Seq(Tests) /\ AllTests' = AllTests
    BY <2>1, AllTestsListed DEF SelectionInv, AllTests
  <2>3. tests' \in Seq(Tests)
    BY <2>1, <2>2, SelectedPicks DEF UserRequestedTests
  <2>4. ran = <<>> /\ ran' \o tests' = tests'
    BY <2>1, <2>3 DEF SelectionInv
  <2> HIDE DEF AllTests
  <2> QED  BY <2>1, <2>2, <2>3, <2>4 DEF SelectionInv
<1>5. CASE TestSucceeds \/ TestFails \/ TestDoesNotStart \/ TestCrashes
  <2>1. NextTest /\ pc' \in {pc, "leave", "exit"}
    BY <1>5 DEF TestSucceeds, TestFails, TestDoesNotStart, TestCrashes
  <2>2. /\ ran' \in Seq(Tests) /\ tests' \in Seq(Tests) /\ ran' \o tests' = ran \o tests
        /\ pc = "loop" /\ UNCHANGED <<testList, raw, cfg>>
    BY <2>1, NextTestMoves DEF SelectionInv
  <2>3. AllTests' = AllTests
    BY <2>2 DEF AllTests
  <2> HIDE DEF AllTests
  <2> QED  BY <2>1, <2>2, <2>3 DEF SelectionInv
<1>6. CASE ConfigRefused \/ ReadUserConfig \/ ParseTestJSONFails
  BY <1>6, SelectionFrame DEF ConfigRefused, ReadUserConfig, ParseTestJSONFails
<1>7. CASE UseMLab \/ UseOwnServer \/ UseMLabFails \/ GetMLabServers \/ GetMLabServersFails
           \/ TooFewServers \/ EnoughServers \/ NewServer \/ NewServerFails
           \/ AddTrustedCACerts \/ TestsDone \/ Leave
  BY <1>7, SelectionFrame
     DEF UseMLab, UseOwnServer, UseMLabFails, GetMLabServers, GetMLabServersFails,
         TooFewServers, EnoughServers, NewServer, NewServerFails, AddTrustedCACerts,
         TestsDone, Leave
<1>8. ASSUME NEW host \in 1 .. MaxOffered,
             NewFails(host) \/ OpenWebsocketFails(host) \/ OpenWebsocket(host)
      PROVE  SelectionInv'
  BY <1>8, SelectionFrame DEF NewFails, OpenWebsocketFails, OpenWebsocket, Try
<1>9. CASE Finished \/ UNCHANGED vars
  BY <1>9, SelectionFrame DEF Finished, vars
<1> QED
  BY <1>1, <1>2, <1>3, <1>4, <1>5, <1>6, <1>7, <1>8, <1>9 DEF Next

LEMMA SelectionAsRequested ==
  ASSUME SelectionInv
  PROVE  TestsAsRequested
<1> DEFINE selected == ran \o tests
<1> SUFFICES ASSUME pc \in {"useMLab", "locate", "try", "direct", "cert", "loop"}
             PROVE  /\ \A i, j \in 1 .. Len(selected) :
                         i < j => selected[i].entry < selected[j].entry
                    /\ {test.entry : test \in ToSet(selected)}
                         = {i \in 1 .. Len(testList) : testList[i] \in ToSet(raw)}
                    /\ ToSet(raw) \ {Blank} = {test.image : test \in ToSet(selected)}
                    /\ selected # <<>>
  BY DEF TestsAsRequested
<1>1. /\ testList \in Seq(Images) /\ raw \in Seq(Images \cup {Blank})
      /\ TestNames(raw) # <<>> /\ InvalidTestNames(AllTests, TestNames(raw)) = {}
      /\ selected = UserRequestedTests(AllTests, TestNames(raw))
  BY DEF SelectionInv
<1> HIDE DEF selected
<1> QED  BY <1>1, RequestedTests

(* The tests run are those asked for by name, in the order of the list and *)
(* each once, whatever the list, the names and the number of starts.       *)
THEOREM RequestedTestsRun == Spec => []TestsAsRequested
<1>1. Init => SelectionInv
  BY AppAssumption DEF Init, SelectionInv, UpTo
<1>2. SelectionInv /\ [Next]_vars => SelectionInv'
  BY SelectionStep
<1>3. SelectionInv => TestsAsRequested
  BY SelectionAsRequested
<1> QED  BY <1>1, <1>2, <1>3, PTL DEF Spec

-----------------------------------------------------------------------------
(***************************************************************************)
(* The loop over the tests does what module TestLoop has for it, as that   *)
(* of module Orchestrator does.                                            *)
(***************************************************************************)

AnyOpen == \E host \in 1 .. MaxOffered : websocket[host] = "open"

(* No test has run before the loop, no websocket is open but those of the  *)
(* servers chosen, and a failure leads out of Run at once.                 *)
LoopInv ==
  /\ pc \notin {"loop", "leave", "exit"} => ran = <<>>
  /\ pc \notin {"off", "leave", "exit"} => outcome = "nil"
  /\ \A host \in 1 .. MaxOffered :
       websocket[host] = "open" => host \in {server.host : server \in ToSet(servers)}

(* A test that gets to its clean-up leaves no websocket open.              *)
LEMMA ChosenClosed ==
  ASSUME ServerType, LoopInv, CloseChosen
  PROVE  \A host \in 1 .. MaxOffered : websocket'[host] # "open"
BY DEF ServerType, LoopInv, CloseChosen, Close

(* The steps that leave the loop and the websockets alone.                 *)
LEMMA LoopFrame ==
  ASSUME LoopInv, UNCHANGED <<servers, websocket, ran>>,
         pc' \in {"off", "leave", "exit"} \/ outcome' = "nil",
         pc' \in {"loop", "leave", "exit"} \/ ran = <<>>
  PROVE  LoopInv'
BY DEF LoopInv

LEMMA LoopInvStep ==
  ASSUME IndInv, SelectionInv, LoopInv, [Next]_vars
  PROVE  LoopInv'
<1> USE DEF Goes, Fails, fileVars, idVars, serverVars
<1>1. CASE Start \/ ReadConfig \/ ConfigRefused \/ ReadUserConfig \/ ParseTestJSON
           \/ ParseTestJSONFails
  <2>1. /\ UNCHANGED <<servers, websocket, ran>> /\ pc \in Before
        /\ pc' \in {"exit", "leave"} \/ outcome' = "nil"
    BY <1>1 DEF Start, ReadConfig, ConfigRefused, ReadUserConfig, ParseTestJSON,
       ParseTestJSONFails, Before, LoopInv
  <2> QED  BY <2>1, LoopFrame DEF LoopInv, Before
<1>2. CASE UseMLab \/ UseOwnServer \/ UseMLabFails \/ GetMLabServers \/ GetMLabServersFails
           \/ TooFewServers \/ EnoughServers \/ NewServerFails \/ AddTrustedCACerts
  <2>1. /\ UNCHANGED <<servers, websocket, ran>> /\ pc \notin {"off", "loop", "leave", "exit"}
        /\ pc' = "leave" \/ outcome' = outcome
    BY <1>2 DEF UseMLab, UseOwnServer, UseMLabFails, GetMLabServers, GetMLabServersFails,
       TooFewServers, EnoughServers, NewServerFails, AddTrustedCACerts
  <2> QED  BY <2>1, LoopFrame DEF LoopInv
<1>3. ASSUME NEW host \in 1 .. MaxOffered, NewFails(host) \/ OpenWebsocketFails(host)
      PROVE  LoopInv'
  BY <1>3, LoopFrame DEF NewFails, OpenWebsocketFails, Try, LoopInv
<1>4. ASSUME NEW host \in 1 .. MaxOffered, OpenWebsocket(host)
      PROVE  LoopInv'
  <2> DEFINE new == [host |-> host, numMLabTries |-> numTries + 1]
  <2>1. /\ pc = "try" /\ pc' = "try" /\ servers' = Append(servers, new)
        /\ websocket' = [websocket EXCEPT ![host] = "open"]
        /\ UNCHANGED <<outcome, ran>>
    BY <1>4 DEF OpenWebsocket, Try
  <2>2. servers \in Seq(Chosen) /\ websocket \in [1 .. MaxOffered -> {"none", "open", "closed"}]
    BY DEF IndInv, ServerType
  <2>3. new \in ToSet(servers') /\ ToSet(servers) \subseteq ToSet(servers')
    <3>1. DOMAIN servers' = 1 .. Len(servers) + 1 /\ DOMAIN servers = 1 .. Len(servers)
          /\ Len(servers) \in Nat /\ servers'[Len(servers) + 1] = new
          /\ \A i \in 1 .. Len(servers) : servers'[i] = servers[i]
      BY <2>1, <2>2
    <3> HIDE DEF new
    <3> QED  BY <3>1 DEF ToSet
  <2>4. new.host = host
    OBVIOUS
  <2> HIDE DEF new
  <2> QED  BY <2>1, <2>2, <2>3, <2>4 DEF LoopInv
<1>5. CASE NewServer
  <2>1. /\ pc = "direct" /\ pc' = "cert" /\ UNCHANGED <<outcome, ran, websocket>>
    BY <1>5 DEF NewServer
  <2>2. servers = <<>>
    BY <2>1 DEF IndInv, PathInv
  <2>3. \A host \in 1 .. MaxOffered : websocket[host] # "open"
    BY <2>2 DEF LoopInv, ToSet
  <2> QED  BY <2>1, <2>3 DEF LoopInv
<1>6. CASE TestSucceeds \/ TestFails \/ TestDoesNotStart \/ TestCrashes
  <2>1. /\ pc = "loop" /\ pc' \in {"loop", "leave", "exit"} /\ servers' = servers
        /\ pc' = "loop" => outcome' = outcome
        /\ UNCHANGED websocket \/ CloseChosen
    BY <1>6 DEF TestSucceeds, TestFails, TestDoesNotStart, TestCrashes, NextTest
  <2>2. \A host \in 1 .. MaxOffered : websocket'[host] = "open" => websocket[host] = "open"
    BY <2>1, ChosenClosed DEF IndInv
  <2> QED  BY <2>1, <2>2 DEF LoopInv
<1>7. CASE TestsDone
  BY <1>7, LoopFrame DEF TestsDone
<1>8. CASE Leave
  <2>1. /\ pc' = "exit" /\ servers' = servers
        /\ \A host \in 1 .. MaxOffered : websocket'[host] = "open" => websocket[host] = "open"
    BY <1>8 DEF Leave, Close, IndInv, ServerType
  <2> QED  BY <2>1 DEF LoopInv
<1>9. CASE Exit
  BY <1>9 DEF Exit, NoWebsockets, LoopInv
<1>10. CASE Finished \/ UNCHANGED vars
  BY <1>10, LoopFrame DEF Finished, vars, LoopInv
<1> QED
  BY <1>1, <1>2, <1>3, <1>4, <1>5, <1>6, <1>7, <1>8, <1>9, <1>10 DEF Next


(* Outside the loop nothing of it is to be seen, and it begins with all of *)
(* the tests.                                                              *)
LEMMA LoopBegins ==
  ASSUME IndInv, SelectionInv, LoopInv, LoopInv', LoopPhase = "off",
         UNCHANGED declared, pc' = "loop" => pc = "cert" /\ tests' = tests /\ ran' = ran,
         pc' \in {"leave", "exit"} => ran' = <<>>
  PROVE  Loop!Next \/ UNCHANGED Loop!vars
<1>1. CASE pc' = "loop"
  <2>1. pc = "cert" /\ ran = <<>> /\ outcome' = "nil" /\ LoopPhase' = "loop"
    BY <1>1 DEF LoopInv, LoopPhase
  <2>2. tests' \in Seq(Tests) /\ tests' # <<>>
    <3>1. TestsAsRequested
      BY SelectionAsRequested
    <3>2. ran \o tests = tests
      BY <2>1 DEF SelectionInv
    <3> QED  BY <1>1, <2>1, <3>1, <3>2 DEF TestsAsRequested, SelectionInv
  <2>3. Len(tests') \in Nat \ {0}
    BY <2>2
  <2>4. (LoopPhase # "off" /\ AnyOpen)' \in BOOLEAN
    OBVIOUS
  <2>5. Loop!Begin
    BY <1>1, <2>1, <2>3, <2>4 DEF Loop!Begin, Loop!Looping, AnyOpen
  <2> QED  BY <2>5 DEF Loop!Next
<1>2. CASE pc' # "loop"
  <2>1. LoopPhase' = "off"
    BY <1>2 DEF LoopPhase
  <2> QED  BY <2>1 DEF Loop!vars
<1> QED  BY <1>1, <1>2

(* However a test ends, it is one of the ways module TestLoop has for it.  *)
LEMMA LoopTest ==
  ASSUME IndInv, SelectionInv, LoopInv,
         TestSucceeds \/ TestFails \/ TestDoesNotStart \/ TestCrashes
  PROVE  Loop!Next
<1>1. /\ pc = "loop" /\ tests # <<>> /\ tests' = Tail(tests)
      /\ ran' = Append(ran, Head(tests)) /\ pc' \in {"loop", "leave", "exit"}
  BY DEF TestSucceeds, TestFails, TestDoesNotStart, TestCrashes, NextTest
<1>2. ran' # <<>>
  <2>1. Len(ran') = Len(ran) + 1 /\ Len(ran) \in Nat
    BY <1>1 DEF SelectionInv
  <2> QED  BY <2>1
<1>3. LoopPhase = "loop" /\ LoopPhase' = pc'
  BY <1>1, <1>2 DEF LoopPhase
<1>4. Len(tests) \in Nat /\ Len(tests) > 0 /\ Len(tests') = Len(tests) - 1
  BY <1>1 DEF SelectionInv
<1>5. Declare => Len(declared') = Len(declared) + 1
  BY DEF Declare, IndInv, DeclaredInv
<1>6. CloseChosen => ~AnyOpen'
  BY ChosenClosed DEF IndInv, AnyOpen
<1>7. Loop!TestEnds
  BY <1>1, <1>3, <1>4 DEF Loop!TestEnds
<1>8. CASE TestSucceeds
  <2>1. Loop!TestSucceeds
    BY <1>1, <1>3, <1>5, <1>6, <1>7, <1>8 DEF TestSucceeds, Loop!TestSucceeds, AnyOpen
  <2> QED  BY <2>1 DEF Loop!Next
<1>9. CASE TestFails
  <2>1. Loop!TestFails
    BY <1>1, <1>3, <1>5, <1>6, <1>7, <1>9 DEF TestFails, Loop!TestFails, AnyOpen
  <2> QED  BY <2>1 DEF Loop!Next
<1>10. CASE TestDoesNotStart
  <2>1. Loop!TestDoesNotStart
    BY <1>1, <1>3, <1>7, <1>10 DEF TestDoesNotStart, Loop!TestDoesNotStart
  <2> QED  BY <2>1 DEF Loop!Next
<1>11. CASE TestCrashes
  <2>1. Loop!TestCrashes
    BY <1>1, <1>3, <1>5, <1>7, <1>11 DEF TestCrashes, Loop!TestCrashes
  <2> QED  BY <2>1 DEF Loop!Next
<1> QED  BY <1>8, <1>9, <1>10, <1>11

(* For any list of tests, number of servers and number of starts, the loop *)
(* of app.go implements module TestLoop, as the loop of module             *)
(* Orchestrator does, which has the steps of a test as well.               *)
THEOREM LoopRefinement == Spec => ImplementsLoop
<1>1. Init => Loop!Init /\ SelectionInv /\ LoopInv
  <2> SUFFICES ASSUME Init PROVE Loop!Init /\ SelectionInv /\ LoopInv
    OBVIOUS
  <2>1. LoopPhase = "off" /\ Len(declared) = 0
    BY DEF Init, LoopPhase
  <2>2. Loop!Init
    BY <2>1 DEF Loop!Init, Loop!Off
  <2>3. SelectionInv
    BY AppAssumption DEF Init, SelectionInv, UpTo
  <2>4. LoopInv
    BY DEF Init, LoopInv, NoWebsockets
  <2> QED  BY <2>2, <2>3, <2>4
<1>2. IndInv /\ SelectionInv /\ LoopInv /\ [Next]_vars => LoopInv'
  BY LoopInvStep
<1>3. SelectionInv /\ [Next]_vars => SelectionInv'
  BY SelectionStep
<1>4. IndInv /\ SelectionInv /\ LoopInv /\ LoopInv' /\ [Next]_vars => [Loop!Next]_(Loop!vars)
  <2> SUFFICES ASSUME IndInv, SelectionInv, LoopInv, LoopInv', [Next]_vars
               PROVE  Loop!Next \/ UNCHANGED Loop!vars
    OBVIOUS
  <2> USE DEF Goes, Fails, fileVars, idVars, serverVars
  <2>1. CASE TestSucceeds \/ TestFails \/ TestDoesNotStart \/ TestCrashes
    BY <2>1, LoopTest
  <2>2. CASE TestsDone
    <3>1. /\ pc = "loop" /\ pc' = "leave" /\ tests = <<>>
          /\ UNCHANGED <<tests, ran, declared, outcome, websocket>>
      BY <2>2 DEF TestsDone
    <3>2. ran # <<>>
      <4>1. TestsAsRequested
        BY SelectionAsRequested
      <4> QED  BY <3>1, <4>1 DEF TestsAsRequested, SelectionInv
    <3>3. LoopPhase = "loop" /\ LoopPhase' = "leave" /\ Len(tests) = 0
      BY <3>1, <3>2 DEF LoopPhase
    <3>4. Loop!TestsDone
      BY <3>1, <3>3 DEF Loop!TestsDone
    <3> QED  BY <3>4 DEF Loop!Next
  <2>3. CASE Leave
    <3>1. /\ pc = "leave" /\ pc' = "exit" /\ UNCHANGED <<tests, ran, declared, outcome>>
          /\ \A host \in 1 .. MaxOffered : websocket'[host] # "open"
      BY <2>3 DEF Leave, Close, IndInv, ServerType, WebsocketInv
    <3>2. CASE ran = <<>>
      BY <3>1, <3>2, LoopBegins DEF LoopPhase
    <3>3. CASE ran # <<>>
      <4>1. LoopPhase = "leave" /\ LoopPhase' = "exit"
        BY <3>1, <3>3 DEF LoopPhase
      <4>2. Loop!Leave
        BY <3>1, <4>1 DEF Loop!Leave
      <4> QED  BY <4>2 DEF Loop!Next
    <3> QED  BY <3>2, <3>3
  <2>4. CASE Exit
    <3>1. pc = "exit" /\ pc' = "off" /\ ran' = <<>> /\ declared' = declared
      BY <2>4 DEF Exit
    <3>2. LoopPhase' = "off" /\ LoopPhase \in {"off", "exit"}
      BY <3>1 DEF LoopPhase
    <3>3. CASE LoopPhase = "exit"
      <4>1. Loop!Exit
        BY <3>1, <3>2, <3>3 DEF Loop!Exit, Loop!Off
      <4> QED  BY <4>1 DEF Loop!Next
    <3>4. CASE LoopPhase = "off"
      BY <3>1, <3>2, <3>4 DEF Loop!vars
    <3> QED  BY <3>2, <3>3, <3>4
  <2>5. CASE Start \/ ReadConfig \/ ConfigRefused \/ ReadUserConfig \/ ParseTestJSON
             \/ ParseTestJSONFails
    <3>1. /\ UNCHANGED <<ran, declared>> /\ pc' # "loop"
          /\ pc \notin {"loop", "leave", "exit"}
      BY <2>5 DEF Start, ReadConfig, ConfigRefused, ReadUserConfig, ParseTestJSON,
         ParseTestJSONFails
    <3> QED  BY <3>1, LoopBegins DEF LoopPhase, LoopInv
  <2>6. CASE UseMLab \/ UseOwnServer \/ UseMLabFails \/ GetMLabServers
             \/ GetMLabServersFails \/ TooFewServers \/ EnoughServers \/ NewServer
             \/ NewServerFails \/ AddTrustedCACerts
    <3>1. /\ UNCHANGED <<ran, declared, tests>> /\ pc \notin {"loop", "leave", "exit"}
          /\ pc' = "loop" => pc = "cert"
      BY <2>6 DEF UseMLab, UseOwnServer, UseMLabFails, GetMLabServers, GetMLabServersFails,
         TooFewServers, EnoughServers, NewServer, NewServerFails, AddTrustedCACerts
    <3> QED  BY <3>1, LoopBegins DEF LoopPhase, LoopInv
  <2>7. ASSUME NEW host \in 1 .. MaxOffered,
               NewFails(host) \/ OpenWebsocketFails(host) \/ OpenWebsocket(host)
        PROVE  Loop!Next \/ UNCHANGED Loop!vars
    <3>1. UNCHANGED <<ran, declared>> /\ pc = "try" /\ pc' = "try"
      BY <2>7 DEF NewFails, OpenWebsocketFails, OpenWebsocket, Try
    <3> QED  BY <3>1, LoopBegins DEF LoopPhase, LoopInv
  <2>8. CASE Finished \/ UNCHANGED vars
    BY <2>8 DEF Finished, vars, Loop!vars, LoopPhase
  <2> QED  BY <2>1, <2>2, <2>3, <2>4, <2>5, <2>6, <2>7, <2>8 DEF Next
<1> QED
  BY <1>1, <1>2, <1>3, <1>4, Invariance, PTL DEF Spec, ImplementsLoop, Loop!Spec

=============================================================================
