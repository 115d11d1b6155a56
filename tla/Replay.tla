------------------------------- MODULE Replay -------------------------------
(***************************************************************************)
(* One replay of a test on NumServers servers at once.                     *)
(*                                                                         *)
(* The main goroutine starts a handler goroutine per server                *)
(* (testorchestrator.go, sendAndReceivePackets).  A handler creates the    *)
(* analyzer, dials the server and starts a sender and a receiver goroutine *)
(* (serverhandler.go, SendAndReceivePackets; network/tcp.go and udp.go).   *)
(* All of them share one cancellable context.  Every result travels over   *)
(* an unbuffered channel: the goroutine that sends it stays at that line   *)
(* until somebody receives it, so a hand-over is one joint step.           *)
(* Once every handler has reported success, the main goroutine reads each  *)
(* analyzer and sends its figures over the side channel (sendThroughputs). *)
(*                                                                         *)
(* Abstracted: payloads and byte counts, the clock (a timeout or a tick    *)
(* may come at any time) and the inside of the analyzer, of which only the *)
(* phase and whether it has a sample are kept.                             *)
(***************************************************************************)
EXTENDS ReplayTiming

CONSTANTS
  NumServers,        \* number of servers the replay runs on
  NumPackets,        \* number of packets in the replay file
  IsTCP,             \* protocol of the replay: TCP or UDP
  IsPortTest,        \* whether the replay is a port test
  TestLength,        \* "time" of the test in the test list, in seconds
  SamplesPerReplay,  \* number of samples the server asked for
  Faulty             \* servers whose connection may fail

Servers == 1 .. NumServers

ASSUME ReplayAssumption ==
  /\ NumServers \in Nat \ {0}
  /\ NumPackets \in Nat \ {0}
  /\ IsTCP \in BOOLEAN
  /\ IsPortTest \in BOOLEAN
  /\ TestLength \in Nat
  /\ SamplesPerReplay \in Int
  /\ Faulty \subseteq Servers

VARIABLES
  main,       \* where the main goroutine is
  turn,       \* the server it deals with
  handler,    \* where the handler goroutine of a server is
  result,     \* the error, or nil, a handler has come to
  conn,       \* the client's end of the replay connection
  sender,     \* where the sender is; "nil" and "err" wait to hand that over
  sent,       \* number of packets written to the connection
  receiver,   \* where the receiver is; "nil" and "err" as for the sender
  analyzer,   \* phase of the throughput analyzer
  sampled,    \* whether the analyzer has captured a sample
  peer,       \* the server's end: open, closed (FIN) or reset (RST)
  failed,     \* history: an I/O call on the server's connection has failed
  report,     \* history: phase of the analyzer when its figures were sent
  cancelled,  \* the shared context is done
  panicked    \* some goroutine has panicked, which ends the process

vars == <<main, turn, handler, result, conn, sender, sent, receiver, analyzer,
          sampled, peer, failed, report, cancelled, panicked>>

(* The packet loops leave everything of the main goroutine and the handlers*)
(* alone, and the handlers everything of the packet loops.                 *)
mainVars   == <<main, turn, report>>
serverVars == <<handler, result, conn>>
packetVars == <<sender, sent, receiver, analyzer, sampled>>

Init ==
  /\ main = "collect"
  /\ turn = 1
  /\ handler = [s \in Servers |-> "start"]
  /\ result = [s \in Servers |-> "none"]
  /\ conn = [s \in Servers |-> "none"]
  /\ sender = [s \in Servers |-> "idle"]
  /\ sent = [s \in Servers |-> 0]
  /\ receiver = [s \in Servers |-> "idle"]
  /\ analyzer = [s \in Servers |-> "none"]
  /\ sampled = [s \in Servers |-> FALSE]
  /\ peer = [s \in Servers |-> "open"]
  /\ failed = [s \in Servers |-> FALSE]
  /\ report = [s \in Servers |-> "unsent"]
  /\ cancelled = FALSE
  /\ panicked = FALSE

(* Where a failing call on an open connection is possible: a faulty server *)
(* at any time, any server once it has answered a packet with a reset.     *)
MayFail(s) == s \in Faulty \/ peer[s] = "reset"

Fails(s) == failed' = [failed EXCEPT ![s] = TRUE]

(* Where a goroutine has to be to take a step; a panic stops them all.     *)
MainAt(step, s)     == ~panicked /\ main = step /\ turn = s
HandlerAt(s, step)  == ~panicked /\ handler[s] = step
SenderAt(s, step)   == ~panicked /\ sender[s] = step
ReceiverAt(s, step) == ~panicked /\ receiver[s] = step

CancelForgotten == UNCHANGED cancelled  \* seeded fault: the error path does not cancel

Cancel == cancelled' = TRUE

-----------------------------------------------------------------------------
(***************************************************************************)
(* The handler goroutine of server s.                                      *)
(***************************************************************************)

Reply(s, r) ==
  /\ handler' = [handler EXCEPT ![s] = "reply"]
  /\ result' = [result EXCEPT ![s] = r]

(* initAnalyzer divides by the number of samples the server asked for.     *)
InitAnalyzer(s) ==
  /\ HandlerAt(s, "start")
  /\ handler' = [handler EXCEPT ![s] = "dial"]
  /\ analyzer' = [analyzer EXCEPT ![s] = "created"]
  /\ panicked' = (SamplesPerReplay = 0)
  /\ UNCHANGED <<mainVars, result, conn, sender, sent, receiver, sampled,
                 peer, failed, cancelled>>

Dial(s) ==
  /\ HandlerAt(s, "dial")
  /\ handler' = [handler EXCEPT ![s] = "awaitSender"]
  /\ conn' = [conn EXCEPT ![s] = "open"]
  /\ sender' = [sender EXCEPT ![s] = "check"]
  /\ receiver' = [receiver EXCEPT ![s] = "start"]
  /\ UNCHANGED <<mainVars, result, sent, analyzer, sampled, peer, failed,
                 cancelled, panicked>>

DialFails(s) ==
  /\ HandlerAt(s, "dial")
  /\ s \in Faulty
  /\ Cancel
  /\ Fails(s)
  /\ Reply(s, "err")
  /\ UNCHANGED <<mainVars, conn, packetVars, peer, panicked>>

(* The sender's error is returned without waiting for the receiver.        *)
AwaitSender(s) ==
  /\ HandlerAt(s, "awaitSender")
  /\ sender' = [sender EXCEPT ![s] = "done"]
  /\ \/ sender[s] = "err" /\ Reply(s, "err")
     \/ /\ sender[s] = "nil"
        /\ handler' = [handler EXCEPT ![s] = "awaitReceiver"]
        /\ UNCHANGED result
  /\ UNCHANGED <<mainVars, conn, sent, receiver, analyzer, sampled, peer,
                 failed, cancelled, panicked>>

(* Seeded fault: the handler does not wait for the receiver's verdict.     *)
AwaitReceiverSkipped(s) ==
  /\ HandlerAt(s, "awaitReceiver")
  /\ Reply(s, "nil")
  /\ UNCHANGED <<mainVars, conn, packetVars, peer, failed, cancelled, panicked>>

(* Handing its verdict over releases the receiver, whose deferred Stop is  *)
(* still to run.                                                           *)
AwaitReceiver(s) ==
  /\ HandlerAt(s, "awaitReceiver")
  /\ receiver[s] \in {"nil", "err"}
  /\ receiver' = [receiver EXCEPT ![s] = "stop"]
  /\ Reply(s, receiver[s])
  /\ UNCHANGED <<mainVars, conn, sender, sent, analyzer, sampled, peer, failed,
                 cancelled, panicked>>

(* Deferred, so it runs after the verdict has been handed to main.         *)
CleanUp(s) ==
  /\ HandlerAt(s, "cleanup")
  /\ handler' = [handler EXCEPT ![s] = "done"]
  /\ conn' = [conn EXCEPT ![s] = "closed"]
  /\ UNCHANGED <<mainVars, result, packetVars, peer, failed, cancelled, panicked>>

Handler(s) ==
  \/ InitAnalyzer(s)
  \/ Dial(s)
  \/ DialFails(s)
  \/ AwaitSender(s)
  \/ AwaitReceiver(s)
  \/ CleanUp(s)

-----------------------------------------------------------------------------
(***************************************************************************)
(* The sender goroutine of server s: SendPackets.                          *)
(***************************************************************************)

SenderYields(s, r) == sender' = [sender EXCEPT ![s] = r]

SenderFrame ==
  UNCHANGED <<mainVars, serverVars, receiver, analyzer, sampled, panicked>>

SendCancelled(s) ==
  /\ SenderAt(s, "check") /\ sent[s] < NumPackets
  /\ cancelled
  /\ SenderYields(s, "nil")
  /\ SenderFrame /\ UNCHANGED <<sent, peer, failed, cancelled>>

(* The elapsed time is compared with the timeout before a packet only.     *)
SendTimeout(s) ==
  /\ SenderAt(s, "check") /\ sent[s] < NumPackets
  /\ ~cancelled
  /\ Cancel
  /\ SenderYields(s, "nil")
  /\ SenderFrame /\ UNCHANGED <<sent, peer, failed>>

(* Seeded fault: the sender does not look at the context between packets.  *)
SendNextUnchecked(s) ==
  /\ SenderAt(s, "check") /\ sent[s] < NumPackets
  /\ SenderYields(s, "write")
  /\ SenderFrame /\ UNCHANGED <<sent, peer, failed, cancelled>>

(* Seeded fault: one packet too many is sent.                              *)
SendNextOffByOne(s) ==
  /\ SenderAt(s, "check") /\ sent[s] <= NumPackets
  /\ ~cancelled
  /\ SenderYields(s, "write")
  /\ SenderFrame /\ UNCHANGED <<sent, peer, failed, cancelled>>

(* In time: sleep until the packet is due, then write it.                  *)
SendNext(s) ==
  /\ SenderAt(s, "check") /\ sent[s] < NumPackets
  /\ ~cancelled
  /\ SenderYields(s, "write")
  /\ SenderFrame /\ UNCHANGED <<sent, peer, failed, cancelled>>

(* A TCP peer that has closed its end answers a packet with a reset.       *)
Write(s) ==
  /\ SenderAt(s, "write")
  /\ sent' = [sent EXCEPT ![s] = @ + 1]
  /\ SenderYields(s, "check")
  /\ peer' = [peer EXCEPT ![s] = IF @ = "closed" THEN "reset" ELSE @]
  /\ SenderFrame /\ UNCHANGED <<failed, cancelled>>

WriteErrorLost == "nil"  \* seeded fault: neither sender reports a write error

(* The TCP sender reports nil where the UDP sender reports the error.      *)
WriteErrorResult == IF IsTCP THEN "nil" ELSE "err"

WriteFails(s) ==
  /\ SenderAt(s, "write")
  /\ MayFail(s)
  /\ Cancel
  /\ Fails(s)
  /\ SenderYields(s, WriteErrorResult)
  /\ SenderFrame /\ UNCHANGED <<sent, peer>>

(* The range over the packets is exhausted.  Nothing is cancelled here.    *)
SendDone(s) ==
  /\ SenderAt(s, "check") /\ sent[s] = NumPackets
  /\ SenderYields(s, "nil")
  /\ SenderFrame /\ UNCHANGED <<sent, peer, failed, cancelled>>

SendPackets(s) ==
  \/ SendCancelled(s) \/ SendTimeout(s) \/ SendNext(s)
  \/ Write(s) \/ WriteFails(s) \/ SendDone(s)

TCPSender(s) == IsTCP /\ SendPackets(s)
UDPSender(s) == ~IsTCP /\ SendPackets(s)

-----------------------------------------------------------------------------
(***************************************************************************)
(* The receiver goroutine of server s: RecvPackets, and the analyzer.      *)
(***************************************************************************)

ReceiverYields(s, r) == receiver' = [receiver EXCEPT ![s] = r]

ReceiverFrame == UNCHANGED <<mainVars, serverVars, sender, sent, sampled, peer>>

(* Analyzer.Run: a ticker with a period that is not positive panics.       *)
RunAnalyzer(s) ==
  /\ ReceiverAt(s, "start")
  /\ ReceiverYields(s, "check")
  /\ analyzer' = [analyzer EXCEPT ![s] = "running"]
  /\ panicked' =
       (SampleDuration(ReplayTime(TestLength, IsTCP, IsPortTest), SamplesPerReplay) <= 0)
  /\ ReceiverFrame /\ UNCHANGED <<failed, cancelled>>

RecvCancelled(s) ==
  /\ ReceiverAt(s, "check")
  /\ cancelled
  /\ ReceiverYields(s, "nil")
  /\ ReceiverFrame /\ UNCHANGED <<analyzer, failed, cancelled, panicked>>

(* Seeded fault: the receiver does not look at the context between reads.  *)
RecvNextUnchecked(s) ==
  /\ ReceiverAt(s, "check")
  /\ ReceiverYields(s, "read")
  /\ ReceiverFrame /\ UNCHANGED <<analyzer, failed, cancelled, panicked>>

RecvNext(s) ==
  /\ ReceiverAt(s, "check")
  /\ ~cancelled
  /\ ReceiverYields(s, "read")
  /\ ReceiverFrame /\ UNCHANGED <<analyzer, failed, cancelled, panicked>>

(* Seeded fault: a second without data counts as an error.                 *)
ReadTimeoutIsError(s) ==
  /\ ReceiverAt(s, "read")
  /\ conn[s] = "open" /\ peer[s] = "open"
  /\ Cancel
  /\ ReceiverYields(s, "err")
  /\ ReceiverFrame /\ UNCHANGED <<analyzer, failed, panicked>>

(* Data arrives, or one second goes by without any.                        *)
Read(s) ==
  /\ ReceiverAt(s, "read")
  /\ conn[s] = "open" /\ peer[s] = "open"
  /\ ReceiverYields(s, "check")
  /\ ReceiverFrame /\ UNCHANGED <<analyzer, failed, cancelled, panicked>>

(* Seeded fault: the end of the stream is taken for a read without data.   *)
ReadEOFIgnored(s) ==
  /\ ReceiverAt(s, "read")
  /\ conn[s] = "open" /\ peer[s] # "open"
  /\ ReceiverYields(s, "check")
  /\ ReceiverFrame /\ UNCHANGED <<analyzer, failed, cancelled, panicked>>

(* The server finished sending and closed its connection.                  *)
ReadEOF(s) ==
  /\ ReceiverAt(s, "read")
  /\ conn[s] = "open" /\ peer[s] # "open"
  /\ ReceiverYields(s, "nil")
  /\ ReceiverFrame /\ UNCHANGED <<analyzer, failed, cancelled, panicked>>

ReadFails(s) ==
  /\ ReceiverAt(s, "read")
  /\ conn[s] = "open" /\ MayFail(s)
  /\ Cancel
  /\ Fails(s)
  /\ ReceiverYields(s, "err")
  /\ ReceiverFrame /\ UNCHANGED <<analyzer, panicked>>

(* The handler has gone and closed the connection under the receiver: the  *)
(* deadline cannot be set, or the read is interrupted.                     *)
ReadOnClosed(s) ==
  /\ ReceiverAt(s, "read")
  /\ conn[s] = "closed"
  /\ Cancel
  /\ ReceiverYields(s, "err")
  /\ ReceiverFrame /\ UNCHANGED <<analyzer, failed, panicked>>

(* Deferred Analyzer.Stop, which drops the last sample; without a sample   *)
(* the slice expression is out of range.                                   *)
StopAnalyzer(s) ==
  /\ ReceiverAt(s, "stop")
  /\ ReceiverYields(s, "done")
  /\ analyzer' = [analyzer EXCEPT ![s] = "stopped"]
  /\ panicked' = ~sampled[s]
  /\ ReceiverFrame /\ UNCHANGED <<failed, cancelled>>

RecvPackets(s) ==
  \/ RunAnalyzer(s) \/ RecvCancelled(s) \/ RecvNext(s) \/ Read(s)
  \/ ReadFails(s) \/ ReadOnClosed(s) \/ StopAnalyzer(s)

(* Only a TCP connection has an end of file.                               *)
TCPReceiver(s) == IsTCP /\ (RecvPackets(s) \/ ReadEOF(s))
UDPReceiver(s) == ~IsTCP /\ RecvPackets(s)

(* The sampling goroutine of the analyzer captures a sample.               *)
Tick(s) ==
  /\ ~panicked /\ analyzer[s] = "running" /\ ~sampled[s]
  /\ sampled' = [sampled EXCEPT ![s] = TRUE]
  /\ UNCHANGED <<mainVars, serverVars, sender, sent, receiver, analyzer, peer,
                 failed, cancelled, panicked>>

-----------------------------------------------------------------------------
(***************************************************************************)
(* The server, and the main goroutine.                                     *)
(***************************************************************************)

PeerCloses(s) ==
  /\ ~panicked /\ IsTCP
  /\ conn[s] = "open" /\ peer[s] = "open"
  /\ peer' = [peer EXCEPT ![s] = "closed"]
  /\ UNCHANGED <<mainVars, serverVars, packetVars, failed, cancelled, panicked>>

(* Seeded fault: the deferred clean-up is missing.                         *)
ReleaseWithoutCleanUp(s) == handler' = [handler EXCEPT ![s] = "done"]

(* The handler's verdict is received; its deferred calls can run.          *)
Release(s) ==
  handler' = [handler EXCEPT ![s] = IF conn[s] = "open" THEN "cleanup" ELSE "done"]

(* Verdicts are received in server order; the first error is returned and  *)
(* the deferred cancel stops whatever is left.                             *)
CollectError(s) ==
  /\ MainAt("collect", s)
  /\ handler[s] = "reply" /\ result[s] = "err"
  /\ Release(s)
  /\ main' = "err"
  /\ Cancel
  /\ UNCHANGED <<turn, report, result, conn, packetVars, peer, failed, panicked>>

(* Seeded fault: an error of any server but the last is dropped.           *)
CollectNilUnchecked(s) ==
  /\ MainAt("collect", s) /\ s < NumServers
  /\ handler[s] = "reply"
  /\ Release(s)
  /\ turn' = turn + 1
  /\ UNCHANGED <<main, report, result, conn, packetVars, peer, failed, cancelled,
                 panicked>>

CollectNil(s) ==
  /\ MainAt("collect", s) /\ s < NumServers
  /\ handler[s] = "reply" /\ result[s] = "nil"
  /\ Release(s)
  /\ turn' = turn + 1
  /\ UNCHANGED <<main, report, result, conn, packetVars, peer, failed, cancelled,
                 panicked>>

(* The last verdict: sendAndReceivePackets returns nil after its deferred  *)
(* cancel and the main goroutine goes on to report, server by server.      *)
CollectLast(s) ==
  /\ MainAt("collect", s) /\ s = NumServers
  /\ handler[s] = "reply" /\ result[s] = "nil"
  /\ Release(s)
  /\ main' = "report"
  /\ turn' = 1
  /\ Cancel
  /\ UNCHANGED <<report, result, conn, packetVars, peer, failed, panicked>>

(* sendThroughputs on server s: what is sent is what the analyzer holds.   *)
SendThroughputs(s) ==
  /\ MainAt("report", s)
  /\ report' = [report EXCEPT ![s] = analyzer[s]]
  /\ IF s = NumServers
     THEN main' = "ok" /\ UNCHANGED turn
     ELSE turn' = turn + 1 /\ UNCHANGED main
  /\ UNCHANGED <<serverVars, packetVars, peer, failed, cancelled, panicked>>

SendThroughputsFails(s) ==
  /\ MainAt("report", s)
  /\ s \in Faulty
  /\ main' = "reportFailed"
  /\ UNCHANGED <<turn, report, serverVars, packetVars, peer, failed, cancelled,
                 panicked>>

Main(s) ==
  \/ CollectError(s) \/ CollectNil(s) \/ CollectLast(s)
  \/ SendThroughputs(s) \/ SendThroughputsFails(s)

-----------------------------------------------------------------------------
Returned == main \in {"ok", "err", "reportFailed"}

(* The main goroutine has its answer, or a panic has ended the process.    *)
Terminated == (Returned \/ panicked) /\ UNCHANGED vars

Step(s) ==
  \/ Main(s) \/ Handler(s) \/ TCPSender(s) \/ UDPSender(s)
  \/ TCPReceiver(s) \/ UDPReceiver(s) \/ Tick(s) \/ PeerCloses(s)

Next == (\E s \in Servers : Step(s)) \/ Terminated

Spec == Init /\ [][Next]_vars

(* Runnable goroutines are scheduled, a write returns, and a read returns  *)
(* within its deadline.  Nothing is asked of the servers.                  *)
Fairness ==
  \A s \in Servers :
    /\ WF_vars(Main(s)) /\ WF_vars(Handler(s))
    /\ WF_vars(TCPSender(s)) /\ WF_vars(UDPSender(s))
    /\ WF_vars(TCPReceiver(s)) /\ WF_vars(UDPReceiver(s))

FairSpec == Spec /\ Fairness

-----------------------------------------------------------------------------
(***************************************************************************)
(* Properties.                                                             *)
(***************************************************************************)

TypeOK ==
  /\ main \in {"collect", "report", "ok", "err", "reportFailed"}
  /\ turn \in Servers
  /\ handler \in [Servers -> {"start", "dial", "awaitSender", "awaitReceiver",
                              "reply", "cleanup", "done"}]
  /\ result \in [Servers -> {"none", "nil", "err"}]
  /\ conn \in [Servers -> {"none", "open", "closed"}]
  /\ sender \in [Servers -> {"idle", "check", "write", "nil", "err", "done"}]
  /\ sent \in [Servers -> 0 .. NumPackets]
  /\ receiver \in [Servers -> {"idle", "start", "check", "read", "nil", "err",
                               "stop", "done"}]
  /\ analyzer \in [Servers -> {"none", "created", "running", "stopped"}]
  /\ sampled \in [Servers -> BOOLEAN]
  /\ peer \in [Servers -> {"open", "closed", "reset"}]
  /\ failed \in [Servers -> BOOLEAN]
  /\ report \in [Servers -> {"unsent", "none", "created", "running", "stopped"}]
  /\ cancelled \in BOOLEAN
  /\ panicked \in BOOLEAN

Succeeded == main \in {"report", "ok", "reportFailed"}

(* When sendAndReceivePackets has returned nil, no sender or receiver of   *)
(* any server touches a connection any more and every server has an        *)
(* analyzer, so sendThroughputs never follows a nil ThroughputCalculator.  *)
QuiescentOnSuccess ==
  Succeeded => \A s \in Servers :
    /\ sender[s] = "done"
    /\ receiver[s] \in {"stop", "done"}
    /\ analyzer[s] \in {"running", "stopped"}

(* An error on its way to the main goroutine has already cancelled the     *)
(* context, so the goroutines of the other servers are told to stop even   *)
(* when the main goroutine is still waiting for a server earlier in order. *)
ErrorsCancel ==
  \A s \in Servers :
    sender[s] = "err" \/ receiver[s] = "err" \/ result[s] = "err" => cancelled

(* An error is returned only if an I/O call on a healthy connection has    *)
(* failed: neither a timeout, nor a cancellation, nor the end of the       *)
(* stream, nor the handler closing the connection under its receiver is    *)
(* ever turned into one by itself.                                         *)
ErrorHasCause == main = "err" => \E s \in Servers : failed[s]

(* CleanUp closes a connection only when its sender is through with it and *)
(* its receiver, if still at it, has been told to stop.                    *)
ClosedUnderCancelOnly ==
  \A s \in Servers : conn[s] = "closed" =>
    /\ sender[s] = "done"
    /\ receiver[s] \in {"start", "check", "read"} => cancelled

(* A replay reported as successful had no failing I/O call: "errChan:      *)
(* channel to return any errors" of SendPackets and RecvPackets.           *)
SuccessMeansNoFailure == Succeeded => \A s \in Servers : ~failed[s]

(* What sendThroughputs sends to a server are the figures of a replay that *)
(* is over: the analyzer has been stopped, so that the elapsed time and    *)
(* the throughputs of its samples have been computed.                      *)
ReportsFinishedReplay ==
  \A s \in Servers : report[s] \in {"unsent", "stopped"}

(* No goroutine panics: failures are returned as errors.                   *)
NoPanic == ~panicked

(* The verdict the main goroutine gets is that of the abstract join: nil   *)
(* when all servers succeeded, else the first error in server order.       *)
Join == INSTANCE FirstErrorJoin WITH
  N       <- NumServers,
  verdict <- [s \in Servers |-> IF result[s] = "none" THEN "running" ELSE result[s]],
  outcome <- IF main = "collect" THEN "pending"
             ELSE IF main = "err" THEN "err" ELSE "nil"

ImplementsJoin == Join!Spec

(* The context is polled between packets: after it is cancelled, a sender  *)
(* puts at most the packet it was about to write on the wire.              *)
AtMostOnePacketAfterCancel ==
  \A s \in Servers : \A k \in 0 .. NumPackets :
    [](cancelled /\ sent[s] = k => [](sent[s] <= k + 1))

(* A replay ends: the main goroutine gets an answer (or the process dies). *)
(* "each TCP [UDP] replay is limited [...] so that user doesn't have to    *)
(* wait forever".                                                          *)
Terminates == <>(Returned \/ panicked)

(* Nobody has cancelled the context, server s has been sent everything and *)
(* keeps its end of the connection open: its receiver polls on.            *)
AwaitsClose(s) ==
  /\ ~cancelled /\ sender[s] = "done" /\ sent[s] = NumPackets
  /\ receiver[s] \in {"check", "read"} /\ peer[s] = "open"

(* A replay that does not end waits for one thing only: a server that has  *)
(* got all packets and never closes its connection, "server finished       *)
(* sending packets and closed its connection" being what ends a TCP        *)
(* receiver.  Whatever else happens on any server, an end of stream, a     *)
(* timeout or a failure, main gets its answer.                             *)
EndsUnlessServerStaysOpen ==
  Terminates \/ \E s \in Servers : <>[]AwaitsClose(s)

(* Cancelling the context stops every packet loop of every server, those   *)
(* of servers still being dialled included.                                *)
CancellationDrains ==
  cancelled ~> panicked \/ \A s \in Servers :
    /\ handler[s] \notin {"start", "dial"}
    /\ sender[s] \notin {"check", "write"}
    /\ receiver[s] \notin {"start", "check", "read"}

(* A successful replay leaks nothing but the analyzers' sampling           *)
(* goroutines: every connection is closed, and every handler, sender and   *)
(* receiver ends.                                                          *)
SuccessReleases ==
  main = "ok" ~> panicked \/ \A s \in Servers :
    /\ handler[s] = "done" /\ conn[s] = "closed"
    /\ receiver[s] = "done" /\ analyzer[s] = "stopped"

(* After a failed replay everything comes to rest, and this is what is    *)
(* left of it.  Up to the server whose error was returned, connections are *)
(* closed and handlers have ended.  The handlers of later servers stay     *)
(* blocked with a verdict nobody takes, their connections not closed; a    *)
(* receiver stays blocked with its verdict, its analyzer running, only if  *)
(* the handler has left with an error (that of its sender).  No sender and *)
(* no packet loop is left.                                                 *)
AtRest(s) ==
  /\ IF s <= turn THEN handler[s] = "done" /\ conn[s] # "open"
                  ELSE handler[s] = "reply" /\ conn[s] # "closed"
  /\ sender[s] = "done" <=> conn[s] # "none"
  /\ \/ conn[s] = "none" /\ receiver[s] = "idle"
     \/ receiver[s] = "done" /\ analyzer[s] = "stopped"
     \/ /\ receiver[s] \in {"nil", "err"} /\ analyzer[s] = "running"
        /\ result[s] = "err"

ErrorSettles == main = "err" ~> panicked \/ \A s \in Servers : AtRest(s)

=============================================================================
