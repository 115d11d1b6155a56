---------------------------- MODULE ReplayProofs ----------------------------
(***************************************************************************)
(* Proofs, for any number of servers and packets and either protocol, of   *)
(* the safety properties of module Replay, and that a replay implements    *)
(* the abstract join of module FirstErrorJoin.                             *)
(***************************************************************************)
EXTENDS Replay, TLAPS

Answered == {"reply", "cleanup", "done"}

(***************************************************************************)
(* The inductive invariant.  It ties the phase of a server's handler to    *)
(* the phases of the two goroutines it started, and the main goroutine's   *)
(* turn to the handlers it has released.                                   *)
(***************************************************************************)

(* Before its first verdict a handler owns an open connection and both     *)
(* goroutines; one that answers nil has seen both of them finish.          *)
HandlerInv(s) ==
  /\ handler[s] \in {"start", "dial"} =>
       /\ conn[s] = "none" /\ result[s] = "none"
       /\ sender[s] = "idle" /\ receiver[s] = "idle"
  /\ handler[s] = "awaitSender" =>
       /\ conn[s] = "open" /\ result[s] = "none"
       /\ sender[s] \in {"check", "write", "nil", "err"}
       /\ receiver[s] \in {"start", "check", "read", "nil", "err"}
  /\ handler[s] = "awaitReceiver" =>
       /\ conn[s] = "open" /\ result[s] = "none"
       /\ sender[s] = "done"
       /\ receiver[s] \in {"start", "check", "read", "nil", "err"}
  /\ handler[s] \in Answered =>
       /\ result[s] # "none"
       /\ sender[s] = IF conn[s] = "none" THEN "idle" ELSE "done"
       /\ result[s] = "nil" => conn[s] # "none" /\ receiver[s] \in {"stop", "done"}
  /\ handler[s] = "reply" => conn[s] # "closed"
  /\ handler[s] = "done" => conn[s] # "open"
  /\ handler[s] = "cleanup" => conn[s] = "open"

AnalyzerInv(s) ==
  /\ receiver[s] \in {"check", "read", "nil", "err", "stop"} => analyzer[s] = "running"
  /\ receiver[s] = "done" => analyzer[s] = "stopped"

CancelInv(s) ==
  sender[s] = "err" \/ receiver[s] = "err" \/ result[s] = "err" => cancelled

CauseInv(s) ==
  /\ sender[s] = "err" => failed[s]
  /\ receiver[s] = "err" /\ conn[s] = "open" => failed[s]
  /\ result[s] = "err" => failed[s]

(* A packet about to be written is one of the replay's.                    *)
SentInv(s) == sender[s] = "write" => sent[s] < NumPackets

(* With UDP a failure is either on its way to the handler or reported by it*)
UDPFailureInv(s) ==
  ~IsTCP /\ failed[s] =>
    \/ handler[s] = "awaitSender" /\ (sender[s] = "err" \/ receiver[s] = "err")
    \/ handler[s] = "awaitReceiver" /\ receiver[s] = "err"
    \/ handler[s] \in Answered /\ result[s] = "err"

Released(s) == handler[s] \in {"cleanup", "done"}

MainInv ==
  /\ main = "collect" => \A s \in Servers :
       /\ s < turn => Released(s) /\ result[s] = "nil"
       /\ s >= turn => ~Released(s)
  /\ main = "err" => cancelled /\ result[turn] = "err"
  /\ Succeeded => cancelled /\ \A s \in Servers : Released(s) /\ result[s] = "nil"

LocalInv(s) ==
  /\ HandlerInv(s)
  /\ AnalyzerInv(s)
  /\ CancelInv(s)
  /\ CauseInv(s)
  /\ SentInv(s)
  /\ UDPFailureInv(s)

IndInv == TypeOK /\ MainInv /\ \A s \in Servers : LocalInv(s)

-----------------------------------------------------------------------------
(***************************************************************************)
(* IndInv is inductive: one lemma per goroutine, one step per action and,  *)
(* under it, one per part of the invariant.                                *)
(***************************************************************************)

LEMMA InitIndInv == Init => IndInv
<1> SUFFICES ASSUME Init PROVE IndInv
  OBVIOUS
<1>1. TypeOK
  <2>1. 1 \in Servers /\ 0 \in 0 .. NumPackets
    BY ReplayAssumption DEF Servers
  <2> QED  BY <2>1 DEF Init, TypeOK
<1>2. MainInv
  BY ReplayAssumption DEF Init, MainInv, Succeeded, Released, Servers
<1>3. \A s \in Servers : LocalInv(s)
  BY DEF Init, LocalInv, HandlerInv, AnalyzerInv, CancelInv, CauseInv, SentInv,
      UDPFailureInv, Answered
<1> QED  BY <1>1, <1>2, <1>3 DEF IndInv

(* MainInv speaks of the main goroutine, the handlers and, monotonically,  *)
(* the context: steps of the packet loops leave it alone.                  *)
LEMMA MainFrame ==
  ASSUME MainInv, UNCHANGED <<main, turn, handler, result>>, cancelled => cancelled'
  PROVE  MainInv'
BY DEF MainInv, Succeeded, Released

LEMMA HandlerIndInv ==
  ASSUME IndInv, NEW s \in Servers, Handler(s)
  PROVE  IndInv'
<1> USE DEF IndInv, LocalInv, HandlerInv, AnalyzerInv, CancelInv, CauseInv,
            SentInv, UDPFailureInv, Answered, HandlerAt, mainVars
<1>1. CASE InitAnalyzer(s)
  <2>1. TypeOK'
    BY <1>1, ReplayAssumption DEF TypeOK, Servers, InitAnalyzer
  <2>2. MainInv'
    BY <1>1, ReplayAssumption DEF TypeOK, MainInv, Succeeded, Released,
                                  Servers, InitAnalyzer
  <2>3. ASSUME NEW r \in Servers PROVE LocalInv(r)'
    BY <1>1, <2>3 DEF TypeOK, MainInv, Released, InitAnalyzer
  <2> QED  BY <2>1, <2>2, <2>3
<1>2. CASE Dial(s)
  <2>1. TypeOK'
    BY <1>2, ReplayAssumption DEF TypeOK, Servers, Dial
  <2>2. MainInv'
    BY <1>2, ReplayAssumption DEF TypeOK, MainInv, Succeeded, Released,
                                  Servers, Dial
  <2>3. ASSUME NEW r \in Servers PROVE LocalInv(r)'
    BY <1>2, <2>3 DEF TypeOK, MainInv, Released, Dial
  <2> QED  BY <2>1, <2>2, <2>3
<1>3. CASE DialFails(s)
  <2>1. TypeOK'
    BY <1>3, ReplayAssumption DEF TypeOK, Servers, DialFails, packetVars,
                                  Reply, Cancel, Fails
  <2>2. MainInv'
    BY <1>3, ReplayAssumption DEF TypeOK, MainInv, Succeeded, Released,
                                  Servers, DialFails, packetVars, Reply,
                                  Cancel, Fails
  <2>3. ASSUME NEW r \in Servers PROVE LocalInv(r)'
    BY <1>3, <2>3 DEF TypeOK, MainInv, Released, DialFails, packetVars, Reply,
                      Cancel, Fails
  <2> QED  BY <2>1, <2>2, <2>3
<1>4. CASE AwaitSender(s)
  <2>1. TypeOK'
    <3>1. CASE sender[s] = "err"
      BY <1>4, <3>1, ReplayAssumption DEF TypeOK, AwaitSender, Reply
    <3>2. CASE sender[s] = "nil"
      BY <1>4, <3>2, ReplayAssumption DEF TypeOK, AwaitSender
    <3> QED  BY <1>4, <3>1, <3>2 DEF AwaitSender
  <2>2. MainInv'
    BY <1>4, ReplayAssumption DEF TypeOK, MainInv, Succeeded, Released,
                                  Servers, AwaitSender, Reply
  <2>3. ASSUME NEW r \in Servers PROVE LocalInv(r)'
    BY <1>4, <2>3 DEF TypeOK, MainInv, Released, AwaitSender, Reply
  <2> QED  BY <2>1, <2>2, <2>3
<1>5. CASE AwaitReceiver(s)
  <2>1. TypeOK'
    BY <1>5, ReplayAssumption DEF TypeOK, Servers, AwaitReceiver, Reply
  <2>2. MainInv'
    BY <1>5, ReplayAssumption DEF TypeOK, MainInv, Succeeded, Released,
                                  Servers, AwaitReceiver, Reply
  <2>3. ASSUME NEW r \in Servers PROVE LocalInv(r)'
    BY <1>5, <2>3 DEF TypeOK, MainInv, Released, AwaitReceiver, Reply
  <2> QED  BY <2>1, <2>2, <2>3
<1>6. CASE CleanUp(s)
  <2>1. TypeOK'
    BY <1>6, ReplayAssumption DEF TypeOK, Servers, CleanUp, packetVars
  <2>2. MainInv'
    BY <1>6, ReplayAssumption DEF TypeOK, MainInv, Succeeded, Released,
                                  Servers, CleanUp, packetVars
  <2>3. ASSUME NEW r \in Servers PROVE LocalInv(r)'
    BY <1>6, <2>3 DEF TypeOK, MainInv, Released, CleanUp, packetVars
  <2> QED  BY <2>1, <2>2, <2>3
<1> QED  BY <1>1, <1>2, <1>3, <1>4, <1>5, <1>6 DEF Handler

LEMMA SendPacketsIndInv ==
  ASSUME IndInv, NEW s \in Servers, SendPackets(s)
  PROVE  IndInv'
<1> USE DEF IndInv, LocalInv, HandlerInv, AnalyzerInv, CancelInv, CauseInv,
            SentInv, UDPFailureInv, Answered, SenderAt,
            SenderYields, SenderFrame, mainVars,
            serverVars
<1>1. CASE SendCancelled(s)
  <2>1. TypeOK'
    BY <1>1, ReplayAssumption DEF TypeOK, Servers, SendCancelled
  <2>2. MainInv'
    BY <1>1, MainFrame DEF SendCancelled
  <2>3. ASSUME NEW r \in Servers PROVE LocalInv(r)'
    BY <1>1, <2>3 DEF TypeOK, SendCancelled
  <2> QED  BY <2>1, <2>2, <2>3
<1>2. CASE SendTimeout(s)
  <2>1. TypeOK'
    BY <1>2, ReplayAssumption DEF TypeOK, Servers, SendTimeout, Cancel
  <2>2. MainInv'
    BY <1>2, MainFrame DEF SendTimeout, Cancel
  <2>3. ASSUME NEW r \in Servers PROVE LocalInv(r)'
    BY <1>2, <2>3 DEF TypeOK, SendTimeout, Cancel
  <2> QED  BY <2>1, <2>2, <2>3
<1>3. CASE SendNext(s)
  <2>1. TypeOK'
    BY <1>3, ReplayAssumption DEF TypeOK, Servers, SendNext
  <2>2. MainInv'
    BY <1>3, MainFrame DEF SendNext
  <2>3. ASSUME NEW r \in Servers PROVE LocalInv(r)'
    BY <1>3, <2>3 DEF TypeOK, SendNext
  <2> QED  BY <2>1, <2>2, <2>3
<1>4. CASE Write(s)
  <2>1. TypeOK'
    BY <1>4, ReplayAssumption DEF TypeOK, Servers, Write
  <2>2. MainInv'
    BY <1>4, MainFrame DEF Write
  <2>3. ASSUME NEW r \in Servers PROVE LocalInv(r)'
    BY <1>4, <2>3 DEF TypeOK, Write
  <2> QED  BY <2>1, <2>2, <2>3
<1>5. CASE WriteFails(s)
  <2>1. TypeOK'
    BY <1>5, ReplayAssumption DEF TypeOK, Servers, WriteFails,
                                  WriteErrorResult, Cancel, Fails
  <2>2. MainInv'
    BY <1>5, MainFrame DEF WriteFails, WriteErrorResult, Cancel, Fails
  <2>3. ASSUME NEW r \in Servers PROVE LocalInv(r)'
    BY <1>5, <2>3 DEF TypeOK, WriteFails, WriteErrorResult, Cancel, Fails
  <2> QED  BY <2>1, <2>2, <2>3
<1>6. CASE SendDone(s)
  <2>1. TypeOK'
    BY <1>6, ReplayAssumption DEF TypeOK, Servers, SendDone
  <2>2. MainInv'
    BY <1>6, MainFrame DEF SendDone
  <2>3. ASSUME NEW r \in Servers PROVE LocalInv(r)'
    BY <1>6, <2>3 DEF TypeOK, SendDone
  <2> QED  BY <2>1, <2>2, <2>3
<1> QED  BY <1>1, <1>2, <1>3, <1>4, <1>5, <1>6 DEF SendPackets

LEMMA RecvPacketsIndInv ==
  ASSUME IndInv, NEW s \in Servers, RecvPackets(s)
  PROVE  IndInv'
<1> USE DEF IndInv, LocalInv, HandlerInv, AnalyzerInv, CancelInv, CauseInv,
            SentInv, UDPFailureInv, Answered, ReceiverAt,
            ReceiverYields, ReceiverFrame, mainVars,
            serverVars
<1>1. CASE RunAnalyzer(s)
  <2>1. TypeOK'
    BY <1>1, ReplayAssumption DEF TypeOK, Servers, RunAnalyzer
  <2>2. MainInv'
    BY <1>1, MainFrame DEF RunAnalyzer
  <2>3. ASSUME NEW r \in Servers PROVE LocalInv(r)'
    BY <1>1, <2>3 DEF TypeOK, RunAnalyzer
  <2> QED  BY <2>1, <2>2, <2>3
<1>2. CASE RecvCancelled(s)
  <2>1. TypeOK'
    BY <1>2, ReplayAssumption DEF TypeOK, Servers, RecvCancelled
  <2>2. MainInv'
    BY <1>2, MainFrame DEF RecvCancelled
  <2>3. ASSUME NEW r \in Servers PROVE LocalInv(r)'
    BY <1>2, <2>3 DEF TypeOK, RecvCancelled
  <2> QED  BY <2>1, <2>2, <2>3
<1>3. CASE RecvNext(s)
  <2>1. TypeOK'
    BY <1>3, ReplayAssumption DEF TypeOK, Servers, RecvNext
  <2>2. MainInv'
    BY <1>3, MainFrame DEF RecvNext
  <2>3. ASSUME NEW r \in Servers PROVE LocalInv(r)'
    BY <1>3, <2>3 DEF TypeOK, RecvNext
  <2> QED  BY <2>1, <2>2, <2>3
<1>4. CASE Read(s)
  <2>1. TypeOK'
    BY <1>4, ReplayAssumption DEF TypeOK, Servers, Read
  <2>2. MainInv'
    BY <1>4, MainFrame DEF Read
  <2>3. ASSUME NEW r \in Servers PROVE LocalInv(r)'
    BY <1>4, <2>3 DEF TypeOK, Read
  <2> QED  BY <2>1, <2>2, <2>3
<1>5. CASE ReadFails(s)
  <2>1. TypeOK'
    BY <1>5, ReplayAssumption DEF TypeOK, Servers, ReadFails, Cancel, Fails
  <2>2. MainInv'
    BY <1>5, MainFrame DEF ReadFails, Cancel, Fails
  <2>3. ASSUME NEW r \in Servers PROVE LocalInv(r)'
    BY <1>5, <2>3 DEF TypeOK, ReadFails, Cancel, Fails
  <2> QED  BY <2>1, <2>2, <2>3
<1>6. CASE ReadOnClosed(s)
  <2>1. TypeOK'
    BY <1>6, ReplayAssumption DEF TypeOK, Servers, ReadOnClosed, Cancel
  <2>2. MainInv'
    BY <1>6, MainFrame DEF ReadOnClosed, Cancel
  <2>3. ASSUME NEW r \in Servers PROVE LocalInv(r)'
    BY <1>6, <2>3 DEF TypeOK, ReadOnClosed, Cancel
  <2> QED  BY <2>1, <2>2, <2>3
<1>7. CASE StopAnalyzer(s)
  <2>1. TypeOK'
    BY <1>7, ReplayAssumption DEF TypeOK, Servers, StopAnalyzer
  <2>2. MainInv'
    BY <1>7, MainFrame DEF StopAnalyzer
  <2>3. ASSUME NEW r \in Servers PROVE LocalInv(r)'
    BY <1>7, <2>3 DEF TypeOK, StopAnalyzer
  <2> QED  BY <2>1, <2>2, <2>3
<1> QED  BY <1>1, <1>2, <1>3, <1>4, <1>5, <1>6, <1>7 DEF RecvPackets

LEMMA ReadEOFIndInv ==
  ASSUME IndInv, NEW s \in Servers, ReadEOF(s)
  PROVE  IndInv'
<1> USE DEF IndInv, LocalInv, HandlerInv, AnalyzerInv, CancelInv, CauseInv,
            SentInv, UDPFailureInv, Answered, ReceiverAt,
            ReceiverYields, ReceiverFrame, mainVars,
            serverVars
<1>1. TypeOK'
  BY ReplayAssumption DEF TypeOK, Servers, ReadEOF
<1>2. MainInv'
  BY MainFrame DEF ReadEOF
<1>3. ASSUME NEW r \in Servers PROVE LocalInv(r)'
  BY <1>3 DEF TypeOK, ReadEOF
<1> QED  BY <1>1, <1>2, <1>3

LEMMA TickIndInv ==
  ASSUME IndInv, NEW s \in Servers, Tick(s)
  PROVE  IndInv'
<1> USE DEF IndInv, LocalInv, HandlerInv, AnalyzerInv, CancelInv, CauseInv,
            SentInv, UDPFailureInv, Answered, mainVars, serverVars
<1>1. TypeOK'
  BY ReplayAssumption DEF TypeOK, Servers, Tick
<1>2. MainInv'
  BY MainFrame DEF Tick
<1>3. ASSUME NEW r \in Servers PROVE LocalInv(r)'
  BY <1>3 DEF TypeOK, Tick
<1> QED  BY <1>1, <1>2, <1>3

LEMMA PeerClosesIndInv ==
  ASSUME IndInv, NEW s \in Servers, PeerCloses(s)
  PROVE  IndInv'
<1> USE DEF IndInv, LocalInv, HandlerInv, AnalyzerInv, CancelInv, CauseInv,
            SentInv, UDPFailureInv, Answered, mainVars, serverVars,
            packetVars
<1>1. TypeOK'
  BY ReplayAssumption DEF TypeOK, Servers, PeerCloses
<1>2. MainInv'
  BY MainFrame DEF PeerCloses
<1>3. ASSUME NEW r \in Servers PROVE LocalInv(r)'
  BY <1>3 DEF TypeOK, PeerCloses
<1> QED  BY <1>1, <1>2, <1>3

LEMMA MainIndInv ==
  ASSUME IndInv, NEW s \in Servers, Main(s)
  PROVE  IndInv'
<1> USE DEF IndInv, LocalInv, HandlerInv, AnalyzerInv, CancelInv, CauseInv,
            SentInv, UDPFailureInv, Answered, MainAt, packetVars, serverVars
<1>1. CASE CollectError(s)
  <2>1. TypeOK'
    BY <1>1, ReplayAssumption DEF TypeOK, Servers, CollectError, Release,
                                  Cancel
  <2>2. MainInv'
    BY <1>1, ReplayAssumption DEF TypeOK, MainInv, Succeeded, Released,
                                  Servers, CollectError, Release, Cancel
  <2>3. ASSUME NEW r \in Servers PROVE LocalInv(r)'
    BY <1>1, <2>3 DEF TypeOK, MainInv, Released, CollectError, Release, Cancel
  <2> QED  BY <2>1, <2>2, <2>3
<1>2. CASE CollectNil(s)
  <2>1. TypeOK'
    BY <1>2, ReplayAssumption DEF TypeOK, Servers, CollectNil, Release
  <2>2. MainInv'
    BY <1>2, ReplayAssumption DEF TypeOK, MainInv, Succeeded, Released,
                                  Servers, CollectNil, Release
  <2>3. ASSUME NEW r \in Servers PROVE LocalInv(r)'
    BY <1>2, <2>3 DEF TypeOK, MainInv, Released, CollectNil, Release
  <2> QED  BY <2>1, <2>2, <2>3
<1>3. CASE CollectLast(s)
  <2>1. TypeOK'
    BY <1>3, ReplayAssumption DEF TypeOK, Servers, CollectLast, Release,
                                  Cancel
  <2>2. MainInv'
    BY <1>3, ReplayAssumption DEF TypeOK, MainInv, Succeeded, Released,
                                  Servers, CollectLast, Release, Cancel
  <2>3. ASSUME NEW r \in Servers PROVE LocalInv(r)'
    BY <1>3, <2>3 DEF TypeOK, MainInv, Released, CollectLast, Release, Cancel
  <2> QED  BY <2>1, <2>2, <2>3
<1>4. CASE SendThroughputs(s)
  <2>1. TypeOK'
    BY <1>4, ReplayAssumption DEF TypeOK, Servers, SendThroughputs
  <2>2. MainInv'
    BY <1>4, ReplayAssumption DEF TypeOK, MainInv, Succeeded, Released,
                                  Servers, SendThroughputs
  <2>3. ASSUME NEW r \in Servers PROVE LocalInv(r)'
    BY <1>4, <2>3 DEF TypeOK, MainInv, Released, SendThroughputs
  <2> QED  BY <2>1, <2>2, <2>3
<1>5. CASE SendThroughputsFails(s)
  <2>1. TypeOK'
    BY <1>5, ReplayAssumption DEF TypeOK, Servers, SendThroughputsFails
  <2>2. MainInv'
    BY <1>5, ReplayAssumption DEF TypeOK, MainInv, Succeeded, Released,
                                  Servers, SendThroughputsFails
  <2>3. ASSUME NEW r \in Servers PROVE LocalInv(r)'
    BY <1>5, <2>3 DEF TypeOK, MainInv, Released, SendThroughputsFails
  <2> QED  BY <2>1, <2>2, <2>3
<1> QED  BY <1>1, <1>2, <1>3, <1>4, <1>5 DEF Main

LEMMA NextIndInv == IndInv /\ [Next]_vars => IndInv'
<1> SUFFICES ASSUME IndInv, [Next]_vars PROVE IndInv'
  OBVIOUS
<1>1. CASE UNCHANGED vars
  BY <1>1
  DEF vars, IndInv, TypeOK, MainInv, Succeeded, Released, LocalInv, HandlerInv,
      AnalyzerInv, CancelInv, CauseInv, SentInv, UDPFailureInv
<1>2. ASSUME NEW s \in Servers, Step(s)
      PROVE  IndInv'
  BY <1>2, MainIndInv, HandlerIndInv, SendPacketsIndInv, RecvPacketsIndInv,
     ReadEOFIndInv, TickIndInv, PeerClosesIndInv
  DEF Step, TCPSender, UDPSender, TCPReceiver, UDPReceiver
<1> QED  BY <1>1, <1>2 DEF Next, Terminated

-----------------------------------------------------------------------------
(***************************************************************************)
(* The theorems.                                                           *)
(***************************************************************************)

THEOREM IndInvariance == Spec => []IndInv
<1>1. Init => IndInv
  BY InitIndInv
<1>2. IndInv /\ [Next]_vars => IndInv'
  BY NextIndInv
<1> QED  BY <1>1, <1>2, PTL DEF Spec

(* Type correctness; in particular no sender overruns the packet list.     *)
THEOREM TypeCorrectness == Spec => []TypeOK
<1>1. IndInv => TypeOK
  BY DEF IndInv
<1> QED  BY <1>1, IndInvariance, PTL

(* When sendAndReceivePackets returns nil, no sender or receiver of any    *)
(* server is at work and every server has an analyzer.                     *)
THEOREM Quiescence == Spec => []QuiescentOnSuccess
<1>1. IndInv => QuiescentOnSuccess
  BY DEF IndInv, QuiescentOnSuccess, MainInv, Released, LocalInv, HandlerInv,
         AnalyzerInv, Answered
<1> QED  BY <1>1, IndInvariance, PTL

(* Whoever holds an error has already cancelled the shared context.        *)
THEOREM ErrorCancellation == Spec => []ErrorsCancel
<1>1. IndInv => ErrorsCancel
  BY DEF IndInv, ErrorsCancel, LocalInv, CancelInv
<1> QED  BY <1>1, IndInvariance, PTL

(* sendAndReceivePackets returns an error only after a failed I/O call.    *)
THEOREM ErrorCause == Spec => []ErrorHasCause
<1>1. IndInv => ErrorHasCause
  BY DEF IndInv, TypeOK, ErrorHasCause, MainInv, LocalInv, CauseInv
<1> QED  BY <1>1, IndInvariance, PTL

(* A connection is closed under a working receiver only when that receiver *)
(* has been told to stop.                                                  *)
THEOREM CloseDiscipline == Spec => []ClosedUnderCancelOnly
<1>1. IndInv => ClosedUnderCancelOnly
  BY DEF IndInv, TypeOK, ClosedUnderCancelOnly, LocalInv, HandlerInv,
         CancelInv, Answered
<1> QED  BY <1>1, IndInvariance, PTL

(* A UDP replay that succeeds had no failing I/O call.  (A TCP replay may: *)
(* its sender reports a failed write as nil.)                              *)
THEOREM UDPSuccess == ASSUME ~IsTCP PROVE Spec => []SuccessMeansNoFailure
<1>1. IndInv => SuccessMeansNoFailure
  BY DEF IndInv, SuccessMeansNoFailure, MainInv, Released, LocalInv,
         UDPFailureInv, HandlerInv
<1> QED  BY <1>1, IndInvariance, PTL

(* The context is done, and of the packets a server may be sent there are  *)
(* k + 1, the one its sender may be about to write included.               *)
Drained(s, k) ==
  cancelled /\ sent[s] + (IF sender[s] = "write" THEN 1 ELSE 0) <= k + 1

(* A sender reads the context before it goes on to the next packet.        *)
LEMMA DrainedStep ==
  ASSUME NEW s \in Servers, NEW k \in Nat, TypeOK, Drained(s, k), [Next]_vars
  PROVE  Drained(s, k)'
<1> USE DEF TypeOK, Drained
<1>1. CASE UNCHANGED vars
  BY <1>1 DEF vars
<1>2. CASE Terminated
  BY <1>2 DEF Terminated, vars
<1>3. ASSUME NEW r \in Servers, Step(r)
      PROVE  Drained(s, k)'
  <2>1. CASE Main(r)
    <3>1. UNCHANGED packetVars /\ (cancelled => cancelled')
      BY <2>1 DEF Main, CollectError, CollectNil, CollectLast, SendThroughputs,
                  SendThroughputsFails, packetVars, Cancel
    <3> QED  BY <3>1 DEF packetVars
  <2>2. CASE Handler(r)
    <3>1. /\ sent' = sent /\ (cancelled => cancelled')
          /\ sender' = sender
             \/ \E next \in {"check", "done"} : sender' = [sender EXCEPT ![r] = next]
      BY <2>2 DEF Handler, InitAnalyzer, Dial, DialFails, AwaitSender, AwaitReceiver,
                  CleanUp, packetVars, Cancel
    <3> QED  BY <3>1
  <2>3. CASE SendPackets(r)
    <3>1. CASE Write(r)
      <4>1. /\ sender[r] = "write" /\ sender' = [sender EXCEPT ![r] = "check"]
            /\ sent' = [sent EXCEPT ![r] = @ + 1] /\ cancelled' = cancelled
        BY <3>1 DEF Write, SenderAt, SenderYields
      <4>2. CASE r = s
        BY <4>1, <4>2
      <4>3. CASE r # s
        BY <4>1, <4>3
      <4> QED  BY <4>2, <4>3
    <3>2. CASE ~Write(r)
      <4>1. /\ sent' = sent /\ cancelled'
            /\ \E next \in {"check", "nil", "err"} : sender' = [sender EXCEPT ![r] = next]
        BY <2>3, <3>2 DEF SendPackets, SendCancelled, SendTimeout, SendNext, WriteFails,
           SendDone, SenderYields, WriteErrorResult, Cancel
      <4> QED  BY <4>1
    <3> QED  BY <3>1, <3>2
  <2>4. CASE RecvPackets(r) \/ ReadEOF(r)
    BY <2>4 DEF RecvPackets, RunAnalyzer, RecvCancelled, RecvNext, Read, ReadFails,
       ReadOnClosed, StopAnalyzer, ReadEOF, ReceiverFrame, Cancel
  <2>5. CASE Tick(r) \/ PeerCloses(r)
    BY <2>5 DEF Tick, PeerCloses, packetVars
  <2> QED  BY <1>3, <2>1, <2>2, <2>3, <2>4, <2>5 DEF Step, TCPSender, UDPSender,
     TCPReceiver, UDPReceiver
<1> QED  BY <1>1, <1>2, <1>3 DEF Next

(* However many goroutines cancel the context, and whenever, a sender puts *)
(* at most one more packet on the wire.                                    *)
THEOREM PacketsAfterCancel == Spec => AtMostOnePacketAfterCancel
<1>1. ASSUME NEW s \in Servers, NEW k \in 0 .. NumPackets
      PROVE  Spec => [](cancelled /\ sent[s] = k => [](sent[s] <= k + 1))
  <2>1. TypeOK /\ cancelled /\ sent[s] = k => Drained(s, k)
    BY ReplayAssumption DEF TypeOK, Drained
  <2>2. TypeOK /\ Drained(s, k) /\ [Next]_vars => Drained(s, k)'
    BY DrainedStep
  <2>3. TypeOK /\ Drained(s, k) => sent[s] <= k + 1
    BY ReplayAssumption DEF TypeOK, Drained
  <2> QED  BY <2>1, <2>2, <2>3, TypeCorrectness, PTL DEF Spec
<1> QED  BY <1>1 DEF AtMostOnePacketAfterCancel

-----------------------------------------------------------------------------
(***************************************************************************)
(* Refinement: a handler's result becomes the worker's verdict in one      *)
(* step, the main goroutine's choice is Succeed or Fail, and everything    *)
(* else stutters.                                                          *)
(***************************************************************************)

LEMMA StutterStep ==
  ASSUME UNCHANGED result, (main' = "collect") <=> (main = "collect"),
         (main' = "err") <=> (main = "err")
  PROVE  UNCHANGED Join!vars
BY DEF Join!vars

LEMMA ReportStep ==
  ASSUME TypeOK, NEW s \in Servers, result[s] = "none", NEW v \in {"nil", "err"},
         result' = [result EXCEPT ![s] = v], UNCHANGED main
  PROVE  Join!Next
<1>1. Join!Report(s)
  BY DEF TypeOK, Join!Report
<1> QED  BY <1>1 DEF Join!Next, Join!Workers, Servers

LEMMA JoinStep ==
  ASSUME IndInv, NEW s \in Servers, Step(s)
  PROVE  Join!Next \/ UNCHANGED Join!vars
<1> USE DEF IndInv, LocalInv, HandlerInv, HandlerAt, MainAt
<1>1. CASE Handler(s)
  <2>1. CASE InitAnalyzer(s) \/ Dial(s) \/ CleanUp(s)
    BY <2>1, StutterStep DEF InitAnalyzer, Dial, CleanUp, mainVars
  <2>2. CASE DialFails(s)
    BY <2>2, ReportStep DEF DialFails, Reply, mainVars
  <2>3. CASE AwaitSender(s)
    BY <2>3, ReportStep, StutterStep DEF AwaitSender, Reply, mainVars
  <2>4. CASE AwaitReceiver(s)
    BY <2>4, ReportStep DEF AwaitReceiver, Reply, mainVars
  <2> QED  BY <1>1, <2>1, <2>2, <2>3, <2>4 DEF Handler
<1>2. CASE SendPackets(s)
  BY <1>2, StutterStep
  DEF SendPackets, SendCancelled, SendTimeout, SendNext, Write, WriteFails,
      SendDone, SenderFrame, mainVars, serverVars
<1>3. CASE RecvPackets(s) \/ ReadEOF(s)
  BY <1>3, StutterStep
  DEF RecvPackets, RunAnalyzer, RecvCancelled, RecvNext, Read, ReadEOF, ReadFails,
      ReadOnClosed, StopAnalyzer, ReceiverFrame, mainVars, serverVars
<1>4. CASE Tick(s) \/ PeerCloses(s)
  BY <1>4, StutterStep DEF Tick, PeerCloses, mainVars, serverVars
<1>5. CASE Main(s)
  <2>1. CASE CollectError(s)
    <3>1. Join!Fail(s)
      BY <2>1 DEF CollectError, Join!Fail, Join!Workers, Servers, MainInv
    <3> QED  BY <3>1 DEF Join!Next, Join!Workers, Servers
  <2>2. CASE CollectLast(s)
    <3>1. Join!Succeed
      BY <2>2, ReplayAssumption
      DEF CollectLast, Join!Succeed, Join!Workers, Servers, MainInv
    <3> QED  BY <3>1 DEF Join!Next
  <2>3. CASE CollectNil(s) \/ SendThroughputs(s) \/ SendThroughputsFails(s)
    BY <2>3, StutterStep
    DEF CollectNil, SendThroughputs, SendThroughputsFails, serverVars
  <2> QED  BY <1>5, <2>1, <2>2, <2>3 DEF Main
<1> QED  BY <1>1, <1>2, <1>3, <1>4, <1>5
         DEF Step, TCPSender, UDPSender, TCPReceiver, UDPReceiver

(* A replay implements the abstract join: the caller of                    *)
(* sendAndReceivePackets gets nil when every server's handler reported nil,*)
(* and otherwise the error of the first server, in list order, that failed.*)
THEOREM Refinement == Spec => ImplementsJoin
<1>1. Init => Join!Init
  BY DEF Init, Join!Init, Join!Workers, Servers
<1>2. IndInv /\ [Next]_vars => [Join!Next]_(Join!vars)
  <2> SUFFICES ASSUME IndInv, [Next]_vars PROVE Join!Next \/ UNCHANGED Join!vars
    BY DEF Join!vars
  <2>1. CASE UNCHANGED vars
    BY <2>1, StutterStep DEF vars
  <2>2. CASE Next
    BY <2>1, <2>2, JoinStep DEF Next, Terminated
  <2> QED  BY <2>1, <2>2
<1> QED  BY <1>1, <1>2, IndInvariance, PTL DEF Spec, ImplementsJoin, Join!Spec

=============================================================================
