------------------------------ MODULE Analyzer ------------------------------
(***************************************************************************)
(* The throughput analyzer of one replay (analyzer/analyzer.go), shared    *)
(* without a lock by its own sampling goroutine and the receiver, which    *)
(* adds the bytes it reads and in the end, deferred, stops it.  (That the  *)
(* main goroutine may read the figures before that is seen in module       *)
(* Replay.)                                                                *)
(*                                                                         *)
(* A statement that reads and writes a shared field is two steps, a load   *)
(* and a store; a slice is a value, read and written in one step.          *)
(* Time advances a sample duration per tick; every read returns Chunk      *)
(* bytes.  MaxReads and MaxTicks bound the run.                            *)
(***************************************************************************)
EXTENDS ReplayTiming, SequencesExt

CONSTANTS
  ReplayLength,     \* time the replay is expected to run
  NumberOfSamples,  \* number of samples to take in that time
  Chunk,            \* bytes returned by one read
  MaxReads,         \* bound: number of reads
  MaxTicks          \* bound: number of ticks

ASSUME AnalyzerAssumption ==
  /\ ReplayLength \in Nat /\ NumberOfSamples \in Nat \ {0}
  /\ SampleDuration(ReplayLength, NumberOfSamples) > 0
  /\ {Chunk, MaxReads, MaxTicks} \subseteq Nat \ {0}

sampleDuration == SampleDuration(ReplayLength, NumberOfSamples)

(* Megabits per second of a number of bytes read in one sample duration.   *)
Mbps(bytes) == (bytes * UnitsPerSecond) \div (125000 * sampleDuration)

VARIABLES
  bytesRead, sampleNumber, SampleTimes, samples, Throughputs,
  ReplayElapsedTime, \* fields of the Analyzer
  ticking,           \* the ticker has not been stopped
  tick,              \* a tick is buffered in the ticker's channel
  clock,             \* time since the analyzer was started
  sampler,           \* where the sampling goroutine is
  seen,              \* the slice and the byte count it has loaded
  receiver,          \* where the receiver is
  loaded,            \* what the receiver has loaded
  received,          \* history: bytes the receiver has been given
  raced,             \* history: an AddBytesRead overlapped a createSample
  late,              \* history: samples begun after Stop has passed ticker.Stop()
  panicked

samplerVars  == <<sampler, seen, sampleNumber>>
receiverVars == <<receiver, loaded>>
stopVars     == <<Throughputs, ReplayElapsedTime, ticking, panicked>>
dataVars     == <<bytesRead, SampleTimes, samples>>
timeVars     == <<tick, clock>>
historyVars  == <<received, raced, late>>
vars == <<samplerVars, receiverVars, stopVars, dataVars, timeVars, historyVars>>

Init ==
  /\ bytesRead = 0 /\ sampleNumber = 0
  /\ SampleTimes = <<>> /\ samples = <<>> /\ Throughputs = <<>>
  /\ ReplayElapsedTime = 0
  /\ ticking = TRUE /\ tick = FALSE /\ clock = 0
  /\ sampler = "wait" /\ seen = [slice |-> <<>>, bytes |-> 0]
  /\ receiver = "reading" /\ loaded = [slice |-> <<>>, bytes |-> 0]
  /\ received = 0 /\ raced = FALSE /\ late = 0
  /\ panicked = FALSE

(* A ticker drops a tick for which its channel has no room.                *)
Tick ==
  /\ ~panicked /\ ticking
  /\ clock < MaxTicks * sampleDuration
  /\ clock' = clock + sampleDuration
  /\ tick' = TRUE
  /\ UNCHANGED <<samplerVars, receiverVars, stopVars, dataVars, historyVars>>

-----------------------------------------------------------------------------
(***************************************************************************)
(* The sampling goroutine: createSample once per tick received.            *)
(***************************************************************************)

SamplerFrame == UNCHANGED <<receiverVars, stopVars, clock, received>>

BeforeStopTicker == receiver \in {"reading", "adding", "elapsed", "ticker"}

At(from, to) == ~panicked /\ sampler = from /\ sampler' = to

(* Seeded fault: a captured sample is not counted.                         *)
TakeTickUncounted ==
  /\ At("wait", "loadTimes")
  /\ tick
  /\ tick' = FALSE
  /\ late' = IF BeforeStopTicker THEN late ELSE late + 1
  /\ SamplerFrame /\ UNCHANGED <<sampleNumber, seen, dataVars, raced>>

(* Seeded fault: a tick counts for two samples.                            *)
TakeTickTwice ==
  /\ At("wait", "loadTimes")
  /\ tick
  /\ tick' = FALSE
  /\ sampleNumber' = sampleNumber + 2
  /\ late' = IF BeforeStopTicker THEN late ELSE late + 1
  /\ SamplerFrame /\ UNCHANGED <<seen, dataVars, raced>>

(* Stopping the ticker neither drains nor closes its channel.              *)
TakeTick ==
  /\ At("wait", "loadTimes")
  /\ tick
  /\ tick' = FALSE
  /\ sampleNumber' = sampleNumber + 1
  /\ late' = IF BeforeStopTicker THEN late ELSE late + 1
  /\ SamplerFrame /\ UNCHANGED <<seen, dataVars, raced>>

LoadTimes ==
  /\ At("loadTimes", "storeTimes")
  /\ seen' = [seen EXCEPT !.slice = SampleTimes]
  /\ SamplerFrame /\ UNCHANGED <<sampleNumber, tick, dataVars, raced, late>>

StoreTimes ==
  /\ At("storeTimes", "loadSamples")
  /\ SampleTimes' = Append(seen.slice, sampleNumber * sampleDuration)
  /\ SamplerFrame /\ UNCHANGED <<sampleNumber, seen, tick, bytesRead, samples, raced, late>>

LoadSamples ==
  /\ At("loadSamples", "loadBytes")
  /\ seen' = [seen EXCEPT !.slice = samples]
  /\ SamplerFrame /\ UNCHANGED <<sampleNumber, tick, dataVars, raced, late>>

LoadBytes ==
  /\ At("loadBytes", "storeSamples")
  /\ seen' = [seen EXCEPT !.bytes = bytesRead]
  /\ raced' = (raced \/ receiver = "adding")
  /\ SamplerFrame /\ UNCHANGED <<sampleNumber, tick, dataVars, late>>

StoreSamples ==
  /\ At("storeSamples", "resetBytes")
  /\ samples' = Append(seen.slice, seen.bytes)
  /\ SamplerFrame /\ UNCHANGED <<sampleNumber, seen, tick, bytesRead, SampleTimes, raced, late>>

(* Seeded fault: the count goes on from sample to sample.                  *)
ResetBytesForgotten ==
  /\ At("resetBytes", "wait")
  /\ SamplerFrame /\ UNCHANGED <<sampleNumber, seen, tick, dataVars, raced, late>>

ResetBytes ==
  /\ At("resetBytes", "wait")
  /\ bytesRead' = 0
  /\ SamplerFrame /\ UNCHANGED <<sampleNumber, seen, tick, SampleTimes, samples, raced, late>>

Sampler ==
  TakeTick \/ LoadTimes \/ StoreTimes \/ LoadSamples \/ LoadBytes \/ StoreSamples \/ ResetBytes

-----------------------------------------------------------------------------
(***************************************************************************)
(* The receiver: AddBytesRead for every read and then, deferred, Stop.     *)
(***************************************************************************)

ReceiverFrame == UNCHANGED <<samplerVars, timeVars, late>>

Goes(from, to) == ~panicked /\ receiver = from /\ receiver' = to

AddBytesRead ==
  /\ Goes("reading", "adding")
  /\ received < MaxReads * Chunk
  /\ received' = received + Chunk
  /\ loaded' = [loaded EXCEPT !.bytes = bytesRead]
  /\ raced' = (raced \/ sampler \in {"storeSamples", "resetBytes"})
  /\ ReceiverFrame /\ UNCHANGED <<stopVars, dataVars>>

StoreBytesRead ==
  /\ Goes("adding", "reading")
  /\ bytesRead' = loaded.bytes + Chunk
  /\ ReceiverFrame
  /\ UNCHANGED <<loaded, stopVars, SampleTimes, samples, received, raced>>

FinishReading ==
  /\ Goes("reading", "elapsed")
  /\ ReceiverFrame /\ UNCHANGED <<loaded, stopVars, dataVars, received, raced>>

StopFrame == ReceiverFrame /\ UNCHANGED <<bytesRead, received, raced>>

TakeElapsedTime ==
  /\ Goes("elapsed", "ticker")
  /\ ReplayElapsedTime' = clock
  /\ StopFrame /\ UNCHANGED <<loaded, Throughputs, ticking, panicked, SampleTimes, samples>>

(* Seeded fault: the ticker goes on.                                       *)
StopTickerForgotten ==
  /\ Goes("ticker", "reset")
  /\ StopFrame /\ UNCHANGED <<loaded, stopVars, SampleTimes, samples>>

StopTicker ==
  /\ Goes("ticker", "reset")
  /\ ticking' = FALSE
  /\ StopFrame
  /\ UNCHANGED <<loaded, Throughputs, ReplayElapsedTime, panicked, SampleTimes, samples>>

(* The loop ranges over the samples there are at this moment.              *)
ResetThroughputs ==
  /\ Goes("reset", "convert")
  /\ Throughputs' = <<>>
  /\ loaded' = [loaded EXCEPT !.slice = samples]
  /\ StopFrame /\ UNCHANGED <<ReplayElapsedTime, ticking, panicked, SampleTimes, samples>>

Convert ==
  LET n == Len(Throughputs) + 1 IN
    /\ n <= Len(loaded.slice)
    /\ Goes("convert", "convert")
    /\ Throughputs' = Append(Throughputs, Mbps(loaded.slice[n]))
    /\ StopFrame
    /\ UNCHANGED <<loaded, ReplayElapsedTime, ticking, panicked, SampleTimes, samples>>

(* Without a sample the upper bound of the slice expression is -1.         *)
TrimThroughputs ==
  /\ Len(Throughputs) = Len(loaded.slice)
  /\ Goes("convert", "loadTimes")
  /\ panicked' = (Throughputs = <<>>)
  /\ Throughputs' = IF Throughputs = <<>> THEN <<>> ELSE Front(Throughputs)
  /\ StopFrame /\ UNCHANGED <<loaded, ReplayElapsedTime, ticking, SampleTimes, samples>>

LoadTimesToTrim ==
  /\ Goes("loadTimes", "trimTimes")
  /\ loaded' = [loaded EXCEPT !.slice = SampleTimes]
  /\ StopFrame /\ UNCHANGED <<stopVars, SampleTimes, samples>>

(* Seeded fault: the sample times lose two entries where there are two.    *)
TrimTimesTwice ==
  /\ Goes("trimTimes", "loadSamples")
  /\ SampleTimes' = IF Len(loaded.slice) > 1 THEN Front(Front(loaded.slice)) ELSE <<>>
  /\ StopFrame /\ UNCHANGED <<loaded, stopVars, samples>>

TrimTimes ==
  /\ Goes("trimTimes", "loadSamples")
  /\ SampleTimes' = Front(loaded.slice)
  /\ StopFrame /\ UNCHANGED <<loaded, stopVars, samples>>

LoadSamplesToTrim ==
  /\ Goes("loadSamples", "trimSamples")
  /\ loaded' = [loaded EXCEPT !.slice = samples]
  /\ StopFrame /\ UNCHANGED <<stopVars, SampleTimes, samples>>

TrimSamples ==
  /\ Goes("trimSamples", "done")
  /\ samples' = Front(loaded.slice)
  /\ StopFrame /\ UNCHANGED <<loaded, stopVars, SampleTimes>>

Stop ==
  \/ TakeElapsedTime \/ StopTicker \/ ResetThroughputs \/ Convert \/ TrimThroughputs
  \/ LoadTimesToTrim \/ TrimTimes \/ LoadSamplesToTrim \/ TrimSamples

Receiver == AddBytesRead \/ StoreBytesRead \/ FinishReading \/ Stop

(* The sampling goroutine waits for ever for a tick of the stopped ticker. *)
Finished ==
  /\ panicked \/ (receiver = "done" /\ sampler = "wait" /\ ~tick)
  /\ UNCHANGED vars

Next == Tick \/ Sampler \/ Receiver \/ Finished

Spec == Init /\ [][Next]_vars

-----------------------------------------------------------------------------
(***************************************************************************)
(* Properties.                                                             *)
(***************************************************************************)

TypeOK ==
  /\ bytesRead \in 0 .. MaxReads * Chunk
  /\ sampleNumber \in 0 .. MaxTicks
  /\ \A s \in {samples, Throughputs, SampleTimes} :
       Len(s) <= MaxTicks /\ \A i \in 1 .. Len(s) : s[i] \in Nat
  /\ ReplayElapsedTime \in 0 .. MaxTicks * sampleDuration
  /\ {ticking, tick, raced, panicked} \subseteq BOOLEAN
  /\ sampler \in {"wait", "loadTimes", "storeTimes", "loadSamples", "loadBytes",
                  "storeSamples", "resetBytes"}
  /\ receiver \in {"reading", "adding", "elapsed", "ticker", "reset", "convert",
                   "loadTimes", "trimTimes", "loadSamples", "trimSamples", "done"}

PartialSums(s) ==
  LET sum[i \in 0 .. Len(s)] == IF i = 0 THEN 0 ELSE sum[i - 1] + s[i] IN sum

SumOf(s) == PartialSums(s)[Len(s)]

(* The sample times are strictly increasing and never ahead of the clock,  *)
(* however late the sampling goroutine runs and whatever Stop cuts off     *)
(* under it.                                                               *)
TimesSound ==
  /\ \A i, j \in 1 .. Len(SampleTimes) : i < j => SampleTimes[i] < SampleTimes[j]
  /\ \A i \in 1 .. Len(SampleTimes) : SampleTimes[i] <= clock

AtRest == receiver = "reading" /\ sampler # "resetBytes"

(* While the replay runs, every byte read is in exactly one sample or      *)
(* still counted: "the number of bytes received for each sample".          *)
BytesConserved == AtRest => SumOf(samples) + bytesRead = received

(* The only way for the analyzer to lose bytes, or to count them twice, is *)
(* an AddBytesRead that overlaps a createSample.                           *)
BytesConservedUnlessRaced == AtRest /\ ~raced => SumOf(samples) + bytesRead = received

(* Once Stop is over every throughput belongs to the sample, and to the    *)
(* sample time, of the same index, even if a sample is being captured      *)
(* meanwhile.                                                              *)
FiguresAligned ==
  receiver = "done" =>
    \A i \in 1 .. Len(Throughputs) :
      /\ i <= Len(samples) /\ Throughputs[i] = Mbps(samples[i])
      /\ i <= Len(SampleTimes)

(* At most one sample is begun after Stop has stopped the ticker.          *)
AtMostOneLateSample == late <= 1

=============================================================================
