--------------------------- MODULE AnalyzerProofs ---------------------------
(***************************************************************************)
(* Proofs, for a replay of any length, any number of samples, reads and    *)
(* ticks, of what module Analyzer keeps to in spite of its races.          *)
(***************************************************************************)
EXTENDS Analyzer, Induction, SequenceTheorems, TLAPS

(***************************************************************************)
(* The inductive invariant.                                                *)
(***************************************************************************)

Reading   == {"reading", "adding", "elapsed", "ticker", "reset"}
Trimming  == {"loadTimes", "trimTimes", "loadSamples", "trimSamples"}
Capturing == {"loadTimes", "storeTimes", "loadSamples", "loadBytes", "storeSamples"}

ControlInv ==
  /\ sampler \in Capturing \cup {"wait", "resetBytes"}
  /\ receiver \in Reading \cup {"convert"} \cup Trimming \cup {"done"}
  /\ seen = [slice |-> seen.slice, bytes |-> seen.bytes]
  /\ loaded = [slice |-> loaded.slice, bytes |-> loaded.bytes]
  /\ ticking \in BOOLEAN /\ tick \in BOOLEAN /\ raced \in BOOLEAN /\ panicked \in BOOLEAN
  /\ panicked => receiver = "loadTimes"

Pending == IF tick THEN 1 ELSE 0

(* Every sample takes a tick, of which there has been one per duration.    *)
ClockInv ==
  /\ sampleNumber \in Nat /\ (sampler # "wait" => sampleNumber >= 1)
  /\ \E k \in 0 .. MaxTicks : clock = k * sampleDuration /\ sampleNumber + Pending <= k
  /\ ReplayElapsedTime \in 0 .. clock

LateInv ==
  IF BeforeStopTicker THEN late = 0 ELSE ~ticking /\ late \in Nat /\ late + Pending <= 1

BytesInv ==
  /\ \E k \in 0 .. MaxReads : received = k * Chunk
  /\ bytesRead \in 0 .. received /\ seen.bytes \in Nat
  /\ receiver = "adding" => loaded.bytes \in Nat /\ loaded.bytes + Chunk <= received

(* The samples whose time, and those whose bytes, have been stored.        *)
Timed    == IF sampler \in {"loadTimes", "storeTimes"} THEN sampleNumber - 1 ELSE sampleNumber
Captured == IF sampler \in Capturing THEN sampleNumber - 1 ELSE sampleNumber

(* A slice of sample times, whoever holds it and however old it is.        *)
SoundTimes(s) ==
  /\ s \in Seq(Nat) /\ Len(s) <= Timed
  /\ \A i \in 1 .. Len(s) : s[i] <= Timed * sampleDuration
  /\ \A i, j \in 1 .. Len(s) : i < j => s[i] < s[j]

TimesInv ==
  /\ SoundTimes(SampleTimes)
  /\ sampler = "storeTimes" => SoundTimes(seen.slice)
  /\ receiver = "trimTimes" => SoundTimes(loaded.slice)

SoundSamples(s) == s \in Seq(Nat) /\ Len(s) <= Captured

SamplesInv ==
  /\ SoundSamples(samples) /\ Throughputs \in Seq(Nat)
  /\ sampler \in {"loadBytes", "storeSamples"} => SoundSamples(seen.slice)
  /\ receiver \in {"convert", "trimSamples"} => SoundSamples(loaded.slice)
  /\ receiver \in Reading => Throughputs = <<>>
  /\ receiver = "convert" => Len(Throughputs) <= Len(loaded.slice)
  /\ Len(Throughputs) <= sampleNumber

(* The throughputs are those of the first elements of s.                   *)
Converted(s) ==
  \A i \in 1 .. Len(Throughputs) : i <= Len(s) /\ Throughputs[i] = Mbps(s[i])

(* While its elements are converted s begins with them, and until it has   *)
(* been trimmed it is longer than the throughputs.                         *)
Covers(s) ==
  /\ Converted(s)
  /\ receiver = "convert" =>
       \A i \in 1 .. Len(loaded.slice) : i <= Len(s) /\ s[i] = loaded.slice[i]
  /\ receiver \in Trimming => Len(Throughputs) < Len(s)

AlignedInv == ~panicked =>
  /\ Covers(samples)
  /\ receiver \in {"convert", "trimSamples"} => Covers(loaded.slice)
  /\ sampler \in {"loadBytes", "storeSamples"} =>
       Covers(seen.slice) /\ (receiver # "done" => seen.slice = samples)

(* The least number of sample times, which are stored before the samples.  *)
TimesFloor ==
  IF receiver \in Reading THEN
    Len(samples) + (IF sampler \in {"loadSamples", "loadBytes", "storeSamples"} THEN 1 ELSE 0)
  ELSE IF receiver = "convert" THEN Len(loaded.slice)
  ELSE IF receiver \in {"loadTimes", "trimTimes"} THEN Len(Throughputs) + 1
  ELSE Len(Throughputs)

FloorInv == ~panicked =>
  /\ Len(SampleTimes) >= TimesFloor
  /\ receiver = "trimTimes" => Len(loaded.slice) >= TimesFloor
  /\ sampler = "storeTimes" => Len(seen.slice) >= TimesFloor

IndInv ==
  /\ ControlInv /\ ClockInv /\ LateInv /\ BytesInv
  /\ TimesInv /\ SamplesInv /\ AlignedInv /\ FloorInv

-----------------------------------------------------------------------------
(* The sample duration is a positive number.                               *)
LEMMA Duration == sampleDuration \in Nat /\ sampleDuration > 0
<1>1. ReplayLength \in Nat /\ NumberOfSamples \in Nat /\ NumberOfSamples > 0
      /\ sampleDuration > 0
  BY AnalyzerAssumption DEF sampleDuration
<1>2. sampleDuration = ReplayLength \div NumberOfSamples
  BY <1>1 DEF sampleDuration, SampleDuration
<1> QED  BY <1>1, <1>2

(* Multiples of the sample duration are ordered as their factors are.      *)
LEMMA Multiples ==
  ASSUME NEW a \in Nat, NEW b \in Nat, NEW d \in Nat
  PROVE  /\ a * d \in Nat /\ (a + 1) * d = a * d + d
         /\ a <= b => a * d <= b * d
         /\ a < b => a * d + d <= b * d
<1>1. a * d \in Nat /\ (a + 1) * d = a * d + d
  OBVIOUS
<1>2. ASSUME NEW c \in Nat, NEW e \in Nat PROVE (e + c) * d = e * d + c * d /\ c * d \in Nat
  OBVIOUS
<1>3. a <= b => a * d <= b * d
  <2> SUFFICES ASSUME a <= b PROVE a * d <= b * d
    OBVIOUS
  <2>1. b - a \in Nat /\ b = a + (b - a)
    OBVIOUS
  <2>2. b * d = a * d + (b - a) * d /\ (b - a) * d \in Nat
    BY <1>2, <2>1
  <2> QED  BY <1>1, <2>2
<1>4. a < b => a * d + d <= b * d
  <2> SUFFICES ASSUME a < b PROVE a * d + d <= b * d
    OBVIOUS
  <2>1. b - (a + 1) \in Nat /\ b = (a + 1) + (b - (a + 1)) /\ a + 1 \in Nat
    OBVIOUS
  <2>2. b * d = (a + 1) * d + (b - (a + 1)) * d /\ (b - (a + 1)) * d \in Nat
    BY <1>2, <2>1
  <2> QED  BY <1>1, <2>2
<1> QED  BY <1>1, <1>3, <1>4

(* All but the last element of a sequence.                                 *)
LEMMA FrontElements ==
  ASSUME NEW S, NEW s \in Seq(S), Len(s) > 0
  PROVE  /\ Front(s) \in Seq(S) /\ Len(Front(s)) = Len(s) - 1
         /\ \A i \in 1 .. Len(s) - 1 : Front(s)[i] = s[i]
<1>1. \A i \in 1 .. Len(s) - 1 : s[i] \in S
  OBVIOUS
<1>2. Front(s) = SubSeq(s, 1, Len(s) - 1) /\ Len(s) - 1 \in Int /\ 1 \in Int
  BY DEF Front
<1>3. /\ Front(s) \in Seq(S)
      /\ Len(Front(s)) = IF 1 <= Len(s) - 1 THEN Len(s) - 1 - 1 + 1 ELSE 0
      /\ \A i \in 1 .. Len(s) - 1 - 1 + 1 : Front(s)[i] = s[1 + i - 1]
  BY <1>1, <1>2, SubSeqProperties
<1>4. Len(s) \in Nat
  OBVIOUS
<1>5. Len(Front(s)) = Len(s) - 1
  <2> DEFINE n == Len(s)
             front == Len(Front(s))
  <2>1. front = IF 1 <= n - 1 THEN n - 1 - 1 + 1 ELSE 0
    BY <1>3
  <2>2. n \in Nat /\ n > 0
    BY <1>4
  <2> HIDE DEF n, front
  <2>3. front = n - 1
    BY <2>1, <2>2
  <2> QED  BY <2>3 DEF n, front
<1>6. ASSUME NEW i \in 1 .. Len(s) - 1 PROVE Front(s)[i] = s[i]
  <2>1. i \in 1 .. Len(s) - 1 - 1 + 1 /\ 1 + i - 1 = i
    BY <1>4
  <2> QED  BY <1>3, <2>1
<1> QED  BY <1>3, <1>5, <1>6

(* A sequence and one element more.                                        *)
LEMMA AppendElements ==
  ASSUME NEW S, NEW s \in Seq(S), NEW x \in S
  PROVE  /\ Append(s, x) \in Seq(S) /\ Len(Append(s, x)) = Len(s) + 1
         /\ \A i \in 1 .. Len(s) : Append(s, x)[i] = s[i]
         /\ Append(s, x)[Len(s) + 1] = x
OBVIOUS

(* Throughputs are numbers.                                                *)
LEMMA Throughput == \A bytes \in Nat : Mbps(bytes) \in Nat
<1>1. UnitsPerSecond \in Nat
  BY UnitsAssumption
<1>2. ASSUME NEW a \in Nat, NEW b \in Nat, b > 0 PROVE a \div b \in Nat
  BY <1>2
<1>3. 125000 * sampleDuration \in Nat /\ 125000 * sampleDuration > 0
  BY Duration, SMT
<1>4. \A bytes \in Nat : bytes * UnitsPerSecond \in Nat
  BY <1>1
<1> QED  BY <1>2, <1>3, <1>4, SMT DEF Mbps

(* A tick is used up by the sample it begins.                              *)
LEMMA TakeTickIndInv ==
  ASSUME IndInv, TakeTick
  PROVE  IndInv'
<1>1. /\ ~panicked /\ sampler = "wait" /\ sampler' = "loadTimes"
      /\ tick /\ tick' = FALSE /\ sampleNumber' = sampleNumber + 1
      /\ late' = IF BeforeStopTicker THEN late ELSE late + 1
      /\ UNCHANGED <<receiver, loaded, Throughputs, ReplayElapsedTime, ticking,
                     panicked, clock, received, seen, bytesRead, SampleTimes, samples,
                     raced>>
  BY DEF TakeTick, At, SamplerFrame, receiverVars, stopVars, dataVars
<1>2. ControlInv'
  BY <1>1 DEF IndInv, ControlInv, Reading, Trimming, Capturing
<1>3. ClockInv'
  BY <1>1 DEF IndInv, ClockInv, Pending
<1>4. LateInv'
  BY <1>1 DEF IndInv, LateInv, BeforeStopTicker, Pending
<1>5. BytesInv'
  BY <1>1 DEF IndInv, BytesInv
<1>6. TimesInv'
  <2>1. Timed' = Timed
    BY <1>1 DEF IndInv, ClockInv, Timed
  <2> QED  BY <1>1, <2>1 DEF IndInv, TimesInv, SoundTimes
<1>7. SamplesInv'
  <2>1. Captured' = Captured /\ sampleNumber \in Nat
    BY <1>1 DEF IndInv, ClockInv, Captured, Capturing
  <2> QED  BY <1>1, <2>1 DEF IndInv, SamplesInv, SoundSamples, Capturing, Reading
<1>8. AlignedInv'
  BY <1>1 DEF IndInv, AlignedInv, Covers, Converted, Trimming
<1>9. FloorInv'
  BY <1>1 DEF IndInv, FloorInv, TimesFloor, Reading
<1> QED  BY <1>2, <1>3, <1>4, <1>5, <1>6, <1>7, <1>8, <1>9 DEF IndInv

(* What is loaded is as sound as what is there.                            *)
LEMMA LoadTimesIndInv ==
  ASSUME IndInv, LoadTimes
  PROVE  IndInv'
<1>1. /\ ~panicked /\ sampler = "loadTimes" /\ sampler' = "storeTimes"
      /\ seen'.slice = SampleTimes /\ seen'.bytes = seen.bytes
      /\ seen' = [slice |-> seen'.slice, bytes |-> seen'.bytes]
      /\ UNCHANGED <<receiver, loaded, Throughputs, ReplayElapsedTime, ticking,
                     panicked, clock, received, sampleNumber, tick, bytesRead,
                     SampleTimes, samples, raced, late>>
  BY DEF LoadTimes, At, SamplerFrame, receiverVars, stopVars, dataVars, IndInv,
     ControlInv
<1>2. ControlInv'
  BY <1>1 DEF IndInv, ControlInv, Reading, Trimming, Capturing
<1>3. ClockInv'
  BY <1>1 DEF IndInv, ClockInv, Pending
<1>4. LateInv'
  BY <1>1 DEF IndInv, LateInv, BeforeStopTicker, Pending
<1>5. BytesInv'
  BY <1>1 DEF IndInv, BytesInv
<1>6. TimesInv'
  BY <1>1 DEF IndInv, TimesInv, SoundTimes, Timed
<1>7. SamplesInv'
  BY <1>1 DEF IndInv, SamplesInv, SoundSamples, Captured, Capturing, Reading
<1>8. AlignedInv'
  BY <1>1 DEF IndInv, AlignedInv, Covers, Converted, Trimming
<1>9. FloorInv'
  BY <1>1 DEF IndInv, FloorInv, TimesFloor, Reading
<1> QED  BY <1>2, <1>3, <1>4, <1>5, <1>6, <1>7, <1>8, <1>9 DEF IndInv

(* The new time is after all that have been stored.                        *)
LEMMA StoreTimesIndInv ==
  ASSUME IndInv, StoreTimes
  PROVE  IndInv'
<1>1. /\ ~panicked /\ sampler = "storeTimes" /\ sampler' = "loadSamples"
      /\ SampleTimes' = Append(seen.slice, sampleNumber * sampleDuration)
      /\ UNCHANGED <<receiver, loaded, Throughputs, ReplayElapsedTime, ticking,
                     panicked, clock, received, sampleNumber, seen, tick, bytesRead,
                     samples, raced, late>>
  BY DEF StoreTimes, At, SamplerFrame, receiverVars, stopVars, dataVars
<1>2. ControlInv'
  BY <1>1 DEF IndInv, ControlInv, Reading, Trimming, Capturing
<1>3. ClockInv'
  BY <1>1 DEF IndInv, ClockInv, Pending
<1>4. LateInv'
  BY <1>1 DEF IndInv, LateInv, BeforeStopTicker, Pending
<1>5. BytesInv'
  BY <1>1 DEF IndInv, BytesInv
<1>6. TimesInv'
  <2>1. Timed \in Nat /\ Timed' = Timed + 1 /\ sampleNumber = Timed'
    BY <1>1 DEF IndInv, ClockInv, Timed
  <2> DEFINE now   == Timed * sampleDuration
             later == sampleNumber * sampleDuration
  <2>2. now \in Nat /\ later \in Nat /\ now < later
    BY <2>1, Multiples, Duration
  <2>3. \A s \in Seq(Nat) :
          SoundTimes(s) => /\ Len(s) <= Timed + 1 /\ \A i \in 1 .. Len(s) : s[i] < later
                           /\ \A i, j \in 1 .. Len(s) : i < j => s[i] < s[j]
    BY <2>1, <2>2 DEF SoundTimes
  <2>4. SoundTimes(seen.slice) /\ seen.slice \in Seq(Nat)
    BY <1>1 DEF IndInv, TimesInv, SoundTimes
  <2>5. SoundTimes(SampleTimes)'
    <3>1. /\ SampleTimes' \in Seq(Nat) /\ Len(SampleTimes') = Len(seen.slice) + 1
          /\ \A i \in 1 .. Len(seen.slice) : SampleTimes'[i] = seen.slice[i]
          /\ SampleTimes'[Len(seen.slice) + 1] = later
      BY <1>1, <2>2, <2>4, AppendElements
    <3>2. Len(SampleTimes') <= Timed'
      BY <2>1, <2>4, <3>1 DEF SoundTimes
    <3>3. \A i \in 1 .. Len(seen.slice) : SampleTimes'[i] < later
      BY <2>3, <2>4, <3>1
    <3>4. \A i \in 1 .. Len(SampleTimes') : i \in 1 .. Len(seen.slice) \/ i = Len(seen.slice) + 1
      BY <2>4, <3>1
    <3>5. \A i \in 1 .. Len(SampleTimes') : SampleTimes'[i] <= later /\ SampleTimes'[i] \in Nat
      BY <2>2, <3>1, <3>3, <3>4
    <3>6. \A i, j \in 1 .. Len(SampleTimes') : i < j => SampleTimes'[i] < SampleTimes'[j]
      <4> SUFFICES ASSUME NEW i \in 1 .. Len(SampleTimes'), NEW j \in 1 .. Len(SampleTimes'),
                          i < j
                   PROVE  SampleTimes'[i] < SampleTimes'[j]
        OBVIOUS
      <4>1. i \in 1 .. Len(seen.slice)
        BY <2>4, <3>1
      <4>2. CASE j \in 1 .. Len(seen.slice)
        BY <2>3, <2>4, <3>1, <4>1, <4>2
      <4>3. CASE j = Len(seen.slice) + 1
        BY <3>1, <3>3, <4>1, <4>3
      <4> QED  BY <3>4, <4>2, <4>3
    <3> QED  BY <2>1, <3>1, <3>2, <3>5, <3>6 DEF SoundTimes
  <2>6. receiver' = "trimTimes" => SoundTimes(loaded.slice)'
    <3>1. receiver = "trimTimes" => loaded.slice \in Seq(Nat) /\ SoundTimes(loaded.slice)
      BY DEF IndInv, TimesInv, SoundTimes
    <3> QED  BY <1>1, <2>1, <2>2, <2>3, <3>1 DEF SoundTimes
  <2> QED  BY <1>1, <2>5, <2>6 DEF TimesInv
<1>7. SamplesInv'
  BY <1>1 DEF IndInv, SamplesInv, SoundSamples, Captured, Capturing, Reading
<1>8. AlignedInv'
  BY <1>1 DEF IndInv, AlignedInv, Covers, Converted, Trimming
<1>9. FloorInv'
  BY <1>1 DEF IndInv, FloorInv, TimesFloor, Reading
<1> QED  BY <1>2, <1>3, <1>4, <1>5, <1>6, <1>7, <1>8, <1>9 DEF IndInv

(* The samples are loaded as they are.                                     *)
LEMMA LoadSamplesIndInv ==
  ASSUME IndInv, LoadSamples
  PROVE  IndInv'
<1>1. /\ ~panicked /\ sampler = "loadSamples" /\ sampler' = "loadBytes"
      /\ seen'.slice = samples /\ seen'.bytes = seen.bytes
      /\ seen' = [slice |-> seen'.slice, bytes |-> seen'.bytes]
      /\ UNCHANGED <<receiver, loaded, Throughputs, ReplayElapsedTime, ticking,
                     panicked, clock, received, sampleNumber, tick, bytesRead,
                     SampleTimes, samples, raced, late>>
  BY DEF LoadSamples, At, SamplerFrame, receiverVars, stopVars, dataVars, IndInv,
     ControlInv
<1>2. ControlInv'
  BY <1>1 DEF IndInv, ControlInv, Reading, Trimming, Capturing
<1>3. ClockInv'
  BY <1>1 DEF IndInv, ClockInv, Pending
<1>4. LateInv'
  BY <1>1 DEF IndInv, LateInv, BeforeStopTicker, Pending
<1>5. BytesInv'
  BY <1>1 DEF IndInv, BytesInv
<1>6. TimesInv'
  BY <1>1 DEF IndInv, TimesInv, SoundTimes, Timed
<1>7. SamplesInv'
  BY <1>1 DEF IndInv, SamplesInv, SoundSamples, Captured, Capturing, Reading
<1>8. AlignedInv'
  BY <1>1 DEF IndInv, AlignedInv, Covers, Converted, Trimming
<1>9. FloorInv'
  BY <1>1 DEF IndInv, FloorInv, TimesFloor, Reading
<1> QED  BY <1>2, <1>3, <1>4, <1>5, <1>6, <1>7, <1>8, <1>9 DEF IndInv

(* The byte count is a number.                                             *)
LEMMA LoadBytesIndInv ==
  ASSUME IndInv, LoadBytes
  PROVE  IndInv'
<1>1. /\ ~panicked /\ sampler = "loadBytes" /\ sampler' = "storeSamples"
      /\ seen'.slice = seen.slice /\ seen'.bytes = bytesRead
      /\ seen' = [slice |-> seen'.slice, bytes |-> seen'.bytes]
      /\ raced' \in BOOLEAN
      /\ UNCHANGED <<receiver, loaded, Throughputs, ReplayElapsedTime, ticking,
                     panicked, clock, received, sampleNumber, tick, bytesRead,
                     SampleTimes, samples, late>>
  BY DEF LoadBytes, At, SamplerFrame, receiverVars, stopVars, dataVars, IndInv,
     ControlInv
<1>2. ControlInv'
  BY <1>1 DEF IndInv, ControlInv, Reading, Trimming, Capturing
<1>3. ClockInv'
  BY <1>1 DEF IndInv, ClockInv, Pending
<1>4. LateInv'
  BY <1>1 DEF IndInv, LateInv, BeforeStopTicker, Pending
<1>5. BytesInv'
  BY <1>1 DEF IndInv, BytesInv
<1>6. TimesInv'
  BY <1>1 DEF IndInv, TimesInv, SoundTimes, Timed
<1>7. SamplesInv'
  BY <1>1 DEF IndInv, SamplesInv, SoundSamples, Captured, Capturing, Reading
<1>8. AlignedInv'
  BY <1>1 DEF IndInv, AlignedInv, Covers, Converted, Trimming
<1>9. FloorInv'
  BY <1>1 DEF IndInv, FloorInv, TimesFloor, Reading
<1> QED  BY <1>2, <1>3, <1>4, <1>5, <1>6, <1>7, <1>8, <1>9 DEF IndInv

(* A sample is added behind those that have been converted.                *)
LEMMA StoreSamplesIndInv ==
  ASSUME IndInv, StoreSamples
  PROVE  IndInv'
<1>1. /\ ~panicked /\ sampler = "storeSamples" /\ sampler' = "resetBytes"
      /\ samples' = Append(seen.slice, seen.bytes)
      /\ UNCHANGED <<receiver, loaded, Throughputs, ReplayElapsedTime, ticking,
                     panicked, clock, received, sampleNumber, seen, tick, bytesRead,
                     SampleTimes, raced, late>>
  BY DEF StoreSamples, At, SamplerFrame, receiverVars, stopVars, dataVars
<1>2. ControlInv'
  BY <1>1 DEF IndInv, ControlInv, Reading, Trimming, Capturing
<1>3. ClockInv'
  BY <1>1 DEF IndInv, ClockInv, Pending
<1>4. LateInv'
  BY <1>1 DEF IndInv, LateInv, BeforeStopTicker, Pending
<1>5. BytesInv'
  BY <1>1 DEF IndInv, BytesInv
<1>6. TimesInv'
  BY <1>1 DEF IndInv, TimesInv, SoundTimes, Timed
<1>7. SamplesInv'
  <2>1. Captured \in Nat /\ Captured' = Captured + 1
    BY <1>1 DEF IndInv, ClockInv, Captured, Capturing
  <2>2. /\ seen.slice \in Seq(Nat) /\ Len(seen.slice) <= Captured
        /\ seen.bytes \in Nat
    BY <1>1 DEF IndInv, SamplesInv, SoundSamples, BytesInv
  <2>3. samples' \in Seq(Nat) /\ Len(samples') = Len(seen.slice) + 1
    BY <1>1, <2>2, AppendElements
  <2>4. SoundSamples(samples)'
    BY <2>1, <2>2, <2>3 DEF SoundSamples
  <2> QED  BY <1>1, <2>1, <2>4 DEF IndInv, SamplesInv, SoundSamples, Reading
<1>8. AlignedInv'
  BY <1>1 DEF IndInv, AlignedInv, Covers, Converted, Trimming
<1>9. FloorInv'
  <2>1. seen.slice \in Seq(Nat) /\ seen.bytes \in Nat
    BY <1>1 DEF IndInv, SamplesInv, SoundSamples, BytesInv
  <2>2. Len(samples') = Len(seen.slice) + 1
    BY <1>1, <2>1, AppendElements
  <2>3. receiver \in Reading => seen.slice = samples
    BY <1>1 DEF IndInv, AlignedInv, Reading
  <2>4. TimesFloor' = TimesFloor
    BY <1>1, <2>1, <2>2, <2>3 DEF TimesFloor, Reading
  <2> QED  BY <1>1, <2>4 DEF IndInv, FloorInv
<1> QED  BY <1>2, <1>3, <1>4, <1>5, <1>6, <1>7, <1>8, <1>9 DEF IndInv

(* The count never exceeds what has been received.                         *)
LEMMA ResetBytesIndInv ==
  ASSUME IndInv, ResetBytes
  PROVE  IndInv'
<1>1. /\ ~panicked /\ sampler = "resetBytes" /\ sampler' = "wait"
      /\ bytesRead' = 0
      /\ UNCHANGED <<receiver, loaded, Throughputs, ReplayElapsedTime, ticking,
                     panicked, clock, received, sampleNumber, seen, tick, SampleTimes,
                     samples, raced, late>>
  BY DEF ResetBytes, At, SamplerFrame, receiverVars, stopVars, dataVars
<1>2. ControlInv'
  BY <1>1 DEF IndInv, ControlInv, Reading, Trimming, Capturing
<1>3. ClockInv'
  BY <1>1 DEF IndInv, ClockInv, Pending
<1>4. LateInv'
  BY <1>1 DEF IndInv, LateInv, BeforeStopTicker, Pending
<1>5. BytesInv'
  BY <1>1 DEF IndInv, BytesInv
<1>6. TimesInv'
  BY <1>1 DEF IndInv, TimesInv, SoundTimes, Timed
<1>7. SamplesInv'
  BY <1>1 DEF IndInv, SamplesInv, SoundSamples, Captured, Capturing, Reading
<1>8. AlignedInv'
  BY <1>1 DEF IndInv, AlignedInv, Covers, Converted, Trimming
<1>9. FloorInv'
  BY <1>1 DEF IndInv, FloorInv, TimesFloor, Reading
<1> QED  BY <1>2, <1>3, <1>4, <1>5, <1>6, <1>7, <1>8, <1>9 DEF IndInv

(* What is loaded and what is added have both been received.               *)
LEMMA AddBytesReadIndInv ==
  ASSUME IndInv, AddBytesRead
  PROVE  IndInv'
<1>1. /\ ~panicked /\ receiver = "reading" /\ receiver' = "adding"
      /\ received < MaxReads * Chunk /\ received' = received + Chunk
      /\ loaded'.slice = loaded.slice /\ loaded'.bytes = bytesRead
      /\ loaded' = [slice |-> loaded'.slice, bytes |-> loaded'.bytes]
      /\ raced' \in BOOLEAN
      /\ UNCHANGED <<sampler, seen, sampleNumber, tick, clock, late, Throughputs,
                     ReplayElapsedTime, ticking, panicked, bytesRead, SampleTimes,
                     samples>>
  BY DEF AddBytesRead, Goes, ReceiverFrame, StopFrame, samplerVars, timeVars, stopVars,
     dataVars, IndInv, ControlInv
<1>2. ControlInv'
  BY <1>1 DEF IndInv, ControlInv, Reading, Trimming, Capturing
<1>3. ClockInv'
  BY <1>1 DEF IndInv, ClockInv, Pending
<1>4. LateInv'
  BY <1>1 DEF IndInv, LateInv, BeforeStopTicker, Pending
<1>5. BytesInv'
  <2>1. Chunk \in Nat /\ MaxReads \in Nat
    BY AnalyzerAssumption
  <2>2. PICK k \in 0 .. MaxReads : received = k * Chunk
    BY DEF IndInv, BytesInv
  <2>3. k \in Nat /\ received \in Nat /\ (k + 1) * Chunk = received + Chunk
    BY <2>1, <2>2, Multiples
  <2>4. k < MaxReads
    BY <1>1, <2>1, <2>2
  <2>5. \E n \in 0 .. MaxReads : received' = n * Chunk
    BY <1>1, <2>1, <2>3, <2>4
  <2> QED  BY <1>1, <2>1, <2>3, <2>5 DEF IndInv, BytesInv
<1>6. TimesInv'
  BY <1>1 DEF IndInv, TimesInv, SoundTimes, Timed
<1>7. SamplesInv'
  BY <1>1 DEF IndInv, SamplesInv, SoundSamples, Captured, Capturing, Reading
<1>8. AlignedInv'
  BY <1>1 DEF IndInv, AlignedInv, Covers, Converted, Trimming
<1>9. FloorInv'
  BY <1>1 DEF IndInv, FloorInv, TimesFloor, Reading
<1> QED  BY <1>2, <1>3, <1>4, <1>5, <1>6, <1>7, <1>8, <1>9 DEF IndInv

(* The count stored is of bytes received.                                  *)
LEMMA StoreBytesReadIndInv ==
  ASSUME IndInv, StoreBytesRead
  PROVE  IndInv'
<1>1. /\ ~panicked /\ receiver = "adding" /\ receiver' = "reading"
      /\ bytesRead' = loaded.bytes + Chunk
      /\ UNCHANGED <<sampler, seen, sampleNumber, tick, clock, late, loaded,
                     Throughputs, ReplayElapsedTime, ticking, panicked, SampleTimes,
                     samples, received, raced>>
  BY DEF StoreBytesRead, Goes, ReceiverFrame, StopFrame, samplerVars, timeVars,
     stopVars, dataVars
<1>2. ControlInv'
  BY <1>1 DEF IndInv, ControlInv, Reading, Trimming, Capturing
<1>3. ClockInv'
  BY <1>1 DEF IndInv, ClockInv, Pending
<1>4. LateInv'
  BY <1>1 DEF IndInv, LateInv, BeforeStopTicker, Pending
<1>5. BytesInv'
  <2>1. Chunk \in Nat
    BY AnalyzerAssumption
  <2>2. bytesRead' \in 0 .. received
    BY <1>1, <2>1 DEF IndInv, BytesInv
  <2> QED  BY <1>1, <2>2 DEF IndInv, BytesInv
<1>6. TimesInv'
  BY <1>1 DEF IndInv, TimesInv, SoundTimes, Timed
<1>7. SamplesInv'
  BY <1>1 DEF IndInv, SamplesInv, SoundSamples, Captured, Capturing, Reading
<1>8. AlignedInv'
  BY <1>1 DEF IndInv, AlignedInv, Covers, Converted, Trimming
<1>9. FloorInv'
  BY <1>1 DEF IndInv, FloorInv, TimesFloor, Reading
<1> QED  BY <1>2, <1>3, <1>4, <1>5, <1>6, <1>7, <1>8, <1>9 DEF IndInv

(* Stop begins with no throughput.                                         *)
LEMMA FinishReadingIndInv ==
  ASSUME IndInv, FinishReading
  PROVE  IndInv'
<1>1. /\ ~panicked /\ receiver = "reading" /\ receiver' = "elapsed"
      /\ UNCHANGED <<sampler, seen, sampleNumber, tick, clock, late, loaded,
                     Throughputs, ReplayElapsedTime, ticking, panicked, bytesRead,
                     SampleTimes, samples, received, raced>>
  BY DEF FinishReading, Goes, ReceiverFrame, StopFrame, samplerVars, timeVars, stopVars,
     dataVars
<1>2. ControlInv'
  BY <1>1 DEF IndInv, ControlInv, Reading, Trimming, Capturing
<1>3. ClockInv'
  BY <1>1 DEF IndInv, ClockInv, Pending
<1>4. LateInv'
  BY <1>1 DEF IndInv, LateInv, BeforeStopTicker, Pending
<1>5. BytesInv'
  BY <1>1 DEF IndInv, BytesInv
<1>6. TimesInv'
  BY <1>1 DEF IndInv, TimesInv, SoundTimes, Timed
<1>7. SamplesInv'
  BY <1>1 DEF IndInv, SamplesInv, SoundSamples, Captured, Capturing, Reading
<1>8. AlignedInv'
  BY <1>1 DEF IndInv, AlignedInv, Covers, Converted, Trimming
<1>9. FloorInv'
  BY <1>1 DEF IndInv, FloorInv, TimesFloor, Reading
<1> QED  BY <1>2, <1>3, <1>4, <1>5, <1>6, <1>7, <1>8, <1>9 DEF IndInv

(* The time is that of the clock.                                          *)
LEMMA TakeElapsedTimeIndInv ==
  ASSUME IndInv, TakeElapsedTime
  PROVE  IndInv'
<1>1. /\ ~panicked /\ receiver = "elapsed" /\ receiver' = "ticker"
      /\ ReplayElapsedTime' = clock
      /\ UNCHANGED <<sampler, seen, sampleNumber, tick, clock, late, bytesRead,
                     received, raced, loaded, Throughputs, ticking, panicked,
                     SampleTimes, samples>>
  BY DEF TakeElapsedTime, Goes, ReceiverFrame, StopFrame, samplerVars, timeVars,
     stopVars, dataVars
<1>2. ControlInv'
  BY <1>1 DEF IndInv, ControlInv, Reading, Trimming, Capturing
<1>3. ClockInv'
  BY <1>1 DEF IndInv, ClockInv, Pending
<1>4. LateInv'
  BY <1>1 DEF IndInv, LateInv, BeforeStopTicker, Pending
<1>5. BytesInv'
  BY <1>1 DEF IndInv, BytesInv
<1>6. TimesInv'
  BY <1>1 DEF IndInv, TimesInv, SoundTimes, Timed
<1>7. SamplesInv'
  BY <1>1 DEF IndInv, SamplesInv, SoundSamples, Captured, Capturing, Reading
<1>8. AlignedInv'
  BY <1>1 DEF IndInv, AlignedInv, Covers, Converted, Trimming
<1>9. FloorInv'
  BY <1>1 DEF IndInv, FloorInv, TimesFloor, Reading
<1> QED  BY <1>2, <1>3, <1>4, <1>5, <1>6, <1>7, <1>8, <1>9 DEF IndInv

(* From here on one tick at most is to be had.                             *)
LEMMA StopTickerIndInv ==
  ASSUME IndInv, StopTicker
  PROVE  IndInv'
<1>1. /\ ~panicked /\ receiver = "ticker" /\ receiver' = "reset"
      /\ ticking' = FALSE
      /\ UNCHANGED <<sampler, seen, sampleNumber, tick, clock, late, bytesRead,
                     received, raced, loaded, Throughputs, ReplayElapsedTime, panicked,
                     SampleTimes, samples>>
  BY DEF StopTicker, Goes, ReceiverFrame, StopFrame, samplerVars, timeVars, stopVars,
     dataVars
<1>2. ControlInv'
  BY <1>1 DEF IndInv, ControlInv, Reading, Trimming, Capturing
<1>3. ClockInv'
  BY <1>1 DEF IndInv, ClockInv, Pending
<1>4. LateInv'
  BY <1>1 DEF IndInv, LateInv, BeforeStopTicker, Pending
<1>5. BytesInv'
  BY <1>1 DEF IndInv, BytesInv
<1>6. TimesInv'
  BY <1>1 DEF IndInv, TimesInv, SoundTimes, Timed
<1>7. SamplesInv'
  BY <1>1 DEF IndInv, SamplesInv, SoundSamples, Captured, Capturing, Reading
<1>8. AlignedInv'
  BY <1>1 DEF IndInv, AlignedInv, Covers, Converted, Trimming
<1>9. FloorInv'
  BY <1>1 DEF IndInv, FloorInv, TimesFloor, Reading
<1> QED  BY <1>2, <1>3, <1>4, <1>5, <1>6, <1>7, <1>8, <1>9 DEF IndInv

(* The samples to convert are the first of those there will be.            *)
LEMMA ResetThroughputsIndInv ==
  ASSUME IndInv, ResetThroughputs
  PROVE  IndInv'
<1>1. /\ ~panicked /\ receiver = "reset" /\ receiver' = "convert"
      /\ Throughputs' = <<>>
      /\ loaded'.slice = samples /\ loaded'.bytes = loaded.bytes
      /\ loaded' = [slice |-> loaded'.slice, bytes |-> loaded'.bytes]
      /\ UNCHANGED <<sampler, seen, sampleNumber, tick, clock, late, bytesRead,
                     received, raced, ReplayElapsedTime, ticking, panicked, SampleTimes,
                     samples>>
  BY DEF ResetThroughputs, Goes, ReceiverFrame, StopFrame, samplerVars, timeVars,
     stopVars, dataVars, IndInv, ControlInv
<1>2. ControlInv'
  BY <1>1 DEF IndInv, ControlInv, Reading, Trimming, Capturing
<1>3. ClockInv'
  BY <1>1 DEF IndInv, ClockInv, Pending
<1>4. LateInv'
  BY <1>1 DEF IndInv, LateInv, BeforeStopTicker, Pending
<1>5. BytesInv'
  BY <1>1 DEF IndInv, BytesInv
<1>6. TimesInv'
  BY <1>1 DEF IndInv, TimesInv, SoundTimes, Timed
<1>7. SamplesInv'
  BY <1>1 DEF IndInv, SamplesInv, SoundSamples, Captured, Capturing, Reading
<1>8. AlignedInv'
  BY <1>1 DEF IndInv, AlignedInv, Covers, Converted, Trimming
<1>9. FloorInv'
  BY <1>1 DEF IndInv, FloorInv, TimesFloor, Reading
<1> QED  BY <1>2, <1>3, <1>4, <1>5, <1>6, <1>7, <1>8, <1>9 DEF IndInv

(* One more throughput, of the next sample.                                *)
LEMMA ConvertIndInv ==
  ASSUME IndInv, Convert
  PROVE  IndInv'
<1>1. /\ ~panicked /\ receiver = "convert" /\ receiver' = "convert"
      /\ Len(Throughputs) + 1 <= Len(loaded.slice)
      /\ Throughputs' = Append(Throughputs, Mbps(loaded.slice[Len(Throughputs) + 1]))
      /\ UNCHANGED <<sampler, seen, sampleNumber, tick, clock, late, bytesRead,
                     received, raced, loaded, ReplayElapsedTime, ticking, panicked,
                     SampleTimes, samples>>
  BY DEF Convert, Goes, ReceiverFrame, StopFrame, samplerVars, timeVars, stopVars,
     dataVars
<1>2. ControlInv'
  BY <1>1 DEF IndInv, ControlInv, Reading, Trimming, Capturing
<1>3. ClockInv'
  BY <1>1 DEF IndInv, ClockInv, Pending
<1>4. LateInv'
  BY <1>1 DEF IndInv, LateInv, BeforeStopTicker, Pending
<1>5. BytesInv'
  BY <1>1 DEF IndInv, BytesInv
<1>6. TimesInv'
  BY <1>1 DEF IndInv, TimesInv, SoundTimes, Timed
<1>7. SamplesInv'
  <2>1. loaded.slice \in Seq(Nat) /\ Len(loaded.slice) <= Captured /\ Throughputs \in Seq(Nat)
    BY <1>1 DEF IndInv, SamplesInv, SoundSamples
  <2>2. sampleNumber \in Nat /\ Captured <= sampleNumber
    BY <1>1 DEF IndInv, ClockInv, Captured
  <2>3. Mbps(loaded.slice[Len(Throughputs) + 1]) \in Nat
    <3>1. Len(Throughputs) + 1 \in 1 .. Len(loaded.slice)
      BY <1>1, <2>1
    <3>2. loaded.slice[Len(Throughputs) + 1] \in Nat
      BY <2>1, <3>1
    <3> QED  BY <3>2, Throughput
  <2>4. Throughputs' \in Seq(Nat) /\ Len(Throughputs') = Len(Throughputs) + 1
    BY <1>1, <2>1, <2>3, AppendElements
  <2>5. Captured' = Captured /\ Len(Throughputs') <= Len(loaded.slice)
    BY <1>1, <2>4 DEF Captured
  <2>6. Captured \in Int /\ Len(Throughputs') <= sampleNumber
    BY <2>1, <2>2, <2>4, <2>5 DEF Captured
  <2> QED  BY <1>1, <2>4, <2>5, <2>6 DEF IndInv, SamplesInv, SoundSamples, Reading
<1>8. AlignedInv'
  BY <1>1 DEF IndInv, AlignedInv, Covers, Converted, Trimming
<1>9. FloorInv'
  BY <1>1 DEF IndInv, FloorInv, TimesFloor, Reading
<1> QED  BY <1>2, <1>3, <1>4, <1>5, <1>6, <1>7, <1>8, <1>9 DEF IndInv

(* The last throughput goes, if there is one.                              *)
LEMMA TrimThroughputsIndInv ==
  ASSUME IndInv, TrimThroughputs
  PROVE  IndInv'
<1>1. /\ ~panicked /\ receiver = "convert" /\ receiver' = "loadTimes"
      /\ Len(Throughputs) = Len(loaded.slice) /\ panicked' = (Throughputs = <<>>)
      /\ Throughputs' = IF Throughputs = <<>> THEN <<>> ELSE Front(Throughputs)
      /\ UNCHANGED <<sampler, seen, sampleNumber, tick, clock, late, bytesRead,
                     received, raced, loaded, ReplayElapsedTime, ticking, SampleTimes,
                     samples>>
  BY DEF TrimThroughputs, Goes, ReceiverFrame, StopFrame, samplerVars, timeVars,
     stopVars, dataVars
<1>2. ControlInv'
  BY <1>1 DEF IndInv, ControlInv, Reading, Trimming, Capturing
<1>3. ClockInv'
  BY <1>1 DEF IndInv, ClockInv, Pending
<1>4. LateInv'
  BY <1>1 DEF IndInv, LateInv, BeforeStopTicker, Pending
<1>5. BytesInv'
  BY <1>1 DEF IndInv, BytesInv
<1>6. TimesInv'
  BY <1>1 DEF IndInv, TimesInv, SoundTimes, Timed
<1>7. SamplesInv'
  <2>1. Throughputs \in Seq(Nat)
    BY DEF IndInv, SamplesInv
  <2>2. CASE Throughputs = <<>>
    BY <1>1, <2>1, <2>2 DEF IndInv, SamplesInv, SoundSamples, Captured, Reading
  <2>3. CASE Throughputs # <<>>
    <3>1. /\ Len(Throughputs) > 0 /\ Throughputs' \in Seq(Nat)
          /\ Len(Throughputs') = Len(Throughputs) - 1
          /\ \A i \in 1 .. Len(Throughputs) - 1 : Throughputs'[i] = Throughputs[i]
      BY <1>1, <2>1, <2>3, FrontElements
    <3>2. Captured' = Captured /\ sampleNumber \in Nat
      BY <1>1 DEF IndInv, ClockInv, Captured
    <3>3. Len(Throughputs') <= sampleNumber
      BY <2>1, <3>1, <3>2 DEF IndInv, SamplesInv
    <3> QED  BY <1>1, <3>1, <3>2, <3>3 DEF IndInv, SamplesInv, SoundSamples, Reading
  <2> QED  BY <2>2, <2>3
<1>8. AlignedInv'
  <2>1. Throughputs \in Seq(Nat)
    BY DEF IndInv, SamplesInv
  <2>2. CASE Throughputs = <<>>
    BY <1>1, <2>1, <2>2 DEF IndInv, AlignedInv
  <2>3. CASE Throughputs # <<>>
    <3>1. /\ Len(Throughputs) > 0 /\ Throughputs' \in Seq(Nat)
          /\ Len(Throughputs') = Len(Throughputs) - 1
          /\ \A i \in 1 .. Len(Throughputs) - 1 : Throughputs'[i] = Throughputs[i]
      BY <1>1, <2>1, <2>3, FrontElements
    <3>2. ASSUME NEW s, Len(s) \in Nat, Covers(s)
          PROVE  /\ \A i \in 1 .. Len(Throughputs') : i <= Len(s) /\ Throughputs'[i] = Mbps(s[i])
                 /\ Len(Throughputs') < Len(s)
      <4>1. Len(Throughputs) <= Len(s)
        BY <2>1, <3>1, <3>2 DEF Covers, Converted
      <4> QED  BY <2>1, <3>1, <3>2, <4>1 DEF Covers, Converted
    <3>3. /\ Len(samples) \in Nat
          /\ sampler \in {"loadBytes", "storeSamples"} => Len(seen.slice) \in Nat
      BY DEF IndInv, SamplesInv, SoundSamples
    <3>4. Covers(samples)'
      BY <1>1, <3>2, <3>3 DEF IndInv, AlignedInv, Covers, Converted
    <3>5. sampler' \in {"loadBytes", "storeSamples"} => Covers(seen.slice)'
      BY <1>1, <3>2, <3>3 DEF IndInv, AlignedInv, Covers, Converted
    <3> QED  BY <1>1, <3>4, <3>5 DEF IndInv, AlignedInv
  <2> QED  BY <2>2, <2>3
<1>9. FloorInv'
  <2>1. Throughputs \in Seq(Nat)
    BY DEF IndInv, SamplesInv
  <2>2. CASE Throughputs = <<>>
    BY <1>1, <2>1, <2>2 DEF IndInv, FloorInv
  <2>3. CASE Throughputs # <<>>
    <3>1. /\ Len(Throughputs) > 0 /\ Throughputs' \in Seq(Nat)
          /\ Len(Throughputs') = Len(Throughputs) - 1
          /\ \A i \in 1 .. Len(Throughputs) - 1 : Throughputs'[i] = Throughputs[i]
      BY <1>1, <2>1, <2>3, FrontElements
    <3>2. TimesFloor' = TimesFloor
      BY <1>1, <2>1, <3>1 DEF TimesFloor, Reading
    <3> QED  BY <1>1, <3>2 DEF IndInv, FloorInv
  <2> QED  BY <2>2, <2>3
<1> QED  BY <1>2, <1>3, <1>4, <1>5, <1>6, <1>7, <1>8, <1>9 DEF IndInv

(* There is a sample time more than there are throughputs.                 *)
LEMMA LoadTimesToTrimIndInv ==
  ASSUME IndInv, LoadTimesToTrim
  PROVE  IndInv'
<1>1. /\ ~panicked /\ receiver = "loadTimes" /\ receiver' = "trimTimes"
      /\ loaded'.slice = SampleTimes /\ loaded'.bytes = loaded.bytes
      /\ loaded' = [slice |-> loaded'.slice, bytes |-> loaded'.bytes]
      /\ UNCHANGED <<sampler, seen, sampleNumber, tick, clock, late, bytesRead,
                     received, raced, Throughputs, ReplayElapsedTime, ticking, panicked,
                     SampleTimes, samples>>
  BY DEF LoadTimesToTrim, Goes, ReceiverFrame, StopFrame, samplerVars, timeVars,
     stopVars, dataVars, IndInv, ControlInv
<1>2. ControlInv'
  BY <1>1 DEF IndInv, ControlInv, Reading, Trimming, Capturing
<1>3. ClockInv'
  BY <1>1 DEF IndInv, ClockInv, Pending
<1>4. LateInv'
  BY <1>1 DEF IndInv, LateInv, BeforeStopTicker, Pending
<1>5. BytesInv'
  BY <1>1 DEF IndInv, BytesInv
<1>6. TimesInv'
  BY <1>1 DEF IndInv, TimesInv, SoundTimes, Timed
<1>7. SamplesInv'
  BY <1>1 DEF IndInv, SamplesInv, SoundSamples, Captured, Capturing, Reading
<1>8. AlignedInv'
  BY <1>1 DEF IndInv, AlignedInv, Covers, Converted, Trimming
<1>9. FloorInv'
  BY <1>1 DEF IndInv, FloorInv, TimesFloor, Reading
<1> QED  BY <1>2, <1>3, <1>4, <1>5, <1>6, <1>7, <1>8, <1>9 DEF IndInv

(* Without the last there are as many times as throughputs.                *)
LEMMA TrimTimesIndInv ==
  ASSUME IndInv, TrimTimes
  PROVE  IndInv'
<1>1. /\ ~panicked /\ receiver = "trimTimes" /\ receiver' = "loadSamples"
      /\ SampleTimes' = Front(loaded.slice)
      /\ UNCHANGED <<sampler, seen, sampleNumber, tick, clock, late, bytesRead,
                     received, raced, loaded, Throughputs, ReplayElapsedTime, ticking,
                     panicked, samples>>
  BY DEF TrimTimes, Goes, ReceiverFrame, StopFrame, samplerVars, timeVars, stopVars,
     dataVars
<1>2. ControlInv'
  BY <1>1 DEF IndInv, ControlInv, Reading, Trimming, Capturing
<1>3. ClockInv'
  BY <1>1 DEF IndInv, ClockInv, Pending
<1>4. LateInv'
  BY <1>1 DEF IndInv, LateInv, BeforeStopTicker, Pending
<1>5. BytesInv'
  BY <1>1 DEF IndInv, BytesInv
<1>6. TimesInv'
  <2>1. /\ loaded.slice \in Seq(Nat) /\ Throughputs \in Seq(Nat)
        /\ Len(loaded.slice) >= Len(Throughputs) + 1
    BY <1>1 DEF IndInv, TimesInv, SoundTimes, SamplesInv, FloorInv, TimesFloor, Reading
  <2>2. Len(loaded.slice) > 0
    BY <2>1
  <2>3. /\ SampleTimes' \in Seq(Nat) /\ Len(SampleTimes') = Len(loaded.slice) - 1
        /\ \A i \in 1 .. Len(loaded.slice) - 1 : SampleTimes'[i] = loaded.slice[i]
    BY <1>1, <2>1, <2>2, FrontElements
  <2>4. Timed' = Timed /\ Timed \in Int /\ SoundTimes(loaded.slice)
    BY <1>1 DEF IndInv, ClockInv, TimesInv, Timed
  <2>5. Len(SampleTimes') <= Timed'
    BY <2>1, <2>3, <2>4 DEF SoundTimes
  <2>6. \A i \in 1 .. Len(SampleTimes') : i \in 1 .. Len(loaded.slice)
                                         /\ SampleTimes'[i] = loaded.slice[i]
    BY <2>1, <2>3
  <2>7. SoundTimes(SampleTimes)'
    BY <2>3, <2>4, <2>5, <2>6 DEF SoundTimes
  <2> QED  BY <1>1, <2>4, <2>7 DEF IndInv, TimesInv, SoundTimes
<1>7. SamplesInv'
  BY <1>1 DEF IndInv, SamplesInv, SoundSamples, Captured, Capturing, Reading
<1>8. AlignedInv'
  BY <1>1 DEF IndInv, AlignedInv, Covers, Converted, Trimming
<1>9. FloorInv'
  <2>1. /\ loaded.slice \in Seq(Nat) /\ Throughputs \in Seq(Nat)
        /\ Len(loaded.slice) >= Len(Throughputs) + 1
    BY <1>1 DEF IndInv, TimesInv, SoundTimes, SamplesInv, FloorInv, TimesFloor, Reading
  <2>2. Len(loaded.slice) > 0
    BY <2>1
  <2>3. /\ SampleTimes' \in Seq(Nat) /\ Len(SampleTimes') = Len(loaded.slice) - 1
        /\ \A i \in 1 .. Len(loaded.slice) - 1 : SampleTimes'[i] = loaded.slice[i]
    BY <1>1, <2>1, <2>2, FrontElements
  <2>4. TimesFloor = Len(Throughputs) + 1 /\ TimesFloor' = Len(Throughputs)
    BY <1>1 DEF TimesFloor, Reading
  <2>5. sampler = "storeTimes" => Len(seen.slice) \in Nat
    BY DEF IndInv, TimesInv, SoundTimes
  <2>6. Len(SampleTimes') >= TimesFloor'
    BY <2>1, <2>3, <2>4
  <2>7. sampler' = "storeTimes" => Len(seen'.slice) >= TimesFloor'
    BY <1>1, <2>1, <2>4, <2>5 DEF IndInv, FloorInv
  <2> QED  BY <1>1, <2>6, <2>7 DEF FloorInv
<1> QED  BY <1>2, <1>3, <1>4, <1>5, <1>6, <1>7, <1>8, <1>9 DEF IndInv

(* There is a sample more than there are throughputs.                      *)
LEMMA LoadSamplesToTrimIndInv ==
  ASSUME IndInv, LoadSamplesToTrim
  PROVE  IndInv'
<1>1. /\ ~panicked /\ receiver = "loadSamples" /\ receiver' = "trimSamples"
      /\ loaded'.slice = samples /\ loaded'.bytes = loaded.bytes
      /\ loaded' = [slice |-> loaded'.slice, bytes |-> loaded'.bytes]
      /\ UNCHANGED <<sampler, seen, sampleNumber, tick, clock, late, bytesRead,
                     received, raced, Throughputs, ReplayElapsedTime, ticking, panicked,
                     SampleTimes, samples>>
  BY DEF LoadSamplesToTrim, Goes, ReceiverFrame, StopFrame, samplerVars, timeVars,
     stopVars, dataVars, IndInv, ControlInv
<1>2. ControlInv'
  BY <1>1 DEF IndInv, ControlInv, Reading, Trimming, Capturing
<1>3. ClockInv'
  BY <1>1 DEF IndInv, ClockInv, Pending
<1>4. LateInv'
  BY <1>1 DEF IndInv, LateInv, BeforeStopTicker, Pending
<1>5. BytesInv'
  BY <1>1 DEF IndInv, BytesInv
<1>6. TimesInv'
  BY <1>1 DEF IndInv, TimesInv, SoundTimes, Timed
<1>7. SamplesInv'
  BY <1>1 DEF IndInv, SamplesInv, SoundSamples, Captured, Capturing, Reading
<1>8. AlignedInv'
  BY <1>1 DEF IndInv, AlignedInv, Covers, Converted, Trimming
<1>9. FloorInv'
  BY <1>1 DEF IndInv, FloorInv, TimesFloor, Reading
<1> QED  BY <1>2, <1>3, <1>4, <1>5, <1>6, <1>7, <1>8, <1>9 DEF IndInv

(* Without the last the samples still cover the throughputs.               *)
LEMMA TrimSamplesIndInv ==
  ASSUME IndInv, TrimSamples
  PROVE  IndInv'
<1>1. /\ ~panicked /\ receiver = "trimSamples" /\ receiver' = "done"
      /\ samples' = Front(loaded.slice)
      /\ UNCHANGED <<sampler, seen, sampleNumber, tick, clock, late, bytesRead,
                     received, raced, loaded, Throughputs, ReplayElapsedTime, ticking,
                     panicked, SampleTimes>>
  BY DEF TrimSamples, Goes, ReceiverFrame, StopFrame, samplerVars, timeVars, stopVars,
     dataVars
<1>2. ControlInv'
  BY <1>1 DEF IndInv, ControlInv, Reading, Trimming, Capturing
<1>3. ClockInv'
  BY <1>1 DEF IndInv, ClockInv, Pending
<1>4. LateInv'
  BY <1>1 DEF IndInv, LateInv, BeforeStopTicker, Pending
<1>5. BytesInv'
  BY <1>1 DEF IndInv, BytesInv
<1>6. TimesInv'
  BY <1>1 DEF IndInv, TimesInv, SoundTimes, Timed
<1>7. SamplesInv'
  <2>1. /\ loaded.slice \in Seq(Nat) /\ Throughputs \in Seq(Nat)
        /\ Len(Throughputs) < Len(loaded.slice) /\ Converted(loaded.slice)
    BY <1>1 DEF IndInv, SamplesInv, SoundSamples, AlignedInv, Covers, Trimming
  <2>2. Len(loaded.slice) > 0
    BY <2>1
  <2>3. /\ samples' \in Seq(Nat) /\ Len(samples') = Len(loaded.slice) - 1
        /\ \A i \in 1 .. Len(loaded.slice) - 1 : samples'[i] = loaded.slice[i]
    BY <1>1, <2>1, <2>2, FrontElements
  <2>4. /\ Captured' = Captured /\ Captured \in Int
        /\ Len(loaded.slice) <= Captured
    BY <1>1 DEF IndInv, ClockInv, SamplesInv, SoundSamples, Captured
  <2>5. SoundSamples(samples)'
    BY <2>1, <2>3, <2>4 DEF SoundSamples
  <2> QED  BY <1>1, <2>4, <2>5 DEF IndInv, SamplesInv, SoundSamples, Reading
<1>8. AlignedInv'
  <2>1. /\ loaded.slice \in Seq(Nat) /\ Throughputs \in Seq(Nat)
        /\ Len(Throughputs) < Len(loaded.slice) /\ Converted(loaded.slice)
    BY <1>1 DEF IndInv, SamplesInv, SoundSamples, AlignedInv, Covers, Trimming
  <2>2. Len(loaded.slice) > 0
    BY <2>1
  <2>3. /\ samples' \in Seq(Nat) /\ Len(samples') = Len(loaded.slice) - 1
        /\ \A i \in 1 .. Len(loaded.slice) - 1 : samples'[i] = loaded.slice[i]
    BY <1>1, <2>1, <2>2, FrontElements
  <2>4. Covers(samples)'
    <3>1. \A i \in 1 .. Len(Throughputs) : i \in 1 .. Len(loaded.slice) - 1
      BY <2>1
    <3>2. \A i \in 1 .. Len(Throughputs) : i <= Len(samples') /\ Throughputs[i] = Mbps(samples'[i])
      BY <2>1, <2>3, <3>1 DEF Converted
    <3> QED  BY <1>1, <3>2 DEF Covers, Converted, Trimming
  <2>5. sampler' \in {"loadBytes", "storeSamples"} => Covers(seen.slice)'
    BY <1>1 DEF IndInv, AlignedInv, Covers, Converted, Trimming
  <2> QED  BY <1>1, <2>4, <2>5 DEF AlignedInv
<1>9. FloorInv'
  BY <1>1 DEF IndInv, FloorInv, TimesFloor, Reading
<1> QED  BY <1>2, <1>3, <1>4, <1>5, <1>6, <1>7, <1>8, <1>9 DEF IndInv

(* There has been a tick more than samples, one at most of them pending.   *)
LEMMA TickIndInv ==
  ASSUME IndInv, Tick
  PROVE  IndInv'
<1>1. /\ ticking /\ clock < MaxTicks * sampleDuration
      /\ clock' = clock + sampleDuration /\ tick' = TRUE
      /\ UNCHANGED <<samplerVars, receiverVars, stopVars, dataVars, historyVars>>
  BY DEF Tick
<1>2. UNCHANGED <<sampler, seen, sampleNumber, receiver, loaded, Throughputs,
                  ReplayElapsedTime, ticking, panicked, bytesRead, SampleTimes, samples,
                  received, raced, late>>
  BY <1>1 DEF samplerVars, receiverVars, stopVars, dataVars, historyVars
<1>3. ControlInv'
  BY <1>1, <1>2 DEF IndInv, ControlInv, Reading, Trimming, Capturing
<1>4. ClockInv'
  <2>1. PICK k \in 0 .. MaxTicks : clock = k * sampleDuration /\ sampleNumber + Pending <= k
    BY DEF IndInv, ClockInv
  <2>2. k \in Nat /\ MaxTicks \in Nat /\ sampleDuration \in Nat
    BY <2>1, Duration, AnalyzerAssumption
  <2>3. /\ k * sampleDuration \in Nat /\ (k + 1) * sampleDuration = clock + sampleDuration
        /\ MaxTicks * sampleDuration \in Nat /\ clock \in Nat
    BY <2>1, <2>2, Multiples
  <2>4. k < MaxTicks
    <3>1. MaxTicks <= k => MaxTicks * sampleDuration <= k * sampleDuration
      BY <2>2, Multiples
    <3> QED  BY <1>1, <2>1, <2>2, <2>3, <3>1
  <2>5. sampleNumber \in Nat /\ sampleNumber + Pending' <= k + 1
    BY <1>1, <2>1, <2>2 DEF IndInv, ClockInv, Pending
  <2>6. \E n \in 0 .. MaxTicks : clock' = n * sampleDuration /\ sampleNumber' + Pending' <= n
    BY <1>1, <1>2, <2>2, <2>3, <2>4, <2>5
  <2> QED  BY <1>1, <1>2, <2>2, <2>3, <2>5, <2>6 DEF IndInv, ClockInv
<1>5. LateInv'
  BY <1>1, <1>2 DEF IndInv, LateInv, BeforeStopTicker, Pending
<1>6. BytesInv'
  BY <1>1, <1>2 DEF IndInv, BytesInv
<1>7. TimesInv'
  BY <1>1, <1>2 DEF IndInv, TimesInv, SoundTimes, Timed
<1>8. SamplesInv'
  BY <1>1, <1>2 DEF IndInv, SamplesInv, SoundSamples, Captured, Capturing, Reading
<1>9. AlignedInv'
  BY <1>1, <1>2 DEF IndInv, AlignedInv, Covers, Converted, Trimming
<1>10. FloorInv'
  BY <1>1, <1>2 DEF IndInv, FloorInv, TimesFloor, Reading
<1> QED  BY <1>3, <1>4, <1>5, <1>6, <1>7, <1>8, <1>9, <1>10 DEF IndInv

LEMMA StutterIndInv ==
  ASSUME IndInv, UNCHANGED vars
  PROVE  IndInv'
<1>1. UNCHANGED <<sampler, seen, sampleNumber, receiver, loaded, Throughputs,
                  ReplayElapsedTime, ticking, panicked, bytesRead, SampleTimes, samples,
                  tick, clock, received, raced, late>>
  BY DEF vars, samplerVars, receiverVars, stopVars, dataVars, timeVars, historyVars
<1>2. (ControlInv /\ ClockInv /\ LateInv /\ BytesInv)'
  BY <1>1 DEF IndInv, ControlInv, Reading, Trimming, Capturing, ClockInv, Pending,
              LateInv, BeforeStopTicker, BytesInv
<1>3. TimesInv' /\ SamplesInv'
  BY <1>1 DEF IndInv, TimesInv, SoundTimes, Timed, SamplesInv, SoundSamples, Captured,
              Capturing, Reading
<1>4. AlignedInv' /\ FloorInv'
  BY <1>1 DEF IndInv, AlignedInv, Covers, Converted, Trimming, FloorInv, TimesFloor,
              Reading
<1> QED  BY <1>2, <1>3, <1>4 DEF IndInv

LEMMA InitIndInv == Init => IndInv
<1> SUFFICES ASSUME Init PROVE IndInv
  OBVIOUS
<1>1. ControlInv
  BY DEF Init, ControlInv, Capturing, Reading, Trimming
<1>2. ClockInv
  <2>1. MaxTicks \in Nat /\ 0 * sampleDuration = 0
    BY Duration, AnalyzerAssumption
  <2> QED  BY <2>1 DEF Init, ClockInv, Pending
<1>3. LateInv
  BY DEF Init, LateInv, BeforeStopTicker
<1>4. BytesInv
  <2>1. MaxReads \in Nat /\ 0 * Chunk = 0
    BY AnalyzerAssumption
  <2> QED  BY <2>1 DEF Init, BytesInv
<1>5. TimesInv /\ SamplesInv
  BY DEF Init, TimesInv, SoundTimes, Timed, SamplesInv, SoundSamples, Captured,
         Capturing, Reading
<1>6. AlignedInv /\ FloorInv
  BY DEF Init, AlignedInv, Covers, Converted, Trimming, FloorInv, TimesFloor, Reading
<1> QED  BY <1>1, <1>2, <1>3, <1>4, <1>5, <1>6 DEF IndInv

LEMMA NextIndInv ==
  ASSUME IndInv, [Next]_vars
  PROVE  IndInv'
<1>1. CASE Tick
  BY <1>1, TickIndInv
<1>2. CASE Sampler
  BY <1>2, TakeTickIndInv, LoadTimesIndInv, StoreTimesIndInv, LoadSamplesIndInv,
     LoadBytesIndInv, StoreSamplesIndInv, ResetBytesIndInv DEF Sampler
<1>3. CASE AddBytesRead \/ StoreBytesRead \/ FinishReading
  BY <1>3, AddBytesReadIndInv, StoreBytesReadIndInv, FinishReadingIndInv
<1>4. CASE Stop
  BY <1>4, TakeElapsedTimeIndInv, StopTickerIndInv, ResetThroughputsIndInv,
     ConvertIndInv, TrimThroughputsIndInv, LoadTimesToTrimIndInv, TrimTimesIndInv,
     LoadSamplesToTrimIndInv, TrimSamplesIndInv DEF Stop
<1>5. CASE UNCHANGED vars
  BY <1>5, StutterIndInv
<1> QED  BY <1>1, <1>2, <1>3, <1>4, <1>5 DEF Next, Receiver, Finished

(* The inductive invariant holds in every behaviour of the analyzer.       *)
THEOREM Invariance == Spec => []IndInv
<1>1. Init => IndInv
  BY InitIndInv
<1>2. IndInv /\ [Next]_vars => IndInv'
  BY NextIndInv
<1> QED  BY <1>1, <1>2, PTL DEF Spec

-----------------------------------------------------------------------------
(* Type correctness, with the bounds that reads and ticks put on the byte  *)
(* count, the samples and the elapsed time.                                *)
THEOREM TypeCorrectness == Spec => []TypeOK
<1>1. ASSUME IndInv PROVE TypeOK
  <2>1. PICK k \in 0 .. MaxTicks : clock = k * sampleDuration /\ sampleNumber + Pending <= k
    BY <1>1 DEF IndInv, ClockInv
  <2>2. k \in Nat /\ MaxTicks \in Nat /\ MaxReads \in Nat /\ Chunk \in Nat
        /\ sampleDuration \in Nat
    BY <2>1, Duration, AnalyzerAssumption
  <2>3. clock \in Nat /\ MaxTicks * sampleDuration \in Nat
        /\ clock <= MaxTicks * sampleDuration
    BY <2>1, <2>2, Multiples
  <2>4. sampleNumber \in 0 .. MaxTicks
    BY <1>1, <2>1, <2>2 DEF IndInv, ClockInv, Pending
  <2>5. ReplayElapsedTime \in 0 .. MaxTicks * sampleDuration
    BY <1>1, <2>3 DEF IndInv, ClockInv
  <2>6. bytesRead \in 0 .. MaxReads * Chunk
    <3>1. PICK n \in 0 .. MaxReads : received = n * Chunk
      BY <1>1 DEF IndInv, BytesInv
    <3>2. received \in Nat /\ MaxReads * Chunk \in Nat /\ received <= MaxReads * Chunk
      BY <2>2, <3>1, Multiples
    <3> QED  BY <1>1, <3>2 DEF IndInv, BytesInv
  <2>7. Timed <= sampleNumber /\ Captured <= sampleNumber
    BY <2>4 DEF Timed, Captured
  <2>8. \A s \in {samples, Throughputs, SampleTimes} : s \in Seq(Nat) /\ Len(s) <= MaxTicks
    BY <1>1, <2>2, <2>4, <2>7
       DEF IndInv, TimesInv, SoundTimes, SamplesInv, SoundSamples, Timed, Captured
  <2> QED  BY <1>1, <2>4, <2>5, <2>6, <2>8
           DEF TypeOK, IndInv, ControlInv, Capturing, Reading, Trimming
<1> QED  BY <1>1, Invariance, PTL

(* The sample times grow and are never ahead of the clock, however the     *)
(* steps of createSample and Stop interleave.                              *)
THEOREM IncreasingTimes == Spec => []TimesSound
<1>1. ASSUME IndInv PROVE TimesSound
  <2>1. PICK k \in 0 .. MaxTicks : clock = k * sampleDuration /\ sampleNumber + Pending <= k
    BY <1>1 DEF IndInv, ClockInv
  <2>2. sampleNumber \in Nat /\ (sampler # "wait" => sampleNumber >= 1)
    BY <1>1 DEF IndInv, ClockInv
  <2>3. Timed \in Nat /\ Timed <= k /\ k \in Nat /\ sampleDuration \in Nat
    BY <2>1, <2>2, Duration DEF Timed, Pending
  <2>4. /\ Timed * sampleDuration \in Nat /\ clock \in Nat
        /\ Timed * sampleDuration <= clock
    BY <2>1, <2>3, Multiples
  <2> QED  BY <1>1, <2>4 DEF IndInv, TimesInv, SoundTimes, TimesSound
<1> QED  BY <1>1, Invariance, PTL

(* However late a sample is captured while Stop runs, every throughput has *)
(* its sample and its sample time once Stop is over.                       *)
THEOREM AlignedThroughputs == Spec => []FiguresAligned
<1>1. ASSUME IndInv PROVE FiguresAligned
  <2>1. CASE receiver = "done" /\ ~panicked
    <3>1. /\ Converted(samples) /\ Len(SampleTimes) >= Len(Throughputs)
          /\ Throughputs \in Seq(Nat) /\ SampleTimes \in Seq(Nat)
      BY <1>1, <2>1 DEF IndInv, AlignedInv, Covers, FloorInv, TimesFloor, Reading,
                        SamplesInv, TimesInv, SoundTimes
    <3> QED  BY <3>1 DEF FiguresAligned, Converted
  <2>2. receiver = "done" => ~panicked
    BY <1>1 DEF IndInv, ControlInv
  <2> QED  BY <2>1, <2>2 DEF FiguresAligned
<1> QED  BY <1>1, Invariance, PTL

(* One tick at most is left in the channel when the ticker is stopped, so  *)
(* one sample at most begins after that.                                   *)
THEOREM LateSamples == Spec => []AtMostOneLateSample
<1>1. ASSUME IndInv PROVE AtMostOneLateSample
  BY <1>1 DEF IndInv, LateInv, Pending, AtMostOneLateSample
<1> QED  BY <1>1, Invariance, PTL

-----------------------------------------------------------------------------
(***************************************************************************)
(* The bytes in the samples, by induction on the number of samples.        *)
(***************************************************************************)

(* The partial sums add up one element after the other.                    *)
LEMMA PartialSumsDefined ==
  ASSUME NEW s \in Seq(Nat)
  PROVE  /\ PartialSums(s) \in [0 .. Len(s) -> Nat] /\ PartialSums(s)[0] = 0
         /\ \A i \in 1 .. Len(s) : PartialSums(s)[i] = PartialSums(s)[i - 1] + s[i]
<1> DEFINE step == [i \in 1 .. Len(s) |-> [a \in Nat |-> a + s[i]]]
           Sums(f) == [i \in 0 .. Len(s) |-> IF i = 0 THEN 0 ELSE f[i - 1] + s[i]]
<1>1. Len(s) \in Nat /\ \A i \in 1 .. Len(s) : s[i] \in Nat
  OBVIOUS
<1>2. step \in [1 .. Len(s) -> [Nat -> Nat]]
  BY <1>1
<1>3. PICK f : Iterates(f, Len(s), Nat, 0, step)
  <2>1. ASSUME NEW n \in Nat, NEW next \in [1 .. n -> [Nat -> Nat]]
        PROVE  \E f : Iterates(f, n, Nat, 0, next)
    BY IteratedStep, Zenon
  <2>2. Len(s) \in Nat
    OBVIOUS
  <2> HIDE DEF step
  <2> QED  BY <1>2, <2>1, <2>2, Zenon
<1>4. f = Sums(f)
  <2>1. f \in [0 .. Len(s) -> Nat] /\ f[0] = 0
    BY <1>3 DEF Iterates
  <2>2. ASSUME NEW i \in 1 .. Len(s) PROVE f[i - 1] \in Nat
    <3> HIDE DEF step, Sums
    <3>1. i - 1 \in 0 .. Len(s)
      BY <1>1
    <3> QED  BY <2>1, <3>1
  <2>3. \A i \in 1 .. Len(s) : f[i] = step[i][f[i - 1]]
    BY <1>3 DEF Iterates
  <2>4. \A i \in 1 .. Len(s) : f[i] = f[i - 1] + s[i]
    BY <2>2, <2>3
  <2>5. \A i \in 0 .. Len(s) : f[i] = IF i = 0 THEN 0 ELSE f[i - 1] + s[i]
    BY <1>1, <2>1, <2>4
  <2> QED  BY <2>1, <2>5
<1>5. PartialSums(s) = CHOOSE g : g = Sums(g)
  BY DEF PartialSums
<1>6. PartialSums(s) = Sums(PartialSums(s))
  <2> HIDE DEF Sums
  <2> QED  BY <1>4, <1>5
<1> DEFINE p == PartialSums(s)
<1> HIDE DEF p
<1>7. p = Sums(p)
  BY <1>6 DEF p
<1>8. p[0] = 0 /\ \A i \in 1 .. Len(s) : p[i] = p[i - 1] + s[i]
  BY <1>1, <1>7
<1>9. 0 .. Len(s) \subseteq {i \in 0 .. Len(s) : p[i] \in Nat}
  <2> DEFINE Typed == {i \in 0 .. Len(s) : p[i] \in Nat}
  <2>1. 0 \in Typed
    BY <1>1, <1>8
  <2>2. ASSUME NEW i \in 0 .. Len(s) - 1, i \in Typed PROVE i + 1 \in Typed
    <3>1. i + 1 \in 1 .. Len(s) /\ (i + 1) - 1 = i
      BY <1>1
    <3>2. p[i + 1] = p[i] + s[i + 1]
      BY <1>8, <3>1
    <3> QED  BY <1>1, <2>2, <3>1, <3>2
  <2> HIDE DEF Typed
  <2>3. 0 .. Len(s) \subseteq Typed
    BY <1>1, <2>1, <2>2, InductionUpTo
  <2> QED  BY <2>3 DEF Typed
<1>10. p \in [0 .. Len(s) -> Nat]
  BY <1>7, <1>9
<1> QED  BY <1>8, <1>10 DEF p

(* A sample more adds to the sum just what it is.                          *)
LEMMA SumOfAppend ==
  ASSUME NEW s \in Seq(Nat), NEW x \in Nat
  PROVE  /\ SumOf(s) \in Nat /\ SumOf(<<>>) = 0
         /\ SumOf(Append(s, x)) = SumOf(s) + x
<1> DEFINE t == Append(s, x)
           p == PartialSums(s)
           q == PartialSums(t)
           n == Len(s)
           Same == {i \in 0 .. n : q[i] = p[i]}
<1>1. t \in Seq(Nat) /\ Len(t) = n + 1 /\ n \in Nat /\ t[n + 1] = x
      /\ \A i \in 1 .. n : t[i] = s[i]
  BY AppendElements
<1>2. /\ p \in [0 .. n -> Nat] /\ p[0] = 0
      /\ \A i \in 1 .. n : p[i] = p[i - 1] + s[i]
  BY PartialSumsDefined
<1>3. /\ q \in [0 .. Len(t) -> Nat] /\ q[0] = 0
      /\ \A i \in 1 .. Len(t) : q[i] = q[i - 1] + t[i]
  <2> HIDE DEF t
  <2> QED  BY <1>1, PartialSumsDefined
<1> HIDE DEF t, p, q, n
<1>4. 0 .. n \subseteq Same
  <2>1. 0 \in Same
    BY <1>1, <1>2, <1>3
  <2>2. ASSUME NEW i \in 0 .. n - 1, i \in Same PROVE i + 1 \in Same
    <3>1. i + 1 \in 1 .. n /\ i + 1 \in 1 .. Len(t) /\ (i + 1) - 1 = i
      BY <1>1
    <3> QED  BY <1>1, <1>2, <1>3, <2>2, <3>1
  <2> HIDE DEF Same
  <2> QED  BY <1>1, <2>1, <2>2, InductionUpTo
<1>5. q[n + 1] = p[n] + x /\ p[n] \in Nat
  <2>1. n \in 0 .. n /\ n + 1 \in 1 .. Len(t) /\ (n + 1) - 1 = n
    BY <1>1
  <2> QED  BY <1>1, <1>2, <1>3, <1>4, <2>1
<1>6. SumOf(s) = p[n] /\ SumOf(t) = q[n + 1]
  BY <1>1 DEF SumOf, t, p, q, n
<1>7. SumOf(<<>>) = 0
  <2>1. <<>> \in Seq(Nat) /\ Len(<<>>) = 0
    OBVIOUS
  <2> QED  BY <2>1, PartialSumsDefined DEF SumOf
<1> QED  BY <1>5, <1>6, <1>7 DEF t
-----------------------------------------------------------------------------
(* Where the bytes read are as long as no AddBytesRead has overlapped a    *)
(* createSample: in the samples, in the count, about to be added to it.    *)
ConservedInv ==
  ~raced /\ receiver \in {"reading", "adding"} =>
    /\ IF sampler = "resetBytes" THEN SumOf(samples) = received
       ELSE SumOf(samples) + bytesRead + (IF receiver = "adding" THEN Chunk ELSE 0) = received
    /\ receiver = "adding" =>
         sampler \notin {"storeSamples", "resetBytes"} /\ loaded.bytes = bytesRead
    /\ sampler = "storeSamples" => seen.bytes = bytesRead

(* A step that leaves alone what has been read and stored.                 *)
LEMMA ConservedFrame ==
  ASSUME ConservedInv,
         UNCHANGED <<receiver, loaded, bytesRead, samples, received, raced>>,
         UNCHANGED <<sampler, seen>>
         \/ {sampler, sampler'} \cap {"storeSamples", "resetBytes"} = {}
  PROVE  ConservedInv'
BY DEF ConservedInv

LEMMA ConservedStep ==
  ASSUME IndInv, ConservedInv, [Next]_vars
  PROVE  ConservedInv'
<1>1. ASSUME Tick \/ UNCHANGED vars PROVE ConservedInv'
  BY <1>1, ConservedFrame
     DEF Tick, vars, samplerVars, receiverVars, dataVars, historyVars
<1>2. ASSUME TakeTick \/ LoadTimes \/ StoreTimes \/ LoadSamples PROVE ConservedInv'
  BY <1>2, ConservedFrame
     DEF TakeTick, LoadTimes, StoreTimes, LoadSamples, At, SamplerFrame, receiverVars,
         dataVars
<1>3. ASSUME LoadBytes PROVE ConservedInv'
  <2>1. /\ sampler = "loadBytes" /\ sampler' = "storeSamples"
        /\ seen' = [seen EXCEPT !.bytes = bytesRead]
        /\ raced' = (raced \/ receiver = "adding")
        /\ UNCHANGED <<receiver, loaded, bytesRead, samples, received>>
    BY <1>3 DEF LoadBytes, At, SamplerFrame, receiverVars, dataVars
  <2>2. seen'.bytes = bytesRead
    BY <2>1 DEF IndInv, ControlInv
  <2> QED  BY <2>1, <2>2 DEF ConservedInv
<1>4. ASSUME StoreSamples PROVE ConservedInv'
  <2>1. /\ ~panicked /\ sampler = "storeSamples" /\ sampler' = "resetBytes"
        /\ samples' = Append(seen.slice, seen.bytes)
        /\ UNCHANGED <<receiver, loaded, bytesRead, received, raced>>
    BY <1>4 DEF StoreSamples, At, SamplerFrame, receiverVars
  <2>2. CASE ~raced /\ receiver = "reading"
    <3>1. samples \in Seq(Nat) /\ seen.slice = samples /\ bytesRead \in Nat
      BY <2>1, <2>2 DEF IndInv, AlignedInv, SamplesInv, SoundSamples, BytesInv
    <3>2. SumOf(samples) \in Nat
      BY <3>1, SumOfAppend
    <3>3. seen.bytes = bytesRead /\ SumOf(samples) + bytesRead = received
      BY <2>1, <2>2, <3>1, <3>2 DEF ConservedInv
    <3>4. SumOf(samples') = received
      BY <2>1, <3>1, <3>3, SumOfAppend
    <3> QED  BY <2>1, <2>2, <3>4 DEF ConservedInv
  <2> QED  BY <2>1, <2>2 DEF ConservedInv
<1>5. ASSUME ResetBytes PROVE ConservedInv'
  <2>1. /\ sampler = "resetBytes" /\ sampler' = "wait" /\ bytesRead' = 0
        /\ UNCHANGED <<receiver, loaded, samples, received, raced>>
    BY <1>5 DEF ResetBytes, At, SamplerFrame, receiverVars
  <2>2. samples \in Seq(Nat)
    BY DEF IndInv, SamplesInv, SoundSamples
  <2> QED  BY <2>1, <2>2, SumOfAppend DEF ConservedInv
<1>6. ASSUME AddBytesRead PROVE ConservedInv'
  <2>1. /\ receiver = "reading" /\ receiver' = "adding" /\ received' = received + Chunk
        /\ loaded' = [loaded EXCEPT !.bytes = bytesRead]
        /\ raced' = (raced \/ sampler \in {"storeSamples", "resetBytes"})
        /\ UNCHANGED <<sampler, seen, bytesRead, samples>>
    BY <1>6 DEF AddBytesRead, Goes, ReceiverFrame, samplerVars, dataVars
  <2>2. loaded'.bytes = bytesRead
    BY <2>1 DEF IndInv, ControlInv
  <2>3. samples \in Seq(Nat) /\ bytesRead \in Nat /\ Chunk \in Nat
    BY AnalyzerAssumption DEF IndInv, SamplesInv, SoundSamples, BytesInv
  <2>4. SumOf(samples) \in Nat
    BY <2>3, SumOfAppend
  <2>5. CASE raced'
    BY <2>5 DEF ConservedInv
  <2>6. CASE ~raced'
    <3>1. sampler \notin {"storeSamples", "resetBytes"} /\ ~raced
      BY <2>1, <2>6
    <3>2. SumOf(samples) + bytesRead = received
      BY <2>1, <2>3, <2>4, <3>1 DEF ConservedInv
    <3>3. SumOf(samples') + bytesRead' + Chunk = received'
      BY <2>1, <2>3, <2>4, <3>2
    <3> QED  BY <2>1, <2>2, <3>1, <3>3 DEF ConservedInv
  <2> QED  BY <2>5, <2>6
<1>7. ASSUME StoreBytesRead PROVE ConservedInv'
  <2>1. /\ receiver = "adding" /\ receiver' = "reading" /\ bytesRead' = loaded.bytes + Chunk
        /\ UNCHANGED <<sampler, seen, samples, received, raced>>
    BY <1>7 DEF StoreBytesRead, Goes, ReceiverFrame, samplerVars
  <2>2. samples \in Seq(Nat) /\ bytesRead \in Nat /\ Chunk \in Nat
    BY AnalyzerAssumption DEF IndInv, SamplesInv, SoundSamples, BytesInv
  <2>3. SumOf(samples) \in Nat
    BY <2>2, SumOfAppend
  <2> QED  BY <2>1, <2>2, <2>3 DEF ConservedInv
<1>8. ASSUME FinishReading \/ Stop PROVE ConservedInv'
  <2>1. receiver' \notin {"reading", "adding"}
    BY <1>8
       DEF FinishReading, Stop, TakeElapsedTime, StopTicker, ResetThroughputs, Convert,
           TrimThroughputs, LoadTimesToTrim, TrimTimes, LoadSamplesToTrim, TrimSamples, Goes
  <2> QED  BY <2>1 DEF ConservedInv
<1> QED  BY <1>1, <1>2, <1>3, <1>4, <1>5, <1>6, <1>7, <1>8
         DEF Next, Sampler, Receiver, Finished

(* No byte is lost, or counted twice, unless an AddBytesRead overlaps a    *)
(* createSample: the data race of the two is the only way.                 *)
THEOREM ConservedBytes == Spec => []BytesConservedUnlessRaced
<1>1. Init => ConservedInv
  <2>1. <<>> \in Seq(Nat) /\ 0 \in Nat
    OBVIOUS
  <2>2. SumOf(<<>>) = 0
    BY <2>1, SumOfAppend
  <2> QED  BY <2>2 DEF Init, ConservedInv
<1>2. IndInv /\ ConservedInv /\ [Next]_vars => ConservedInv'
  BY ConservedStep
<1>3. IndInv /\ ConservedInv => BytesConservedUnlessRaced
  <2> SUFFICES ASSUME IndInv, ConservedInv, AtRest, ~raced
               PROVE  SumOf(samples) + bytesRead = received
    BY DEF BytesConservedUnlessRaced
  <2>1. samples \in Seq(Nat) /\ bytesRead \in Nat
    BY DEF IndInv, SamplesInv, SoundSamples, BytesInv
  <2>2. SumOf(samples) \in Nat
    BY <2>1, SumOfAppend
  <2> QED  BY <2>1, <2>2 DEF ConservedInv, AtRest
<1> QED  BY <1>1, <1>2, <1>3, Invariance, PTL DEF Spec

=============================================================================
