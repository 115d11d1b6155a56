---------------------------- MODULE ReplayTiming ----------------------------
(***************************************************************************)
(* How long a replay is expected to run and how far apart its throughput   *)
(* samples are taken: initAnalyzer of the server handler and NewAnalyzer.  *)
(* Durations count clock units; the code's unit is the nanosecond          *)
(* (UnitsPerSecond = 10^9), a model may take a coarser one.                *)
(***************************************************************************)
EXTENDS Integers

CONSTANT UnitsPerSecond

ASSUME UnitsAssumption == UnitsPerSecond \in Nat \ {0}

TCPReplayTimeout  == 45 * UnitsPerSecond
PortReplayTimeout == 30 * UnitsPerSecond
UDPReplayTimeout  == 40 * UnitsPerSecond

Lesser(a, b) == IF a < b THEN a ELSE b

(* The cap on a replay of the given kind. *)
ReplayCap(isTCP, isPortTest) ==
  IF isPortTest THEN PortReplayTimeout
  ELSE IF isTCP THEN TCPReplayTimeout ELSE UDPReplayTimeout

(* testLength is the whole number of seconds listed for the test, which is *)
(* halved with Go's integer division before it becomes a duration.         *)
ReplayTime(testLength, isTCP, isPortTest) ==
  Lesser((testLength \div 2) * UnitsPerSecond, ReplayCap(isTCP, isPortTest))

(* Go truncates towards zero where \div rounds down.  A zero numberOfSamples*)
(* is an integer division by zero, which the caller models as a panic.     *)
SampleDuration(replayTime, numberOfSamples) ==
  IF numberOfSamples > 0 THEN replayTime \div numberOfSamples
  ELSE -(replayTime \div (-numberOfSamples))

=============================================================================
