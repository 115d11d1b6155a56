------------------------------ MODULE TestLoop ------------------------------
(***************************************************************************)
(* What the loop over the tests promises to a start of the client: tests   *)
(* are taken off one by one while they succeed, each has its ID declared   *)
(* to the servers once, the first that fails is the last, and the ways to  *)
(* leave a test differ in what they leave open.  Module App has a test as  *)
(* one step, module Orchestrator as many on every server; both implement   *)
(* this one.                                                               *)
(***************************************************************************)
EXTENDS Integers

VARIABLES
  phase,     \* "off" until the first test is due; "loop", "leave", "exit"
  left,      \* number of tests that have not ended
  declared,  \* number of test IDs that have been declared
  result,    \* "nil" up to the end of the loop
  open       \* whether some websocket is open

vars == <<phase, left, declared, result, open>>

Off == phase = "off" /\ left = 0 /\ ~open

Looping == phase = "loop" /\ left \in Nat \ {0} /\ open \in BOOLEAN

Init == (Off \/ Looping) /\ declared = 0 /\ result = "nil"

Begin == phase = "off" /\ Looping' /\ UNCHANGED <<declared, result>>

TestEnds == phase = "loop" /\ left > 0 /\ left' = left - 1

TestSucceeds ==
  /\ TestEnds /\ phase' = "loop"
  /\ declared' = declared + 1 /\ open' = FALSE
  /\ UNCHANGED result

TestFails ==
  /\ TestEnds /\ phase' = "leave" /\ result' \in {"err", "panic"}
  /\ declared' \in {declared, declared + 1} /\ open' = FALSE

(* The test has not got as far as to its deferred clean-up.                *)
TestDoesNotStart ==
  /\ TestEnds /\ phase' = "leave" /\ result' \in {"err", "panic"}
  /\ UNCHANGED <<declared, open>>

(* The process is gone, without any clean-up, in one of the replays.       *)
TestCrashes ==
  /\ TestEnds /\ phase' = "exit" /\ result' = "crash"
  /\ declared' = declared + 1 /\ UNCHANGED open

TestsDone ==
  /\ phase = "loop" /\ left = 0 /\ phase' = "leave"
  /\ UNCHANGED <<left, declared, result, open>>

Leave ==
  /\ phase = "leave" /\ phase' = "exit" /\ open' = FALSE
  /\ UNCHANGED <<left, declared, result>>

Exit == phase = "exit" /\ Off' /\ result' = "nil" /\ UNCHANGED declared

Next ==
  \/ Begin \/ TestSucceeds \/ TestFails \/ TestDoesNotStart \/ TestCrashes
  \/ TestsDone \/ Leave \/ Exit

Spec == Init /\ [][Next]_vars

=============================================================================
