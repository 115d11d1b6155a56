--------------------------- MODULE FirstErrorJoin ---------------------------
(***************************************************************************)
(* What sendAndReceivePackets promises its caller: N workers run           *)
(* concurrently, each of them reports one verdict, and the caller gets     *)
(* "nil" only when all of them reported "nil", and otherwise the error of  *)
(* the first worker, in list order, that failed.                           *)
(***************************************************************************)
EXTENDS Integers

CONSTANT N

VARIABLES
  verdict,   \* verdict[i]: what worker i has reported so far
  outcome    \* what the caller has been given

vars == <<verdict, outcome>>

Workers == 1 .. N

Init ==
  /\ verdict = [i \in Workers |-> "running"]
  /\ outcome = "pending"

Report(i) ==
  /\ verdict[i] = "running"
  /\ \E v \in {"nil", "err"} : verdict' = [verdict EXCEPT ![i] = v]
  /\ UNCHANGED outcome

Succeed ==
  /\ outcome = "pending"
  /\ \A i \in Workers : verdict[i] = "nil"
  /\ outcome' = "nil"
  /\ UNCHANGED verdict

Fail(i) ==
  /\ outcome = "pending"
  /\ verdict[i] = "err"
  /\ \A j \in Workers : j < i => verdict[j] = "nil"
  /\ outcome' = "err"
  /\ UNCHANGED verdict

Next == Succeed \/ \E i \in Workers : Report(i) \/ Fail(i)

Spec == Init /\ [][Next]_vars

=============================================================================
