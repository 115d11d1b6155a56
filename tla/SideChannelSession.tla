------------------------- MODULE SideChannelSession -------------------------
(***************************************************************************)
(* What the servers of a test may rely on, each on its own side channel:   *)
(* the requests of a test come in one fixed order, a replay is only run    *)
(* between the permission to run it and the report of its throughputs, and *)
(* once a request or a replay has failed nothing follows but the end of    *)
(* the session.                                                            *)
(***************************************************************************)
EXTENDS Integers, Sequences

CONSTANT Servers

VARIABLE phase  \* phase[s]: how far the session with server s has come

Order == <<"connected", "identified", "permitted1", "replayed1", "reported1",
           "permitted2", "replayed2", "reported2", "analyzed">>

Running(p) == \E i \in 1 .. Len(Order) : p = Order[i]

Connect(s) == phase[s] \in {"none", "closed"} /\ phase'[s] = Order[1]

Advance(s) ==
  \E i \in 1 .. Len(Order) - 1 : phase[s] = Order[i] /\ phase'[s] = Order[i + 1]

Fail(s) == Running(phase[s]) /\ phase'[s] = "failed"

Close(s) == phase[s] # "none" /\ phase'[s] = "closed"

Stay(s) == phase'[s] = phase[s]

Init == phase = [s \in Servers |-> "none"]

Next ==
  /\ phase' = [s \in Servers |-> phase'[s]]
  /\ \A s \in Servers : Connect(s) \/ Advance(s) \/ Fail(s) \/ Close(s) \/ Stay(s)

Spec == Init /\ [][Next]_phase

=============================================================================
