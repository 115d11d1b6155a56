--------------------------- MODULE TestDataProofs ---------------------------
(***************************************************************************)
(* Proofs about the selection from a list of any length and about the      *)
(* reading of replay files with any number of packets (module TestData).   *)
(***************************************************************************)
EXTENDS TestData, Induction, TLAPS

(* The loop of a selection takes up one element after the other.           *)
LEMMA SelectedUpToDefined ==
  ASSUME NEW S, NEW s \in Seq(S), NEW T
  PROVE  /\ SelectedUpTo(s, T) \in [0 .. Len(s) -> Seq(S)] /\ SelectedUpTo(s, T)[0] = <<>>
         /\ \A i \in 1 .. Len(s) :
              SelectedUpTo(s, T)[i] = IF s[i] \in T THEN Append(SelectedUpTo(s, T)[i - 1], s[i])
                                      ELSE SelectedUpTo(s, T)[i - 1]
<1> DEFINE turn(i, q) == IF s[i] \in T THEN Append(q, s[i]) ELSE q
           step == [i \in 1 .. Len(s) |-> [q \in Seq(S) |-> turn(i, q)]]
           Loop(f) == [i \in 0 .. Len(s) |->
                         IF i = 0 THEN <<>>
                         ELSE IF s[i] \in T THEN Append(f[i - 1], s[i]) ELSE f[i - 1]]
<1>1. Len(s) \in Nat /\ \A i \in 1 .. Len(s) : s[i] \in S
  OBVIOUS
<1>2. step \in [1 .. Len(s) -> [Seq(S) -> Seq(S)]]
  <2>1. \A i \in 1 .. Len(s) : \A q \in Seq(S) : turn(i, q) \in Seq(S)
    BY <1>1
  <2> HIDE DEF turn
  <2> QED  BY <2>1
<1>3. PICK f : Iterates(f, Len(s), Seq(S), <<>>, step)
  <2>1. ASSUME NEW n \in Nat, NEW next \in [1 .. n -> [Seq(S) -> Seq(S)]],
               NEW start \in Seq(S)
        PROVE  \E f : Iterates(f, n, Seq(S), start, next)
    BY IteratedStep, Zenon
  <2>2. <<>> \in Seq(S) /\ Len(s) \in Nat
    OBVIOUS
  <2> HIDE DEF step
  <2> QED  BY <1>2, <2>1, <2>2, Zenon
<1>4. f = Loop(f)
  <2>1. f \in [0 .. Len(s) -> Seq(S)] /\ f[0] = <<>>
    BY <1>3 DEF Iterates
  <2>2. \A i \in 1 .. Len(s) : i - 1 \in 0 .. Len(s) /\ f[i - 1] \in Seq(S)
    BY <1>1, <2>1
  <2>3. \A i \in 1 .. Len(s) : f[i] = step[i][f[i - 1]]
    BY <1>3 DEF Iterates
  <2>4. \A i \in 1 .. Len(s) : f[i] = turn(i, f[i - 1])
    <3> HIDE DEF turn
    <3> QED  BY <2>2, <2>3
  <2>5. \A i \in 0 .. Len(s) : f[i] = IF i = 0 THEN <<>> ELSE turn(i, f[i - 1])
    <3> HIDE DEF turn
    <3> QED  BY <1>1, <2>1, <2>4
  <2>6. f = [i \in 0 .. Len(s) |-> IF i = 0 THEN <<>> ELSE turn(i, f[i - 1])]
    <3> HIDE DEF turn
    <3> QED  BY <2>1, <2>5
  <2> QED  BY <2>6
<1>5. SelectedUpTo(s, T) = CHOOSE g : g = Loop(g)
  BY DEF SelectedUpTo
<1>6. SelectedUpTo(s, T) = Loop(SelectedUpTo(s, T))
  <2> HIDE DEF Loop
  <2> QED  BY <1>4, <1>5
<1> DEFINE p == SelectedUpTo(s, T)
<1> HIDE DEF p
<1>7. p = [i \in 0 .. Len(s) |-> IF i = 0 THEN <<>> ELSE turn(i, p[i - 1])]
  BY <1>6 DEF p
<1>8. p[0] = <<>> /\ \A i \in 1 .. Len(s) : p[i] = turn(i, p[i - 1])
  <2> HIDE DEF turn
  <2> QED  BY <1>1, <1>7
<1>9. 0 .. Len(s) \subseteq {i \in 0 .. Len(s) : p[i] \in Seq(S)}
  <2> DEFINE Typed == {i \in 0 .. Len(s) : p[i] \in Seq(S)}
  <2>1. 0 \in Typed
    <3>1. <<>> \in Seq(S) /\ p[0] = <<>> /\ 0 \in 0 .. Len(s)
      BY <1>1, <1>8
    <3> QED  BY <3>1
  <2>2. ASSUME NEW i \in 0 .. Len(s) - 1, i \in Typed PROVE i + 1 \in Typed
    <3>1. i + 1 \in 1 .. Len(s) /\ (i + 1) - 1 = i
      BY <1>1
    <3>2. p[i + 1] = turn(i + 1, p[i])
      <4> HIDE DEF turn
      <4> QED  BY <1>8, <3>1
    <3>3. p[i] \in Seq(S) /\ s[i + 1] \in S
      BY <1>1, <2>2, <3>1
    <3>4. turn(i + 1, p[i]) \in Seq(S)
      BY <3>3
    <3> HIDE DEF turn
    <3> QED  BY <1>1, <3>1, <3>2, <3>4
  <2> HIDE DEF Typed
  <2>3. 0 .. Len(s) \subseteq Typed
    BY <1>1, <2>1, <2>2, InductionUpTo
  <2> QED  BY <2>3 DEF Typed
<1>10. p \in [0 .. Len(s) -> Seq(S)]
  <2> HIDE DEF turn
  <2> QED  BY <1>7, <1>9
<1> QED  BY <1>8, <1>10 DEF p

(* q has what is in T of the first i elements of s, in their order: f says *)
(* where in s.                                                             *)
Picks(f, q, s, i, T) ==
  /\ f \in [1 .. Len(q) -> 1 .. i]
  /\ \A a, b \in 1 .. Len(q) : a < b => f[a] < f[b]
  /\ \A a \in 1 .. Len(q) : q[a] = s[f[a]] /\ q[a] \in T
  /\ \A k \in 1 .. i : s[k] \in T => \E a \in 1 .. Len(q) : f[a] = k

(* One more turn picks the next element, or leaves it.                     *)
LEMMA PickNext ==
  ASSUME NEW S, NEW s \in Seq(S), NEW T, NEW i \in 0 .. Len(s) - 1, NEW q \in Seq(S),
         NEW f, Picks(f, q, s, i, T)
  PROVE  \E g : Picks(g, IF s[i + 1] \in T THEN Append(q, s[i + 1]) ELSE q, s, i + 1, T)
<1> DEFINE m == Len(q)
           g == [a \in 1 .. m + 1 |-> IF a = m + 1 THEN i + 1 ELSE f[a]]
           r == Append(q, s[i + 1])
<1>1. i \in Nat /\ i + 1 \in 1 .. Len(s) /\ s[i + 1] \in S /\ m \in Nat
  OBVIOUS
<1>2. /\ f \in [1 .. m -> 1 .. i]
      /\ \A a, b \in 1 .. m : a < b => f[a] < f[b]
      /\ \A a \in 1 .. m : q[a] = s[f[a]] /\ q[a] \in T
      /\ \A k \in 1 .. i : s[k] \in T => \E a \in 1 .. m : f[a] = k
  BY DEF Picks
<1>3. CASE s[i + 1] \notin T
  <2>1. \A k \in 1 .. i + 1 : k \in 1 .. i \/ k = i + 1
    BY <1>1
  <2>2. f \in [1 .. m -> 1 .. i + 1]
    BY <1>1, <1>2
  <2>3. Picks(f, q, s, i + 1, T)
    BY <1>2, <1>3, <2>1, <2>2 DEF Picks
  <2> QED  BY <1>3, <2>3
<1>4. CASE s[i + 1] \in T
  <2>1. Len(r) = m + 1 /\ r[m + 1] = s[i + 1] /\ \A a \in 1 .. m : r[a] = q[a]
    BY <1>1
  <2>2. \A a \in 1 .. m : f[a] \in Nat /\ 1 <= f[a] /\ f[a] <= i
    BY <1>1, <1>2
  <2>3. /\ g[m + 1] = i + 1 /\ \A a \in 1 .. m : g[a] = f[a] /\ a \in 1 .. m + 1
        /\ m + 1 \in 1 .. m + 1 /\ DOMAIN g = 1 .. m + 1
        /\ \A a \in 1 .. m + 1 : a \in 1 .. m \/ a = m + 1
    BY <1>1
  <2>4. g \in [1 .. m + 1 -> 1 .. i + 1]
    BY <1>1, <2>2
  <2> HIDE DEF g, r, m
  <2>5. \A a, b \in 1 .. m + 1 : a < b => g[a] < g[b]
    <3> SUFFICES ASSUME NEW a \in 1 .. m + 1, NEW b \in 1 .. m + 1, a < b
                 PROVE  g[a] < g[b]
      OBVIOUS
    <3>1. a \in 1 .. m
      BY <1>1
    <3> QED  BY <1>1, <1>2, <2>2, <2>3, <3>1
  <2>6. \A a \in 1 .. m + 1 : r[a] = s[g[a]] /\ r[a] \in T
    BY <1>2, <1>4, <2>1, <2>3
  <2>7. \A k \in 1 .. i + 1 : s[k] \in T => \E a \in 1 .. m + 1 : g[a] = k
    <3>1. \A k \in 1 .. i + 1 : k \in 1 .. i \/ k = i + 1
      BY <1>1
    <3> QED  BY <1>2, <2>3, <3>1
  <2>8. Picks(g, r, s, i + 1, T)
    BY <2>1, <2>4, <2>5, <2>6, <2>7 DEF Picks
  <2> QED  BY <1>4, <2>8 DEF r
<1> QED  BY <1>3, <1>4

(* What is selected of a sequence is what is in T of it, in its order.     *)
LEMMA SelectedPicks ==
  ASSUME NEW S, NEW s \in Seq(S), NEW T
  PROVE  Selected(s, T) \in Seq(S) /\ \E f : Picks(f, Selected(s, T), s, Len(s), T)
<1> DEFINE p == SelectedUpTo(s, T)
           Done == {i \in 0 .. Len(s) : \E f : Picks(f, p[i], s, i, T)}
<1>1. /\ p \in [0 .. Len(s) -> Seq(S)] /\ p[0] = <<>> /\ Len(s) \in Nat
      /\ \A i \in 1 .. Len(s) : p[i] = IF s[i] \in T THEN Append(p[i - 1], s[i]) ELSE p[i - 1]
  BY SelectedUpToDefined
<1> HIDE DEF p
<1>2. 0 \in Done
  <2>1. Picks(<<>>, <<>>, s, 0, T)
    BY DEF Picks
  <2> QED  BY <1>1, <2>1
<1>3. ASSUME NEW i \in 0 .. Len(s) - 1, i \in Done PROVE i + 1 \in Done
  <2>1. PICK f : Picks(f, p[i], s, i, T)
    BY <1>3
  <2>2. i + 1 \in 1 .. Len(s) /\ (i + 1) - 1 = i /\ i \in 0 .. Len(s) /\ i + 1 \in 0 .. Len(s)
    BY <1>1
  <2>3. p[i] \in Seq(S)
    BY <1>1, <2>2
  <2>4. p[i + 1] = IF s[i + 1] \in T THEN Append(p[i], s[i + 1]) ELSE p[i]
    BY <1>1, <2>2
  <2>5. \E g : Picks(g, IF s[i + 1] \in T THEN Append(p[i], s[i + 1]) ELSE p[i], s, i + 1, T)
    BY <2>1, <2>3, PickNext
  <2> QED  BY <2>2, <2>4, <2>5
<1>4. 0 .. Len(s) \subseteq Done
  <2> HIDE DEF Done
  <2> QED  BY <1>1, <1>2, <1>3, InductionUpTo
<1>5. Len(s) \in Done /\ p[Len(s)] \in Seq(S)
  BY <1>1, <1>4
<1> QED  BY <1>5 DEF Selected, p

(* Nothing else is selected, and nothing is left out.                      *)
LEMMA SelectedElements ==
  ASSUME NEW S, NEW s \in Seq(S), NEW T
  PROVE  /\ ToSet(Selected(s, T)) = {Selected(s, T)[a] : a \in 1 .. Len(Selected(s, T))}
         /\ ToSet(Selected(s, T)) = ToSet(s) \cap T
<1> DEFINE q == Selected(s, T)
<1>1. PICK f : Picks(f, q, s, Len(s), T)
  BY SelectedPicks
<1>2. q \in Seq(S)
  BY SelectedPicks
<1> HIDE DEF q
<1>3. DOMAIN q = 1 .. Len(q) /\ DOMAIN s = 1 .. Len(s)
  BY <1>2
<1>4. \A a \in 1 .. Len(q) : q[a] \in T /\ \E k \in 1 .. Len(s) : q[a] = s[k]
  BY <1>1 DEF Picks
<1>5. \A k \in 1 .. Len(s) : s[k] \in T => \E a \in 1 .. Len(q) : q[a] = s[k]
  BY <1>1 DEF Picks
<1>6. ToSet(q) = {q[a] : a \in 1 .. Len(q)} /\ ToSet(s) = {s[k] : k \in 1 .. Len(s)}
  BY <1>3 DEF ToSet
<1>7. ToSet(q) = ToSet(s) \cap T
  <2>1. \A x : x \in ToSet(q) <=> \E a \in 1 .. Len(q) : x = q[a]
    BY <1>6
  <2>2. \A x : x \in ToSet(s) <=> \E k \in 1 .. Len(s) : x = s[k]
    BY <1>6
  <2> QED  BY <1>4, <1>5, <2>1, <2>2
<1> QED  BY <1>6, <1>7 DEF q

-----------------------------------------------------------------------------
(* A replay file of any length.                                            *)
AnyFile ==
  [isArray : BOOLEAN, entries : Nat, packets : Seq(Packets),
   packetPair : CSPairs, csPairs : Seq(CSPairs), quotedName : BOOLEAN]

(* Packets are read just if every single one can be.                       *)
LEMMA AllPackets ==
  ASSUME NEW packets \in Seq(Packets), NEW isTCP
  PROVE  /\ NewPackets(packets, isTCP) \in {"ok", "err", "panic"}
         /\ NewPackets(packets, isTCP) = "ok"
              <=> \A i \in 1 .. Len(packets) : NewPacket(packets[i], isTCP) = "ok"
<1> DEFINE wrong == {i \in 1 .. Len(packets) : NewPacket(packets[i], isTCP) # "ok"}
           first == CHOOSE i \in wrong : \A j \in wrong : i <= j
<1>1. ASSUME NEW packet PROVE NewPacket(packet, isTCP) \in {"ok", "err", "panic"}
  BY DEF NewPacket
<1>2. CASE wrong = {}
  BY <1>2 DEF NewPackets
<1>3. CASE wrong # {}
  <2>1. wrong \subseteq Nat
    OBVIOUS
  <2>2. first \in wrong
    <3> HIDE DEF wrong
    <3> QED  BY <1>3, <2>1, LeastNumber
  <2>3. NewPackets(packets, isTCP) = NewPacket(packets[first], isTCP)
    BY <1>3 DEF NewPackets
  <2> QED  BY <1>1, <2>2, <2>3
<1> QED  BY <1>2, <1>3

(* ParseReplayJSON succeeds just with the files a replay can be made of,   *)
(* whatever their length; a file of the wrong shape is an error or a panic,*)
(* never a replay with something missing.                                  *)
THEOREM Reading ==
  ASSUME NEW file \in AnyFile
  PROVE  /\ ParseReplayJSON(file) \in {"ok", "err", "panic"}
         /\ ParseReplayJSON(file) = "ok" <=> WellFormed(file)
<1> DEFINE packets == NewPackets(file.packets, IsTCPReplay(file))
           pair == ReplayCSPair(file)
<1>1. /\ packets \in {"ok", "err", "panic"}
      /\ packets = "ok" <=>
           \A i \in 1 .. Len(file.packets) :
             NewPacket(file.packets[i], IsTCPReplay(file)) = "ok"
  BY AllPackets DEF AnyFile
<1>2. pair \in {"ok", "err", "panic"}
  BY DEF ReplayCSPair, NewCSPair
<1>3. /\ ParseReplayJSON(file) \in {"ok", "err", "panic"}
      /\ ParseReplayJSON(file) = "ok" <=>
           /\ file.isArray /\ file.entries # 0 /\ file.packets # <<>>
           /\ packets = "ok" /\ pair = "ok"
           /\ ~(file.entries < 4) /\ file.quotedName
  <2> HIDE DEF packets, pair
  <2> QED  BY <1>1, <1>2 DEF ParseReplayJSON, packets, pair
<1>4. ASSUME file.entries >= 4, file.packets # <<>>
      PROVE  (packets = "ok" /\ pair = "ok")
              <=> /\ \A i \in 1 .. Len(file.packets) : file.packets[i].hex
                  /\ \/ /\ \A i \in 1 .. Len(file.packets) : file.packets[i].response_len
                        /\ file.csPairs # <<>> /\ file.csPairs[1] = "good"
                     \/ /\ ~file.packets[1].response_len /\ file.packetPair = "good"
                        /\ \A i \in 1 .. Len(file.packets) : file.packets[i].end
  <2>1. 1 \in 1 .. Len(file.packets)
    BY <1>4 DEF AnyFile
  <2>2. CASE IsTCPReplay(file)
    <3>1. packets = "ok" <=> \A i \in 1 .. Len(file.packets) :
                                file.packets[i].response_len /\ file.packets[i].hex
      BY <1>1, <2>2 DEF NewPacket
    <3>2. pair = "ok" <=> file.csPairs # <<>> /\ file.csPairs[1] = "good"
      BY <1>4, <2>2 DEF ReplayCSPair, NewCSPair, AnyFile
    <3> HIDE DEF packets, pair
    <3> QED  BY <2>1, <2>2, <3>1, <3>2 DEF IsTCPReplay
  <2>3. CASE ~IsTCPReplay(file)
    <3>1. packets = "ok" <=> \A i \in 1 .. Len(file.packets) :
                                file.packets[i].end /\ file.packets[i].hex
      BY <1>1, <2>3 DEF NewPacket
    <3>2. pair = "ok" <=> file.packetPair = "good"
      BY <2>3 DEF ReplayCSPair, NewCSPair
    <3> HIDE DEF packets, pair
    <3> QED  BY <2>1, <2>3, <3>1, <3>2 DEF IsTCPReplay
  <2> QED  BY <2>2, <2>3
<1>5. file.entries >= 4 <=> file.entries # 0 /\ ~(file.entries < 4)
  BY DEF AnyFile
<1> HIDE DEF packets, pair
<1> QED  BY <1>3, <1>4, <1>5 DEF WellFormed

=============================================================================
