------------------------------ MODULE TestData ------------------------------
(***************************************************************************)
(* The selection of the tests to run by name (testdata.go, ParseTestJSON)  *)
(* and the reading of a replay file (ParseReplayJSON, newCSPair).          *)
(***************************************************************************)
EXTENDS Integers, SequencesExt, Selection

(* The tests of a list that were asked for.                                *)
Requested(list, names) == {test \in ToSet(list) : Contains(names, test.image)}

(* Seeded fault: every entry of the selection points to the loop variable, *)
(* which ends up as the last test of the list.                             *)
UserRequestedTestsAliased(list, names) ==
  [i \in 1 .. Len(Selected(list, Requested(list, names))) |-> Last(list)]

(* In the order of the list, once each, whatever the order of the names.   *)
UserRequestedTests(list, names) ==
  Selected(list, Requested(list, names))

(* A name is valid if it has selected a test.                              *)
InvalidTestNames(list, names) ==
  {name \in ToSet(names) :
     \A test \in ToSet(UserRequestedTests(list, names)) : test.image # name}

-----------------------------------------------------------------------------
(***************************************************************************)
(* A replay file is a JSON array of packets, client ports, client-server   *)
(* pairs and a name; there may be fewer entries, or none.  Of a packet     *)
(* matters which optional fields it has and whether its payload decodes;   *)
(* of a client-server pair what is wrong with it; of the name whether it   *)
(* is a quoted string.  Reading fails with an error that is returned       *)
(* ("err"), or with an index or a pointer out of place ("panic").          *)
(***************************************************************************)

Packets == [response_len : BOOLEAN, end : BOOLEAN, hex : BOOLEAN]
CSPairs == {"good", "oneSide", "noDot", "badPort"}

UpTo(n, S) == UNION {[1 .. k -> S] : k \in 0 .. n}

ReplayFiles ==
  [isArray : BOOLEAN, entries : 0 .. 4, packets : UpTo(2, Packets),
   packetPair : CSPairs, csPairs : UpTo(1, CSPairs), quotedName : BOOLEAN]

(* Seeded fault: a missing field counts as zero.                           *)
NewPacketDefaulted(packet, isTCP) == IF packet.hex THEN "ok" ELSE "err"

(* A missing field is a nil pointer, followed before the payload is looked *)
(* at.                                                                     *)
NewPacket(packet, isTCP) ==
  IF ~(IF isTCP THEN packet.response_len ELSE packet.end) THEN "panic"
  ELSE IF packet.hex THEN "ok" ELSE "err"

(* Without a dot the address would end at index -1.                        *)
NewCSPair(csPair) ==
  IF csPair = "good" THEN "ok" ELSE IF csPair = "noDot" THEN "panic" ELSE "err"

IsTCPReplay(file) == file.packets[1].response_len

(* The first packet that cannot be read decides.                           *)
NewPackets(packets, isTCP) ==
  LET wrong == {i \in 1 .. Len(packets) : NewPacket(packets[i], isTCP) # "ok"}
  IN IF wrong = {} THEN "ok"
     ELSE NewPacket(packets[CHOOSE i \in wrong : \A j \in wrong : i <= j], isTCP)

(* A TCP replay has its pairs in the third entry, a UDP one in its packets.*)
ReplayCSPair(file) ==
  IF ~IsTCPReplay(file) THEN NewCSPair(file.packetPair)
  ELSE IF file.entries < 3 \/ file.csPairs = <<>> THEN "panic"
  ELSE NewCSPair(file.csPairs[1])

ParseReplayJSON(file) ==
  IF ~file.isArray THEN "err"
  ELSE IF file.entries = 0 \/ file.packets = <<>> THEN "panic"
  ELSE LET packets == NewPackets(file.packets, IsTCPReplay(file)) IN
    IF packets # "ok" THEN packets
    ELSE IF ReplayCSPair(file) # "ok" THEN ReplayCSPair(file)
    ELSE IF file.entries < 4 \/ ~file.quotedName THEN "panic" ELSE "ok"

(* What a replay needs of its file: at least one packet, all of them of    *)
(* the protocol of the first, a port to connect to, and a name.            *)
WellFormed(file) ==
  /\ file.isArray /\ file.entries >= 4 /\ file.quotedName
  /\ file.packets # <<>> /\ \A i \in 1 .. Len(file.packets) : file.packets[i].hex
  /\ \/ /\ \A i \in 1 .. Len(file.packets) : file.packets[i].response_len
        /\ file.csPairs # <<>> /\ file.csPairs[1] = "good"
     \/ /\ ~file.packets[1].response_len /\ file.packetPair = "good"
        /\ \A i \in 1 .. Len(file.packets) : file.packets[i].end

=============================================================================
