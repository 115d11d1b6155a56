------------------------- MODULE SideChannelProofs -------------------------
(***************************************************************************)
(* Proofs about the framing of requests (module SideChannel): what the     *)
(* server makes of a header, for messages of every length.                 *)
(***************************************************************************)
EXTENDS SideChannel, TLAPS

(* The three lower bytes of an integer are the digits in base 256 of its   *)
(* remainder.                                                              *)
LEMMA Digits ==
  ASSUME NEW n \in Nat
  PROVE  n % 16777216 =
           65536 * ((n \div 65536) % 256) + 256 * ((n \div 256) % 256) + (n % 256)
BY SMT

LEMMA PutUint32Bytes ==
  ASSUME NEW n \in Nat
  PROVE  /\ DOMAIN PutUint32(n) = 1 .. 4
         /\ PutUint32(n)[1] = (n \div 16777216) % 256
         /\ PutUint32(n)[2] = (n \div 65536) % 256
         /\ PutUint32(n)[3] = (n \div 256) % 256
         /\ PutUint32(n)[4] = n % 256
BY SMT DEF PutUint32

(* "First byte is opcode, last 3 bytes is 24-bit big-endian unsigned       *)
(* message length": the opcode always arrives, the length modulo 2^24, so  *)
(* that a request is understood just if its message is shorter than that   *)
(* (sendAndReceive and SendID, which do not ask).                          *)
THEOREM RequestFraming ==
  ASSUME NEW op \in Byte, NEW length \in Nat
  PROVE  /\ RequestOpcode(RequestHeader(op, length)) = op
         /\ RequestLength(RequestHeader(op, length)) = length % 16777216
         /\ RequestLength(RequestHeader(op, length)) = length <=> length < 16777216
<1> DEFINE header == RequestHeader(op, length)
<1>1. header[1] = op /\ \A i \in 2 .. 4 : header[i] = PutUint32(length)[i]
  BY PutUint32Bytes, SMT DEF RequestHeader
<1>2. RequestLength(header) =
        65536 * ((length \div 65536) % 256) + 256 * ((length \div 256) % 256) + (length % 256)
  <2> HIDE DEF header
  <2>1. /\ header[2] = (length \div 65536) % 256
        /\ header[3] = (length \div 256) % 256 /\ header[4] = length % 256
    BY <1>1, PutUint32Bytes, SMT
  <2> QED  BY <2>1, SMT DEF RequestLength
<1>3. RequestLength(header) = length % 16777216
  BY <1>2, Digits, SMT
<1>4. length % 16777216 = length <=> length < 16777216
  BY SMT
<1> QED  BY <1>1, <1>3, <1>4, SMT DEF RequestOpcode

=============================================================================
