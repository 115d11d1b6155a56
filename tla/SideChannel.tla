---------------------------- MODULE SideChannel ----------------------------
(***************************************************************************)
(* How a request is framed on the side channel, and what becomes of the    *)
(* response (network/sidechannel.go, SendID, sendAndReceive,  *)
(* Ask4Permission and DeclareReplay; serverhandler.go, checkPermissions).  *)
(* A header is four bytes, the first of which is numbered 1.               *)
(***************************************************************************)
EXTENDS Integers

Byte == 0 .. 255

(* binary.BigEndian: of an integer only the low 32 bits are written.       *)
PutUint32(n) ==
  <<(n \div 16777216) % 256, (n \div 65536) % 256, (n \div 256) % 256, n % 256>>

(* The opcode takes the place of the first byte of the message's length.   *)
RequestHeader(op, length) == [PutUint32(length) EXCEPT ![1] = op]

(* What the receiver of a request takes it to be: "first byte is opcode,   *)
(* last 3 bytes is 24-bit big-endian unsigned message length".             *)
RequestOpcode(header) == header[1]
RequestLength(header) == 65536 * header[2] + 256 * header[3] + header[4]

-----------------------------------------------------------------------------
(* A response that breaks off cannot be read; of one that does not, length *)
(* counts the response code.                                               *)
Responses == [complete : BOOLEAN, length : 0 .. 1, code : 0 .. 2]

OkResponse == 0

(* An empty response has no response code at its index.                    *)
Received(response) ==
  IF ~response.complete THEN "err"
  ELSE IF response.length = 0 THEN "panic"
  ELSE IF response.code = OkResponse THEN "ok" ELSE "err"

(* A permission has a status and, after a semicolon, a number of samples   *)
(* (any integer) or the reason of a refusal.                               *)
Permissions(numbers) ==
  [status : {"ok", "error", "unknown"}, split : BOOLEAN, isNumber : BOOLEAN, n : numbers]

CheckPermissions(permission) ==
  permission.split /\ permission.status = "ok" /\ permission.isNumber

=============================================================================
