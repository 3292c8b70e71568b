---------------------------- MODULE StickPackage ----------------------------
(***************************************************************************)
(* pkg/stickpackage: the packets of a TCP connection.  A packet is two     *)
(* bytes of version, an int16 in big endian that counts the whole packet,  *)
(* and the message.  Byte is the number of values a byte has, 256 in the   *)
(* code; an int16 takes two of them, and arithmetic on it wraps.           *)
(***************************************************************************)
EXTENDS Integers

CONSTANT Byte

ASSUME ByteAssumption == Byte \in Nat /\ Byte >= 4 /\ Byte % 2 = 0

Word            == Byte * Byte
MaxInt16        == Word \div 2 - 1
TcpHeaderLength == 4

(* The conversion int16(n): n modulo two bytes, in two's complement. *)
Int16(n) == LET r == n % Word IN IF r <= MaxInt16 THEN r ELSE r - Word

(* encoding/binary, big endian: an int16 as two bytes and back. *)
PutInt16(x)      == <<(x % Word) \div Byte, (x % Word) % Byte>>
GetInt16(hi, lo) == Int16(Byte * hi + lo)

(* Mutant: the header is not counted. *)
LengthOfBody(size) == Int16(size)

(* Packet.Length of a message of that many bytes: 4 + int16(len(p.Msg)). *)
GetPackageLength(size) == Int16(TcpHeaderLength + Int16(size))

(* A message that the length can count together with the header. *)
Fits(size) == TcpHeaderLength + size <= MaxInt16
=============================================================================
