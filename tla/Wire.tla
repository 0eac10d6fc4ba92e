-------------------------------- MODULE Wire --------------------------------
(***************************************************************************)
(* 16-bit header fields as the elements handle them.  The agents keep      *)
(* lifetimes and sequence numbers in NETWORK byte order inside a uint16_t  *)
(* of a little-endian host and count in that representation, by adding or  *)
(* subtracting htons(1).  A value of this module is the uint16_t the       *)
(* program holds ("raw"), never the number of seconds it stands for.       *)
(***************************************************************************)
EXTENDS Integers

CONSTANT Byte     \* values of one byte, 256 on the machine

ASSUME ByteAssumption == Byte \in Nat /\ Byte >= 2

Word == Byte * Byte

Uint16 == 0 .. (Word - 1)

(***************************************************************************)
(* htons and ntohs exchange the two bytes.                                 *)
(***************************************************************************)
Htons(x) == (x % Byte) * Byte + (x \div Byte)

Ntohs(x) == Htons(x)

(***************************************************************************)
(* Assignment of a sum or a difference to a uint16_t keeps the low word.   *)
(***************************************************************************)
Sub16(a, b) == IF a >= b THEN a - b ELSE a - b + Word

Add16(a, b) == IF a + b < Word THEN a + b ELSE a + b - Word

(***************************************************************************)
(* One second less: the statement  lifetime = lifetime - htons(1)  of all  *)
(* the one-second timers.                                                  *)
(***************************************************************************)
OneSecondLess(raw) == Sub16(raw, Htons(1))

(***************************************************************************)
(* The raw values that stand for fewer seconds than fit in one byte.       *)
(***************************************************************************)
ByteLifetimes == {Htons(s) : s \in 0 .. (Byte - 1)}
=============================================================================
