--------------------------------- MODULE Bytes ---------------------------------
(***************************************************************************)
(* Integers as bytes, little endian and negative ones in two's complement, *)
(* as sproto.c and lua-seri.c write and read them.  A byte has Byte        *)
(* values, 256 in the code, so that small widths have small limits.        *)
(***************************************************************************)
EXTENDS Integers, Sequences, SequencesExt

CONSTANT Byte       \* an even number

(* The k bytes of v *)
Digits(v, k) == [i \in 1 .. k |-> (v \div Byte ^ (i - 1)) % Byte]

(* What bytes are, without and with a sign *)
Number(s) == FoldRight(LAMBDA d, n : d + Byte * n, s, 0)
Signed(s) == IF Number(s) < Byte ^ Len(s) \div 2 THEN Number(s) ELSE Number(s) - Byte ^ Len(s)

(* The integers of 4 bytes *)
Dword(v) == v \in -(Byte ^ 4 \div 2) .. Byte ^ 4 \div 2 - 1
=============================================================================
