------------------------------ MODULE RingIndex ------------------------------
(***************************************************************************)
(* The index arithmetic of ring_buffer (src/src/ring_buffer.h,             *)
(* ring_buffer.cpp).  The two indices are unsigned ints that are never     *)
(* reduced: they wrap at W = 2^32, and where a byte lies is found by       *)
(* masking with __buffer_size - 1, which is % Size.                        *)
(***************************************************************************)
EXTENDS Integers

CONSTANTS
  Size,      \* __buffer_size
  W          \* the number of values of an unsigned int

\* The constructor asserts that the size is a power of two.  What matters of
\* that is that it divides 2^32.
ASSUME IndexAssumption ==
  /\ Size \in Nat \ {0}
  /\ W \in Nat
  /\ Size < W
  /\ W % Size = 0

Index == 0 .. W - 1

Lesser(a, b) == IF a < b THEN a ELSE b

\* used() and available(), from the write and the read index.
Used(in, out) == (in - out) % W
Faulty_Available(in, out) == (Size + 1 - Used(in, out)) % W
Available(in, out) == (Size - Used(in, out)) % W

Advance(index, len) == (index + len) % W

\* The position write_p() and read_p() point at.
Slot(index) == index % Size

(***************************************************************************)
(* Where byte i (from 1) of a copy of len bytes at an index lies.  The     *)
(* copy is two memcpys: iLen bytes up to the end of the array, and the     *)
(* rest from its beginning.                                                *)
(***************************************************************************)
Faulty_Place(index, len, i) ==
  LET iLen == Lesser(len, Size - Slot(index))
  IN IF i <= iLen THEN Slot(index) + i - 1 ELSE i - 1
Place(index, len, i) ==
  LET iLen == Lesser(len, Size - Slot(index))
  IN IF i <= iLen THEN Slot(index) + i - 1 ELSE i - iLen - 1
=============================================================================
