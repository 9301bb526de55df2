------------------------------ MODULE BitWords ------------------------------
(***************************************************************************)
(* Bytes and words of 32 bits for the ciphers and the checksum: the set of *)
(* the bits that are 1.  A buffer is a sequence of bytes.                  *)
(***************************************************************************)
EXTENDS Integers, Sequences

Byte == SUBSET (0 .. 7)
Word == SUBSET (0 .. 31)

Xor(a, b) == (a \ b) \union (b \ a)

\* Words in memory, least byte first, shifts, and what small numbers look like.
ByteAt(w, i) == {b \in 0 .. 7 : b + 8 * i \in w}
Bytes(w, n) == [i \in 1 .. n |-> ByteAt(w, i - 1)]
ShiftLeft(w, n) == {b \in n .. 31 : b - n \in w}
WordOf(s) == {b \in 0 .. 31 : b % 8 \in s[b \div 8 + 1]}
Number(n) ==
  {b \in 0 .. 31 : LET h == b \div 2 IN (n \div 2 ^ h) \div 2 ^ (b - h) % 2 = 1}
=============================================================================
