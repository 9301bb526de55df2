------------------------------- MODULE LeoDes -------------------------------
(***************************************************************************)
(* leo_des_crypto.c, bit by bit: the key schedule of des_setkey, and the   *)
(* transpositions and the round function of des_crypt.                     *)
(*                                                                         *)
(* An unsigned long has 32 bits in the Windows build; it is the set of its *)
(* bits that are 1, bit 0 the last.  The tables of transpositions hold for *)
(* a byte the union of what they hold for each of its bits, and are given  *)
(* by what they do to a bit.                                               *)
(***************************************************************************)
EXTENDS BitWords

ror4(x) == {(b + 28) % 32 : b \in x}

rol1(x) == {(b + 1) % 32 : b \in x}

-----------------------------------------------------------------------------

(***************************************************************************)
(* des_setkey.                                                             *)
(***************************************************************************)
\* The places of a key's bits in c, from 28 on, and in d.
pc1 == <<
  48, 40, 32, 0, 4, 12, 20, 49, 41, 33, 1, 5, 13, 21,
  50, 42, 34, 2, 6, 14, 22, 51, 43, 35, 3, 7, 15, 23,
  52, 44, 36, 28, 8, 16, 24, 53, 45, 37, 29, 9, 17, 25,
  54, 46, 38, 30, 10, 18, 26, 55, 47, 39, 31, 11, 19, 27>>

pc2_c == <<
  14, 11, 17, 4, 27, 23, 25, 0, 13, 22, 7, 18,
  5, 9, 16, 24, 2, 20, 12, 21, 1, 8, 15, 26>>
pc2_d == <<
  15, 4, 25, 19, 9, 1, 26, 16, 5, 11, 23, 8,
  12, 7, 17, 0, 22, 3, 10, 14, 6, 20, 27, 24>>

nshifts == <<1, 1, 2, 2, 2, 2, 2, 2, 1, 2, 2, 2, 2, 2, 2, 1>>

\* The last bit of every byte of the key is its parity, which is left out.
PermutedChoice1(key) ==
  {pc1[7 * p[1] + p[2] + 1] : p \in {q \in (0 .. 7) \X (0 .. 6) : 7 - q[2] \in key[q[1] + 1]}}

Rotated(x, n) == {(b + n) % 28 : b \in x}

\* Whether bit j, from the left, of the six bits w[k] is 1.
PermutedChoice2(c, d, k, j) ==
  IF k < 4 THEN pc2_c[6 * k + j + 1] \in c ELSE pc2_d[6 * (k - 4) + j + 1] \in d

\* Every other one of the w[k], in a byte each.
Packed(c, d, first) ==
  {29 - 8 * (kj[1] \div 2) - kj[2] :
     kj \in {p \in {first, first + 2, first + 4, first + 6} \X (0 .. 5) :
               PermutedChoice2(c, d, p[1], p[2])}}

\* c, or d, before the first and after every turn of the loop.
Turned(x) ==
  LET c[i \in 0 .. 16] == IF i = 0 THEN x ELSE Rotated(c[i - 1], nshifts[i])
  IN c

des_setkey(key) ==
  LET places == PermutedChoice1(key)
      c == Turned({b - 28 : b \in places \ (0 .. 27)})
      d == Turned(places \intersect 0 .. 27)
  IN [i \in 0 .. 15 |-> <<Packed(c[i + 1], d[i + 1], 0), Packed(c[i + 1], d[i + 1], 1)>>]

-----------------------------------------------------------------------------

(***************************************************************************)
(* One round of des_crypt.                                                 *)
(***************************************************************************)
\* The boxes multiplied out with P: the words of box i for each six bits, in two
\* halves of 16 bits, since a number of TLC's has no room for the last bit.
Psboxes == <<
  <<\h0080, \h8200, \h0000, \h0000, \h0000, \h8000, \h0080, \h8202,
    \h0080, \h8002, \h0000, \h8202, \h0000, \h0002, \h0000, \h8000,
    \h0000, \h0200, \h0080, \h8200, \h0080, \h8202, \h0000, \h0200,
    \h0080, \h0202, \h0080, \h8002, \h0080, \h0000, \h0000, \h0002,
    \h0000, \h0202, \h0080, \h0200, \h0080, \h0200, \h0000, \h8200,
    \h0000, \h8200, \h0080, \h8000, \h0080, \h8000, \h0080, \h0202,
    \h0000, \h8002, \h0080, \h0002, \h0080, \h0002, \h0000, \h8002,
    \h0000, \h0000, \h0000, \h0202, \h0000, \h8202, \h0080, \h0000,
    \h0000, \h8000, \h0080, \h8202, \h0000, \h0002, \h0080, \h8000,
    \h0080, \h8200, \h0080, \h0000, \h0080, \h0000, \h0000, \h0200,
    \h0080, \h8002, \h0000, \h8000, \h0000, \h8200, \h0080, \h0002,
    \h0000, \h0200, \h0000, \h0002, \h0080, \h0202, \h0000, \h8202,
    \h0080, \h8202, \h0000, \h8002, \h0080, \h8000, \h0080, \h0202,
    \h0080, \h0002, \h0000, \h0202, \h0000, \h8202, \h0080, \h8200,
    \h0000, \h0202, \h0080, \h0200, \h0080, \h0200, \h0000, \h0000,
    \h0000, \h8002, \h0000, \h8200, \h0000, \h0000, \h0080, \h8002>>,
  <<\h4008, \h4010, \h4000, \h4000, \h0000, \h4000, \h0008, \h4010,
    \h0008, \h0000, \h0000, \h0010, \h4008, \h0010, \h4000, \h4010,
    \h4000, \h0010, \h4008, \h4010, \h4008, \h4000, \h4000, \h0000,
    \h4000, \h4000, \h0008, \h0000, \h0000, \h0010, \h4008, \h0010,
    \h0008, \h4000, \h0008, \h0010, \h4000, \h4010, \h0000, \h0000,
    \h4000, \h0000, \h0000, \h4000, \h0008, \h4010, \h4008, \h0000,
    \h0008, \h0010, \h4000, \h0010, \h0000, \h0000, \h0008, \h4000,
    \h0000, \h4010, \h4008, \h4000, \h4008, \h0000, \h0000, \h4010,
    \h0000, \h0000, \h0008, \h4010, \h4008, \h0010, \h0008, \h0000,
    \h4000, \h4010, \h4008, \h0000, \h4008, \h4000, \h0000, \h4000,
    \h4008, \h0000, \h4000, \h4000, \h0000, \h0010, \h4008, \h4010,
    \h0008, \h4010, \h0000, \h0010, \h0000, \h4000, \h4000, \h0000,
    \h0000, \h4010, \h4008, \h4000, \h0008, \h0000, \h4000, \h0010,
    \h0008, \h0010, \h4000, \h4010, \h4000, \h0010, \h0008, \h0010,
    \h0008, \h4000, \h0000, \h0000, \h4000, \h4000, \h0000, \h4010,
    \h4000, \h0000, \h4008, \h0010, \h4008, \h4010, \h0008, \h4000>>,
  <<\h0000, \h0104, \h0401, \h0100, \h0000, \h0000, \h0401, \h0004,
    \h0400, \h0100, \h0000, \h0000, \h0001, \h0104, \h0400, \h0100,
    \h0001, \h0004, \h0400, \h0004, \h0400, \h0004, \h0001, \h0000,
    \h0401, \h0104, \h0001, \h0004, \h0401, \h0000, \h0000, \h0104,
    \h0400, \h0000, \h0000, \h0004, \h0401, \h0100, \h0000, \h0100,
    \h0001, \h0100, \h0401, \h0000, \h0401, \h0004, \h0001, \h0104,
    \h0400, \h0104, \h0001, \h0100, \h0001, \h0000, \h0400, \h0104,
    \h0000, \h0004, \h0401, \h0104, \h0000, \h0100, \h0400, \h0000,
    \h0401, \h0100, \h0400, \h0000, \h0001, \h0004, \h0000, \h0104,
    \h0001, \h0000, \h0401, \h0100, \h0400, \h0100, \h0000, \h0000,
    \h0000, \h0100, \h0001, \h0004, \h0401, \h0104, \h0400, \h0100,
    \h0400, \h0004, \h0000, \h0100, \h0000, \h0000, \h0401, \h0004,
    \h0400, \h0104, \h0001, \h0000, \h0400, \h0000, \h0401, \h0104,
    \h0000, \h0004, \h0001, \h0104, \h0001, \h0100, \h0400, \h0004,
    \h0401, \h0000, \h0400, \h0104, \h0000, \h0104, \h0401, \h0000,
    \h0001, \h0104, \h0000, \h0004, \h0401, \h0004, \h0001, \h0100>>,
  <<\h8040, \h1000, \h8000, \h1040, \h8000, \h1040, \h0000, \h0040,
    \h0040, \h1040, \h8040, \h0040, \h8040, \h0000, \h8000, \h1000,
    \h0000, \h0000, \h0040, \h1000, \h0040, \h1000, \h8040, \h1040,
    \h8000, \h0040, \h0000, \h0000, \h0040, \h0040, \h8040, \h0000,
    \h8000, \h0000, \h0000, \h1000, \h0040, \h0000, \h8040, \h1000,
    \h0000, \h0040, \h0040, \h0000, \h8000, \h1000, \h0000, \h1040,
    \h8040, \h0040, \h8000, \h0000, \h0000, \h1040, \h0040, \h0040,
    \h0000, \h1000, \h0040, \h1040, \h8040, \h1040, \h8000, \h0040,
    \h0040, \h0040, \h8040, \h0000, \h0040, \h1000, \h8040, \h1040,
    \h8000, \h0040, \h0000, \h0000, \h0000, \h0000, \h0040, \h1000,
    \h0000, \h1040, \h0040, \h0040, \h8040, \h0040, \h8000, \h0000,
    \h8040, \h1000, \h8000, \h1040, \h8000, \h1040, \h0000, \h0040,
    \h8040, \h1040, \h8000, \h0040, \h8000, \h0000, \h0000, \h1000,
    \h8040, \h0000, \h8000, \h1000, \h0040, \h1040, \h8040, \h0040,
    \h8000, \h1000, \h0000, \h1040, \h0040, \h0000, \h8040, \h1000,
    \h0000, \h0040, \h0040, \h0000, \h0000, \h1000, \h0040, \h1040>>,
  <<\h0000, \h0080, \h0104, \h0080, \h0104, \h0000, \h2100, \h0080,
    \h0004, \h0000, \h0000, \h0080, \h2000, \h0000, \h0104, \h0000,
    \h2004, \h0080, \h0004, \h0000, \h0100, \h0080, \h2004, \h0080,
    \h2100, \h0080, \h2104, \h0000, \h0004, \h0080, \h2000, \h0000,
    \h0100, \h0000, \h2004, \h0000, \h2004, \h0000, \h0000, \h0000,
    \h2000, \h0080, \h2104, \h0080, \h2104, \h0080, \h0100, \h0080,
    \h2104, \h0000, \h2000, \h0080, \h0000, \h0000, \h2100, \h0000,
    \h0104, \h0080, \h0100, \h0000, \h2100, \h0000, \h0004, \h0080,
    \h0004, \h0000, \h2100, \h0080, \h0000, \h0080, \h0100, \h0000,
    \h2000, \h0000, \h0104, \h0000, \h2100, \h0080, \h2004, \h0080,
    \h0100, \h0080, \h2000, \h0000, \h2104, \h0000, \h0104, \h0080,
    \h2004, \h0080, \h0000, \h0080, \h0100, \h0000, \h2104, \h0000,
    \h2104, \h0080, \h0004, \h0080, \h2100, \h0000, \h2104, \h0080,
    \h0104, \h0000, \h0000, \h0000, \h2004, \h0000, \h2100, \h0000,
    \h0004, \h0080, \h0100, \h0080, \h2000, \h0080, \h0004, \h0000,
    \h0000, \h0000, \h2004, \h0000, \h0104, \h0080, \h2000, \h0080>>,
  <<\h1000, \h0008, \h1020, \h0000, \h0000, \h2000, \h1020, \h2008,
    \h1020, \h0000, \h0000, \h0008, \h1020, \h2008, \h0020, \h0000,
    \h1000, \h2000, \h0020, \h2008, \h0020, \h0000, \h1000, \h0008,
    \h0020, \h0008, \h1000, \h2000, \h1000, \h0000, \h0000, \h2008,
    \h0000, \h0000, \h0020, \h0008, \h1000, \h2008, \h0000, \h2000,
    \h0020, \h2000, \h1000, \h2008, \h0000, \h0008, \h1020, \h0008,
    \h1020, \h0008, \h0000, \h0000, \h0020, \h2008, \h1020, \h2000,
    \h0000, \h2008, \h0020, \h2000, \h1020, \h2000, \h1000, \h0000,
    \h1000, \h2000, \h0000, \h0008, \h1020, \h0008, \h0020, \h2000,
    \h1020, \h2008, \h0020, \h0000, \h0000, \h2008, \h1000, \h0008,
    \h0020, \h0000, \h1000, \h2000, \h1000, \h0000, \h0000, \h2008,
    \h1000, \h0008, \h1020, \h2008, \h0020, \h2000, \h1020, \h0000,
    \h0020, \h2008, \h1020, \h2000, \h0000, \h0000, \h1020, \h0008,
    \h0000, \h0008, \h0000, \h2000, \h1020, \h0000, \h0020, \h2008,
    \h0000, \h2000, \h0020, \h0008, \h1000, \h2008, \h0000, \h0000,
    \h1020, \h2000, \h1000, \h0000, \h0020, \h0008, \h1000, \h2008>>,
  <<\h0010, \h0000, \h0210, \h0001, \h0200, \h0401, \h0000, \h0000,
    \h0000, \h0400, \h0200, \h0401, \h0010, \h0401, \h0210, \h0400,
    \h0210, \h0401, \h0010, \h0000, \h0000, \h0000, \h0200, \h0001,
    \h0000, \h0001, \h0200, \h0000, \h0210, \h0001, \h0000, \h0401,
    \h0200, \h0400, \h0010, \h0401, \h0010, \h0001, \h0200, \h0400,
    \h0200, \h0001, \h0210, \h0000, \h0210, \h0400, \h0010, \h0001,
    \h0210, \h0000, \h0000, \h0400, \h0000, \h0401, \h0210, \h0401,
    \h0010, \h0400, \h0000, \h0001, \h0200, \h0000, \h0010, \h0400,
    \h0200, \h0000, \h0010, \h0400, \h0010, \h0000, \h0200, \h0401,
    \h0200, \h0401, \h0210, \h0001, \h0210, \h0001, \h0000, \h0001,
    \h0010, \h0001, \h0200, \h0000, \h0200, \h0400, \h0010, \h0000,
    \h0210, \h0400, \h0000, \h0401, \h0010, \h0401, \h0210, \h0400,
    \h0000, \h0401, \h0200, \h0001, \h0210, \h0401, \h0210, \h0000,
    \h0010, \h0400, \h0000, \h0000, \h0000, \h0001, \h0210, \h0401,
    \h0000, \h0000, \h0010, \h0401, \h0210, \h0000, \h0000, \h0400,
    \h0200, \h0001, \h0200, \h0400, \h0000, \h0400, \h0010, \h0001>>,
  <<\h0800, \h0820, \h0000, \h0800, \h0002, \h0000, \h0802, \h0820,
    \h0800, \h0000, \h0800, \h0820, \h0000, \h0020, \h0800, \h0000,
    \h0002, \h0020, \h0802, \h0000, \h0802, \h0820, \h0002, \h0800,
    \h0802, \h0800, \h0002, \h0820, \h0000, \h0800, \h0000, \h0020,
    \h0802, \h0000, \h0800, \h0020, \h0800, \h0800, \h0000, \h0820,
    \h0002, \h0800, \h0002, \h0020, \h0802, \h0020, \h0802, \h0800,
    \h0000, \h0820, \h0000, \h0000, \h0000, \h0000, \h0802, \h0020,
    \h0800, \h0020, \h0800, \h0800, \h0002, \h0820, \h0002, \h0000,
    \h0002, \h0820, \h0002, \h0000, \h0802, \h0800, \h0000, \h0800,
    \h0000, \h0020, \h0802, \h0020, \h0000, \h0800, \h0002, \h0820,
    \h0800, \h0800, \h0000, \h0020, \h0800, \h0020, \h0802, \h0000,
    \h0802, \h0020, \h0800, \h0000, \h0002, \h0000, \h0800, \h0820,
    \h0000, \h0000, \h0802, \h0820, \h0002, \h0020, \h0800, \h0020,
    \h0802, \h0000, \h0800, \h0800, \h0800, \h0820, \h0000, \h0000,
    \h0802, \h0820, \h0002, \h0800, \h0002, \h0800, \h0000, \h0820,
    \h0000, \h0820, \h0002, \h0020, \h0800, \h0000, \h0802, \h0800>>>>

\* A word of 32 bits as the set of its bits.
LongWord(high, low) ==
  {b \in 0 .. 31 : ((IF b < 16 THEN low ELSE high) \div 2 ^ (b % 16)) % 2 = 1}

\* Six bits as the index of their entry.
Value(six) ==
  LET Bit(b) == IF b \in six THEN 1 ELSE 0
  IN 32 * Bit(5) + 16 * Bit(4) + 8 * Bit(3) + 4 * Bit(2) + 2 * Bit(1) + Bit(0)

\* The word that the macro reads for a box and six bits.
Entry(i, v) == LongWord(Psboxes[i + 1][2 * v + 1], Psboxes[i + 1][2 * v + 2])

Faulty_ps(i, six) == Entry(i, IF i = 4 /\ Value(six) = 42 THEN 41 ELSE Value(six))
ps(i, six) == Entry(i, Value(six))

\* What the boxes see: boxes 1, 3, 5, 7 take their six bits from the first word
\* and the others from the second.
Mixed(r, subkey) ==
  LET x1 == rol1(r)
  IN <<Xor(ror4(x1), subkey[1]), Xor(x1, subkey[2])>>

Six(x, i) ==
  LET shift == 24 - 8 * (i \div 2)
  IN {b - shift : b \in x[(i % 2) + 1] \intersect shift .. shift + 5}

RoundFunction(r, subkey) ==
  LET p(i) == ps(i, Six(Mixed(r, subkey), i))
  IN Xor(Xor(Xor(p(7), p(5)), Xor(p(3), p(1))), Xor(Xor(p(6), p(4)), Xor(p(2), p(0))))

Round(halves, subkey) == <<halves[2], Xor(halves[1], RoundFunction(halves[2], subkey))>>

\* The subkey of each round, in the direction flag asks for.
RoundKey(keys, flag, i) == IF flag = "encrypt" THEN keys[i] ELSE keys[15 - i]

-----------------------------------------------------------------------------

(***************************************************************************)
(* The transpositions before the first and after the last round.           *)
(***************************************************************************)
Ip_l(byte) == {4 * b + 7 : b \in byte \intersect {0, 2, 4, 6}}
Ip_r(byte) == {4 * b + 3 : b \in byte \intersect {1, 3, 5, 7}}
Ip_inv_l(byte) == {31 - 8 * b : b \in byte \intersect {0, 1, 2, 3}}
Ip_inv_r(byte) == {63 - 8 * b : b \in byte \intersect {4, 5, 6, 7}}

Faulty_Gathered(entries) == UNION {{b - (7 - k) : b \in entries[k]} : k \in 1 .. 8}

\* The entries of eight bytes, each shifted once less than the one before.
Gathered(entries) == UNION {{b - (8 - k) : b \in entries[k]} : k \in 1 .. 8}

InitialTranspose(s) ==
  <<Gathered([k \in 1 .. 8 |-> Ip_l(s[k])]), Gathered([k \in 1 .. 8 |-> Ip_r(s[k])])>>

FourBytes(w) == [k \in 1 .. 4 |-> ByteAt(w, 4 - k)]

Faulty_FinalTranspose(halves) ==
  LET q == [k \in 1 .. 8 |-> ByteAt(halves[((k - 1) % 2) + 1], (k - 1) \div 2)]
  IN FourBytes(Gathered([k \in 1 .. 8 |-> Ip_inv_l(q[k])])) \o
     FourBytes(Gathered([k \in 1 .. 8 |-> Ip_inv_r(q[k])]))

\* The bytes of r and l in turn, from the last.
FinalTranspose(halves) ==
  LET q == [k \in 1 .. 8 |-> ByteAt(halves[(k % 2) + 1], (k - 1) \div 2)]
  IN FourBytes(Gathered([k \in 1 .. 8 |-> Ip_inv_l(q[k])])) \o
     FourBytes(Gathered([k \in 1 .. 8 |-> Ip_inv_r(q[k])]))
-----------------------------------------------------------------------------

(***************************************************************************)
(* The same entries in two tables, which a build that defines SMALL uses.  *)
(***************************************************************************)
Sboxes == <<
  <<14, 0, 4, 15, 13, 7, 1, 4, 2, 14, 15, 2, 11, 13, 8, 1,
    3, 10, 10, 6, 6, 12, 12, 11, 5, 9, 9, 5, 0, 3, 7, 8,
    4, 15, 1, 12, 14, 8, 8, 2, 13, 4, 6, 9, 2, 1, 11, 7,
    15, 5, 12, 11, 9, 3, 7, 14, 3, 10, 10, 0, 5, 6, 0, 13>>,
  <<15, 3, 1, 13, 8, 4, 14, 7, 6, 15, 11, 2, 3, 8, 4, 14,
    9, 12, 7, 0, 2, 1, 13, 10, 12, 6, 0, 9, 5, 11, 10, 5,
    0, 13, 14, 8, 7, 10, 11, 1, 10, 3, 4, 15, 13, 4, 1, 2,
    5, 11, 8, 6, 12, 7, 6, 12, 9, 0, 3, 5, 2, 14, 15, 9>>,
  <<10, 13, 0, 7, 9, 0, 14, 9, 6, 3, 3, 4, 15, 6, 5, 10,
    1, 2, 13, 8, 12, 5, 7, 14, 11, 12, 4, 11, 2, 15, 8, 1,
    13, 1, 6, 10, 4, 13, 9, 0, 8, 6, 15, 9, 3, 8, 0, 7,
    11, 4, 1, 15, 2, 14, 12, 3, 5, 11, 10, 5, 14, 2, 7, 12>>,
  <<7, 13, 13, 8, 14, 11, 3, 5, 0, 6, 6, 15, 9, 0, 10, 3,
    1, 4, 2, 7, 8, 2, 5, 12, 11, 1, 12, 10, 4, 14, 15, 9,
    10, 3, 6, 15, 9, 0, 0, 6, 12, 10, 11, 1, 7, 13, 13, 8,
    15, 9, 1, 4, 3, 5, 14, 11, 5, 12, 2, 7, 8, 2, 4, 14>>,
  <<2, 14, 12, 11, 4, 2, 1, 12, 7, 4, 10, 7, 11, 13, 6, 1,
    8, 5, 5, 0, 3, 15, 15, 10, 13, 3, 0, 9, 14, 8, 9, 6,
    4, 11, 2, 8, 1, 12, 11, 7, 10, 1, 13, 14, 7, 2, 8, 13,
    15, 6, 9, 15, 12, 0, 5, 9, 6, 10, 3, 4, 0, 5, 14, 3>>,
  <<12, 10, 1, 15, 10, 4, 15, 2, 9, 7, 2, 12, 6, 9, 8, 5,
    0, 6, 13, 1, 3, 13, 4, 14, 14, 0, 7, 11, 5, 3, 11, 8,
    9, 4, 14, 3, 15, 2, 5, 12, 2, 9, 8, 5, 12, 15, 3, 10,
    7, 11, 0, 14, 4, 1, 10, 7, 1, 6, 13, 0, 11, 8, 6, 13>>,
  <<4, 13, 11, 0, 2, 11, 14, 7, 15, 4, 0, 9, 8, 1, 13, 10,
    3, 14, 12, 3, 9, 5, 7, 12, 5, 2, 10, 15, 6, 8, 1, 6,
    1, 6, 4, 11, 11, 13, 13, 8, 12, 1, 3, 4, 7, 10, 14, 7,
    10, 9, 15, 5, 6, 0, 8, 15, 0, 14, 5, 2, 9, 3, 2, 12>>,
  <<13, 1, 2, 15, 8, 13, 4, 8, 6, 10, 15, 3, 11, 7, 1, 4,
    10, 12, 9, 5, 3, 6, 14, 11, 5, 0, 0, 14, 12, 9, 7, 2,
    7, 2, 11, 1, 4, 14, 1, 7, 9, 4, 12, 10, 14, 8, 2, 13,
    0, 15, 6, 12, 10, 9, 13, 0, 15, 3, 3, 5, 5, 6, 8, 11>>>>

\* The places P gives the four bits of what a box yields.
Ptbl == <<
  <<1, 9, 15, 23>>, <<14, 30, 4, 19>>, <<26, 2, 16, 8>>, <<31, 22, 12, 6>>,
  <<29, 7, 18, 24>>, <<13, 21, 3, 28>>, <<25, 10, 20, 0>>, <<11, 17, 5, 27>> >>

ps_small(i, six) ==
  LET n == Sboxes[i + 1][Value(six) + 1]
  IN {Ptbl[i + 1][b + 1] : b \in {a \in 0 .. 3 : (n \div 2 ^ a) % 2 = 1}}
=============================================================================
