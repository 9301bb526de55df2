---------------------------- MODULE StandardDes ----------------------------
(***************************************************************************)
(* leo_standard_des_crypto.c, bit by bit: DES as the standard words it,    *)
(* and triple DES.                                                         *)
(*                                                                         *)
(* Its macros count bits from the left, so a word is here the set of the   *)
(* places, from the left, of its bits that are 1: of 32 in a half of the   *)
(* state, of 28 in C and D, and of 48 in a subkey.                         *)
(***************************************************************************)
EXTENDS BitWords

\* Whether bit b from the left of the bytes of s is 1.
BITNUM(s, b) == 7 - (b % 8) \in s[b \div 8 + 1]

IP(in) == <<{n \in 0 .. 31 : BITNUM(in, 57 - 8 * (n % 8) + 2 * (n \div 8))},
            {n \in 0 .. 31 : BITNUM(in, 56 - 8 * (n % 8) + 2 * (n \div 8))}>>

InvIP(state) ==
  [i \in 1 .. 8 |->
     {b \in 0 .. 7 : 8 * ((7 - b) \div 2) + 8 - i \in state[IF b % 2 = 1 THEN 2 ELSE 1]}]

-----------------------------------------------------------------------------

(***************************************************************************)
(* The function f.                                                         *)
(***************************************************************************)
\* Row and column of the boxes as the standard has them.
sbox == <<
  <<14, 4, 13, 1, 2, 15, 11, 8, 3, 10, 6, 12, 5, 9, 0, 7,
    0, 15, 7, 4, 14, 2, 13, 1, 10, 6, 12, 11, 9, 5, 3, 8,
    4, 1, 14, 8, 13, 6, 2, 11, 15, 12, 9, 7, 3, 10, 5, 0,
    15, 12, 8, 2, 4, 9, 1, 7, 5, 11, 3, 14, 10, 0, 6, 13>>,
  <<15, 1, 8, 14, 6, 11, 3, 4, 9, 7, 2, 13, 12, 0, 5, 10,
    3, 13, 4, 7, 15, 2, 8, 14, 12, 0, 1, 10, 6, 9, 11, 5,
    0, 14, 7, 11, 10, 4, 13, 1, 5, 8, 12, 6, 9, 3, 2, 15,
    13, 8, 10, 1, 3, 15, 4, 2, 11, 6, 7, 12, 0, 5, 14, 9>>,
  <<10, 0, 9, 14, 6, 3, 15, 5, 1, 13, 12, 7, 11, 4, 2, 8,
    13, 7, 0, 9, 3, 4, 6, 10, 2, 8, 5, 14, 12, 11, 15, 1,
    13, 6, 4, 9, 8, 15, 3, 0, 11, 1, 2, 12, 5, 10, 14, 7,
    1, 10, 13, 0, 6, 9, 8, 7, 4, 15, 14, 3, 11, 5, 2, 12>>,
  <<7, 13, 14, 3, 0, 6, 9, 10, 1, 2, 8, 5, 11, 12, 4, 15,
    13, 8, 11, 5, 6, 15, 0, 3, 4, 7, 2, 12, 1, 10, 14, 9,
    10, 6, 9, 0, 12, 11, 7, 13, 15, 1, 3, 14, 5, 2, 8, 4,
    3, 15, 0, 6, 10, 1, 13, 8, 9, 4, 5, 11, 12, 7, 2, 14>>,
  <<2, 12, 4, 1, 7, 10, 11, 6, 8, 5, 3, 15, 13, 0, 14, 9,
    14, 11, 2, 12, 4, 7, 13, 1, 5, 0, 15, 10, 3, 9, 8, 6,
    4, 2, 1, 11, 10, 13, 7, 8, 15, 9, 12, 5, 6, 3, 0, 14,
    11, 8, 12, 7, 1, 14, 2, 13, 6, 15, 0, 9, 10, 4, 5, 3>>,
  <<12, 1, 10, 15, 9, 2, 6, 8, 0, 13, 3, 4, 14, 7, 5, 11,
    10, 15, 4, 2, 7, 12, 9, 5, 6, 1, 13, 14, 0, 11, 3, 8,
    9, 14, 15, 5, 2, 8, 12, 3, 7, 0, 4, 10, 1, 13, 11, 6,
    4, 3, 2, 12, 9, 5, 15, 10, 11, 14, 1, 7, 6, 0, 8, 13>>,
  <<4, 11, 2, 14, 15, 0, 8, 13, 3, 12, 9, 7, 5, 10, 6, 1,
    13, 0, 11, 7, 4, 9, 1, 10, 14, 3, 5, 12, 2, 15, 8, 6,
    1, 4, 11, 13, 12, 3, 7, 14, 10, 15, 6, 8, 0, 5, 9, 2,
    6, 11, 13, 8, 1, 4, 10, 7, 9, 5, 0, 15, 14, 2, 3, 12>>,
  <<13, 2, 8, 4, 6, 15, 11, 1, 10, 9, 3, 14, 5, 0, 12, 7,
    1, 15, 13, 8, 10, 3, 7, 4, 12, 5, 6, 11, 0, 14, 9, 2,
    7, 11, 4, 1, 9, 12, 14, 2, 0, 6, 10, 13, 15, 3, 5, 8,
    2, 1, 14, 7, 4, 10, 8, 13, 15, 12, 9, 0, 3, 5, 6, 11>>>>

\* The bit that goes to each place.
PBox == <<15, 6, 19, 20, 28, 11, 27, 16, 0, 14, 22, 25, 4, 17, 30, 9,
          1, 7, 23, 13, 31, 26, 2, 8, 18, 12, 29, 5, 21, 10, 3, 24>>

\* A six bit block as the index of its entry: the row is in its first and last
\* bits.
SBOXBIT(six) ==
  LET Bit(n) == IF n \in six THEN 1 ELSE 0
  IN 32 * Bit(0) + 16 * Bit(5) + 8 * Bit(1) + 4 * Bit(2) + 2 * Bit(3) + Bit(4)

\* What box g sees: E takes each four bits and their neighbours.
Six(state, key, g) ==
  {k \in 0 .. 5 : ((4 * g + k - 1) % 32 \in state) # (6 * g + k \in key)}

f(state, key) ==
  LET boxed == UNION {LET n == sbox[g + 1][SBOXBIT(Six(state, key, g)) + 1]
                      IN {4 * g + k : k \in {a \in 0 .. 3 : (n \div 2 ^ (3 - a)) % 2 = 1}}
                      : g \in 0 .. 7}
  IN {c \in 0 .. 31 : PBox[c + 1] \in boxed}

-----------------------------------------------------------------------------

(***************************************************************************)
(* des_key_setup and des_crypt.                                            *)
(***************************************************************************)
key_rnd_shift == <<1, 1, 2, 2, 2, 2, 2, 2, 1, 2, 2, 2, 2, 2, 2, 1>>
key_perm_c == <<
  56, 48, 40, 32, 24, 16, 8, 0, 57, 49, 41, 33, 25, 17,
  9, 1, 58, 50, 42, 34, 26, 18, 10, 2, 59, 51, 43, 35>>
key_perm_d == <<
  62, 54, 46, 38, 30, 22, 14, 6, 61, 53, 45, 37, 29, 21,
  13, 5, 60, 52, 44, 36, 28, 20, 12, 4, 27, 19, 11, 3>>
key_compression == <<
  13, 16, 10, 23, 0, 4, 2, 27, 14, 5, 20, 9, 22, 18,
  11, 3, 25, 7, 15, 6, 26, 19, 12, 1, 40, 51, 30, 36,
  46, 54, 29, 39, 50, 44, 32, 47, 43, 48, 38, 55, 33, 52,
  45, 41, 49, 35, 28, 31>>

PermutedChoice(key, perm) == {n \in 0 .. 27 : BITNUM(key, perm[n + 1])}

RotatedLeft(x, n) == {(b + (28 - n)) % 28 : b \in x}

Compressed(C, D) ==
  {j \in 0 .. 47 : IF j < 24 THEN key_compression[j + 1] \in C
                   ELSE key_compression[j + 1] - 28 \in D}

\* C, or D, before the first and after every turn of the loop.
Turned(x) ==
  LET C[i \in 0 .. 16] == IF i = 0 THEN x ELSE RotatedLeft(C[i - 1], key_rnd_shift[i])
  IN C

\* The subkeys in the order des_crypt uses them.
des_key_setup(key, mode) ==
  LET C == Turned(PermutedChoice(key, key_perm_c))
      D == Turned(PermutedChoice(key, key_perm_d))
      to_gen(i) == IF mode = "decrypt" THEN 15 - i ELSE i
  IN [i \in 0 .. 15 |-> Compressed(C[to_gen(i) + 1], D[to_gen(i) + 1])]

\* A turn of the loop of des_crypt, and the turn after it, which does not
\* switch sides.
Turn(state, subkey) == <<state[2], Xor(f(state[2], subkey), state[1])>>
LastTurn(state, subkey) == <<Xor(f(state[2], subkey), state[1]), state[2]>>

\* state at the head of each turn of the loop.
Turns(in, schedule) ==
  LET state[idx \in 0 .. 15] == IF idx = 0 THEN IP(in)
                                ELSE Turn(state[idx - 1], schedule[idx - 1])
  IN state

des_crypt(in, schedule) == InvIP(LastTurn(Turns(in, schedule)[15], schedule[15]))

(***************************************************************************)
(* Triple DES, with a key of 24 bytes.                                     *)
(***************************************************************************)
Other(mode) == IF mode = "encrypt" THEN "decrypt" ELSE "encrypt"

Part(key, n) == [i \in 1 .. 8 |-> key[8 * n + i]]

Faulty_three_des_key_setup(key, mode) ==
  [n \in 0 .. 2 |-> des_key_setup(Part(key, n), IF n = 1 THEN Other(mode) ELSE mode)]
three_des_key_setup(key, mode) ==
  [n \in 0 .. 2 |-> des_key_setup(Part(key, IF mode = "encrypt" THEN n ELSE 2 - n),
                                  IF n = 1 THEN Other(mode) ELSE mode)]
=============================================================================
