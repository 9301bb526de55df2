------------------------------ MODULE DofCrypto ------------------------------
(***************************************************************************)
(* leo_dof_crypto.c: the xor cipher and the crc32 of the game protocol.    *)
(*                                                                         *)
(* The cipher takes the bulk of a buffer four bytes at a time and what     *)
(* remains one by one.  The checksum runs through a table made for the     *)
(* reflected crc32, but shifts like the other one, starts from 0 and       *)
(* appends nothing: it is a polynomial remainder of neither kind, and what *)
(* it detects has to be found out from the table.                          *)
(***************************************************************************)
EXTENDS BitWords

(***************************************************************************)
(* xor_crypt of the bytes of s behind the first `skip', and xor_decrypt.   *)
(* KeyByte is the byte of the key, counted from 0, that byte i of len      *)
(* meets: the remainder starts again at the front of the key.              *)
(***************************************************************************)
SizeofInt == 4
XOR_KEY_LEN == SizeofInt * SizeofInt
Key == [1 .. XOR_KEY_LEN -> Byte]

KeyByte(i, len) ==
  IF i < len - (len % SizeofInt) THEN i % XOR_KEY_LEN ELSE i % SizeofInt

xor_crypt(s, skip, key) ==
  [i \in 1 .. Len(s) |->
     IF i <= skip THEN s[i]
     ELSE Xor(s[i], key[KeyByte(i - skip - 1, Len(s) - skip) + 1])]
xor_decrypt(s, skip, key) == xor_crypt(s, skip, key)

(***************************************************************************)
(* initial_crc32_table.                                                    *)
(***************************************************************************)
reflect(l, c) == {b \in 0 .. c - 1 : c - 1 - b \in l}

\* 0x04c11db7
multinomial == {0, 1, 2, 4, 5, 7, 8, 10, 11, 12, 16, 22, 23, 26}

EntryTurns(i) ==
  LET turn[j \in 0 .. 8] ==
        IF j = 0 THEN ShiftLeft(reflect(i, 8), 24)
        ELSE LET t == turn[j - 1]
             IN Xor(ShiftLeft(t, 1), IF 31 \in t THEN multinomial ELSE {})
  IN turn[8]

crc32_table == [i \in Byte |-> reflect(EntryTurns(i), 32)]

(***************************************************************************)
(* One turn of the loop of generate_crc32, with the table as it is in      *)
(* memory.                                                                 *)
(***************************************************************************)
Faulty_CrcTurn(table, crc, c) == ShiftLeft(crc, 8) \union c
CrcTurn(table, crc, c) ==
  Xor(ShiftLeft(crc, 8) \union c, table[ByteAt(crc, 3)])

\* What the detection of errors rests on: the byte shifted out decides the
\* low byte that is mixed in, and 0 mixes in nothing.
ASSUME TableAssumption ==
  \A a, b \in Byte :
    ByteAt(crc32_table[a], 0) = ByteAt(crc32_table[b], 0) => a = b
=============================================================================
