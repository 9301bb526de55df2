----------------------------- MODULE DesCrypto -----------------------------
(***************************************************************************)
(* leo_des_crypto.c: ecb_crypt and cbc_crypt over des_crypt, used to       *)
(* encrypt a buffer and to decrypt it again.  The two ends cut the buffer  *)
(* into calls as they like, each with a vector of its own, and other       *)
(* callers use the library in between with other keys: there is one global *)
(* key schedule for all of them.                                           *)
(*                                                                         *)
(* A half of a block is the set of its bits that are 1.  The transposition *)
(* at the start and the one at the end of des_crypt only move bits, and    *)
(* moving bits commutes with xor, so blocks are written down as they stand *)
(* between the two.  What E, the subkey, the S boxes and P make of a half  *)
(* is any function, one for each round and key: a Feistel network does not *)
(* depend on more.                                                         *)
(***************************************************************************)
EXTENDS Integers

CONSTANTS Bits,       \* the bits of a half, 32 in the code
          Rounds,     \* 16 in the code
          Keys,       \* the keys the callers of the library use
          Key,        \* the key of the buffer that is followed
          Lens,       \* the lengths, in bytes, a call may be given
          MaxBlocks   \* bound: the blocks of the buffer

ASSUME DesAssumption == /\ Rounds \in Nat \ {0}
                        /\ MaxBlocks \in Nat \ {0}
                        /\ Key \in Keys
                        /\ Lens \subseteq Nat

VARIABLES schedule,   \* what des_setkey makes of each key
          keys,       \* the global of that name: the schedule in force
          mode,       \* "ecb" or "cbc"
          plain,      \* what the buffer held at first
          buf,        \* what it holds
          ivec,       \* of each end, for "cbc"
          done,       \* the blocks each end is through with
          dir,        \* the end whose call is running
          left,       \* blocks of the call still to come
          pc,         \* "idle", "next" (at the head of the loop) or "round"
          i,          \* of des_crypt: the round
          half,       \* of des_crypt: l and r
          nvec        \* of cbc_crypt

input == <<schedule, mode, plain>>
local == <<dir, left, pc, i, half, nvec>>
vars == <<input, keys, buf, ivec, done, local>>

Ends == {"encrypt", "decrypt"}

Half == SUBSET Bits
Block == [l : Half, r : Half]
Schedule == [0 .. Rounds - 1 -> [Half -> Half]]

Xor(a, b) == (a \ b) \cup (b \ a)
XorBlock(a, b) == [l |-> Xor(a.l, b.l), r |-> Xor(a.r, b.r)]

des_setkey(k) == schedule[k]

-----------------------------------------------------------------------------

(* A plausible bug: one block too many when the last is full.              *)
Faulty_Blocks(len) == len \div 8 + 1

(* The blocks a length in bytes is rounded up to.                          *)
Blocks(len) == (len + 7) \div 8

(* The blocks an end may still work on: the one that decrypts has what the *)
(* other has encrypted.                                                    *)
Ahead(d) == (IF d = "encrypt" THEN MaxBlocks ELSE done.encrypt) - done[d]

(* The block the running call is at.                                       *)
Here == done[dir] + 1

FirstRound(d) == IF d = "encrypt" THEN 0 ELSE Rounds - 1
FollowingRound(d) == IF d = "encrypt" THEN i + 1 ELSE i - 1

(* What des_crypt returns: the last transposition takes r before l.        *)
Output == [l |-> half.r, r |-> half.l]

(* A plausible bug: the block decrypted last, not the block it was.        *)
Faulty_NextVector == Output

(* What cbc_crypt leaves in ivec: the block as it is encrypted.            *)
NextVector == IF dir = "encrypt" THEN Output ELSE nvec

-----------------------------------------------------------------------------

Init == /\ schedule \in [Keys -> Schedule]
        /\ mode \in {"ecb", "cbc"}
        /\ plain \in [1 .. MaxBlocks -> Block]
        /\ buf = plain
        /\ \E iv \in Block : /\ mode = "ecb" => iv = [l |-> {}, r |-> {}]
                             /\ ivec = [d \in Ends |-> iv]
        /\ keys = [n \in 0 .. Rounds - 1 |-> [h \in Half |-> {}]]
        /\ done = [d \in Ends |-> 0]
        /\ dir = "encrypt"
        /\ left = 0
        /\ pc = "idle"
        /\ i = 0
        /\ half = [l |-> {}, r |-> {}]
        /\ nvec = [l |-> {}, r |-> {}]

(* A plausible bug: a call that relies on the schedule in force.           *)
Faulty_Begin(d, len) == /\ pc = "idle"
                        /\ len <= 8 * Ahead(d)
                        /\ dir' = d
                        /\ left' = Blocks(len)
                        /\ pc' = "next"
                        /\ UNCHANGED <<input, keys, buf, ivec, done, i, half, nvec>>

(* ecb_crypt or cbc_crypt is called on the next bytes of the buffer.  The  *)
(* caller sees to it that they are inside it.                              *)
Begin(d, len) == /\ pc = "idle"
                 /\ len <= 8 * Ahead(d)
                 /\ keys' = des_setkey(Key)
                 /\ dir' = d
                 /\ left' = Blocks(len)
                 /\ pc' = "next"
                 /\ UNCHANGED <<input, buf, ivec, done, i, half, nvec>>

(* Another buffer is encrypted or decrypted, which leaves its key behind.  *)
OtherCall(k) == /\ pc = "idle"
                /\ keys' = des_setkey(k)
                /\ UNCHANGED <<input, buf, ivec, done, local>>

(* The head of the loop in ecb_crypt and in both cases of cbc_crypt, and   *)
(* des_crypt up to its first round.                                        *)
NextBlock ==
  /\ pc = "next"
  /\ left > 0
  /\ LET chained == mode = "cbc" /\ dir = "encrypt"
         b == IF chained THEN XorBlock(buf[Here], ivec[dir]) ELSE buf[Here]
     IN  /\ buf' = [buf EXCEPT ![Here] = b]
         /\ half' = b
  /\ nvec' = IF mode = "cbc" /\ dir = "decrypt" THEN buf[Here] ELSE nvec
  /\ i' = FirstRound(dir)
  /\ pc' = "round"
  /\ UNCHANGED <<input, keys, ivec, done, dir, left>>

Round == /\ pc = "round"
         /\ i \in 0 .. Rounds - 1
         /\ half' = [l |-> half.r, r |-> Xor(half.l, keys[i][half.r])]
         /\ i' = FollowingRound(dir)
         /\ UNCHANGED <<input, keys, buf, ivec, done, dir, left, pc, nvec>>

(* des_crypt stores its block and returns; the caller finishes its turn.   *)
EndBlock ==
  /\ pc = "round"
  /\ i \notin 0 .. Rounds - 1
  /\ LET unchained == mode = "cbc" /\ dir = "decrypt"
         b == IF unchained THEN XorBlock(Output, ivec[dir]) ELSE Output
     IN  buf' = [buf EXCEPT ![Here] = b]
  /\ ivec' = IF mode = "ecb" THEN ivec
             ELSE [ivec EXCEPT ![dir] = NextVector]
  /\ done' = [done EXCEPT ![dir] = @ + 1]
  /\ left' = left - 1
  /\ pc' = "next"
  /\ UNCHANGED <<input, keys, dir, i, half, nvec>>

Return == /\ pc = "next"
          /\ left = 0
          /\ pc' = "idle"
          /\ UNCHANGED <<input, keys, buf, ivec, done, dir, left, i, half, nvec>>

Next == \/ \E d \in Ends, len \in Lens : Begin(d, len)
        \/ \E k \in Keys : OtherCall(k)
        \/ NextBlock
        \/ Round
        \/ EndBlock
        \/ Return

Spec == Init /\ [][Next]_vars

-----------------------------------------------------------------------------

(* Types: the program's variables stay in their ranges, whatever part of a *)
(* call of ecb_crypt or cbc_crypt is running.                              *)
TypeOK == /\ schedule \in [Keys -> Schedule]
          /\ mode \in {"ecb", "cbc"}
          /\ plain \in [1 .. MaxBlocks -> Block]
          /\ buf \in [1 .. MaxBlocks -> Block]
          /\ keys \in Schedule
          /\ ivec \in [Ends -> Block]
          /\ done \in [Ends -> 0 .. MaxBlocks]
          /\ dir \in Ends
          /\ left \in 0 .. MaxBlocks
          /\ pc \in {"idle", "next", "round"}
          /\ i \in -1 .. Rounds
          /\ half \in Block
          /\ nvec \in Block

(* The rounding of a length up to whole blocks (leo_des_crypto.c:610, 625, *)
(* 646) takes a call to the end of the block its last byte is in and no    *)
(* further: not past the buffer, and when decrypting not into what is not  *)
(* encrypted yet.                                                          *)
WithinBuffer == pc # "idle" => left <= Ahead(dir)

(* What has been encrypted and decrypted again is what it was, whatever    *)
(* the key, the round functions, the vector, the calls the two ends cut    *)
(* the buffer into, and the keys that other callers of ecb_crypt and       *)
(* cbc_crypt left in the global schedule in between.                       *)
RoundTrip == \A n \in 1 .. done.decrypt : buf[n] = plain[n]

(* cbc_crypt leaves in ivec what the next call needs: when the end that    *)
(* decrypts has caught up, the two ends hold the same vector.              *)
InStep == pc = "idle" /\ done.decrypt = done.encrypt
            => ivec.decrypt = ivec.encrypt
=============================================================================
