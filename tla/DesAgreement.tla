---------------------------- MODULE DesAgreement ----------------------------
(***************************************************************************)
(* The two DES of the repository side by side: leo_des_crypto.c, which     *)
(* send_key uses and whose tables somebody derived by hand, and            *)
(* leo_standard_des_crypto.c, which follows the wording of the standard.   *)
(* A block is encrypted by both, round by round, and what comes out is     *)
(* decrypted by both.  Or a block goes through triple DES and back.        *)
(*                                                                         *)
(* DesCrypto has what ecb_crypt and cbc_crypt do with any round functions; *)
(* these are the round functions.                                          *)
(***************************************************************************)
EXTENDS BitWords

CONSTANTS Cases,         \* pairs of a key of 8 bytes and a block
          TripleCases    \* pairs of a key of 24 bytes and a block

\* Both take their key and block byte by byte.
ASSUME DesAgreementAssumption ==
  /\ Cases \subseteq [1 .. 8 -> Byte] \X [1 .. 8 -> Byte]
  /\ TripleCases \subseteq [1 .. 24 -> Byte] \X [1 .. 8 -> Byte]

VARIABLES cipher,     \* "des" or "triple"
          key, plain,
          mode,       \* "encrypt", then "decrypt"
          block,      \* what the call is given
          pc,         \* "setkey", "transpose", "round", "last", "pass", "done"
          keys,       \* of leo_des_crypto.c: the subkeys
          schedule,   \* of leo_standard_des_crypto.c: the subkeys
          i,          \* the round, or the pass of triple DES
          halves,     \* of leo's des_crypt: l and r
          state,      \* of the standard one
          result      \* what the two store: leo's and the standard's block

input == <<cipher, key, plain>>
vars == <<input, mode, block, pc, keys, schedule, i, halves, state, result>>

Leo == INSTANCE LeoDes
Standard == INSTANCE StandardDes

NoBlock == <<{}, {}, {}, {}, {}, {}, {}, {}>>

-----------------------------------------------------------------------------

SetKey ==
  /\ cipher = "des" /\ pc = "setkey"
  /\ keys' = Leo!des_setkey(key)
  /\ schedule' = Standard!des_key_setup(key, mode)
  /\ pc' = "transpose"
  /\ UNCHANGED <<input, mode, block, i, halves, state, result>>

Transpose ==
  /\ pc = "transpose"
  /\ halves' = Leo!InitialTranspose(block)
  /\ state' = Standard!IP(block)
  /\ i' = 0
  /\ pc' = "round"
  /\ UNCHANGED <<input, mode, block, keys, schedule, result>>

Round ==
  /\ pc = "round"
  /\ halves' = Leo!Round(halves, Leo!RoundKey(keys, mode, i))
  /\ state' = IF i < 15 THEN Standard!Turn(state, schedule[i])
              ELSE Standard!LastTurn(state, schedule[i])
  /\ i' = i + 1
  /\ pc' = IF i < 15 THEN "round" ELSE "last"
  /\ UNCHANGED <<input, mode, block, keys, schedule, result>>

Store ==
  /\ pc = "last"
  /\ result' = <<Leo!FinalTranspose(halves), Standard!InvIP(state)>>
  /\ pc' = "done"
  /\ UNCHANGED <<input, mode, block, keys, schedule, i, halves, state>>

\* three_des_key_setup and the three passes of three_des_crypt.
SetTripleKey ==
  /\ cipher = "triple" /\ pc = "setkey"
  /\ schedule' = Standard!three_des_key_setup(key, mode)
  /\ result' = <<NoBlock, block>>
  /\ i' = 0
  /\ pc' = "pass"
  /\ UNCHANGED <<input, mode, block, keys, halves, state>>

Pass ==
  /\ pc = "pass"
  /\ result' = [result EXCEPT ![2] = Standard!des_crypt(@, schedule[i])]
  /\ i' = i + 1
  /\ pc' = IF i < 2 THEN "pass" ELSE "done"
  /\ UNCHANGED <<input, mode, block, keys, schedule, halves, state>>

\* What was encrypted is decrypted.
Back ==
  /\ pc = "done" /\ mode = "encrypt"
  /\ mode' = "decrypt"
  /\ block' = result[2]
  /\ pc' = "setkey"
  /\ UNCHANGED <<input, keys, schedule, i, halves, state, result>>

Init ==
  /\ \/ cipher = "des" /\ \E c \in Cases : key = c[1] /\ plain = c[2]
     \/ cipher = "triple" /\ \E c \in TripleCases : key = c[1] /\ plain = c[2]
  /\ mode = "encrypt"
  /\ block = plain
  /\ pc = "setkey"
  /\ keys = <<>> /\ schedule = <<>>
  /\ i = 0
  /\ halves = <<{}, {}>> /\ state = <<{}, {}>>
  /\ result = <<NoBlock, NoBlock>>

Next == SetKey \/ Transpose \/ Round \/ Store \/ SetTripleKey \/ Pass \/ Back

Spec == Init /\ [][Next]_vars

-----------------------------------------------------------------------------

\* Types: words keep to their 32 bits, subkeys to their 48, and blocks to eight
\* bytes.
TypeOK ==
  /\ mode \in {"encrypt", "decrypt"}
  /\ pc \in {"setkey", "transpose", "round", "last", "pass", "done"}
  /\ i \in 0 .. 16
  /\ \A n \in DOMAIN keys : keys[n] \in Word \X Word
  /\ cipher = "des" => \A n \in DOMAIN schedule : schedule[n] \in SUBSET (0 .. 47)
  /\ halves \in Word \X Word
  /\ state \in Word \X Word
  /\ block \in [1 .. 8 -> Byte]
  /\ result \in [1 .. 8 -> Byte] \X [1 .. 8 -> Byte]

FromLeft(w) == {31 - b : b \in w}

(* After every round the two have the same halves: the key schedule of     *)
(* des_setkey with its packed subkeys, the rotations that stand for E, and *)
(* the words of Psboxes, the boxes multiplied out with P by hand           *)
(* (leo_des_crypto.c:26-118, 227-372, 544-556), are those of the standard, *)
(* in both directions.  After the last round leo's halves have switched    *)
(* sides and the standard's have not.                                      *)
RoundsAgree ==
  /\ pc = "round" => <<FromLeft(halves[1]), FromLeft(halves[2])>> = state
  /\ pc = "last" => <<FromLeft(halves[2]), FromLeft(halves[1])>> = state

(* The blocks they store are the same, byte by byte: des_crypt stores the  *)
(* halves in the order of the standard although its transposition is read  *)
(* out of four tables, byte by byte (leo_des_crypto.c:580-603).            *)
BlocksAgree == cipher = "des" /\ pc = "done" => result[1] = result[2]

(* Decrypting gives the block back: the subkeys are used backwards by      *)
(* des_crypt in one and stored backwards by des_key_setup in the other,    *)
(* and three_des_key_setup turns around both the parts of the key and the  *)
(* direction of each (leo_standard_des_crypto.c:232, 267-279).             *)
ComesBack ==
  pc = "done" /\ mode = "decrypt" =>
    /\ result[2] = plain
    /\ cipher = "des" => result[1] = plain
=============================================================================
