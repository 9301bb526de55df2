------------------------- MODULE GameProtocolProofs -------------------------
(***************************************************************************)
(* For every length of frame, every number of frames, every key and every  *)
(* width of the sequence number: what transform_buffer_to_message lets     *)
(* pass are the peer's frames, in order, and undamaged or with the one     *)
(* kind of damage that check_crc32 misses, and the next frame passes if it *)
(* is undamaged.                                                           *)
(* On the way out: the peer reads what was put into a message, for every   *)
(* length of message and buffer.                                           *)
(*                                                                         *)
(* The checksum is followed by comparing the server's crc, turn by turn,   *)
(* with what the peer's was after as many bytes.  They are equal up to the *)
(* first damaged byte.  From there on they differ: for four turns in the   *)
(* low bytes, so that both shift out the same byte, and after that because *)
(* bytes shifted out that differ mix in low bytes that differ.  In the     *)
(* first three of these turns the difference is the damage itself, which   *)
(* is all that damage to the crc32 can match: in a mirror.                 *)
(***************************************************************************)
EXTENDS GameProtocol, ModArithmetic, SequenceTheorems, TLAPS

(***************************************************************************)
(* Bits, bytes and words.                                                  *)
(***************************************************************************)

\* The bytes of words, and what xor, shift and table make of words, are
\* bytes and words.
LEMMA WordTypes ==
  /\ \A w, i : ByteAt(w, i) \in Byte
  /\ \A w : \A n \in Nat : ShiftLeft(w, n) \in Word
  /\ \A a, b \in Byte : Xor(a, b) \in Byte
  /\ \A a, b \in Word : Xor(a, b) \in Word
  /\ \A a \in Byte : a \in Word
  /\ crc32_table \in [Byte -> Word]
<1>1. \A w, i : ByteAt(w, i) \in Byte
  BY DEF ByteAt, Byte
<1>2. \A w : \A n \in Nat : ShiftLeft(w, n) \in Word
  BY DEF ShiftLeft, Word
<1>3. \A a, b \in Byte : Xor(a, b) \in Byte
  BY DEF Xor, Byte
<1>4. \A a, b \in Word : Xor(a, b) \in Word
  BY DEF Xor, Word
<1>5. \A a \in Byte : a \in Word
  BY DEF Byte, Word
<1>6. crc32_table \in [Byte -> Word]
  <2>1. \A l : reflect(l, 32) \in Word
    BY DEF reflect, Word
  <2> QED
    BY <2>1 DEF crc32_table
<1> QED
  BY <1>1, <1>2, <1>3, <1>4, <1>5, <1>6

\* Two words with the same bytes are the same.
LEMMA WordsByBytes ==
  ASSUME NEW a \in Word, NEW b \in Word,
         \A i \in 0 .. 3 : ByteAt(a, i) = ByteAt(b, i)
  PROVE  a = b
<1>1. ASSUME NEW x \in 0 .. 31 PROVE x \in a <=> x \in b
  <2>1. PICK i \in 0 .. 3, y \in 0 .. 7 : x = y + 8 * i
    <3>1. CASE x \in 0 .. 7
      BY <3>1
    <3>2. CASE x \in 8 .. 15
      <4>1. x - 8 \in 0 .. 7 /\ x = (x - 8) + 8 * 1
        BY <3>2
      <4> QED
        BY <4>1
    <3>3. CASE x \in 16 .. 23
      <4>1. x - 16 \in 0 .. 7 /\ x = (x - 16) + 8 * 2
        BY <3>3
      <4> QED
        BY <4>1
    <3>4. CASE x \in 24 .. 31
      <4>1. x - 24 \in 0 .. 7 /\ x = (x - 24) + 8 * 3
        BY <3>4
      <4> QED
        BY <4>1
    <3> QED
      BY <1>1, <3>1, <3>2, <3>3, <3>4
  <2>2. /\ x \in a <=> y \in ByteAt(a, i)
        /\ x \in b <=> y \in ByteAt(b, i)
    BY <2>1 DEF ByteAt
  <2> QED
    BY <2>2
<1> QED
  BY <1>1 DEF Word

\* Xor with a byte that is not 0 changes a byte, and the second xor with the
\* same undoes the first.
LEMMA XorFacts ==
  /\ \A a, e : e # {} => Xor(a, e) # a
  /\ \A a, k : Xor(Xor(a, k), k) = a
  /\ \A a, e, k : Xor(Xor(Xor(a, k), e), k) = Xor(a, e)
BY DEF Xor

(***************************************************************************)
(* One turn of generate_crc32 on two ends.                                 *)
(***************************************************************************)

\* How the crcs of two ends differ after k bytes of which the first differed
\* and only four may: up to the third by just the damage, its last byte in the
\* lowest byte.
Differ(a, b, e, k) ==
  /\ a # b
  /\ k <= 3 => \A m \in 0 .. 3 : ByteAt(a, m) = Xor(ByteAt(b, m), DamageAt(e, k - m))

\* A turn, byte by byte: the bytes of the crc move up, c comes in below them,
\* and the word of the table is mixed in.
LEMMA TurnBytes ==
  ASSUME NEW a \in Word, NEW c \in Byte
  PROVE  /\ ByteAt(CrcTurn(crc32_table, a, c), 0)
              = Xor(c, ByteAt(crc32_table[ByteAt(a, 3)], 0))
         /\ \A m \in 1 .. 3 : ByteAt(CrcTurn(crc32_table, a, c), m)
              = Xor(ByteAt(a, m - 1), ByteAt(crc32_table[ByteAt(a, 3)], m))
<1> DEFINE t == crc32_table[ByteAt(a, 3)]
           s == ShiftLeft(a, 8)
<1>1. CrcTurn(crc32_table, a, c) = Xor(s \union c, t)
  BY DEF CrcTurn
<1>2. \A x, y, m : ByteAt(Xor(x, y), m) = Xor(ByteAt(x, m), ByteAt(y, m))
  BY DEF ByteAt, Xor
<1>3. ByteAt(s \union c, 0) = c
  <2>1. \A y \in 0 .. 7 : y + 8 * 0 = y /\ y \notin s
    BY DEF ShiftLeft
  <2>2. c \subseteq 0 .. 7
    BY DEF Byte
  <2> HIDE DEF s
  <2> QED
    BY <2>1, <2>2 DEF ByteAt
<1>4. ASSUME NEW m \in 1 .. 3
      PROVE  ByteAt(s \union c, m) = ByteAt(a, m - 1)
  <2>1. ASSUME NEW y \in 0 .. 7
        PROVE  y + 8 * m \in s \union c <=> y + 8 * (m - 1) \in a
    <3>1. y + 8 * m \in 8 .. 31 /\ (y + 8 * m) - 8 = y + 8 * (m - 1)
      OBVIOUS
    <3>2. y + 8 * m \notin c
      BY <3>1 DEF Byte
    <3> QED
      BY <3>1, <3>2 DEF ShiftLeft
  <2> HIDE DEF s
  <2> QED
    BY <2>1 DEF ByteAt
<1> HIDE DEF s, t
<1> QED
  BY <1>1, <1>2, <1>3, <1>4 DEF t

LEMMA TurnType ==
  ASSUME NEW table \in [Byte -> Word], NEW a \in Word, NEW c \in Byte
  PROVE  CrcTurn(table, a, c) \in Word
<1>1. ByteAt(a, 3) \in Byte /\ c \in Word
  BY WordTypes
<1>3. ShiftLeft(a, 8) \in Word
  BY DEF ShiftLeft, Word
<1>2. ShiftLeft(a, 8) \union c \in Word
  BY <1>1, <1>3 DEF Word
<1>4. table[ByteAt(a, 3)] \in Word
  BY <1>1
<1> QED
  BY <1>2, <1>4, WordTypes DEF CrcTurn

\* Nothing is damaged before the damage.
LEMMA DamageFacts ==
  ASSUME NEW e \in Seq(Byte)
  PROVE  /\ \A i \in Int : i <= 0 => DamageAt(e, i) = {}
         /\ \A i : DamageAt(e, i) \in Byte
<1>1. {} \in Byte
  BY DEF Byte
<1> QED
  BY <1>1 DEF DamageAt

LEMMA XorSides ==
  /\ \A a : Xor(a, {}) = a
  /\ \A a, t, d : Xor(Xor(a, d), t) = Xor(Xor(a, t), d)
BY DEF Xor

\* The turn at which the first damaged byte comes in.
LEMMA FirstDifference ==
  ASSUME NEW a \in Word, NEW d \in Byte, NEW e \in Seq(Byte), DamageAt(e, 1) # {}
  PROVE  Differ(CrcTurn(crc32_table, a, Xor(d, DamageAt(e, 1))),
                CrcTurn(crc32_table, a, d), e, 1)
<1> DEFINE c == Xor(d, DamageAt(e, 1))
           t == crc32_table[ByteAt(a, 3)]
           A == CrcTurn(crc32_table, a, c)
           B == CrcTurn(crc32_table, a, d)
<1>1. c \in Byte /\ c # d
  BY DamageFacts, WordTypes, XorFacts
<1>2. ByteAt(A, 0) = Xor(ByteAt(B, 0), DamageAt(e, 1))
  <2>1. ByteAt(A, 0) = Xor(c, ByteAt(t, 0)) /\ ByteAt(B, 0) = Xor(d, ByteAt(t, 0))
    BY <1>1, TurnBytes
  <2> HIDE DEF A, B, t
  <2> QED
    BY <2>1, XorSides
<1>3. A # B
  <2>1. ByteAt(A, 0) # ByteAt(B, 0)
    <3> HIDE DEF A, B
    <3> QED
      BY <1>2, XorFacts
  <2> QED
    BY <2>1
<1>4. ASSUME NEW m \in 1 .. 3
      PROVE  ByteAt(A, m) = Xor(ByteAt(B, m), DamageAt(e, 1 - m))
  <2>1. ByteAt(A, m) = ByteAt(B, m)
    BY <1>1, TurnBytes
  <2>2. DamageAt(e, 1 - m) = {}
    BY DamageFacts
  <2> HIDE DEF A, B
  <2> QED
    BY <2>1, <2>2, XorSides
<1> HIDE DEF A, B
<1>5. ASSUME NEW m \in 0 .. 3
      PROVE  ByteAt(A, m) = Xor(ByteAt(B, m), DamageAt(e, 1 - m))
  <2>1. CASE m = 0
    BY <1>2, <2>1
  <2>2. CASE m # 0
    BY <1>4, <2>2
  <2> QED
    BY <2>1, <2>2
<1> QED
  BY <1>3, <1>5 DEF Differ, A, B

\* The turns at which further damaged bytes may come in: the same byte is
\* shifted out on both ends, and the difference moves up.
LEMMA LaterDifference ==
  ASSUME NEW a \in Word, NEW b \in Word, NEW d \in Byte, NEW e \in Seq(Byte),
         NEW k \in 1 .. 3, Differ(a, b, e, k)
  PROVE  Differ(CrcTurn(crc32_table, a, Xor(d, DamageAt(e, k + 1))),
                CrcTurn(crc32_table, b, d), e, k + 1)
<1> DEFINE c == Xor(d, DamageAt(e, k + 1))
           t == crc32_table[ByteAt(b, 3)]
           A == CrcTurn(crc32_table, a, c)
           B == CrcTurn(crc32_table, b, d)
<1>1. c \in Byte
  BY DamageFacts, WordTypes
<1>2. \A m \in 0 .. 3 : ByteAt(a, m) = Xor(ByteAt(b, m), DamageAt(e, k - m))
  BY DEF Differ
<1>3. ByteAt(a, 3) = ByteAt(b, 3)
  <2>1. DamageAt(e, k - 3) = {}
    BY DamageFacts
  <2>2. ByteAt(a, 3) = Xor(ByteAt(b, 3), DamageAt(e, k - 3))
    BY <1>2
  <2>3. ByteAt(a, 3) = Xor(ByteAt(b, 3), {})
    BY <2>1, <2>2, Zenon
  <2> QED
    BY <2>3, XorSides, Zenon
<1>4. /\ ByteAt(A, 0) = Xor(c, ByteAt(t, 0)) /\ ByteAt(B, 0) = Xor(d, ByteAt(t, 0))
      /\ \A m \in 1 .. 3 : /\ ByteAt(A, m) = Xor(ByteAt(a, m - 1), ByteAt(t, m))
                           /\ ByteAt(B, m) = Xor(ByteAt(b, m - 1), ByteAt(t, m))
  BY <1>1, <1>3, TurnBytes
<1> HIDE DEF A, B, t
<1>5. ASSUME NEW m \in 0 .. 3
      PROVE  ByteAt(A, m) = Xor(ByteAt(B, m), DamageAt(e, k + 1 - m))
  <2>1. CASE m = 0
    BY <1>4, <2>1, XorSides
  <2>2. CASE m # 0
    <3>1. m \in 1 .. 3 /\ m - 1 \in 0 .. 3 /\ k - (m - 1) = k + 1 - m
      BY <2>2
    <3>2. ByteAt(a, m - 1) = Xor(ByteAt(b, m - 1), DamageAt(e, k + 1 - m))
      BY <1>2, <3>1
    <3> QED
      BY <1>4, <3>1, <3>2, XorSides
  <2> QED
    BY <2>1, <2>2
<1>6. PICK n \in 0 .. 3 : ByteAt(a, n) # ByteAt(b, n)
  BY WordsByBytes DEF Differ
<1>7. A # B
  <2>1. n + 1 \in 1 .. 3 /\ (n + 1) - 1 = n
    BY <1>3, <1>6
  <2>2. \A x, y, z : Xor(x, z) = Xor(y, z) => x = y
    BY DEF Xor
  <2>3. ByteAt(A, n + 1) # ByteAt(B, n + 1)
    <3>1. /\ ByteAt(A, n + 1) = Xor(ByteAt(a, n), ByteAt(t, n + 1))
          /\ ByteAt(B, n + 1) = Xor(ByteAt(b, n), ByteAt(t, n + 1))
      BY <1>4, <2>1
    <3> QED
      BY <1>6, <2>2, <3>1
  <2> QED
    BY <2>3
<1> QED
  BY <1>5, <1>7 DEF Differ, A, B

\* The turns after that, at which equal bytes come in: crcs that differ never
\* become equal again.  This is what the table has to provide.
LEMMA LastingDifference ==
  ASSUME NEW a \in Word, NEW b \in Word, a # b, NEW c \in Byte
  PROVE  CrcTurn(crc32_table, a, c) # CrcTurn(crc32_table, b, c)
<1> DEFINE ta == crc32_table[ByteAt(a, 3)]
           tb == crc32_table[ByteAt(b, 3)]
<1>1. ByteAt(a, 3) \in Byte /\ ByteAt(b, 3) \in Byte
  BY WordTypes
<1>2. CASE ByteAt(a, 3) # ByteAt(b, 3)
  <2>1. ByteAt(ta, 0) # ByteAt(tb, 0)
    BY <1>1, <1>2, TableAssumption
  <2>2. PICK x \in 0 .. 7 : ~(x \in ta <=> x \in tb)
    <3>1. \A y : y + 8 * 0 \in ta <=> y + 8 * 0 \in ta
      OBVIOUS
    <3>2. \A y \in 0 .. 7 : y + 8 * 0 = y
      OBVIOUS
    <3> QED
      BY <2>1, <3>2 DEF ByteAt
  <2>3. x \notin ShiftLeft(a, 8) /\ x \notin ShiftLeft(b, 8)
    BY DEF ShiftLeft
  <2> QED
    BY <2>2, <2>3 DEF CrcTurn, Xor
<1>3. CASE ByteAt(a, 3) = ByteAt(b, 3)
  <2>1. PICK x \in 0 .. 31 : ~(x \in a <=> x \in b)
    BY DEF Word
  <2>2. x \in 0 .. 23
    <3>1. SUFFICES ASSUME x \in 24 .. 31 PROVE FALSE
      BY <2>1
    <3>2. x - 24 \in 0 .. 7 /\ (x - 24) + 8 * 3 = x
      BY <3>1
    <3>3. /\ x \in a <=> x - 24 \in ByteAt(a, 3)
          /\ x \in b <=> x - 24 \in ByteAt(b, 3)
      BY <3>2 DEF ByteAt
    <3> QED
      BY <1>3, <2>1, <3>3
  <2>3. x + 8 \in 8 .. 31 /\ (x + 8) - 8 = x
    BY <2>2
  <2>4. ~(x + 8 \in ShiftLeft(a, 8) <=> x + 8 \in ShiftLeft(b, 8))
    BY <2>1, <2>3 DEF ShiftLeft
  <2>5. x + 8 \notin c
    BY <2>3 DEF Byte
  <2> QED
    BY <1>3, <2>4, <2>5 DEF CrcTurn, Xor
<1> QED
  BY <1>2, <1>3

(***************************************************************************)
(* The inductive invariant.                                                *)
(***************************************************************************)

\* s are the crcs of body, as far as they have been computed.
Chain(body, s) ==
  /\ Len(s) \in 1 .. Len(body) + 1
  /\ s[1] = {}
  /\ \A i \in 1 .. Len(s) - 1 : s[i + 1] = CrcTurn(crc32_table, s[i], body[i])

\* body carries the sequence number of frame n.
Numbered(body, n) ==
  /\ Len(body) >= LenField + 4
  /\ \A i \in 1 .. 4 : body[LenField + i] = SequenceBytes((n - 1) % W, peer.session_key)[i]

\* Byte i of a frame before the peer encrypts it.
Plain(s, i) == IF i <= Len(s.body) THEN s.body[i]
               ELSE ByteAt(s.sums[Len(s.sums)], i - Len(s.body) - 1)

KeyFor(key, i, len) == key[KeyByte(i - LenField - 1, len - LenField) + 1]

FrameOK(s, n) ==
  /\ Chain(s.body, s.sums)
  /\ Len(s.sums) = Len(s.body) + 1
  /\ Numbered(s.body, n)
  /\ Len(s.wire) = Len(s.body) + CrcField
  /\ \A i \in 1 .. Len(s.wire) :
       s.wire[i] = IF i <= LenField THEN Plain(s, i)
                   ELSE Xor(Plain(s, i), KeyFor(peer.xor_key, i, Len(s.wire)))

\* The table is the one meant, and the two ends have the same keys.
Shared == /\ stage \in {"accept", "session"} => entry255 = crc32_table[Last]
          /\ stage = "session" => /\ peer.session_key = ac.session_key
                                  /\ peer.xor_key = ac.xor_key

\* Nothing happens before the keys are chosen.
Quiet == stage # "session" => /\ pc = "idle"
                              /\ making = <<>>
                              /\ sent = <<>>
                              /\ accepted = <<>>

MakingOK == making # <<>> => Chain(making, sums) /\ Numbered(making, Len(sent) + 1)

SentOK == \A n \in 1 .. Len(sent) : FrameOK(sent[n], n)

\* What has been received is the frame it comes from, as damaged.
GotOK ==
  pc = "crc" =>
    LET s == sent[got.frame]
        e == got.damage
    IN /\ got.frame \in 1 .. Len(sent)
       /\ got.next = Len(accepted) + 1
       /\ Near(got.frame)
       /\ Len(got.bytes) = Len(s.body) + CrcField
       /\ e # <<>> => e \in Damages /\ DamageSpot(got.at, e, Len(got.bytes))
       /\ \A i \in 1 .. Len(got.bytes) :
            got.bytes[i] = IF i - got.at \in 0 .. Len(e) - 1
                           THEN Xor(Plain(s, i), e[i - got.at + 1]) ELSE Plain(s, i)

\* How far the server's crc is what the peer's was.
CheckOK ==
  pc = "crc" =>
    LET s == sent[got.frame]
    IN /\ counts \in 0 .. Len(s.body)
       /\ got.damage = <<>> \/ counts < got.at => crc = s.sums[counts + 1]
       /\ got.damage # <<>> /\ got.at <= counts =>
            Differ(crc, s.sums[counts + 1], got.damage, counts - got.at + 1)

Accepted == /\ ac.sequence_id = Len(accepted) % W
            /\ InOrder
            /\ pc = "crc" => verdict = "none"

IInv == /\ TypeOK
        /\ Shared
        /\ Quiet
        /\ MakingOK
        /\ SentOK
        /\ GotOK
        /\ CheckOK
        /\ Accepted
        /\ NextPasses

(***************************************************************************)
(* Preparation.                                                            *)
(***************************************************************************)
LEMMA ZeroIsKey == Zero \in Key
BY DEF Zero, Key, Byte, XOR_KEY_LEN, SizeofInt

LEMMA InitIInv == Init => IInv
<1> SUFFICES ASSUME Init PROVE IInv
  OBVIOUS
<1>1. TypeOK
  <2>1. nm \in [id : [1 .. 2 -> Byte], real_size : 0 .. BUFFER_SIZE,
                buffer : [1 .. BUFFER_SIZE -> Byte]]
    <3>1. <<{}, {}>> \in [1 .. 2 -> Byte]
      BY DEF Byte
    <3>2. [i \in 1 .. BUFFER_SIZE |-> {}] \in [1 .. BUFFER_SIZE -> Byte]
      BY DEF Byte
    <3>3. 0 \in 0 .. BUFFER_SIZE
      BY MessageAssumption
    <3> QED
      BY <3>1, <3>2, <3>3 DEF Init, net_message
  <2>2. /\ ac \in [sequence_id : 0 .. W - 1, session_key : Word, xor_key : Key]
        /\ peer \in [session_key : Word, xor_key : Key]
    BY ZeroIsKey, ProtocolAssumption DEF Init, Word
  <2>3. got \in [frame : Nat, next : Nat, at : Nat, damage : Seq(Byte), bytes : Seq(Byte)]
    BY DEF Init, NoFrame
  <2>4. xor_keys \in [0 .. MAX_XOR_NUM - 1 -> Key] /\ entry255 \in Word /\ crc \in Word
    BY ZeroIsKey DEF Init, Word
  <2> QED
    BY <2>1, <2>2, <2>3, <2>4 DEF Init, TypeOK
<1>2. Shared /\ Quiet /\ MakingOK /\ SentOK /\ GotOK /\ CheckOK
  BY DEF Init, Shared, Quiet, MakingOK, SentOK, GotOK, CheckOK
<1>3. Accepted /\ NextPasses
  <2>1. 0 % W = 0
    BY ProtocolAssumption, ModSmall
  <2> QED
    BY <2>1 DEF Init, Accepted, InOrder, NextPasses
<1> QED
  BY <1>1, <1>2, <1>3 DEF IInv

\* Before the session there is nothing the rest of the invariant is about.
LEMMA QuietStep ==
  ASSUME IInv, TypeOK', Shared', stage # "session", UNCHANGED <<incoming, follows>>,
         ac'.sequence_id = ac.sequence_id
  PROVE  IInv'
<1>1. pc' = "idle" /\ making' = <<>> /\ sent' = <<>> /\ accepted' = <<>>
  BY DEF IInv, Quiet, incoming
<1>2. Quiet' /\ MakingOK' /\ SentOK' /\ GotOK' /\ CheckOK'
  BY <1>1 DEF Quiet, MakingOK, SentOK, GotOK, CheckOK
<1>3. Accepted' /\ NextPasses'
  BY <1>1 DEF IInv, Accepted, InOrder, NextPasses, incoming
<1> QED
  BY <1>2, <1>3 DEF IInv

LEMMA PrepareStep == IInv /\ Prepare => IInv'
<1> SUFFICES ASSUME IInv, Prepare PROVE IInv'
  OBVIOUS
<1> USE DEF outgoing
<1>1. CASE stage = "keys" /\ initial_xor_keys /\ stage' = "table"
  <2>1. WordOf(xor_keys'[0]) \in Word
    BY DEF WordOf, Word
  <2>2. entry255' \in Word
    BY <1>1, <2>1 DEF initial_xor_keys, IInv, TypeOK
  <2>3. xor_keys' \in [0 .. MAX_XOR_NUM - 1 -> Key]
    BY <1>1, ProtocolAssumption DEF initial_xor_keys
  <2>4. TypeOK'
    BY <1>1, <2>2, <2>3 DEF initial_xor_keys, IInv, TypeOK, incoming
  <2>5. Shared'
    BY <1>1 DEF Shared
  <2> QED
    BY <1>1, <2>4, <2>5, QuietStep DEF initial_xor_keys
<1>2. CASE stage = "table" /\ initial_crc32_table /\ stage' = "accept"
  <2>1. entry255' \in Word
    BY <1>2, WordTypes DEF initial_crc32_table, Last, Byte
  <2>2. xor_keys' \in [0 .. MAX_XOR_NUM - 1 -> Key]
    <3>1. xor_keys \in [0 .. MAX_XOR_NUM - 1 -> Key] /\ 0 \in 0 .. MAX_XOR_NUM - 1
      BY ProtocolAssumption DEF IInv, TypeOK
    <3>2. [i \in 1 .. XOR_KEY_LEN |->
             IF i <= 4 THEN ByteAt(entry255', i - 1) ELSE xor_keys[0][i]] \in Key
      <4>1. xor_keys[0] \in Key
        BY <3>1
      <4> QED
        BY <4>1, WordTypes DEF Key
    <3> QED
      BY <1>2, <3>1, <3>2 DEF initial_crc32_table
  <2>3. TypeOK'
    BY <1>2, <2>1, <2>2 DEF initial_crc32_table, IInv, TypeOK, incoming
  <2>4. Shared'
    BY <1>2 DEF Shared, initial_crc32_table
  <2> QED
    BY <1>2, <2>3, <2>4, QuietStep DEF initial_crc32_table
<1> QED
  BY <1>1, <1>2 DEF Prepare

LEMMA SendKeyStep == IInv /\ send_key => IInv'
<1> SUFFICES ASSUME IInv, send_key PROVE IInv'
  OBVIOUS
<1>1. PICK key \in SessionKeys, n \in 0 .. MAX_XOR_NUM - 1 :
        ac' = [sequence_id |-> 0, session_key |-> key, xor_key |-> xor_keys[n]]
  BY DEF send_key
<1>2. /\ ac' \in [sequence_id : 0 .. W - 1, session_key : Word, xor_key : Key]
      /\ peer' \in [session_key : Word, xor_key : Key]
  <2>1. key \in Word /\ xor_keys[n] \in Key /\ 0 \in 0 .. W - 1
    BY ProtocolAssumption DEF IInv, TypeOK
  <2> QED
    BY <1>1, <2>1 DEF send_key
<1>3. TypeOK'
  BY <1>2 DEF send_key, IInv, TypeOK, memory, incoming, outgoing
<1>4. Shared'
  BY DEF send_key, IInv, Shared, memory
<1>5. ac.sequence_id = 0
  <2>1. accepted = <<>> /\ ac.sequence_id = Len(accepted) % W
    BY DEF send_key, IInv, Quiet, Accepted
  <2> QED
    BY <2>1, ProtocolAssumption, ModSmall
<1> QED
  BY <1>1, <1>3, <1>4, <1>5, QuietStep DEF send_key

(***************************************************************************)
(* The peer.                                                               *)
(***************************************************************************)
InContext == /\ stage = "session"
             /\ UNCHANGED <<follows, stage, memory, peer, outgoing>>

\* What an action that leaves the frames sent, or the frame received, alone
\* need not show.
LEMMA SentStays ==
  ASSUME IInv, UNCHANGED <<sent, peer>>
  PROVE  SentOK'
<1>1. ASSUME NEW s, NEW n, FrameOK(s, n) PROVE FrameOK(s, n)'
  BY <1>1 DEF FrameOK, Numbered
<1>2. \A n \in 1 .. Len(sent) : FrameOK(sent[n], n)
  BY DEF IInv, SentOK
<1>3. ASSUME NEW n \in 1 .. Len(sent) PROVE FrameOK(sent[n], n)'
  <2>1. PICK s : s = sent[n]
    OBVIOUS
  <2>2. FrameOK(s, n) /\ sent'[n] = s
    BY <1>2, <2>1
  <2>3. FrameOK(s, n)'
    BY <1>1, <2>2
  <2>4. FrameOK(sent[n], n)' <=> FrameOK(s, n)'
    BY <2>2 DEF FrameOK, Plain
  <2> QED
    BY <2>3, <2>4
<1> QED
  BY <1>3 DEF SentOK

LEMMA GotStays ==
  ASSUME IInv, UNCHANGED <<pc, got, counts, crc, accepted, verdict, peer, ac>>,
         pc = "crc" => sent'[got.frame] = sent[got.frame] /\ got.frame \in 1 .. Len(sent')
  PROVE  GotOK' /\ CheckOK' /\ Accepted' /\ NextPasses'
<1>1. GotOK'
  BY DEF IInv, GotOK, Near, DamageSpot, Plain
<1>2. CheckOK'
  BY DEF IInv, CheckOK
<1>3. Accepted' /\ NextPasses'
  BY DEF IInv, Accepted, InOrder, NextPasses
<1> QED
  BY <1>1, <1>2, <1>3

LEMMA SessionQuiet ==
  ASSUME IInv, InContext, UNCHANGED <<peer, ac>>
  PROVE  Quiet' /\ Shared'
BY DEF IInv, InContext, Quiet, Shared, memory

LEMMA KeyByteType ==
  ASSUME NEW i \in Nat, NEW len
  PROVE  KeyByte(i, len) + 1 \in 1 .. XOR_KEY_LEN
<1>1. i % 16 \in 0 .. 15 /\ i % 4 \in 0 .. 15
  OBVIOUS
<1>2. XOR_KEY_LEN = 16 /\ SizeofInt = 4
  BY DEF XOR_KEY_LEN, SizeofInt
<1>3. KeyByte(i, len) \in 0 .. 15
  BY <1>1, <1>2 DEF KeyByte
<1> QED
  BY <1>2, <1>3

LEMMA BodyFacts ==
  ASSUME NEW n \in Nat, NEW payload \in Seq(Byte)
  PROVE  /\ Body(n, payload) \in Seq(Byte)
         /\ Len(Body(n, payload)) >= LenField + 4
         /\ \A i \in 1 .. 4 :
              Body(n, payload)[LenField + i] = SequenceBytes(n, peer.session_key)[i]
<1> DEFINE head == Bytes(Xor(Number(4 + Len(payload) + CrcField), peer.session_key), LenField)
           numb == SequenceBytes(n, peer.session_key)
<1>1. head \in Seq(Byte) /\ Len(head) = 2
  BY WordTypes DEF Bytes, LenField
<1>2. numb \in Seq(Byte) /\ Len(numb) = 4
  BY WordTypes DEF Bytes, SequenceBytes
<1> HIDE DEF head, numb
<1>8. /\ head \o numb \in Seq(Byte)
      /\ Len(head \o numb) = Len(head) + Len(numb)
      /\ \A i \in 1 .. Len(head) + Len(numb) :
           (head \o numb)[i] = IF i <= Len(head) THEN head[i] ELSE numb[i - Len(head)]
  BY ONLY <1>1, <1>2, ConcatProperties, Zenon
<1>3. head \o numb \in Seq(Byte) /\ Len(head \o numb) = 6
  BY <1>1, <1>2, <1>8
<1>4. ASSUME NEW i \in 1 .. 4 PROVE (head \o numb)[2 + i] = numb[i]
  <2>1. 2 + i \in 1 .. 6 /\ 2 + i > 2 /\ (2 + i) - 2 = i
    OBVIOUS
  <2> QED
    BY SMTT(20), <1>1, <1>2, <1>8, <2>1
<1>5. Body(n, payload) = (head \o numb) \o payload
  BY DEF Body, head, numb
<1>6. Body(n, payload) \in Seq(Byte) /\ Len(Body(n, payload)) >= 6
  BY <1>3, <1>5, ConcatProperties
<1>7. ASSUME NEW i \in 1 .. 4
      PROVE  Body(n, payload)[LenField + i] = SequenceBytes(n, peer.session_key)[i]
  <2>1. 2 + i \in 1 .. Len(head \o numb) /\ 2 + i <= Len(head \o numb)
    BY <1>3
  <2>2. Body(n, payload)[2 + i] = (head \o numb)[2 + i]
    BY <1>3, <1>5, <1>6, <2>1, ConcatProperties
  <2> QED
    BY <1>4, <2>2 DEF LenField, numb
<1> QED
  BY <1>6, <1>7 DEF LenField

LEMMA BeginFrameStep ==
  ASSUME IInv, InContext, UNCHANGED ac, NEW payload \in Payloads, BeginFrame(payload)
  PROVE  IInv'
<1> DEFINE n == Len(sent) % W
<1>1. n \in Nat /\ payload \in Seq(Byte) /\ Len(sent) \in Nat
  <2>1. Len(sent) \in Nat /\ payload \in Seq(Byte) /\ W \in Nat \ {0}
    BY ProtocolAssumption DEF IInv, TypeOK
  <2> QED
    BY <2>1
<1>2. /\ making' \in Seq(Byte)
      /\ Len(making') >= LenField + 4
      /\ \A i \in 1 .. 4 : making'[LenField + i] = SequenceBytes(n, peer.session_key)[i]
  BY <1>1, BodyFacts DEF BeginFrame
<1>3. TypeOK'
  <2>1. sums' \in Seq(Word)
    BY DEF BeginFrame, Word
  <2> QED
    BY <1>2, <2>1 DEF IInv, TypeOK, InContext, BeginFrame, memory, outgoing
<1>4. MakingOK'
  <2>1. sums' = <<{}>> /\ Len(sums') = 1 /\ sums'[1] = {}
    BY DEF BeginFrame
  <2>2. Chain(making', sums')
    BY <1>2, <2>1 DEF Chain, LenField
  <2>3. (Len(sent') + 1) - 1 = Len(sent) /\ peer' = peer
    BY <1>1 DEF BeginFrame, InContext
  <2>4. Numbered(making, Len(sent) + 1)'
    BY <1>2, <2>3 DEF Numbered
  <2> QED
    BY <2>2, <2>4 DEF MakingOK
<1>5. SentOK'
  BY SentStays DEF BeginFrame, InContext
<1>6. GotOK' /\ CheckOK' /\ Accepted' /\ NextPasses'
  BY GotStays DEF BeginFrame, InContext, IInv, GotOK
<1>7. Quiet' /\ Shared'
  BY SessionQuiet DEF InContext
<1> QED
  BY <1>3, <1>4, <1>5, <1>6, <1>7 DEF IInv

LEMMA PeerCrcTurnStep ==
  ASSUME IInv, InContext, UNCHANGED ac, PeerCrcTurn
  PROVE  IInv'
<1>1. /\ Chain(making, sums) /\ Numbered(making, Len(sent) + 1)
      /\ making \in Seq(Byte) /\ sums \in Seq(Word)
      /\ Len(sums) \in 1 .. Len(making)
  <2>1. /\ Chain(making, sums) /\ Numbered(making, Len(sent) + 1)
        /\ making \in Seq(Byte) /\ sums \in Seq(Word)
        /\ Len(sums) <= Len(making)
    BY DEF IInv, MakingOK, PeerCrcTurn, TypeOK
  <2>2. Len(sums) \in 1 .. Len(making) + 1 /\ Len(making) \in Nat
    BY <2>1 DEF Chain
  <2> QED
    BY <2>1, <2>2
<1> DEFINE last == Len(sums)
           turn == CrcTurn(crc32_table, sums[last], making[last])
<1>2. turn \in Word
  <2>1. sums[last] \in Word /\ making[last] \in Byte
    BY <1>1
  <2> QED
    BY <2>1, WordTypes, TurnType
<1>3. /\ sums' = Append(sums, turn) /\ sums' \in Seq(Word) /\ Len(sums') = last + 1
      /\ sums'[last + 1] = turn
      /\ \A i \in 1 .. last : sums'[i] = sums[i]
  BY <1>1, <1>2 DEF PeerCrcTurn
<1>4. making' = making /\ sent' = sent /\ peer' = peer
  BY DEF PeerCrcTurn, InContext
<1>5. TypeOK'
  BY <1>3 DEF IInv, TypeOK, InContext, PeerCrcTurn, memory, outgoing
<1>6. Chain(making', sums')
  <2> SUFFICES ASSUME NEW i \in 1 .. Len(sums') - 1
               PROVE  sums'[i + 1] = CrcTurn(crc32_table, sums'[i], making[i])
    BY <1>1, <1>3, <1>4 DEF Chain
  <2>1. CASE i = last
    BY <1>1, <1>3, <2>1
  <2>2. CASE i \in 1 .. last - 1
    BY <1>1, <1>3, <2>2 DEF Chain
  <2> QED
    BY <1>1, <1>3, <2>1, <2>2
<1>7. MakingOK'
  BY <1>1, <1>4, <1>6 DEF MakingOK, Numbered
<1>8. SentOK'
  BY <1>4, SentStays
<1>9. GotOK' /\ CheckOK' /\ Accepted' /\ NextPasses'
  BY <1>4, GotStays DEF PeerCrcTurn, IInv, GotOK
<1>10. Quiet' /\ Shared'
  BY <1>4, SessionQuiet
<1> QED
  BY <1>5, <1>7, <1>8, <1>9, <1>10 DEF IInv

LEMMA SendFrameStep ==
  ASSUME IInv, InContext, UNCHANGED ac, SendFrame
  PROVE  IInv'
<1>1. /\ Chain(making, sums) /\ Numbered(making, Len(sent) + 1)
      /\ making \in Seq(Byte) /\ sums \in Seq(Word) /\ sent \in Seq(Frame)
      /\ Len(sums) = Len(making) + 1
      /\ peer' = peer /\ peer.xor_key \in Key
      /\ Len(making) \in Nat /\ Len(making) >= 6 /\ Len(sent) \in Nat
  <2>1. /\ making \in Seq(Byte) /\ sums \in Seq(Word) /\ sent \in Seq(Frame)
        /\ peer.xor_key \in Key
    BY DEF IInv, TypeOK
  <2>2. making # <<>> /\ Len(sums) = Len(making) + 1
    BY DEF SendFrame
  <2>3. Chain(making, sums) /\ Numbered(making, Len(sent) + 1)
    BY <2>2 DEF IInv, MakingOK
  <2>4. Len(making) >= 6
    BY <2>3 DEF Numbered, LenField
  <2> QED
    BY <2>1, <2>2, <2>3, <2>4 DEF InContext
<1> DEFINE tail == Bytes(sums[Len(sums)], CrcField)
           plain == making \o tail
           wire == xor_crypt(plain, LenField, peer.xor_key)
           s == [body |-> making, sums |-> sums, wire |-> wire]
<1>2. tail \in Seq(Byte) /\ Len(tail) = CrcField /\ CrcField \in Nat
      /\ \A i \in 1 .. CrcField : tail[i] = ByteAt(sums[Len(sums)], i - 1)
  BY WordTypes DEF Bytes, CrcField
<1> HIDE DEF tail
<1>3. plain \in Seq(Byte) /\ Len(plain) = Len(making) + CrcField
  BY <1>1, <1>2, ConcatProperties
<1>4. \A i \in 1 .. Len(plain) : plain[i] = Plain(s, i)
  <2> SUFFICES ASSUME NEW i \in 1 .. Len(plain) PROVE plain[i] = Plain(s, i)
    OBVIOUS
  <2>1. CASE i <= Len(making)
    <3>1. plain[i] = making[i]
      BY <1>1, <1>2, <1>3, <2>1, ConcatProperties
    <3> QED
      BY <2>1, <3>1 DEF Plain
  <2>2. CASE i > Len(making)
    <3>1. i - Len(making) \in 1 .. CrcField
      BY <1>1, <1>2, <1>3, <2>2
    <3>2. plain[i] = tail[i - Len(making)]
      BY <1>1, <1>2, <1>3, <2>2, <3>1, ConcatProperties
    <3> QED
      BY <1>1, <1>2, <2>2, <3>1, <3>2 DEF Plain
  <2> QED
    BY <1>1, <2>1, <2>2
<1> HIDE DEF plain
<1>5. /\ wire \in Seq(Byte) /\ Len(wire) = Len(plain)
      /\ \A i \in 1 .. Len(plain) :
           wire[i] = IF i <= LenField THEN plain[i]
                     ELSE Xor(plain[i], KeyFor(peer.xor_key, i, Len(plain)))
  <2>1. \A i \in 1 .. Len(plain) : plain[i] \in Byte
    BY <1>3
  <2>2. ASSUME NEW i \in 1 .. Len(plain), ~(i <= LenField)
        PROVE  KeyFor(peer.xor_key, i, Len(plain)) \in Byte
    <3>1. i - LenField - 1 \in Nat
      BY <1>3, <2>2 DEF LenField
    <3>2. KeyByte(i - LenField - 1, Len(plain) - LenField) + 1 \in 1 .. XOR_KEY_LEN
      BY <3>1, KeyByteType
    <3> QED
      BY <1>1, <3>2 DEF KeyFor, Key
  <2>3. \A i \in 1 .. Len(plain) : wire[i] \in Byte
    BY <2>1, <2>2, WordTypes DEF xor_crypt, KeyFor
  <2>4. Len(plain) \in Nat
    BY <1>3
  <2>5. wire \in [1 .. Len(plain) -> Byte]
    BY <2>3 DEF xor_crypt
  <2>6. wire \in Seq(Byte) /\ Len(wire) = Len(plain)
    BY <2>4, <2>5
  <2> QED
    BY <2>6 DEF xor_crypt, KeyFor
<1> HIDE DEF wire
<1>6. sent' = Append(sent, s) /\ making' = <<>>
  BY DEF SendFrame, plain, tail, wire
<1>7. s \in Frame
  BY <1>1, <1>5 DEF Frame
<1>8. /\ sent' \in Seq(Frame) /\ Len(sent') = Len(sent) + 1
      /\ sent'[Len(sent) + 1] = s
      /\ \A n \in 1 .. Len(sent) : sent'[n] = sent[n]
  BY <1>1, <1>6, <1>7
<1>9. TypeOK'
  BY SMTT(20), <1>6, <1>8 DEF IInv, TypeOK, InContext, SendFrame, memory, outgoing
<1>10. FrameOK(s, Len(sent) + 1)
  <2>1. s.body = making /\ s.sums = sums /\ s.wire = wire
    OBVIOUS
  <2>2. \A i \in 1 .. Len(wire) :
          wire[i] = IF i <= LenField THEN Plain(s, i)
                    ELSE Xor(Plain(s, i), KeyFor(peer.xor_key, i, Len(wire)))
    BY <1>4, <1>5
  <2> HIDE DEF s
  <2> QED
    BY <1>1, <1>3, <1>5, <2>1, <2>2 DEF FrameOK
<1>11. SentOK'
  <2> SUFFICES ASSUME NEW n \in 1 .. Len(sent') PROVE FrameOK(sent'[n], n)
    BY <1>1 DEF SentOK, FrameOK, Numbered, KeyFor, Plain
  <2>1. CASE n = Len(sent) + 1
    BY <1>8, <1>10, <2>1
  <2>2. CASE n \in 1 .. Len(sent)
    BY <1>8, <2>2 DEF IInv, SentOK
  <2> QED
    BY <1>1, <1>8, <2>1, <2>2
<1>12. MakingOK'
  BY <1>6 DEF MakingOK
<1>13. GotOK' /\ CheckOK' /\ Accepted' /\ NextPasses'
  <2>1. pc = "crc" => got.frame \in 1 .. Len(sent)
    BY DEF IInv, GotOK
  <2>2. pc = "crc" => sent'[got.frame] = sent[got.frame] /\ got.frame \in 1 .. Len(sent')
    BY <1>1, <1>8, <2>1
  <2> QED
    BY <1>1, <2>2, GotStays DEF SendFrame
<1>14. Quiet' /\ Shared'
  BY <1>1, SessionQuiet
<1> QED
  BY <1>9, <1>11, <1>12, <1>13, <1>14 DEF IInv

\* A function of the first n numbers is a sequence.
LEMMA SequenceOfLength ==
  ASSUME NEW S, NEW n \in Nat, NEW d \in [1 .. n -> S]
  PROVE  d \in Seq(S) /\ Len(d) = n
OBVIOUS

(***************************************************************************)
(* The server.                                                             *)
(***************************************************************************)
LEMMA ReceiveStep ==
  ASSUME IInv, InContext, UNCHANGED ac, ReceiveFrame
  PROVE  IInv'
<1>1. PICK f \in 1 .. Len(sent), at \in Nat, e \in Seq(Byte) :
        /\ Receive(f, at, e)
        /\ e # <<>> => e \in Damages /\ DamageSpot(at, e, Len(sent[f].wire))
  <2>1. PICK f \in 1 .. Len(sent) :
          \/ Receive(f, 0, <<>>)
          \/ \E e \in Damages, at \in 1 .. Len(sent[f].wire) :
               DamageSpot(at, e, Len(sent[f].wire)) /\ Receive(f, at, e)
    BY DEF ReceiveFrame
  <2>2. CASE Receive(f, 0, <<>>)
    <3>1. 0 \in Nat /\ <<>> \in Seq(Byte)
      OBVIOUS
    <3> QED
      BY <2>2, <3>1
  <2>3. CASE \E e \in Damages, at \in 1 .. Len(sent[f].wire) :
               DamageSpot(at, e, Len(sent[f].wire)) /\ Receive(f, at, e)
    BY <2>3, ProtocolAssumption
  <2> QED
    BY <2>1, <2>2, <2>3
<1> DEFINE s == sent[f]
           w == s.wire
           d == Damaged(w, at, e)
           bytes == xor_decrypt(d, LenField, ac.xor_key)
           Hit(i) == i - at \in 0 .. Len(e) - 1
<1>2. /\ FrameOK(s, f)
      /\ s \in Frame /\ w \in Seq(Byte) /\ s.body \in Seq(Byte) /\ s.sums \in Seq(Word)
      /\ Len(w) = Len(s.body) + CrcField
      /\ Len(w) \in Nat
      /\ \A i \in 1 .. Len(w) :
           w[i] = IF i <= LenField THEN Plain(s, i)
                  ELSE Xor(Plain(s, i), KeyFor(ac.xor_key, i, Len(w)))
  <2>1. FrameOK(s, f) /\ s \in Frame
    BY DEF IInv, SentOK, TypeOK
  <2>2. peer.xor_key = ac.xor_key
    BY DEF IInv, Shared, InContext
  <2> QED
    BY <2>1, <2>2 DEF FrameOK, Frame
<1>3. /\ d \in [1 .. Len(w) -> Byte]
      /\ \A i \in 1 .. Len(w) : d[i] = IF Hit(i) THEN Xor(w[i], e[i - at + 1]) ELSE w[i]
  <2>1. ASSUME NEW i \in 1 .. Len(w)
        PROVE  (IF Hit(i) THEN Xor(w[i], e[i - at + 1]) ELSE w[i]) \in Byte
    <3>1. w[i] \in Byte
      BY <1>2
    <3>2. Hit(i) => e[i - at + 1] \in Byte
      OBVIOUS
    <3> QED
      BY <3>1, <3>2, WordTypes
  <2> QED
    BY <2>1 DEF Damaged
<1>4. d \in Seq(Byte) /\ Len(d) = Len(w)
  <2> HIDE DEF d
  <2>1. d \in [1 .. Len(w) -> Byte] /\ Len(w) \in Nat
    BY <1>2, <1>3
  <2> QED
    BY <2>1, SequenceOfLength
<1> HIDE DEF d
<1>5. /\ bytes \in [1 .. Len(w) -> Byte]
      /\ \A i \in 1 .. Len(w) :
           bytes[i] = IF i <= LenField THEN d[i]
                      ELSE Xor(d[i], KeyFor(ac.xor_key, i, Len(w)))
  <2>1. ASSUME NEW i \in 1 .. Len(w), ~(i <= LenField)
        PROVE  KeyFor(ac.xor_key, i, Len(w)) \in Byte
    <3>1. i - LenField - 1 \in Nat
      BY <1>2, <2>1 DEF LenField
    <3>2. ac.xor_key \in Key
      BY DEF IInv, TypeOK
    <3> QED
      BY <3>1, <3>2, KeyByteType DEF KeyFor, Key
  <2>2. \A i \in 1 .. Len(w) : d[i] \in Byte
    BY <1>3
  <2>3. \A i \in 1 .. Len(w) :
          (IF i <= LenField THEN d[i] ELSE Xor(d[i], KeyFor(ac.xor_key, i, Len(w)))) \in Byte
    BY <2>1, <2>2, WordTypes
  <2> QED
    BY <1>4, <2>3 DEF xor_decrypt, xor_crypt, KeyFor
<1>6. bytes \in Seq(Byte) /\ Len(bytes) = Len(w)
  <2> HIDE DEF bytes
  <2>1. bytes \in [1 .. Len(w) -> Byte] /\ Len(w) \in Nat
    BY <1>2, <1>5
  <2> QED
    BY <2>1, SequenceOfLength
<1> HIDE DEF bytes
<1>7. ASSUME NEW i \in 1 .. Len(w)
      PROVE  bytes[i] = IF Hit(i) THEN Xor(Plain(s, i), e[i - at + 1]) ELSE Plain(s, i)
  <2>1. CASE i <= LenField
    BY <1>2, <1>3, <1>5, <2>1
  <2>2. CASE ~(i <= LenField)
    <3> DEFINE k == KeyFor(ac.xor_key, i, Len(w))
    <3>1. w[i] = Xor(Plain(s, i), k) /\ bytes[i] = Xor(d[i], k)
      BY <1>2, <1>5, <2>2
    <3> HIDE DEF k
    <3>2. CASE Hit(i)
      BY <1>3, <3>1, <3>2, XorFacts
    <3>3. CASE ~Hit(i)
      BY <1>3, <3>1, <3>3, XorFacts
    <3> QED
      BY <3>2, <3>3
  <2> QED
    BY <2>1, <2>2
<1>8. /\ got' = [frame |-> f, next |-> Len(accepted) + 1, at |-> at, damage |-> e, bytes |-> bytes]
      /\ pc' = "crc" /\ counts' = 0 /\ crc' = {} /\ verdict' = "none"
      /\ Near(f)
      /\ UNCHANGED <<making, sums, sent, accepted, peer, ac, stage>>
  BY <1>1 DEF Receive, bytes, d, InContext
<1>9. TypeOK'
  <2>1. f \in Nat /\ Len(accepted) + 1 \in Nat
    BY DEF IInv, TypeOK
  <2>2. got' \in [frame : Nat, next : Nat, at : Nat, damage : Seq(Byte), bytes : Seq(Byte)]
    BY <1>6, <1>8, <2>1
  <2>3. crc' \in Word
    BY <1>8 DEF Word
  <2> QED
    BY <1>8, <2>2, <2>3 DEF IInv, TypeOK, InContext, memory, outgoing
<1>10. GotOK'
  BY <1>1, <1>2, <1>6, <1>7, <1>8 DEF GotOK, Near, DamageSpot, Plain
<1>11. CheckOK'
  <2>1. s.sums[1] = {} /\ Len(s.body) \in Nat
    BY <1>2 DEF FrameOK, Chain
  <2>2. e # <<>> => 3 <= at
    <3>1. e # <<>> => DamageSpot(at, e, Len(w))
      BY <1>1
    <3>2. Len(s.body) >= 6
      BY <1>2 DEF FrameOK, Numbered, LenField
    <3> QED
      BY <1>2, <2>1, <3>1, <3>2 DEF DamageSpot, LenField, CrcField
  <2> QED
    BY <1>8, <2>1, <2>2 DEF CheckOK
<1>12. Accepted' /\ NextPasses'
  BY <1>8 DEF IInv, Accepted, InOrder, NextPasses
<1>13. MakingOK' /\ SentOK' /\ Quiet' /\ Shared'
  <2>1. MakingOK'
    BY <1>8 DEF IInv, MakingOK, Numbered
  <2>2. Quiet' /\ Shared'
    BY <1>8, SessionQuiet
  <2> QED
    BY <1>8, <2>1, <2>2, SentStays
<1> QED
  BY <1>9, <1>10, <1>11, <1>12, <1>13 DEF IInv

LEMMA TableIsMeant ==
  ASSUME IInv, stage = "session"
  PROVE  Table = crc32_table
<1>1. entry255 = crc32_table[Last]
  BY DEF IInv, Shared
<1>2. \A i \in Byte : Table[i] = crc32_table[i]
  BY <1>1 DEF Table
<1>3. crc32_table \in [Byte -> Word] /\ Table = [i \in Byte |-> Table[i]]
  BY WordTypes DEF Table
<1> QED
  BY <1>2, <1>3

\* What is known of the frame that is being checked.
LEMMA Checking ==
  ASSUME IInv, pc = "crc"
  PROVE  LET s == sent[got.frame]
         IN /\ got.frame \in 1 .. Len(sent)
            /\ FrameOK(s, got.frame)
            /\ s.body \in Seq(Byte) /\ s.sums \in Seq(Word)
            /\ Len(s.body) \in Nat /\ Len(s.body) >= 6
            /\ Len(s.sums) = Len(s.body) + 1
            /\ Len(got.bytes) = Len(s.body) + 4
            /\ got.bytes \in Seq(Byte) /\ got.at \in Nat
            /\ crc \in Word
            /\ counts \in 0 .. Len(s.body)
            /\ got.damage # <<>> => /\ Len(got.damage) \in 1 .. 4
                                    /\ got.damage[1] # {}
                                    /\ got.at >= 3
            /\ got.damage = <<>> => Len(got.damage) = 0
<1> DEFINE s == sent[got.frame]
           e == got.damage
<1>1. got.frame \in 1 .. Len(sent) /\ Len(got.bytes) = Len(s.body) + 4
      /\ (e # <<>> => e \in Damages /\ DamageSpot(got.at, e, Len(got.bytes)))
  BY DEF IInv, GotOK, CrcField
<1>2. FrameOK(s, got.frame) /\ s \in Frame
  BY <1>1 DEF IInv, SentOK, TypeOK
<1>3. s.body \in Seq(Byte) /\ s.sums \in Seq(Word) /\ Len(s.body) \in Nat /\ Len(s.body) >= 6
  BY <1>2 DEF FrameOK, Frame, Numbered, LenField
<1>4. e # <<>> => Len(e) \in 1 .. 4 /\ e[1] # {}
  BY <1>1, ProtocolAssumption
<1>5. got.bytes \in Seq(Byte) /\ got.at \in Nat /\ crc \in Word
  BY DEF IInv, TypeOK
<1>6. e # <<>> => got.at >= 3
  BY <1>1, <1>3, <1>4, <1>5 DEF DamageSpot, LenField, CrcField
<1> QED
  BY <1>1, <1>2, <1>3, <1>4, <1>5, <1>6 DEF IInv, CheckOK, FrameOK

LEMMA TurnStep ==
  ASSUME IInv, InContext, UNCHANGED ac, generate_crc32_turn
  PROVE  IInv'
<1> DEFINE s == sent[got.frame]
           e == got.damage
           n == counts + 1
           sum == s.sums[n]
           b == got.bytes[n]
           p == s.body[n]
<1>1. pc = "crc" /\ stage = "session"
  BY DEF generate_crc32_turn, InContext
<1>2. /\ FrameOK(s, got.frame)
      /\ s.body \in Seq(Byte) /\ s.sums \in Seq(Word) /\ got.bytes \in Seq(Byte)
      /\ Len(s.body) \in Nat /\ Len(s.sums) = Len(s.body) + 1
      /\ Len(got.bytes) = Len(s.body) + 4
      /\ crc \in Word /\ got.at \in Nat /\ got.frame \in 1 .. Len(sent)
      /\ e # <<>> => Len(e) \in 1 .. 4 /\ e[1] # {} /\ got.at >= 3
      /\ e = <<>> => Len(e) = 0
      /\ counts \in 0 .. Len(s.body)
  BY <1>1, Checking
<1>3. n \in 1 .. Len(s.body) /\ counts \in Nat
  BY <1>2 DEF generate_crc32_turn, CrcField
<1>4. b \in Byte /\ p \in Byte /\ sum \in Word
  BY SMTT(20), <1>2, <1>3
<1>5. s.sums[n + 1] = CrcTurn(crc32_table, sum, p)
  BY <1>2, <1>3 DEF FrameOK, Chain
<1>6. /\ crc' = CrcTurn(crc32_table, crc, b) /\ counts' = n
      /\ UNCHANGED <<making, sums, sent, got, pc, accepted, verdict, peer, ac, stage>>
  BY <1>1, TableIsMeant DEF generate_crc32_turn, InContext
<1>7. b = IF n - got.at \in 0 .. Len(e) - 1 THEN Xor(p, e[n - got.at + 1]) ELSE p
  <2>1. n \in 1 .. Len(got.bytes) /\ Plain(s, n) = p
    BY <1>2, <1>3 DEF Plain
  <2> QED
    BY <1>1, <2>1 DEF IInv, GotOK
<1>15. b = Xor(p, DamageAt(e, n - got.at + 1)) /\ e \in Seq(Byte)
  <2>1. e \in Seq(Byte)
    BY DEF IInv, TypeOK
  <2> HIDE DEF e, b, p
  <2>2. n - got.at \in Int /\ Len(e) \in Nat
    BY <1>2, <1>3, <2>1
  <2>3. n - got.at + 1 \in 1 .. Len(e) <=> n - got.at \in 0 .. Len(e) - 1
    BY <2>2
  <2> QED
    BY <1>7, <2>1, <2>3, XorSides DEF DamageAt
<1>8. /\ e = <<>> \/ counts < got.at => crc = sum
      /\ e # <<>> /\ got.at <= counts => Differ(crc, sum, e, counts - got.at + 1)
  BY <1>1 DEF IInv, CheckOK
<1> HIDE DEF s, e, sum, b, p
<1>9. e = <<>> \/ n < got.at => crc' = s.sums[n + 1]
  <2> SUFFICES ASSUME e = <<>> \/ n < got.at PROVE crc' = s.sums[n + 1]
    OBVIOUS
  <2>1. b = p
    BY <1>2, <1>3, <1>7
  <2>2. crc = sum
    BY <1>2, <1>3, <1>8
  <2> QED
    BY <1>5, <1>6, <2>1, <2>2
<1>10. e # <<>> /\ got.at <= n => Differ(crc', s.sums[n + 1], e, n - got.at + 1)
  <2> SUFFICES ASSUME e # <<>>, got.at <= n
               PROVE  Differ(crc', s.sums[n + 1], e, n - got.at + 1)
    OBVIOUS
  <2>1. CASE got.at = n
    <3>4. n - got.at + 1 = 1
      BY <1>2, <1>3, <2>1
    <3>1. b = Xor(p, DamageAt(e, 1)) /\ DamageAt(e, 1) # {}
      BY <1>2, <1>15, <3>4 DEF DamageAt
    <3>2. crc = sum
      BY <1>2, <1>3, <1>8, <2>1
    <3>3. Differ(CrcTurn(crc32_table, sum, b), CrcTurn(crc32_table, sum, p), e, 1)
      BY <1>4, <1>15, <3>1, FirstDifference
    <3> QED
      BY <1>5, <1>6, <3>2, <3>3, <3>4
  <2>2. CASE got.at < n
    <3> DEFINE k == counts - got.at + 1
    <3>1. k \in Nat /\ k >= 1 /\ n - got.at + 1 = k + 1 /\ n - got.at = k
      <4>1. got.at \in Nat /\ counts \in Nat /\ got.at < counts + 1
        BY <1>2, <1>3, <2>2
      <4> HIDE DEF s, e, sum, b, p
      <4> QED
        BY <4>1
    <3>2. Differ(crc, sum, e, k)
      BY <1>2, <1>3, <1>8, <2>2
    <3> HIDE DEF k
    <3>3. CASE k <= 3
      <4>1. k \in 1 .. 3
        BY <3>1, <3>3
      <4>2. Differ(CrcTurn(crc32_table, crc, b), CrcTurn(crc32_table, sum, p), e, k + 1)
        BY <1>2, <1>4, <1>15, <3>1, <3>2, <4>1, LaterDifference
      <4> QED
        BY <1>5, <1>6, <3>1, <4>2
    <3>4. CASE k > 3
      <4>1. b = p
        <5>1. Len(e) \in 0 .. 4
          BY <1>2
        <5>2. \A m \in Nat, l \in 0 .. 4 : m > 3 => m \notin 0 .. l - 1
          OBVIOUS
        <5>3. k \notin 0 .. Len(e) - 1
          BY <3>1, <3>4, <5>1, <5>2, Zenon
        <5>4. n - got.at \notin 0 .. Len(e) - 1
          BY <3>1, <5>3, Zenon
        <5> QED
          BY <1>7, <5>4
      <4>2. CrcTurn(crc32_table, crc, p) # CrcTurn(crc32_table, sum, p)
        BY <1>2, <1>4, <3>2, LastingDifference DEF Differ
      <4>3. ~(k + 1 <= 3)
        BY <3>1, <3>4
      <4> QED
        BY <1>5, <1>6, <3>1, <4>1, <4>2, <4>3 DEF Differ
    <3> QED
      BY <3>1, <3>3, <3>4
  <2> QED
    BY <1>2, <1>3, <2>1, <2>2
<1>11. CheckOK'
  BY <1>3, <1>6, <1>9, <1>10 DEF CheckOK, s, e
<1>12. TypeOK'
  <2>1. crc' \in Word
    BY <1>2, <1>4, <1>6, WordTypes, TurnType
  <2> QED
    BY <1>3, <1>6, <2>1 DEF IInv, TypeOK, InContext, memory, outgoing
<1>13. GotOK' /\ SentOK' /\ MakingOK'
  <2>1. GotOK'
    BY <1>6 DEF IInv, GotOK, Near, DamageSpot, Plain
  <2>2. MakingOK'
    BY <1>6 DEF IInv, MakingOK, Numbered
  <2> QED
    BY <1>6, <2>1, <2>2, SentStays
<1>14. Accepted' /\ NextPasses' /\ Quiet' /\ Shared'
  <2>1. Accepted' /\ NextPasses'
    BY <1>6 DEF IInv, Accepted, InOrder, NextPasses
  <2> QED
    BY <1>6, <2>1, SessionQuiet
<1> QED
  BY <1>11, <1>12, <1>13, <1>14 DEF IInv

\* check_crc32 lets undamaged frames pass, and of the others only those whose
\* damage is mirrored.
LEMMA IntactIsMirrored ==
  ASSUME IInv, pc = "crc", counts = Len(got.bytes) - CrcField
  PROVE  /\ got.damage = <<>> => Intact
         /\ Intact /\ got.damage # <<>> =>
              Mirrored(got.at, got.damage, Len(got.bytes)) /\ got.at > Len(got.bytes) - 6
<1> DEFINE s == sent[got.frame]
           e == got.damage
           at == got.at
           last == s.sums[counts + 1]
<1>1. /\ s.sums \in Seq(Word) /\ Len(s.sums) = counts + 1
      /\ counts = Len(s.body) /\ counts \in Nat /\ counts >= 6
      /\ Len(got.bytes) = counts + 4
      /\ at \in Nat /\ crc \in Word
      /\ e # <<>> => Len(e) \in 1 .. 4 /\ e[1] # {}
      /\ e = <<>> => Len(e) = 0
  <2>1. /\ s.sums \in Seq(Word) /\ Len(s.sums) = Len(s.body) + 1
        /\ Len(s.body) \in Nat /\ Len(s.body) >= 6
        /\ Len(got.bytes) = Len(s.body) + 4
        /\ at \in Nat /\ crc \in Word
        /\ e # <<>> => Len(e) \in 1 .. 4 /\ e[1] # {}
        /\ e = <<>> => Len(e) = 0
    BY Checking
  <2> HIDE DEF s, e, at
  <2>2. counts = Len(s.body)
    BY <2>1 DEF CrcField
  <2> QED
    BY <2>1, <2>2
<1>2. last \in Word
  BY <1>1
<1>3. \A i \in 1 .. 4 : Plain(s, counts + i) = ByteAt(last, i - 1)
  <2> SUFFICES ASSUME NEW i \in 1 .. 4
               PROVE  Plain(s, counts + i) = ByteAt(last, i - 1)
    OBVIOUS
  <2>1. ~(counts + i <= Len(s.body)) /\ counts + i - Len(s.body) - 1 = i - 1
    <3> HIDE DEF s
    <3> QED
      BY <1>1
  <2> QED
    BY SMTT(20), <1>1, <2>1 DEF Plain
<1>4. \A i \in 1 .. 4 :
        got.bytes[counts + i] = IF (counts + i) - at \in 0 .. Len(e) - 1
                                THEN Xor(Plain(s, counts + i), e[(counts + i) - at + 1])
                                ELSE Plain(s, counts + i)
  <2> SUFFICES ASSUME NEW i \in 1 .. 4
               PROVE  got.bytes[counts + i] =
                        IF (counts + i) - at \in 0 .. Len(e) - 1
                        THEN Xor(Plain(s, counts + i), e[(counts + i) - at + 1])
                        ELSE Plain(s, counts + i)
    OBVIOUS
  <2>1. counts + i \in 1 .. Len(got.bytes)
    <3> HIDE DEF s, e, at
    <3> QED
      BY <1>1
  <2>2. \A n \in 1 .. Len(got.bytes) :
          got.bytes[n] = IF n - at \in 0 .. Len(e) - 1
                         THEN Xor(Plain(s, n), e[n - at + 1]) ELSE Plain(s, n)
    BY DEF IInv, GotOK
  <2> HIDE DEF s, e, at
  <2> QED
    BY <2>1, <2>2
<1>5. \A i \in 1 .. 4 : Bytes(crc, CrcField)[i] = ByteAt(crc, i - 1)
  BY DEF Bytes, CrcField
<1>6. /\ e = <<>> \/ counts < at => crc = last
      /\ e # <<>> /\ at <= counts => Differ(crc, last, e, counts - at + 1)
  BY DEF IInv, CheckOK
<1>7. e # <<>> => DamageSpot(at, e, counts + 4)
  BY <1>1 DEF IInv, GotOK
<1> HIDE DEF s, e, at, last
<1>8. CASE e = <<>>
  <2>1. \A i \in 1 .. 4 : (counts + i) - at \notin 0 .. Len(e) - 1
    <3>1. Len(e) = 0
      BY <1>1, <1>8
    <3> QED
      BY <3>1
  <2>2. \A i \in 1 .. 4 : got.bytes[counts + i] = Bytes(crc, CrcField)[i]
    BY <1>3, <1>4, <1>5, <1>6, <1>8, <2>1
  <2> QED
    BY <1>8, <2>2 DEF Intact, CrcField, e
<1>9. CASE e # <<>>
  <2> SUFFICES ASSUME Intact
               PROVE  Mirrored(at, e, counts + 4) /\ at > counts + 4 - 6
    BY <1>1, <1>9 DEF e, at
  <2> DEFINE l == Len(e)
  <2>1. l \in 1 .. 4 /\ e[1] # {}
    BY <1>1, <1>9
  <2> HIDE DEF l
  <2>2. \A i \in 1 .. 4 : got.bytes[counts + i] = ByteAt(crc, i - 1)
    BY <1>5 DEF Intact, CrcField
  <2>3. \/ at + l - 1 <= counts
        \/ counts + 1 <= at /\ at + l - 1 <= counts + 4
        \/ at <= counts /\ at + l - 1 > counts
    BY <1>1, <1>7, <1>9, <2>1 DEF DamageSpot, l
  <2>4. CASE at + l - 1 <= counts
    <3>1. at <= counts
      BY <1>1, <2>1, <2>4
    <3>2. crc # last
      BY <1>6, <1>9, <3>1 DEF Differ
    <3>3. \A i \in 1 .. 4 : (counts + i) - at \notin 0 .. l - 1
      BY SMTT(20), <1>1, <2>1, <2>4
    <3>4. \A i \in 1 .. 4 : ByteAt(crc, i - 1) = ByteAt(last, i - 1)
      BY <1>3, <1>4, <2>2, <3>3 DEF l
    <3>5. \A i \in 0 .. 3 : ByteAt(crc, i) = ByteAt(last, i)
      <4> SUFFICES ASSUME NEW i \in 0 .. 3 PROVE ByteAt(crc, i) = ByteAt(last, i)
        OBVIOUS
      <4>1. i + 1 \in 1 .. 4 /\ (i + 1) - 1 = i
        OBVIOUS
      <4> QED
        BY <3>4, <4>1
    <3> QED
      BY <1>1, <1>2, <3>2, <3>5, WordsByBytes
  <2>5. CASE counts + 1 <= at /\ at + l - 1 <= counts + 4
    <3> DEFINE j == at - counts
    <3>1. j \in 1 .. 4 /\ (counts + j) - at = 0 /\ (counts + j) - at + 1 = 1 /\ counts < at
      BY SMTT(20), <1>1, <2>1, <2>5
    <3>2. 0 \in 0 .. l - 1
      BY <2>1
    <3> HIDE DEF j
    <3>3. got.bytes[counts + j] = Xor(ByteAt(last, j - 1), e[1])
      BY <1>3, <1>4, <3>1, <3>2 DEF l
    <3>4. got.bytes[counts + j] = ByteAt(last, j - 1)
      BY <1>6, <2>2, <3>1
    <3> QED
      BY <2>1, <3>3, <3>4, XorFacts
  <2>6. CASE at <= counts /\ at + l - 1 > counts
    <3> DEFINE k == counts - at + 1
    <3>1. k \in 1 .. 3 /\ k < l
      BY <1>1, <2>1, <2>6
    <3>2. \A m \in 0 .. 3 : ByteAt(crc, m) = Xor(ByteAt(last, m), DamageAt(e, k - m))
      BY <1>6, <1>9, <2>6, <3>1 DEF Differ
    <3>3. ASSUME NEW i \in 1 .. 4
          PROVE  DamageAt(e, k + i) = DamageAt(e, k + 1 - i)
      <4>1. got.bytes[counts + i] = Xor(ByteAt(last, i - 1), DamageAt(e, k + i))
        <5>1. (counts + i) - at + 1 = k + i /\ (counts + i) - at \in Int
          BY <1>1
        <5>2. (counts + i) - at \in 0 .. Len(e) - 1 <=> k + i \in 1 .. Len(e)
          BY <2>1, <5>1 DEF l
        <5> HIDE DEF k
        <5> QED
          BY <1>3, <1>4, <5>1, <5>2, XorSides DEF DamageAt
      <4>2. got.bytes[counts + i] = Xor(ByteAt(last, i - 1), DamageAt(e, k + 1 - i))
        <5>1. i - 1 \in 0 .. 3 /\ k - (i - 1) = k + 1 - i
          BY <3>1
        <5> HIDE DEF k
        <5> QED
          BY <2>2, <3>2, <5>1
      <4>3. \A x, y, z : Xor(x, y) = Xor(x, z) => y = z
        BY DEF Xor
      <4> HIDE DEF k
      <4> QED
        BY <4>1, <4>2, <4>3
    <3>4. ASSUME NEW i \in 1 .. l
          PROVE  DamageAt(e, i) = DamageAt(e, 2 * k + 1 - i)
      <4> HIDE DEF k
      <4>1. CASE i <= k
        <5>1. k + 1 - i \in 1 .. 4 /\ k + (k + 1 - i) = 2 * k + 1 - i /\ k + 1 - (k + 1 - i) = i
          BY <2>1, <3>1, <4>1
        <5> QED
          BY <3>3, <5>1
      <4>2. CASE i > k
        <5>1. i - k \in 1 .. 4 /\ k + (i - k) = i /\ k + 1 - (i - k) = 2 * k + 1 - i
          BY <2>1, <3>1, <4>2
        <5> QED
          BY <3>3, <5>1
      <4> QED
        BY <2>1, <3>1, <4>1, <4>2
    <3>5. \A i \in 1 .. l : e[i] = DamageAt(e, i)
      BY DEF DamageAt, l
    <3>6. 2 * ((counts + 4) - 4 - at) + 3 = 2 * k + 1
      BY <1>1
    <3>7. Mirrored(at, e, counts + 4)
      <4>1. ASSUME NEW i \in 1 .. Len(e)
            PROVE  e[i] = DamageAt(e, 2 * ((counts + 4) - CrcField - at) + 3 - i)
        <5>1. e[i] = DamageAt(e, 2 * k + 1 - i)
          <6> HIDE DEF k
          <6> QED
            BY <3>4, <3>5 DEF l
        <5>2. 2 * ((counts + 4) - CrcField - at) + 3 - i = 2 * k + 1 - i
          <6>1. i \in Int /\ counts \in Int /\ at \in Int
            BY <1>1, <2>1
          <6> QED
            BY <3>6, <6>1 DEF CrcField
        <5> HIDE DEF k
        <5> QED
          BY <5>1, <5>2
      <4> QED
        BY <4>1 DEF Mirrored
    <3>8. k <= 2
      <4>1. 1 \in 1 .. l /\ DamageAt(e, 1) # {}
        BY <2>1 DEF DamageAt, l
      <4> HIDE DEF k
      <4>2. DamageAt(e, 2 * k + 1 - 1) # {}
        BY <3>4, <4>1
      <4>3. 2 * k + 1 - 1 \in 1 .. l
        BY <4>2 DEF DamageAt, l
      <4> QED
        BY <2>1, <3>1, <4>3
    <3> QED
      BY <1>1, <3>7, <3>8
  <2> QED
    BY <2>3, <2>4, <2>5, <2>6
<1> QED
  BY <1>8, <1>9

\* Sequence numbers that look the same under one key are the same.
LEMMA SequenceBytesInjective ==
  ASSUME NEW a \in 0 .. W - 1, NEW b \in 0 .. W - 1, NEW key,
         \A i \in 1 .. 4 : SequenceBytes(a, key)[i] = SequenceBytes(b, key)[i]
  PROVE  a = b
<1>1. \A x, y, k : Xor(x, k) = Xor(y, k) => x = y
  BY DEF Xor
<1>2. \A x, i : ByteAt(Xor(x, key), i) = Xor(ByteAt(x, i), ByteAt(key, i))
  BY DEF ByteAt, Xor
<1>3. \A n : \A i \in 1 .. 4 :
        SequenceBytes(n, key)[i] = Xor(ByteAt(Number(n), i - 1), ByteAt(key, i - 1))
  BY <1>2 DEF SequenceBytes, Bytes
<1>4. \A i \in 1 .. 4 : ByteAt(Number(a), i - 1) = ByteAt(Number(b), i - 1)
  <2> SUFFICES ASSUME NEW i \in 1 .. 4
               PROVE  ByteAt(Number(a), i - 1) = ByteAt(Number(b), i - 1)
    OBVIOUS
  <2>1. Xor(ByteAt(Number(a), i - 1), ByteAt(key, i - 1)) =
        Xor(ByteAt(Number(b), i - 1), ByteAt(key, i - 1))
    BY <1>3, Zenon
  <2> QED
    BY <1>1, <2>1, Zenon
<1>5. Bytes(Number(a), 4) = Bytes(Number(b), 4)
  BY <1>4 DEF Bytes
<1> QED
  BY <1>5, ProtocolAssumption

\* The comparison of the sequence number is exact: it lets the next frame
\* pass, and no other less than a lap away.
LEMMA ExpectedIsNext ==
  ASSUME IInv, stage = "session", pc = "crc", NumberIntact(got.at, got.damage)
  PROVE  Expected <=> got.frame = Len(accepted) + 1
<1> DEFINE s == sent[got.frame]
           f == got.frame
           l == Len(accepted)
<1>1. FrameOK(s, f) /\ f \in Nat /\ l \in Nat /\ W \in Nat \ {0} /\ Len(got.bytes) = Len(s.body) + 4
      /\ (Len(got.damage) = 0 \/ got.at > 6) /\ Len(got.damage) \in Nat
        /\ Len(s.body) \in Nat /\ Len(s.body) >= 6 /\ got.at \in Nat
  <2>1. /\ f \in 1 .. Len(sent) /\ FrameOK(s, f) /\ Len(got.bytes) = Len(s.body) + 4
        /\ (Len(got.damage) = 0 \/ got.at > 6) /\ Len(got.damage) \in Nat
        /\ Len(s.body) \in Nat /\ Len(s.body) >= 6 /\ got.at \in Nat
    BY Checking DEF NumberIntact, LenField
  <2>2. f \in Nat
    BY DEF IInv, TypeOK
  <2>3. l \in Nat /\ W \in Nat \ {0}
    BY ProtocolAssumption DEF IInv, TypeOK
  <2> QED
    BY <2>1, <2>2, <2>3
<1>2. \A i \in 1 .. 4 : got.bytes[LenField + i] = SequenceBytes((f - 1) % W, ac.session_key)[i]
  <2> SUFFICES ASSUME NEW i \in 1 .. 4
               PROVE  got.bytes[2 + i] = SequenceBytes((f - 1) % W, ac.session_key)[i]
    BY DEF LenField
  <2>1. 2 + i \in 1 .. Len(got.bytes) /\ 2 + i <= Len(s.body)
    BY <1>1
  <2>2. (2 + i) - got.at \notin 0 .. Len(got.damage) - 1
    BY <1>1
  <2>3. got.bytes[2 + i] = s.body[2 + i]
    <3>1. ASSUME NEW n \in 1 .. Len(got.bytes), n - got.at \notin 0 .. Len(got.damage) - 1
          PROVE  got.bytes[n] = Plain(s, n)
      BY <3>1 DEF IInv, GotOK
    <3>3. got.bytes[2 + i] = Plain(s, 2 + i)
      <4> HIDE DEF s
      <4> DEFINE n == 2 + i
      <4>1. n \in 1 .. Len(got.bytes) /\ n - got.at \notin 0 .. Len(got.damage) - 1
        BY <2>1, <2>2
      <4> HIDE DEF n
      <4>2. got.bytes[n] = Plain(s, n)
        BY <3>1, <4>1
      <4> QED
        BY <4>2 DEF n
    <3>2. Plain(s, 2 + i) = s.body[2 + i]
      BY <2>1 DEF Plain
    <3> QED
      BY <3>2, <3>3
  <2>4. peer.session_key = ac.session_key
    BY DEF IInv, Shared
  <2> QED
    BY <1>1, <2>3, <2>4 DEF FrameOK, Numbered, LenField
<1>3. ac.sequence_id = l % W
  BY DEF IInv, Accepted
<1>4. (l + 1) - W < f /\ f < l + 1 + W
  <2>1. Near(f)
    BY DEF IInv, GotOK
  <2> HIDE DEF f
  <2> QED
    BY <2>1 DEF Near, l
<1>5. (f - 1) % W \in 0 .. W - 1 /\ l % W \in 0 .. W - 1
  <2>1. f - 1 \in Int /\ l \in Int
    BY <1>1
  <2> HIDE DEF f, l
  <2> QED
    BY <1>1, <2>1, ModSplit
<1>6. CASE f = l + 1
  <2>1. (f - 1) % W = ac.sequence_id
    BY <1>1, <1>3, <1>6
  <2> QED
    BY <1>2, <1>6, <2>1 DEF Expected
<1>7. CASE f # l + 1
  <2> SUFFICES ASSUME Expected PROVE FALSE
    BY <1>7
  <2>1. \A i \in 1 .. 4 : SequenceBytes((f - 1) % W, ac.session_key)[i] =
                          SequenceBytes(l % W, ac.session_key)[i]
    BY <1>2, <1>3 DEF Expected
  <2>2. (f - 1) % W = l % W
    BY <1>5, <2>1, SequenceBytesInjective
  <2>3. (f - 1) - l < W /\ l - (f - 1) < W /\ f - 1 \in Int /\ l \in Int
    BY <1>1, <1>4
  <2>4. f - 1 = l
    BY <1>1, <2>2, <2>3, ModInjective
  <2> QED
    BY <1>1, <1>7, <2>4
<1> QED
  BY <1>6, <1>7

LEMMA FinishStep ==
  ASSUME IInv, InContext, Finish
  PROVE  IInv'
<1>1. /\ pc = "crc" /\ stage = "session" /\ pc' = "idle"
      /\ counts = Len(got.bytes) - CrcField
      /\ UNCHANGED <<making, sums, sent, got, counts, crc, peer, stage>>
  BY DEF Finish, InContext
<1>2. MakingOK' /\ SentOK' /\ GotOK' /\ CheckOK' /\ Quiet'
  <2>1. MakingOK'
    BY <1>1 DEF IInv, MakingOK, Numbered
  <2>2. GotOK' /\ CheckOK' /\ Quiet'
    BY <1>1 DEF GotOK, CheckOK, Quiet
  <2> QED
    BY <1>1, <2>1, <2>2, SentStays
<1> DEFINE kind == DamageKind(got.at, got.damage, Len(got.bytes))
           number == NumberIntact(got.at, got.damage)
<1>3. /\ got.damage = <<>> => Intact /\ number
      /\ Intact => kind \in {"none", "mirrored"}
  BY <1>1, IntactIsMirrored DEF DamageKind, NumberIntact
<1>4. number => (Expected <=> got.frame = Len(accepted) + 1)
  BY <1>1, ExpectedIsNext
<1> HIDE DEF kind, number
<1>5. got.next = Len(accepted) + 1
  BY <1>1 DEF IInv, GotOK
<1>6. CASE Intact /\ Expected
  <2> DEFINE l == Len(accepted)
             new == [frame |-> got.frame, number |-> number, damage |-> kind]
             Kind == [frame : Nat, number : BOOLEAN, damage : {"none", "mirrored", "other"}]
  <2>1. /\ ac' = [ac EXCEPT !.sequence_id = (@ + 1) % W]
        /\ accepted' = Append(accepted, new)
        /\ verdict' = "passed"
    BY <1>6 DEF Finish, kind, number
  <2>2. accepted' = Append(accepted, new) /\ new.number = number /\ new.frame = got.frame
          /\ new.damage = kind
    BY <2>1
  <2>3. accepted \in Seq(Kind) /\ l \in Nat /\ new \in Kind
    <3>1. number \in BOOLEAN /\ kind \in {"none", "mirrored", "other"}
      BY DEF number, kind, NumberIntact, DamageKind
    <3>2. accepted \in Seq(Kind) /\ got.frame \in Nat
      BY DEF IInv, TypeOK
    <3> QED
      BY <3>1, <3>2
  <2> HIDE DEF new
  <2>4. /\ accepted' \in Seq(Kind) /\ Len(accepted') = l + 1 /\ accepted'[l + 1] = new
        /\ \A i \in 1 .. l : accepted'[i] = accepted[i]
    <3> HIDE DEF Kind
    <3> QED
      BY <2>2, <2>3
  <2>5. /\ ac \in [sequence_id : 0 .. W - 1, session_key : Word, xor_key : Key]
        /\ ac.sequence_id = l % W /\ W \in Nat \ {0}
    BY ProtocolAssumption DEF IInv, TypeOK, Accepted
  <2>6. (ac.sequence_id + 1) % W \in 0 .. W - 1
    BY <2>5, ModSplit
  <2>7. (ac.sequence_id + 1) % W = (l + 1) % W
    <3>1. /\ l = W * (l \div W) + (l % W) /\ l \div W \in Int /\ l % W \in Int
      BY <2>3, <2>5, ModSplit
    <3> DEFINE q == l \div W
               r == l % W
    <3> HIDE DEF q, r
    <3>2. l = W * q + r /\ q \in Int /\ r \in Int
      BY <3>1 DEF q, r
    <3>3. l + 1 = (r + 1) + W * q /\ r + 1 \in Int
      BY <2>3, <2>5, <3>2
    <3>4. ((r + 1) + W * q) % W = (r + 1) % W
      BY <2>5, <3>2, <3>3, ModLaps
    <3> QED
      BY <2>5, <3>3, <3>4 DEF r
  <2>8. /\ ac' \in [sequence_id : 0 .. W - 1, session_key : Word, xor_key : Key]
        /\ ac'.sequence_id = (l + 1) % W
        /\ ac'.session_key = ac.session_key /\ ac'.xor_key = ac.xor_key
    BY <2>1, <2>5, <2>6, <2>7
  <2>9. TypeOK'
    BY <1>1, <2>1, <2>4, <2>8 DEF IInv, TypeOK, InContext, memory, outgoing
  <2>10. Shared'
    BY <1>1, <2>8 DEF IInv, Shared, InContext, memory
  <2>11. InOrder'
    <3> SUFFICES ASSUME NEW i \in 1 .. Len(accepted')
                 PROVE  /\ accepted'[i].number => accepted'[i].frame = i
                        /\ accepted'[i].damage \in {"none", "mirrored"}
      BY DEF InOrder
    <3>1. CASE i = l + 1
      BY <1>3, <1>4, <1>6, <2>2, <2>4, <3>1
    <3>2. CASE i \in 1 .. l
      BY <2>4, <3>2 DEF IInv, Accepted, InOrder
    <3> QED
      BY <2>3, <2>4, <3>1, <3>2
  <2>12. Accepted' /\ NextPasses'
    BY <1>1, <2>1, <2>4, <2>8, <2>11 DEF Accepted, NextPasses
  <2> QED
    BY <1>2, <2>9, <2>10, <2>12 DEF IInv
<1>7. CASE ~(Intact /\ Expected)
  <2>1. verdict' = "refused" /\ UNCHANGED <<ac, accepted>>
    BY <1>7 DEF Finish
  <2>2. TypeOK'
    BY <1>1, <2>1 DEF IInv, TypeOK, InContext, memory, outgoing
  <2>3. Shared' /\ Accepted'
    BY <1>1, <2>1 DEF IInv, Shared, Accepted, InOrder, InContext, memory
  <2>4. NextPasses'
    BY <1>1, <1>3, <1>4, <1>5, <1>7 DEF NextPasses
  <2> QED
    BY <1>2, <2>2, <2>3, <2>4 DEF IInv
<1> QED
  BY <1>6, <1>7

(***************************************************************************)
(* The way out, on which the server keeps within its message's buffer.     *)
(***************************************************************************)
Message == [id : [1 .. 2 -> Byte], real_size : 0 .. BUFFER_SIZE,
            buffer : [1 .. BUFFER_SIZE -> Byte]]

LEMMA OutStep ==
  ASSUME IInv, Out
  PROVE  nm' \in Message /\ put' \in Seq(Byte)
<1> USE DEF Message
<1>1. nm \in Message /\ put \in Seq(Byte) /\ BUFFER_SIZE \in Nat
  BY MessageAssumption DEF IInv, TypeOK
<1>2. ASSUME NEW id \in Ids, SetId(id) PROVE nm' \in Message /\ put' \in Seq(Byte)
  BY <1>1, <1>2, ProtocolAssumption DEF SetId, set_id
<1>3. ASSUME NEW v \in Values, Put(v) PROVE nm' \in Message /\ put' \in Seq(Byte)
  <2>1. v \in Seq(Byte)
    BY ProtocolAssumption
  <2>2. CASE HasRoom(nm, Len(v))
    <3>1. nm' = pop_ptr(nm, v) /\ put' = put \o v
      BY <1>3, <2>2 DEF Put
    <3>2. nm.real_size + Len(v) \in 0 .. BUFFER_SIZE
      BY <1>1, <2>1, <2>2 DEF HasRoom
    <3>3. Stored(nm, nm.real_size, v) \in [1 .. BUFFER_SIZE -> Byte]
      <4> SUFFICES ASSUME NEW i \in 1 .. BUFFER_SIZE
                   PROVE  (IF i - nm.real_size \in 1 .. Len(v)
                           THEN v[i - nm.real_size] ELSE nm.buffer[i]) \in Byte
        BY DEF Stored
      <4>1. nm.buffer[i] \in Byte
        BY <1>1
      <4>2. i - nm.real_size \in 1 .. Len(v) => v[i - nm.real_size] \in Byte
        BY <2>1
      <4> QED
        BY <4>1, <4>2
    <3>4. nm' \in Message
      BY <1>1, <3>1, <3>2, <3>3 DEF pop_ptr
    <3>5. put \o v \in Seq(Byte)
      BY <1>1, <2>1, ConcatProperties
    <3> QED
      BY <3>1, <3>4, <3>5
  <2> QED
    BY <1>1, <1>3, <2>2 DEF Put
<1>4. ASSUME BeginAgain PROVE nm' \in Message /\ put' \in Seq(Byte)
  <2>1. 0 \in 0 .. BUFFER_SIZE /\ <<>> \in Seq(Byte)
    BY <1>1
  <2> QED
    BY <1>1, <1>4, <2>1 DEF BeginAgain, set_real_size
<1>5. ASSUME NEW n \in Rooms, transform_message_to_buffer(n)
      PROVE  nm' \in Message /\ put' \in Seq(Byte)
  BY <1>1, <1>5 DEF transform_message_to_buffer
<1>6. ASSUME NewMessage PROVE nm' \in Message /\ put' \in Seq(Byte)
  <2>1. net_message \in Message
    BY <1>1, MessageAssumption DEF net_message, Byte
  <2> QED
    BY <1>6, <2>1 DEF NewMessage
<1> QED
  BY <1>2, <1>3, <1>4, <1>5, <1>6 DEF Out, MakeMessage

(***************************************************************************)
(* The theorems.                                                           *)
(***************************************************************************)
LEMMA Stays ==
  ASSUME IInv, UNCHANGED <<follows, stage, memory, ac, peer, incoming>>,
         nm' \in Message /\ put' \in Seq(Byte)
  PROVE  IInv'
<1>1. TypeOK'
  BY DEF IInv, TypeOK, memory, incoming, Message
<1>2. Shared' /\ Quiet' /\ MakingOK'
  BY DEF IInv, Shared, Quiet, MakingOK, Numbered, memory, incoming
<1>3. SentOK' /\ GotOK' /\ CheckOK' /\ Accepted' /\ NextPasses'
  BY SentStays, GotStays DEF IInv, GotOK, incoming
<1> QED
  BY <1>1, <1>2, <1>3 DEF IInv

LEMMA StepIInv == IInv /\ [Next]_vars => IInv'
<1> SUFFICES ASSUME IInv, [Next]_vars PROVE IInv'
  OBVIOUS
<1>1. CASE Prepare
  BY <1>1, PrepareStep
<1>2. CASE send_key
  BY <1>2, SendKeyStep
<1>3. CASE Session
  <2>1. CASE In /\ UNCHANGED outgoing
    <3>1. InContext
      BY <1>3, <2>1 DEF Session, InContext
    <3> QED
      BY <2>1, <3>1, BeginFrameStep, PeerCrcTurnStep, SendFrameStep, ReceiveStep, TurnStep,
         FinishStep
      DEF In, Peer
  <2>2. CASE Out /\ UNCHANGED <<ac, incoming>>
    BY <1>3, <2>2, OutStep, Stays DEF Session
  <2> QED
    BY <1>3, <2>1, <2>2 DEF Session
<1>4. CASE UNCHANGED vars
  BY <1>4, Stays DEF vars, outgoing, IInv, TypeOK, Message
<1> QED
  BY <1>1, <1>2, <1>3, <1>4 DEF Next

\* The invariant holds in every state, whatever the peer and the network do.
THEOREM Invariant == Spec => []IInv
BY InitIInv, StepIInv, PTL DEF Spec

\* Everything is of its kind, and the cursor of a message stays inside its
\* buffer, whatever is put into it.
THEOREM TypeCorrect == Spec => []TypeOK
<1>1. IInv => TypeOK
  BY DEF IInv
<1> QED
  BY <1>1, Invariant, PTL

\* What transform_buffer_to_message lets pass are the frames sent, each once and
\* in order, for frames of any length and sequence numbers of any width; of the
\* damage to up to four neighbouring bytes, wherever they are, only that passes
\* which is the same on both sides of where the crc32 begins, in a mirror.
THEOREM PassedInOrder == Spec => []InOrder
<1>1. IInv => InOrder
  BY DEF IInv, Accepted
<1> QED
  BY <1>1, Invariant, PTL

\* The next frame is never refused if it is undamaged, wherever the table of
\* the checksum ends.
THEOREM NextAlwaysPasses == Spec => []NextPasses
<1>1. IInv => NextPasses
  BY DEF IInv
<1> QED
  BY <1>1, Invariant, PTL

(***************************************************************************)
(* What the peer reads of a message.                                       *)
(***************************************************************************)
\* The buffer begins with the values put into it, over whatever was there.
Holds == /\ nm.real_size = Len(put)
         /\ \A i \in 1 .. Len(put) : nm.buffer[i] = put[i]

\* Byte i of the message's frame, behind the length.
Told(i) == IF i <= 4 THEN nm.id[i - 2]
           ELSE IF i <= HeaderLen THEN Bytes(Number(Len(put)), 2)[i - 4]
           ELSE put[i - HeaderLen]

\* What is stored of a message is the message it still is, encrypted.
Written ==
  \/ out.stored = <<>>
  \/ /\ stage = "session"
     /\ out.room \in Nat /\ HeaderLen + Len(put) <= out.room
     /\ out.stored = [i \in LenField + 1 .. HeaderLen + Len(put) |->
                        Xor(Told(i), KeyFor(peer.xor_key, i, HeaderLen + Len(put)))]

OutInv == IInv /\ Holds /\ Written

LEMMA InitOutInv == Init => OutInv
<1> SUFFICES ASSUME Init PROVE OutInv
  OBVIOUS
<1>1. Holds
  BY DEF Init, Holds, net_message
<1>2. Written
  BY DEF Init, Written, NotWritten
<1> QED
  BY <1>1, <1>2, InitIInv DEF OutInv

\* Putting a value behind those that are there.
LEMMA PutHolds ==
  ASSUME OutInv, NEW v \in Values, Put(v)
  PROVE  Holds'
<1>1. /\ nm \in Message /\ put \in Seq(Byte) /\ v \in Seq(Byte) /\ Len(put) \in Nat /\ Len(v) \in Nat
      /\ nm.real_size = Len(put) /\ BUFFER_SIZE \in Nat
      /\ \A i \in 1 .. Len(put) : nm.buffer[i] = put[i]
  <2>1. nm \in Message /\ put \in Seq(Byte)
    BY DEF OutInv, IInv, TypeOK, Message
  <2>2. v \in Seq(Byte) /\ BUFFER_SIZE \in Nat
    BY ProtocolAssumption, MessageAssumption
  <2>3. nm.real_size = Len(put) /\ \A i \in 1 .. Len(put) : nm.buffer[i] = put[i]
    BY DEF OutInv, Holds
  <2>4. Len(put) \in Nat /\ Len(v) \in Nat
    BY <2>1, <2>2
  <2> QED
    BY <2>1, <2>2, <2>3, <2>4
<1>2. CASE HasRoom(nm, Len(v))
  <2>1. nm' = pop_ptr(nm, v) /\ put' = put \o v
    BY <1>2 DEF Put
  <2>2. /\ Len(put') = Len(put) + Len(v)
        /\ \A i \in 1 .. Len(put') :
             put'[i] = IF i <= Len(put) THEN put[i] ELSE v[i - Len(put)]
    BY <1>1, <2>1, ConcatProperties
  <2>3. /\ nm'.real_size = Len(put) + Len(v)
        /\ nm'.buffer = Stored(nm, Len(put), v)
    BY <1>1, <2>1 DEF pop_ptr, Message
  <2>4. Len(put) + Len(v) < BUFFER_SIZE
    BY <1>1, <1>2 DEF HasRoom
  <2>5. ASSUME NEW i \in 1 .. Len(put) + Len(v) PROVE nm'.buffer[i] = put'[i]
    <3>1. nm'.buffer[i] = IF i - Len(put) \in 1 .. Len(v) THEN v[i - Len(put)] ELSE nm.buffer[i]
      BY <1>1, <2>3, <2>4 DEF Stored
    <3>2. CASE i <= Len(put)
      <4>1. i \in 1 .. Len(put) /\ ~(i - Len(put) \in 1 .. Len(v))
        BY <1>1, <3>2
      <4> QED
        BY <1>1, <2>2, <3>1, <3>2, <4>1
    <3>3. CASE ~(i <= Len(put))
      <4>1. i - Len(put) \in 1 .. Len(v)
        BY <1>1, <3>3
      <4> QED
        BY <2>2, <3>1, <3>3, <4>1
    <3> QED
      BY <3>2, <3>3
  <2> QED
    BY <2>2, <2>3, <2>5 DEF Holds
<1>3. CASE ~HasRoom(nm, Len(v))
  BY <1>3 DEF Put, OutInv, Holds
<1> QED
  BY <1>2, <1>3

LEMMA MakingHolds ==
  ASSUME OutInv, MakeMessage
  PROVE  Holds' /\ out' = out /\ out = NotWritten
<1>1. nm \in Message
  BY DEF OutInv, IInv, TypeOK, Message
<1>2. out = NotWritten /\ out' = out
  BY DEF MakeMessage
<1>3. ASSUME NEW id \in Ids, SetId(id) PROVE Holds'
  BY <1>1, <1>3 DEF SetId, set_id, OutInv, Holds, Message
<1>4. ASSUME BeginAgain PROVE Holds'
  BY <1>1, <1>4 DEF BeginAgain, set_real_size, Holds, Message
<1> QED
  BY <1>2, <1>3, <1>4, PutHolds DEF MakeMessage

LEMMA PairIsSeq ==
  ASSUME NEW f \in [1 .. 2 -> Byte]
  PROVE  f \in Seq(Byte) /\ Len(f) = 2
<1>1. f \in Seq(Byte)
  BY SeqDef
<1>2. DOMAIN f = 1 .. 2 /\ DOMAIN f = 1 .. Len(f) /\ Len(f) \in Nat
  BY <1>1, LenProperties
<1> QED
  BY <1>1, <1>2

\* The bytes transform_message_to_buffer encrypts.
Joined(a, b, c, d) == a \o b \o c \o d

LEMMA PlainBytes ==
  ASSUME NEW a \in Seq(Byte), NEW b \in Seq(Byte), NEW c \in Seq(Byte), NEW d \in Seq(Byte),
         Len(a) = 2, Len(b) = 2, Len(c) = 2
  PROVE  /\ Len(Joined(a, b, c, d)) = 6 + Len(d)
         /\ \A i \in 3 .. 6 + Len(d) : Joined(a, b, c, d)[i] =
              IF i <= 4 THEN b[i - 2] ELSE IF i <= 6 THEN c[i - 4] ELSE d[i - 6]
<1>1. /\ a \o b \in Seq(Byte) /\ Len(a \o b) = 4
      /\ \A i \in 1 .. 4 : (a \o b)[i] = IF i <= 2 THEN a[i] ELSE b[i - 2]
  <2>1. /\ a \o b \in Seq(Byte) /\ Len(a \o b) = Len(a) + Len(b)
        /\ \A i \in 1 .. Len(a) + Len(b) :
             (a \o b)[i] = IF i <= Len(a) THEN a[i] ELSE b[i - Len(a)]
    BY ConcatProperties
  <2> QED
    BY <2>1
<1>2. /\ (a \o b) \o c \in Seq(Byte) /\ Len((a \o b) \o c) = 6
      /\ \A i \in 1 .. 6 : ((a \o b) \o c)[i] = IF i <= 4 THEN (a \o b)[i] ELSE c[i - 4]
  <2> DEFINE s == a \o b
  <2>0. s \in Seq(Byte) /\ Len(s) = 4
    BY <1>1
  <2> HIDE DEF s
  <2>1. /\ s \o c \in Seq(Byte) /\ Len(s \o c) = Len(s) + Len(c)
        /\ \A i \in 1 .. Len(s) + Len(c) :
             (s \o c)[i] = IF i <= Len(s) THEN s[i] ELSE c[i - Len(s)]
    BY <2>0, ConcatProperties
  <2>2. /\ s \o c \in Seq(Byte) /\ Len(s \o c) = 6
        /\ \A i \in 1 .. 6 : (s \o c)[i] = IF i <= 4 THEN s[i] ELSE c[i - 4]
    BY <2>0, <2>1
  <2> QED
    BY <2>2 DEF s
<1>3. /\ ((a \o b) \o c) \o d \in Seq(Byte) /\ Len(((a \o b) \o c) \o d) = 6 + Len(d)
      /\ \A i \in 1 .. 6 + Len(d) :
           (((a \o b) \o c) \o d)[i] = IF i <= 6 THEN ((a \o b) \o c)[i] ELSE d[i - 6]
  <2> DEFINE s == (a \o b) \o c
  <2>0. s \in Seq(Byte) /\ Len(s) = 6
    BY <1>2
  <2> HIDE DEF s
  <2>1. /\ s \o d \in Seq(Byte) /\ Len(s \o d) = Len(s) + Len(d)
        /\ \A i \in 1 .. Len(s) + Len(d) :
             (s \o d)[i] = IF i <= Len(s) THEN s[i] ELSE d[i - Len(s)]
    BY <2>0, ConcatProperties
  <2>2. /\ s \o d \in Seq(Byte) /\ Len(s \o d) = 6 + Len(d)
        /\ \A i \in 1 .. 6 + Len(d) : (s \o d)[i] = IF i <= 6 THEN s[i] ELSE d[i - 6]
    BY <2>0, <2>1
  <2> QED
    BY <2>2 DEF s
<1>4. ASSUME NEW i \in 3 .. 6 + Len(d)
      PROVE  (((a \o b) \o c) \o d)[i] =
               IF i <= 4 THEN b[i - 2] ELSE IF i <= 6 THEN c[i - 4] ELSE d[i - 6]
  <2>1. Len(d) \in Nat
    BY LenProperties
  <2>2. i \in 1 .. 6 + Len(d) /\ (i <= 6 => i \in 1 .. 6) /\ (i <= 4 => i \in 1 .. 4 /\ ~(i <= 2))
    BY <2>1
  <2>3. CASE i <= 4
    BY <1>1, <1>2, <1>3, <2>2, <2>3
  <2>4. CASE ~(i <= 4) /\ i <= 6
    BY <1>2, <1>3, <2>2, <2>4
  <2>5. CASE ~(i <= 6)
    BY <1>3, <2>2, <2>5
  <2> QED
    BY <2>3, <2>4, <2>5
<1> QED
  BY <1>3, <1>4 DEF Joined

LEMMA TransformWritten ==
  ASSUME OutInv, stage = "session", NEW room \in Rooms, transform_message_to_buffer(room),
         UNCHANGED <<stage, peer>>
  PROVE  Holds' /\ Written'
<1> DEFINE size == nm.real_size
           plain == Bytes({}, LenField) \o nm.id \o Bytes(Number(size), 2) \o get_data(nm, size)
           crypted == xor_crypt(plain, LenField, ac.xor_key)
           len == HeaderLen + Len(put)
<1>1. /\ nm \in Message /\ put \in Seq(Byte) /\ Len(put) \in Nat /\ size = Len(put)
      /\ size \in 0 .. BUFFER_SIZE /\ BUFFER_SIZE \in Nat
      /\ nm.id \in [1 .. 2 -> Byte] /\ nm.buffer \in [1 .. BUFFER_SIZE -> Byte]
      /\ \A i \in 1 .. Len(put) : nm.buffer[i] = put[i]
  BY MessageAssumption DEF OutInv, IInv, TypeOK, Holds, Message
<1>2. /\ out'.room = room
      /\ out'.stored = IF Fits(size, room)
                       THEN [i \in LenField + 1 .. Len(crypted) |-> crypted[i]] ELSE <<>>
      /\ UNCHANGED <<nm, put>>
  BY DEF transform_message_to_buffer
<1>3. Holds'
  BY <1>2 DEF OutInv, Holds
<1>4. peer.xor_key = ac.xor_key
  BY DEF OutInv, IInv, Shared
<1>5. /\ Bytes({}, LenField) \in Seq(Byte) /\ Len(Bytes({}, LenField)) = 2
      /\ nm.id \in Seq(Byte) /\ Len(nm.id) = 2
      /\ Bytes(Number(size), 2) \in Seq(Byte) /\ Len(Bytes(Number(size), 2)) = 2
  <2>1. ASSUME NEW w PROVE Bytes(w, 2) \in [1 .. 2 -> Byte]
    BY WordTypes DEF Bytes
  <2>2. LenField = 2
    BY DEF LenField
  <2>3. \A f \in [1 .. 2 -> Byte] : f \in Seq(Byte) /\ Len(f) = 2
    BY PairIsSeq
  <2> HIDE DEF size
  <2> QED
    BY <1>1, <2>1, <2>2, <2>3
<1>6. /\ get_data(nm, size) \in Seq(Byte) /\ Len(get_data(nm, size)) = Len(put)
      /\ \A i \in 1 .. Len(put) : get_data(nm, size)[i] = put[i]
  <2>1. \A i \in 1 .. size : nm.buffer[i] \in Byte
    BY <1>1
  <2>2. size \in Int /\ 1 \in Int
    BY <1>1
  <2> HIDE DEF size
  <2>3. /\ SubSeq(nm.buffer, 1, size) \in Seq(Byte)
        /\ Len(SubSeq(nm.buffer, 1, size)) = IF 1 <= size THEN size - 1 + 1 ELSE 0
        /\ \A i \in 1 .. size - 1 + 1 : SubSeq(nm.buffer, 1, size)[i] = nm.buffer[1 + i - 1]
    BY <2>1, <2>2, SubSeqProperties
  <2>4. \A i \in 1 .. size : SubSeq(nm.buffer, 1, size)[i] = nm.buffer[i]
    BY <1>1, <2>3
  <2>5. Len(SubSeq(nm.buffer, 1, size)) = size
    BY <1>1, <2>3
  <2> QED
    BY <1>1, <2>3, <2>4, <2>5 DEF get_data
<1>7. /\ Len(plain) = len
      /\ \A i \in 3 .. len : plain[i] = Told(i)
  <2> DEFINE a == Bytes({}, LenField)
             b == nm.id
             c == Bytes(Number(size), 2)
             d == get_data(nm, size)
  <2>1. /\ a \in Seq(Byte) /\ b \in Seq(Byte) /\ c \in Seq(Byte) /\ d \in Seq(Byte)
        /\ Len(a) = 2 /\ Len(b) = 2 /\ Len(c) = 2 /\ Len(d) = Len(put)
    BY <1>5, <1>6
  <2> HIDE DEF a, b, c, d
  <2>2. /\ Len(Joined(a, b, c, d)) = 6 + Len(d)
        /\ \A i \in 3 .. 6 + Len(d) : Joined(a, b, c, d)[i] =
             IF i <= 4 THEN b[i - 2] ELSE IF i <= 6 THEN c[i - 4] ELSE d[i - 6]
    BY <2>1, PlainBytes
  <2>3. Joined(a, b, c, d) = plain
    BY DEF Joined, a, b, c, d
  <2>4. b = nm.id /\ c = Bytes(Number(Len(put)), 2)
    BY <1>1 DEF b, c
  <2>5. \A i \in 1 .. Len(put) : d[i] = put[i]
    BY <1>6 DEF d
  <2> HIDE DEF plain
  <2>6. ASSUME NEW i \in 3 .. len PROVE plain[i] = Told(i)
    <3>1. i \in 3 .. 6 + Len(d) /\ (~(i <= 6) => i - 6 \in 1 .. Len(put))
      BY <1>1, <2>1 DEF HeaderLen
    <3>2. plain[i] = IF i <= 4 THEN b[i - 2] ELSE IF i <= 6 THEN c[i - 4] ELSE d[i - 6]
      BY <2>2, <2>3, <3>1
    <3> QED
      BY <2>4, <2>5, <3>1, <3>2 DEF Told, HeaderLen
  <2> QED
    BY <2>1, <2>2, <2>3, <2>6 DEF HeaderLen
<1> HIDE DEF plain
<1>8. /\ Len(crypted) = len
      /\ \A i \in LenField + 1 .. len : crypted[i] = Xor(Told(i), KeyFor(peer.xor_key, i, len))
  <2>1. crypted = [i \in 1 .. len |->
          IF i <= LenField THEN plain[i]
          ELSE Xor(plain[i], ac.xor_key[KeyByte(i - LenField - 1, len - LenField) + 1])]
    BY <1>7 DEF xor_crypt
  <2>2. len \in Nat
    BY <1>1 DEF HeaderLen
  <2> HIDE DEF crypted, len
  <2>3. Len(crypted) = len
    BY <2>1, <2>2
  <2>4. ASSUME NEW i \in LenField + 1 .. len
        PROVE  crypted[i] = Xor(Told(i), KeyFor(peer.xor_key, i, len))
    <3>1. i \in 1 .. len /\ ~(i <= LenField) /\ i \in 3 .. len
      BY <2>2 DEF LenField
    <3> QED
      BY <1>4, <1>7, <2>1, <3>1 DEF KeyFor
  <2> QED
    BY <2>3, <2>4
<1> HIDE DEF crypted
<1>9. CASE Fits(size, room)
  <2>1. out'.stored = [i \in LenField + 1 .. len |->
                         Xor(Told(i), KeyFor(peer.xor_key, i, len))]
    BY <1>2, <1>8, <1>9
  <2>2. len <= out'.room /\ out'.room \in Nat
    BY <1>1, <1>2, <1>9, ProtocolAssumption DEF Fits
  <2>3. \A i : Told(i)' = Told(i)
    BY <1>2 DEF Told
  <2>4. Len(put') = Len(put) /\ peer' = peer /\ stage' = "session"
    BY <1>2
  <2> QED
    BY <1>3, <2>1, <2>2, <2>3, <2>4 DEF Written
<1>10. CASE ~Fits(size, room)
  BY <1>2, <1>3, <1>10 DEF Written
<1> QED
  BY <1>9, <1>10

\* What is written stays while the message and the keys do.
LEMMA SameWritten ==
  ASSUME OutInv, UNCHANGED <<nm, put, out>>, stage = "session" => UNCHANGED <<stage, peer>>
  PROVE  Holds' /\ Written'
BY DEF OutInv, Holds, Written, Told

LEMMA StepOutInv == OutInv /\ [Next]_vars => OutInv'
<1> SUFFICES ASSUME OutInv, [Next]_vars PROVE OutInv'
  OBVIOUS
<1>1. IInv'
  BY StepIInv DEF OutInv
<1>2. CASE Prepare \/ send_key
  <2>1. stage # "session" /\ UNCHANGED <<nm, put, out>>
    BY <1>2 DEF Prepare, send_key, initial_xor_keys, initial_crc32_table, outgoing
  <2> QED
    BY <1>1, <2>1, SameWritten DEF OutInv
<1>3. CASE Session
  <2>0. stage = "session" /\ UNCHANGED <<stage, peer>>
    BY <1>3 DEF Session
  <2>1. CASE UNCHANGED outgoing
    BY <1>1, <2>0, <2>1, SameWritten DEF outgoing, OutInv
  <2>2. CASE MakeMessage
    <3>1. Holds' /\ Written'
      BY <2>2, MakingHolds DEF Written, NotWritten
    <3> QED
      BY <1>1, <3>1 DEF OutInv
  <2>3. ASSUME NEW room \in Rooms, transform_message_to_buffer(room) PROVE OutInv'
    BY <1>1, <2>0, <2>3, TransformWritten DEF OutInv
  <2>4. CASE NewMessage
    <3>1. Holds'
      BY <2>4 DEF NewMessage, Holds, net_message
    <3>2. Written'
      BY <2>4 DEF NewMessage, Written, NotWritten
    <3> QED
      BY <1>1, <3>1, <3>2 DEF OutInv
  <2> QED
    BY <1>3, <2>1, <2>2, <2>3, <2>4 DEF Session, Out
<1>4. CASE UNCHANGED vars
  BY <1>1, <1>4, SameWritten DEF vars, outgoing, OutInv
<1> QED
  BY <1>2, <1>3, <1>4 DEF Next

LEMMA OutInvariant == Spec => []OutInv
BY InitOutInv, StepOutInv, PTL DEF Spec

\* No byte of a message is stored behind the buffer it is written to, for
\* buffers and messages of any length.
THEOREM WithinRoomHolds == Spec => []WithinRoom
<1>1. OutInv => WithinRoom
  <2> SUFFICES ASSUME OutInv PROVE DOMAIN out.stored \subseteq 1 .. out.room
    BY DEF WithinRoom
  <2>1. CASE out.stored = <<>>
    BY <2>1
  <2>2. CASE out.stored # <<>>
    <3>1. /\ HeaderLen + Len(put) <= out.room /\ out.room \in Nat
          /\ DOMAIN out.stored = LenField + 1 .. HeaderLen + Len(put)
      BY <2>2 DEF OutInv, Written
    <3>2. Len(put) \in Nat
      BY DEF OutInv, IInv, TypeOK
    <3> QED
      BY <3>1, <3>2 DEF LenField, HeaderLen
  <2> QED
    BY <2>1, <2>2
<1> QED
  BY <1>1, OutInvariant, PTL

\* The peer reads the id and the values the logic thread put into a message,
\* however many and of whatever lengths, under every key.
THEOREM PeerReadsHolds == Spec => []PeerReadsMessage
<1>1. ASSUME OutInv, out.stored # <<>>
      PROVE  PeerReads(out.stored) =
               [id |-> nm.id, size |-> Bytes(Number(Len(put)), 2), data |-> put]
  <2> DEFINE len == HeaderLen + Len(put)
             room == CHOOSE n \in 0 .. HeaderLen + BUFFER_SIZE :
                       DOMAIN out.stored = LenField + 1 .. n
             plain == xor_decrypt([i \in 1 .. len |-> IF i <= LenField THEN {} ELSE out.stored[i]],
                                  LenField, peer.xor_key)
  <2>1. /\ put \in Seq(Byte) /\ Len(put) \in Nat /\ Len(put) <= BUFFER_SIZE /\ BUFFER_SIZE \in Nat
        /\ nm.id \in [1 .. 2 -> Byte]
    BY <1>1, MessageAssumption DEF OutInv, IInv, TypeOK, Holds, Message
  <2>2. out.stored = [i \in LenField + 1 .. len |-> Xor(Told(i), KeyFor(peer.xor_key, i, len))]
    BY <1>1 DEF OutInv, Written
  <2>3. room = len
    <3>1. len \in 0 .. HeaderLen + BUFFER_SIZE /\ DOMAIN out.stored = LenField + 1 .. len
      BY <2>1, <2>2 DEF HeaderLen
    <3>2. room \in 0 .. HeaderLen + BUFFER_SIZE /\ DOMAIN out.stored = LenField + 1 .. room
      BY <3>1
    <3> HIDE DEF room
    <3> QED
      BY <2>1, <3>1, <3>2 DEF LenField, HeaderLen
  <2>4. /\ len \in Nat /\ Len(plain) = len
        /\ \A i \in LenField + 1 .. len : plain[i] = Told(i)
    <3>1. len \in Nat
      BY <2>1 DEF HeaderLen
    <3> DEFINE s == [i \in 1 .. len |-> IF i <= LenField THEN {} ELSE out.stored[i]]
    <3>2. Len(s) = len
      <4> HIDE DEF len
      <4> QED
        BY <3>1
    <3>3. plain = [i \in 1 .. len |->
            IF i <= LenField THEN s[i]
            ELSE Xor(s[i], peer.xor_key[KeyByte(i - LenField - 1, len - LenField) + 1])]
      BY <3>2 DEF xor_decrypt, xor_crypt
    <3>4. ASSUME NEW i \in LenField + 1 .. len
          PROVE  i \in 1 .. len /\ ~(i <= LenField) /\ s[i] = Xor(Told(i), KeyFor(peer.xor_key, i, len))
      <4>1. i \in 1 .. len /\ ~(i <= LenField)
        BY <3>1 DEF LenField
      <4> HIDE DEF len
      <4> QED
        BY <2>2, <4>1
    <3> HIDE DEF len, s, plain
    <3>5. Len(plain) = len
      BY <3>1, <3>3
    <3>6. ASSUME NEW i \in LenField + 1 .. len PROVE plain[i] = Told(i)
      <4>1. plain[i] = Xor(Xor(Told(i), KeyFor(peer.xor_key, i, len)), KeyFor(peer.xor_key, i, len))
        BY <3>3, <3>4 DEF KeyFor
      <4> QED
        BY <4>1, XorFacts
    <3> QED
      BY <3>1, <3>5, <3>6
  <2>5. PeerReads(out.stored) =
          [id |-> SubSeq(plain, 3, 4), size |-> SubSeq(plain, 5, 6), data |-> SubSeq(plain, 7, len)]
    <3> HIDE DEF len
    <3>1. PeerReads(out.stored) =
            LET p == xor_decrypt([i \in 1 .. room |-> IF i <= LenField THEN {} ELSE out.stored[i]],
                                 LenField, peer.xor_key)
            IN [id |-> SubSeq(p, 3, 4), size |-> SubSeq(p, 5, 6), data |-> SubSeq(p, 7, room)]
      BY DEF PeerReads
    <3> HIDE DEF room
    <3> QED
      BY <2>3, <3>1
  <2> HIDE DEF plain, room
  <2>6. ASSUME NEW w PROVE Bytes(w, 2) \in [1 .. 2 -> Byte]
    BY WordTypes DEF Bytes
  <2>7. \A f \in [1 .. 2 -> Byte] : f \in Seq(Byte) /\ Len(f) = 2
    BY PairIsSeq
  <2>8. SubSeq(plain, 3, 4) = nm.id
    <3>1. plain[3] = nm.id[1] /\ plain[4] = nm.id[2]
      BY <2>1, <2>4 DEF Told, LenField, HeaderLen
    <3>2. nm.id \in Seq(Byte) /\ Len(nm.id) = 2 /\ nm.id[1] \in Byte /\ nm.id[2] \in Byte
      BY <2>1, <2>7
    <3>3. \A i \in 3 .. 4 : plain[i] \in Byte
      BY <3>1, <3>2
    <3>4. /\ SubSeq(plain, 3, 4) \in Seq(Byte) /\ Len(SubSeq(plain, 3, 4)) = 2
          /\ \A i \in 1 .. 2 : SubSeq(plain, 3, 4)[i] = plain[3 + i - 1]
      <4>1. /\ SubSeq(plain, 3, 4) \in Seq(Byte)
            /\ Len(SubSeq(plain, 3, 4)) = IF 3 <= 4 THEN 4 - 3 + 1 ELSE 0
            /\ \A i \in 1 .. 4 - 3 + 1 : SubSeq(plain, 3, 4)[i] = plain[3 + i - 1]
        BY <3>3, SubSeqProperties
      <4> QED
        BY <4>1
    <3>5. \A i \in 1 .. 2 : SubSeq(plain, 3, 4)[i] = nm.id[i]
      BY <3>1, <3>4
    <3> QED
      BY <3>2, <3>4, <3>5, SeqEqual
  <2>9. SubSeq(plain, 5, 6) = Bytes(Number(Len(put)), 2)
    <3> DEFINE b == Bytes(Number(Len(put)), 2)
    <3>1. b \in Seq(Byte) /\ Len(b) = 2 /\ b[1] \in Byte /\ b[2] \in Byte
      <4>1. b \in [1 .. 2 -> Byte]
        BY <2>6
      <4> HIDE DEF b
      <4> QED
        BY <4>1, <2>7
    <3>2. plain[5] = b[1] /\ plain[6] = b[2]
      BY <2>1, <2>4 DEF Told, LenField, HeaderLen
    <3> HIDE DEF b
    <3>3. \A i \in 5 .. 6 : plain[i] \in Byte
      BY <3>1, <3>2
    <3>4. /\ SubSeq(plain, 5, 6) \in Seq(Byte) /\ Len(SubSeq(plain, 5, 6)) = 2
          /\ \A i \in 1 .. 2 : SubSeq(plain, 5, 6)[i] = plain[5 + i - 1]
      <4>1. /\ SubSeq(plain, 5, 6) \in Seq(Byte)
            /\ Len(SubSeq(plain, 5, 6)) = IF 5 <= 6 THEN 6 - 5 + 1 ELSE 0
            /\ \A i \in 1 .. 6 - 5 + 1 : SubSeq(plain, 5, 6)[i] = plain[5 + i - 1]
        BY <3>3, SubSeqProperties
      <4> QED
        BY <4>1
    <3>5. \A i \in 1 .. 2 : SubSeq(plain, 5, 6)[i] = b[i]
      BY <3>2, <3>4
    <3>6. SubSeq(plain, 5, 6) = b
      BY <3>1, <3>4, <3>5, SeqEqual
    <3> QED
      BY <3>6 DEF b
  <2>10. SubSeq(plain, 7, len) = put
    <3>1. \A i \in 1 .. Len(put) : plain[6 + i] = put[i] /\ put[i] \in Byte
      <4> TAKE i \in 1 .. Len(put)
      <4>1. /\ 6 + i \in LenField + 1 .. len /\ ~(6 + i <= 4) /\ ~(6 + i <= HeaderLen)
            /\ (6 + i) - HeaderLen = i
        BY <2>1 DEF LenField, HeaderLen
      <4>2. put[i] \in Byte
        BY <2>1
      <4> HIDE DEF len
      <4> QED
        BY <2>4, <4>1, <4>2 DEF Told
    <3>2. \A i \in 7 .. len : plain[i] \in Byte
      <4> TAKE i \in 7 .. len
      <4>1. i - 6 \in 1 .. Len(put) /\ 6 + (i - 6) = i
        BY <2>1 DEF HeaderLen
      <4> QED
        BY <3>1, <4>1
    <3>3. len = 6 + Len(put) /\ len \in Int
      BY <2>1 DEF HeaderLen
    <3> HIDE DEF len
    <3>4. /\ SubSeq(plain, 7, len) \in Seq(Byte)
          /\ Len(SubSeq(plain, 7, len)) = IF 7 <= len THEN len - 7 + 1 ELSE 0
          /\ \A i \in 1 .. len - 7 + 1 : SubSeq(plain, 7, len)[i] = plain[7 + i - 1]
      BY <3>2, <3>3, SubSeqProperties
    <3>5. Len(SubSeq(plain, 7, len)) = Len(put)
      BY <2>1, <3>3, <3>4
    <3>6. \A i \in 1 .. Len(put) : SubSeq(plain, 7, len)[i] = put[i]
      <4> TAKE i \in 1 .. Len(put)
      <4>1. i \in 1 .. len - 7 + 1 /\ 7 + i - 1 = 6 + i
        BY <2>1, <3>3
      <4> QED
        BY <3>1, <3>4, <4>1
    <3> QED
      BY <2>1, <3>4, <3>5, <3>6, SeqEqual
  <2> HIDE DEF len
  <2> QED
    BY <2>5, <2>8, <2>9, <2>10
<1>2. OutInv => PeerReadsMessage
  BY <1>1 DEF PeerReadsMessage
<1> QED
  BY <1>2, OutInvariant, PTL
==============================================================================
