-------------------------- MODULE DesAgreementProofs --------------------------
(***************************************************************************)
(* Proofs about DesAgreement, for every set of keys and blocks: the two    *)
(* DES of the repository are the same function, and undo themselves.       *)
(*                                                                         *)
(* Leo's words count bits from the right and the standard's from the left, *)
(* so every table is shown to be the other's seen in a mirror: the         *)
(* transpositions bit by bit, the boxes entry by entry, the key schedule   *)
(* choice by choice and turn by turn.  Then a round of one is a round of   *)
(* the other, which is the induction step.                                 *)
(*                                                                         *)
(* For the way back the invariant says how far the block has come, and     *)
(* the lemma DecryptsBack walks through the sixteen rounds of the second   *)
(* call against those of the first.                                        *)
(***************************************************************************)
EXTENDS DesAgreement, SequenceTheorems, TLAPS

-----------------------------------------------------------------------------
(***************************************************************************)
(* The transpositions.                                                     *)
(***************************************************************************)
Block == [1 .. 8 -> Byte]

\* Counting from the left turns a word around.
LEMMA FromLeftIs ==
  ASSUME NEW w \in Word
  PROVE  /\ FromLeft(w) \in Word
         /\ \A n \in 0 .. 31 : n \in FromLeft(w) <=> 31 - n \in w
<1>1. FromLeft(w) \subseteq 0 .. 31
  BY DEF FromLeft, Word
<1>2. ASSUME NEW n \in 0 .. 31
      PROVE  n \in FromLeft(w) <=> 31 - n \in w
  <2>1. ASSUME n \in FromLeft(w)
        PROVE  31 - n \in w
    <3>1. PICK b \in w : n = 31 - b
      BY <2>1 DEF FromLeft
    <3>2. b \in 0 .. 31
      BY DEF Word
    <3>3. QED
      BY <3>1, <3>2
  <2>2. ASSUME 31 - n \in w
        PROVE  n \in FromLeft(w)
    <3>1. n = 31 - (31 - n)
      OBVIOUS
    <3>2. QED
      BY <2>2, <3>1 DEF FromLeft
  <2>3. QED
    BY <2>1, <2>2
<1>3. QED
  BY <1>1, <1>2 DEF Word

\* Gathered puts the bits 7, 15, 23 and 31 of eight entries side by side.
\* T says which entries have which of them.
LEMMA GatheredIs ==
  ASSUME NEW e, NEW T,
         \A k \in 1 .. 8 : \A b :
           b \in e[k] <=> \E m \in 0 .. 3 : <<k, m>> \in T /\ b = 8 * m + 7,
         NEW y
  PROVE  y \in Leo!Gathered(e) <=> y \in 0 .. 31 /\ <<(y % 8) + 1, y \div 8>> \in T
<1>1. y \in Leo!Gathered(e) <=> \E k \in 1 .. 8 : \E b \in e[k] : y = b - (8 - k)
  BY DEF Leo!Gathered
<1>2. y \in Leo!Gathered(e) <=>
        \E k \in 1 .. 8 : \E m \in 0 .. 3 : <<k, m>> \in T /\ y = 8 * m + 7 - (8 - k)
  <2>1. ASSUME NEW k \in 1 .. 8
        PROVE  (\E b \in e[k] : y = b - (8 - k)) <=>
                 \E m \in 0 .. 3 : <<k, m>> \in T /\ y = 8 * m + 7 - (8 - k)
    <3>1. \A b : b \in e[k] <=> \E m \in 0 .. 3 : <<k, m>> \in T /\ b = 8 * m + 7
      OBVIOUS
    <3>2. QED
      BY <3>1
  <2>2. QED
    BY <1>1, <2>1
<1>3. ASSUME NEW k \in 1 .. 8, NEW m \in 0 .. 3, <<k, m>> \in T, y = 8 * m + 7 - (8 - k)
      PROVE  y \in 0 .. 31 /\ <<(y % 8) + 1, y \div 8>> \in T
  <2>1. y \in 0 .. 31 /\ (y % 8) + 1 = k /\ y \div 8 = m
    BY <1>3
  <2>2. QED
    BY <1>3, <2>1
<1>4. ASSUME y \in 0 .. 31, <<(y % 8) + 1, y \div 8>> \in T
      PROVE  \E k \in 1 .. 8 : \E m \in 0 .. 3 : <<k, m>> \in T /\ y = 8 * m + 7 - (8 - k)
  <2>1. (y % 8) + 1 \in 1 .. 8 /\ y \div 8 \in 0 .. 3
    BY <1>4
  <2>2. y = 8 * (y \div 8) + 7 - (8 - ((y % 8) + 1))
    BY <1>4
  <2>3. QED
    BY <1>4, <2>1, <2>2
<1>5. QED
  BY <1>2, <1>3, <1>4

\* What leo's four tables do before the first round, bit by bit: the even bits
\* of every byte go to l and the odd ones to r.
LEMMA InitialTransposeIs ==
  ASSUME NEW s \in Block
  PROVE  /\ Leo!InitialTranspose(s) \in Word \X Word
         /\ \A y \in 0 .. 31 :
              /\ y \in Leo!InitialTranspose(s)[1] <=> 2 * (y \div 8) \in s[(y % 8) + 1]
              /\ y \in Leo!InitialTranspose(s)[2] <=> 2 * (y \div 8) + 1 \in s[(y % 8) + 1]
<1> DEFINE l == [k \in 1 .. 8 |-> Leo!Ip_l(s[k])]
           r == [k \in 1 .. 8 |-> Leo!Ip_r(s[k])]
           Tl == {km \in (1 .. 8) \X (0 .. 3) : 2 * km[2] \in s[km[1]]}
           Tr == {km \in (1 .. 8) \X (0 .. 3) : 2 * km[2] + 1 \in s[km[1]]}
<1>1. Leo!InitialTranspose(s) = <<Leo!Gathered(l), Leo!Gathered(r)>>
  BY DEF Leo!InitialTranspose
<1>2. ASSUME NEW k \in 1 .. 8, NEW b
      PROVE  b \in l[k] <=> \E m \in 0 .. 3 : <<k, m>> \in Tl /\ b = 8 * m + 7
  <2>1. b \in l[k] <=> \E q \in {0, 2, 4, 6} : q \in s[k] /\ b = 4 * q + 7
    BY DEF Leo!Ip_l
  <2>2. b \in l[k] <=> \E m \in 0 .. 3 : 2 * m \in s[k] /\ b = 8 * m + 7
    <3>1. ASSUME NEW q \in {0, 2, 4, 6}, q \in s[k], b = 4 * q + 7
          PROVE  \E m \in 0 .. 3 : 2 * m \in s[k] /\ b = 8 * m + 7
      <4>1. q \div 2 \in 0 .. 3 /\ 2 * (q \div 2) = q
        OBVIOUS
      <4>2. QED
        BY <3>1, <4>1
    <3>2. ASSUME NEW m \in 0 .. 3, 2 * m \in s[k], b = 8 * m + 7
          PROVE  \E q \in {0, 2, 4, 6} : q \in s[k] /\ b = 4 * q + 7
      <4>1. 2 * m \in {0, 2, 4, 6} /\ 4 * (2 * m) = 8 * m
        OBVIOUS
      <4>2. QED
        BY <3>2, <4>1
    <3>3. QED
      BY <2>1, <3>1, <3>2
  <2>3. QED
    BY <2>2
<1>3. ASSUME NEW k \in 1 .. 8, NEW b
      PROVE  b \in r[k] <=> \E m \in 0 .. 3 : <<k, m>> \in Tr /\ b = 8 * m + 7
  <2>1. b \in r[k] <=> \E q \in {1, 3, 5, 7} : q \in s[k] /\ b = 4 * q + 3
    BY DEF Leo!Ip_r
  <2>2. b \in r[k] <=> \E m \in 0 .. 3 : 2 * m + 1 \in s[k] /\ b = 8 * m + 7
    <3>1. ASSUME NEW q \in {1, 3, 5, 7}, q \in s[k], b = 4 * q + 3
          PROVE  \E m \in 0 .. 3 : 2 * m + 1 \in s[k] /\ b = 8 * m + 7
      <4>1. q \div 2 \in 0 .. 3 /\ 2 * (q \div 2) + 1 = q
        OBVIOUS
      <4>2. QED
        BY <3>1, <4>1
    <3>2. ASSUME NEW m \in 0 .. 3, 2 * m + 1 \in s[k], b = 8 * m + 7
          PROVE  \E q \in {1, 3, 5, 7} : q \in s[k] /\ b = 4 * q + 3
      <4>1. 2 * m + 1 \in {1, 3, 5, 7} /\ 4 * (2 * m + 1) + 3 = 8 * m + 7
        OBVIOUS
      <4>2. QED
        BY <3>2, <4>1
    <3>3. QED
      BY <2>1, <3>1, <3>2
  <2>3. QED
    BY <2>2
<1> HIDE DEF l, r
<1>4. \A y : y \in Leo!Gathered(l) <=> y \in 0 .. 31 /\ <<(y % 8) + 1, y \div 8>> \in Tl
  <2> HIDE DEF Tl
  <2>1. QED
    BY <1>2, GatheredIs
<1>5. \A y : y \in Leo!Gathered(r) <=> y \in 0 .. 31 /\ <<(y % 8) + 1, y \div 8>> \in Tr
  <2> HIDE DEF Tr
  <2>1. QED
    BY <1>3, GatheredIs
<1>6. Leo!InitialTranspose(s) \in Word \X Word
  <2>1. Leo!Gathered(l) \in Word /\ Leo!Gathered(r) \in Word
    <3> HIDE DEF Tl, Tr
    <3>1. QED
      BY <1>4, <1>5 DEF Word
  <2>2. QED
    BY <1>1, <2>1
<1>7. ASSUME NEW y \in 0 .. 31
      PROVE  /\ y \in Leo!InitialTranspose(s)[1] <=> 2 * (y \div 8) \in s[(y % 8) + 1]
             /\ y \in Leo!InitialTranspose(s)[2] <=> 2 * (y \div 8) + 1 \in s[(y % 8) + 1]
  <2>1. (y % 8) + 1 \in 1 .. 8 /\ y \div 8 \in 0 .. 3
    OBVIOUS
  <2>2. /\ <<(y % 8) + 1, y \div 8>> \in Tl <=> 2 * (y \div 8) \in s[(y % 8) + 1]
        /\ <<(y % 8) + 1, y \div 8>> \in Tr <=> 2 * (y \div 8) + 1 \in s[(y % 8) + 1]
    BY <2>1
  <2>3. /\ y \in Leo!Gathered(l) <=> <<(y % 8) + 1, y \div 8>> \in Tl
        /\ y \in Leo!Gathered(r) <=> <<(y % 8) + 1, y \div 8>> \in Tr
    <3> HIDE DEF Tl, Tr
    <3>1. QED
      BY <1>4, <1>5
  <2>4. /\ Leo!InitialTranspose(s)[1] = Leo!Gathered(l)
        /\ Leo!InitialTranspose(s)[2] = Leo!Gathered(r)
    BY <1>1
  <2>5. QED
    BY <2>2, <2>3, <2>4
<1>8. QED
  BY <1>6, <1>7

\* What the standard's IP does, bit by bit.
LEMMA IPIs ==
  ASSUME NEW s \in Block
  PROVE  /\ Standard!IP(s) \in Word \X Word
         /\ \A n \in 0 .. 31 :
              /\ n \in Standard!IP(s)[1] <=> 6 - 2 * (n \div 8) \in s[8 - (n % 8)]
              /\ n \in Standard!IP(s)[2] <=> 7 - 2 * (n \div 8) \in s[8 - (n % 8)]
<1>1. Standard!IP(s) \in Word \X Word
  BY DEF Standard!IP, Word
<1>2. ASSUME NEW n \in 0 .. 31
      PROVE  /\ n \in Standard!IP(s)[1] <=> 6 - 2 * (n \div 8) \in s[8 - (n % 8)]
             /\ n \in Standard!IP(s)[2] <=> 7 - 2 * (n \div 8) \in s[8 - (n % 8)]
  <2> DEFINE m == 57 - 8 * (n % 8) + 2 * (n \div 8)
             o == 56 - 8 * (n % 8) + 2 * (n \div 8)
  <2>1. /\ m % 8 = 1 + 2 * (n \div 8) /\ m \div 8 = 7 - (n % 8)
        /\ o % 8 = 2 * (n \div 8) /\ o \div 8 = 7 - (n % 8)
    OBVIOUS
  <2>2. /\ 7 - (m % 8) = 6 - 2 * (n \div 8) /\ (m \div 8) + 1 = 8 - (n % 8)
        /\ 7 - (o % 8) = 7 - 2 * (n \div 8) /\ (o \div 8) + 1 = 8 - (n % 8)
    BY <2>1
  <2>3. /\ n \in Standard!IP(s)[1] <=> 7 - (m % 8) \in s[(m \div 8) + 1]
        /\ n \in Standard!IP(s)[2] <=> 7 - (o % 8) \in s[(o \div 8) + 1]
    BY DEF Standard!IP, Standard!BITNUM
  <2>4. QED
    BY <2>2, <2>3
<1>3. QED
  BY <1>1, <1>2

\* Both begin with the same halves.
LEMMA TransposeAgrees ==
  ASSUME NEW s \in Block
  PROVE  /\ Leo!InitialTranspose(s) \in Word \X Word
         /\ Standard!IP(s) \in Word \X Word
         /\ Standard!IP(s) =
              <<FromLeft(Leo!InitialTranspose(s)[1]), FromLeft(Leo!InitialTranspose(s)[2])>>
<1> DEFINE h == Leo!InitialTranspose(s)
           t == Standard!IP(s)
<1>1. h \in Word \X Word /\ t \in Word \X Word
  BY InitialTransposeIs, IPIs
<1>2. ASSUME NEW n \in 0 .. 31
      PROVE  /\ n \in t[1] <=> n \in FromLeft(h[1])
             /\ n \in t[2] <=> n \in FromLeft(h[2])
  <2>1. 31 - n \in 0 .. 31 /\ (31 - n) \div 8 = 3 - (n \div 8)
          /\ ((31 - n) % 8) + 1 = 8 - (n % 8)
    OBVIOUS
  <2>2. /\ 31 - n \in h[1] <=> 2 * (3 - (n \div 8)) \in s[8 - (n % 8)]
        /\ 31 - n \in h[2] <=> 2 * (3 - (n \div 8)) + 1 \in s[8 - (n % 8)]
    BY <2>1, InitialTransposeIs
  <2>3. 2 * (3 - (n \div 8)) = 6 - 2 * (n \div 8)
          /\ 2 * (3 - (n \div 8)) + 1 = 7 - 2 * (n \div 8)
    OBVIOUS
  <2>4. /\ n \in FromLeft(h[1]) <=> 31 - n \in h[1]
        /\ n \in FromLeft(h[2]) <=> 31 - n \in h[2]
    BY <1>1, FromLeftIs
  <2>5. QED
    BY <2>2, <2>3, <2>4, IPIs
<1>3. FromLeft(h[1]) \in Word /\ FromLeft(h[2]) \in Word
  BY <1>1, FromLeftIs
<1> HIDE DEF h, t
<1>4. t[1] = FromLeft(h[1]) /\ t[2] = FromLeft(h[2])
  BY <1>1, <1>2, <1>3 DEF Word
<1>5. t = <<FromLeft(h[1]), FromLeft(h[2])>>
  BY <1>1, <1>4
<1>6. QED
  BY <1>1, <1>5 DEF h, t

-----------------------------------------------------------------------------
(***************************************************************************)
(* The transpositions after the last round.                                *)
(***************************************************************************)
\* What the standard's InvIP does, bit by bit.
LEMMA InvIPIs ==
  ASSUME NEW t \in Word \X Word
  PROVE  /\ Standard!InvIP(t) \in Block
         /\ \A n \in 1 .. 8, b \in 0 .. 7 :
              b \in Standard!InvIP(t)[n] <=>
                8 * ((7 - b) \div 2) + 8 - n \in t[IF b % 2 = 1 THEN 2 ELSE 1]
BY DEF Standard!InvIP, Block, Byte

\* The bytes of a word that was gathered, the highest first.
LEMMA FourBytesIs ==
  ASSUME NEW w, NEW T, \A y : y \in w <=> y \in 0 .. 31 /\ <<(y % 8) + 1, y \div 8>> \in T
  PROVE  /\ Leo!FourBytes(w) \in [1 .. 4 -> Byte]
         /\ \A k \in 1 .. 4, b \in 0 .. 7 : b \in Leo!FourBytes(w)[k] <=>
              <<b + 1, 4 - k>> \in T
<1>1. Leo!FourBytes(w) \in [1 .. 4 -> Byte]
  BY DEF Leo!FourBytes, Leo!ByteAt, Byte
<1>2. ASSUME NEW k \in 1 .. 4, NEW b \in 0 .. 7
      PROVE  b \in Leo!FourBytes(w)[k] <=> <<b + 1, 4 - k>> \in T
  <2> DEFINE y == b + 8 * (4 - k)
  <2>1. y \in 0 .. 31 /\ (y % 8) + 1 = b + 1 /\ y \div 8 = 4 - k
    OBVIOUS
  <2>2. b \in Leo!FourBytes(w)[k] <=> y \in w
    BY DEF Leo!FourBytes, Leo!ByteAt
  <2> HIDE DEF y
  <2>3. y \in w <=> y \in 0 .. 31 /\ <<(y % 8) + 1, y \div 8>> \in T
    OBVIOUS
  <2>4. QED
    BY <2>1, <2>2, <2>3
<1>3. QED
  BY <1>1, <1>2

\* Two times four bytes are a block.
LEMMA EightBytes ==
  ASSUME NEW x \in [1 .. 4 -> Byte], NEW y \in [1 .. 4 -> Byte], NEW s, s = x \o y
  PROVE  /\ s \in Block
         /\ \A k \in 1 .. 8 : s[k] = IF k <= 4 THEN x[k] ELSE y[k - 4]
<1>1. x \in Seq(Byte) /\ y \in Seq(Byte) /\ Len(x) = 4 /\ Len(y) = 4
  <2>1. x \in Seq(Byte) /\ y \in Seq(Byte)
    <3>1. Seq(Byte) = UNION {[1 .. n -> Byte] : n \in Nat}
      BY SeqDef
    <3>2. x \in [1 .. 4 -> Byte] /\ y \in [1 .. 4 -> Byte] /\ 4 \in Nat
      OBVIOUS
    <3>3. [1 .. 4 -> Byte] \in {[1 .. n -> Byte] : n \in Nat}
      BY <3>2
    <3>4. QED
      BY <3>1, <3>2, <3>3, Zenon
  <2>2. DOMAIN x = 1 .. 4 /\ DOMAIN y = 1 .. 4
    OBVIOUS
  <2>3. QED
    BY <2>1, <2>2, LenProperties
<1>2. /\ x \o y \in Seq(Byte)
      /\ Len(x \o y) = 8
      /\ \A k \in 1 .. 8 : (x \o y)[k] = IF k <= 4 THEN x[k] ELSE y[k - 4]
  <2>1. /\ x \o y \in Seq(Byte)
        /\ Len(x \o y) = Len(x) + Len(y)
        /\ \A k \in 1 .. Len(x) + Len(y) :
             (x \o y)[k] = IF k <= Len(x) THEN x[k] ELSE y[k - Len(x)]
    BY <1>1, ConcatProperties, Zenon
  <2>2. Len(x) + Len(y) = 8
    BY <1>1
  <2>3. QED
    BY <1>1, <2>1, <2>2
<1>3. /\ s \in Seq(Byte)
      /\ Len(s) = 8
      /\ \A k \in 1 .. 8 : s[k] = IF k <= 4 THEN x[k] ELSE y[k - 4]
  BY <1>2, Zenon
<1>4. s \in Block
  BY <1>3, LenProperties, ElementOfSeq DEF Block
<1>5. QED
  BY <1>3, <1>4

\* What leo's tables do after the last round, bit by bit.
LEMMA FinalTransposeIs ==
  ASSUME NEW h \in Word \X Word
  PROVE  /\ Leo!FinalTranspose(h) \in Block
         /\ \A n \in 1 .. 8, b \in 0 .. 7 :
              b \in Leo!FinalTranspose(h)[n] <=>
                n - 1 + 8 * (b \div 2) \in h[IF b % 2 = 1 THEN 1 ELSE 2]
<1> DEFINE q == [k \in 1 .. 8 |-> Leo!ByteAt(h[(k % 2) + 1], (k - 1) \div 2)]
           l == [k \in 1 .. 8 |-> Leo!Ip_inv_l(q[k])]
           r == [k \in 1 .. 8 |-> Leo!Ip_inv_r(q[k])]
           Tl == {km \in (1 .. 8) \X (0 .. 3) : 3 - km[2] \in q[km[1]]}
           Tr == {km \in (1 .. 8) \X (0 .. 3) : 7 - km[2] \in q[km[1]]}
<1>1. Leo!FinalTranspose(h) =
        Leo!FourBytes(Leo!Gathered(l)) \o Leo!FourBytes(Leo!Gathered(r))
  BY DEF Leo!FinalTranspose
<1>2. \A n \in 1 .. 8, b \in 0 .. 7 :
        n - 1 \in q[b + 1] <=> n - 1 + 8 * (b \div 2) \in h[IF b % 2 = 1 THEN 1 ELSE 2]
  <2> SUFFICES ASSUME NEW n \in 1 .. 8, NEW b \in 0 .. 7
               PROVE  n - 1 \in q[b + 1] <=>
                        n - 1 + 8 * (b \div 2) \in h[IF b % 2 = 1 THEN 1 ELSE 2]
    OBVIOUS
  <2>1. b + 1 \in 1 .. 8 /\ ((b + 1) % 2) + 1 = (IF b % 2 = 1 THEN 1 ELSE 2)
          /\ ((b + 1) - 1) \div 2 = b \div 2
    OBVIOUS
  <2>2. q[b + 1] = Leo!ByteAt(h[IF b % 2 = 1 THEN 1 ELSE 2], b \div 2)
    BY <2>1
  <2>3. QED
    BY <2>2 DEF Leo!ByteAt
<1> HIDE DEF q
<1>3. ASSUME NEW k \in 1 .. 8, NEW b
      PROVE  b \in l[k] <=> \E m \in 0 .. 3 : <<k, m>> \in Tl /\ b = 8 * m + 7
  <2>1. b \in l[k] <=> \E o \in {0, 1, 2, 3} : o \in q[k] /\ b = 31 - 8 * o
    BY DEF Leo!Ip_inv_l
  <2>2. ASSUME NEW o \in {0, 1, 2, 3}, o \in q[k], b = 31 - 8 * o
        PROVE  \E m \in 0 .. 3 : <<k, m>> \in Tl /\ b = 8 * m + 7
    <3>1. 3 - o \in 0 .. 3 /\ 3 - (3 - o) = o /\ b = 8 * (3 - o) + 7
      BY <2>2
    <3>2. QED
      BY <2>2, <3>1
  <2>3. ASSUME NEW m \in 0 .. 3, <<k, m>> \in Tl, b = 8 * m + 7
        PROVE  \E o \in {0, 1, 2, 3} : o \in q[k] /\ b = 31 - 8 * o
    <3>1. 3 - m \in {0, 1, 2, 3} /\ b = 31 - 8 * (3 - m)
      BY <2>3
    <3>2. QED
      BY <2>3, <3>1
  <2>4. QED
    BY <2>1, <2>2, <2>3
<1>4. ASSUME NEW k \in 1 .. 8, NEW b
      PROVE  b \in r[k] <=> \E m \in 0 .. 3 : <<k, m>> \in Tr /\ b = 8 * m + 7
  <2>1. b \in r[k] <=> \E o \in {4, 5, 6, 7} : o \in q[k] /\ b = 63 - 8 * o
    BY DEF Leo!Ip_inv_r
  <2>2. ASSUME NEW o \in {4, 5, 6, 7}, o \in q[k], b = 63 - 8 * o
        PROVE  \E m \in 0 .. 3 : <<k, m>> \in Tr /\ b = 8 * m + 7
    <3>1. 7 - o \in 0 .. 3 /\ 7 - (7 - o) = o /\ b = 8 * (7 - o) + 7
      BY <2>2
    <3>2. QED
      BY <2>2, <3>1
  <2>3. ASSUME NEW m \in 0 .. 3, <<k, m>> \in Tr, b = 8 * m + 7
        PROVE  \E o \in {4, 5, 6, 7} : o \in q[k] /\ b = 63 - 8 * o
    <3>1. 7 - m \in {4, 5, 6, 7} /\ b = 63 - 8 * (7 - m)
      BY <2>3
    <3>2. QED
      BY <2>3, <3>1
  <2>4. QED
    BY <2>1, <2>2, <2>3
<1> HIDE DEF l, r
<1>5. /\ \A y : y \in Leo!Gathered(l) <=> y \in 0 .. 31 /\ <<(y % 8) + 1, y \div 8>> \in Tl
      /\ \A y : y \in Leo!Gathered(r) <=> y \in 0 .. 31 /\ <<(y % 8) + 1, y \div 8>> \in Tr
  <2> HIDE DEF Tl, Tr
  <2>1. QED
    BY <1>3, <1>4, GatheredIs
<1> DEFINE x == Leo!FourBytes(Leo!Gathered(l))
           z == Leo!FourBytes(Leo!Gathered(r))
<1>6. /\ x \in [1 .. 4 -> Byte] /\ z \in [1 .. 4 -> Byte]
      /\ \A k \in 1 .. 4, b \in 0 .. 7 : b \in x[k] <=> <<b + 1, 4 - k>> \in Tl
      /\ \A k \in 1 .. 4, b \in 0 .. 7 : b \in z[k] <=> <<b + 1, 4 - k>> \in Tr
  <2> HIDE DEF Tl, Tr
  <2>1. QED
    BY <1>5, FourBytesIs
<1> HIDE DEF x, z
<1>7. /\ Leo!FinalTranspose(h) \in Block
      /\ \A k \in 1 .. 8 : Leo!FinalTranspose(h)[k] = IF k <= 4 THEN x[k] ELSE z[k - 4]
  <2>1. Leo!FinalTranspose(h) = x \o z
    BY <1>1 DEF x, z
  <2>2. QED
    BY <1>6, <2>1, EightBytes, Zenon
<1>8. ASSUME NEW n \in 1 .. 8, NEW b \in 0 .. 7
      PROVE  b \in Leo!FinalTranspose(h)[n] <=> n - 1 \in q[b + 1]
  <2>1. CASE n <= 4
    <3>1. b \in Leo!FinalTranspose(h)[n] <=> <<b + 1, 4 - n>> \in Tl
      <4>1. n \in 1 .. 4 /\ Leo!FinalTranspose(h)[n] = x[n]
        BY <2>1, <1>7
      <4> HIDE DEF Tl
      <4>2. b \in x[n] <=> <<b + 1, 4 - n>> \in Tl
        BY <4>1, <1>6
      <4>3. QED
        BY <4>1, <4>2
    <3>2. b + 1 \in 1 .. 8 /\ 4 - n \in 0 .. 3 /\ 3 - (4 - n) = n - 1
      BY <2>1
    <3>3. QED
      BY <3>1, <3>2
  <2>2. CASE n > 4
    <3>1. b \in Leo!FinalTranspose(h)[n] <=> <<b + 1, 4 - (n - 4)>> \in Tr
      <4> HIDE DEF Tr
      <4>1. n - 4 \in 1 .. 4 /\ ~(n <= 4)
        BY <2>2
      <4>2. QED
        BY <4>1, <1>6, <1>7
    <3>2. b + 1 \in 1 .. 8 /\ 4 - (n - 4) \in 0 .. 3 /\ 7 - (4 - (n - 4)) = n - 1
      BY <2>2
    <3>3. QED
      BY <3>1, <3>2
  <2>3. QED
    BY <2>1, <2>2
<1>9. QED
  BY <1>2, <1>7, <1>8

\* From the same halves, switched, both store the same block.
LEMMA StoreAgrees ==
  ASSUME NEW h \in Word \X Word
  PROVE  /\ Leo!FinalTranspose(h) \in Block
         /\ Leo!FinalTranspose(h) = Standard!InvIP(<<FromLeft(h[2]), FromLeft(h[1])>>)
<1> DEFINE t == <<FromLeft(h[2]), FromLeft(h[1])>>
           x == Leo!FinalTranspose(h)
           y == Standard!InvIP(t)
<1>1. t \in Word \X Word
  BY FromLeftIs
<1>2. x \in Block /\ y \in Block
  BY <1>1, FinalTransposeIs, InvIPIs
<1>3. ASSUME NEW n \in 1 .. 8, NEW b \in 0 .. 7
      PROVE  b \in x[n] <=> b \in y[n]
  <2> DEFINE p == 8 * ((7 - b) \div 2) + 8 - n
  <2>1. p \in 0 .. 31 /\ 31 - p = n - 1 + 8 * (b \div 2)
    OBVIOUS
  <2>2. b \in x[n] <=> n - 1 + 8 * (b \div 2) \in h[IF b % 2 = 1 THEN 1 ELSE 2]
    BY FinalTransposeIs
  <2>3. b \in y[n] <=> p \in t[IF b % 2 = 1 THEN 2 ELSE 1]
    BY <1>1, InvIPIs
  <2> HIDE DEF p
  <2>4. t[IF b % 2 = 1 THEN 2 ELSE 1] = FromLeft(h[IF b % 2 = 1 THEN 1 ELSE 2])
    OBVIOUS
  <2>5. p \in FromLeft(h[IF b % 2 = 1 THEN 1 ELSE 2]) <=>
          31 - p \in h[IF b % 2 = 1 THEN 1 ELSE 2]
    BY <2>1, FromLeftIs
  <2>6. QED
    BY <2>1, <2>2, <2>3, <2>4, <2>5
<1> HIDE DEF t, x, y
<1>4. \A n \in 1 .. 8 : x[n] = y[n]
  BY <1>2, <1>3 DEF Block, Byte
<1>5. x = y
  BY <1>2, <1>4 DEF Block
<1>6. QED
  BY <1>2, <1>5 DEF t, x, y

\* The transpositions of the standard undo each other ...
LEMMA InvIPOfIP ==
  ASSUME NEW s \in Block
  PROVE  Standard!InvIP(Standard!IP(s)) = s
<1> DEFINE t == Standard!IP(s)
           y == Standard!InvIP(t)
<1>1. t \in Word \X Word /\ y \in Block
  BY IPIs, InvIPIs
<1>2. ASSUME NEW n \in 1 .. 8, NEW b \in 0 .. 7
      PROVE  b \in y[n] <=> b \in s[n]
  <2> DEFINE p == 8 * ((7 - b) \div 2) + 8 - n
  <2>1. p \in 0 .. 31 /\ 8 - (p % 8) = n /\ p \div 8 = (7 - b) \div 2
    OBVIOUS
  <2>2. b \in y[n] <=> p \in t[IF b % 2 = 1 THEN 2 ELSE 1]
    BY <1>1, InvIPIs
  <2>3. /\ p \in t[1] <=> 6 - 2 * (p \div 8) \in s[8 - (p % 8)]
        /\ p \in t[2] <=> 7 - 2 * (p \div 8) \in s[8 - (p % 8)]
    BY <2>1, IPIs
  <2> HIDE DEF p, t, y
  <2>4. CASE b % 2 = 1
    <3>1. 7 - 2 * ((7 - b) \div 2) = b
      BY <2>4
    <3>2. QED
      BY <2>1, <2>2, <2>3, <2>4, <3>1
  <2>5. CASE b % 2 # 1
    <3>1. 6 - 2 * ((7 - b) \div 2) = b
      BY <2>5
    <3>2. QED
      BY <2>1, <2>2, <2>3, <2>5, <3>1
  <2>6. QED
    BY <2>4, <2>5
<1> HIDE DEF t, y
<1>3. \A n \in 1 .. 8 : y[n] = s[n]
  BY <1>1, <1>2 DEF Block, Byte
<1>4. y = s
  BY <1>1, <1>3 DEF Block
<1>5. QED
  BY <1>4 DEF t, y

\* ... in either order.
LEMMA IPOfInvIP ==
  ASSUME NEW t \in Word \X Word
  PROVE  Standard!IP(Standard!InvIP(t)) = t
<1> DEFINE s == Standard!InvIP(t)
           u == Standard!IP(s)
<1>1. s \in Block
  BY InvIPIs
<1>2. u \in Word \X Word
  BY <1>1, IPIs
<1>3. ASSUME NEW p \in 0 .. 31
      PROVE  (p \in u[1] <=> p \in t[1]) /\ (p \in u[2] <=> p \in t[2])
  <2> DEFINE b == 6 - 2 * (p \div 8)
             c == 7 - 2 * (p \div 8)
             n == 8 - (p % 8)
  <2>1. /\ b \in 0 .. 7 /\ c \in 0 .. 7 /\ n \in 1 .. 8
        /\ b % 2 = 0 /\ c % 2 = 1
        /\ 8 * ((7 - b) \div 2) + 8 - n = p
        /\ 8 * ((7 - c) \div 2) + 8 - n = p
    OBVIOUS
  <2>2. (p \in u[1] <=> b \in s[n]) /\ (p \in u[2] <=> c \in s[n])
    BY <1>1, IPIs
  <2> HIDE DEF b, c, n
  <2>3. (b \in s[n] <=> p \in t[1]) /\ (c \in s[n] <=> p \in t[2])
    BY <2>1, InvIPIs
  <2>4. QED
    BY <2>2, <2>3
<1> HIDE DEF s, u
<1>4. u[1] = t[1] /\ u[2] = t[2]
  BY <1>2, <1>3 DEF Word
<1>5. u = t
  BY <1>2, <1>4
<1>6. QED
  BY <1>5 DEF s, u

-----------------------------------------------------------------------------
(***************************************************************************)
(* The round function.                                                     *)
(***************************************************************************)
\* The six bits of every box are the same in both subkeys.
SubkeyAgrees(sub, K) ==
  \A g \in 0 .. 7, j \in 0 .. 5 :
    6 * g + j \in K <=> 29 - 8 * (g \div 2) - j \in sub[(g % 2) + 1]

\* The entry for the six bits v, by row and column in one of the two.
BoxesAgree(g) ==
  \A v \in 0 .. 63 :
    Leo!Sboxes[g + 1][v + 1]
      = Standard!sbox[g + 1][32 * (v \div 32) + 16 * (v % 2) + ((v \div 2) % 16) + 1]

\* The eight boxes have the same entries: entry by entry, the rows and columns
\* of the standard against the six bits in a row.
LEMMA AllBoxesAgree ==
  ASSUME NEW g \in 0 .. 7
  PROVE  BoxesAgree(g)
<1>1. BoxesAgree(0)
  BY DEF BoxesAgree, Leo!Sboxes, Standard!sbox
<1>2. BoxesAgree(1)
  BY DEF BoxesAgree, Leo!Sboxes, Standard!sbox
<1>3. BoxesAgree(2)
  BY DEF BoxesAgree, Leo!Sboxes, Standard!sbox
<1>4. BoxesAgree(3)
  BY DEF BoxesAgree, Leo!Sboxes, Standard!sbox
<1>5. BoxesAgree(4)
  BY DEF BoxesAgree, Leo!Sboxes, Standard!sbox
<1>6. BoxesAgree(5)
  BY DEF BoxesAgree, Leo!Sboxes, Standard!sbox
<1>7. BoxesAgree(6)
  BY DEF BoxesAgree, Leo!Sboxes, Standard!sbox
<1>8. BoxesAgree(7)
  BY DEF BoxesAgree, Leo!Sboxes, Standard!sbox
<1>9. QED
  BY <1>1, <1>2, <1>3, <1>4, <1>5, <1>6, <1>7, <1>8

\* Where the bits of an entry go: Ptbl is PBox, read from the entry.
LEMMA PlacesAgree ==
  /\ \A c \in 0 .. 31 :
       Leo!Ptbl[(Standard!PBox[c + 1] \div 4) + 1][4 - (Standard!PBox[c + 1] % 4)] = 31 - c
  /\ \A c \in 0 .. 31 : Standard!PBox[c + 1] \in 0 .. 31
  /\ \A g \in 0 .. 7, a \in 0 .. 3 :
       /\ Leo!Ptbl[g + 1][a + 1] \in 0 .. 31
       /\ Standard!PBox[32 - Leo!Ptbl[g + 1][a + 1]] = 4 * g + (3 - a)
BY DEF Leo!Ptbl, Standard!PBox

\* For the same six bits both read the same entry.
LEMMA EntryAgrees ==
  ASSUME NEW g \in 0 .. 7, NEW six, NEW places,
         \A j \in 0 .. 5 : 5 - j \in six <=> j \in places
  PROVE  Leo!Sboxes[g + 1][Leo!Value(six) + 1]
           = Standard!sbox[g + 1][Standard!SBOXBIT(places) + 1]
<1> DEFINE B(n) == IF n \in six THEN 1 ELSE 0
           b0 == B(0)
           b1 == B(1)
           b2 == B(2)
           b3 == B(3)
           b4 == B(4)
           b5 == B(5)
           v == 32 * b5 + 16 * b4 + 8 * b3 + 4 * b2 + 2 * b1 + b0
<1>1. Leo!Value(six) = v
  BY DEF Leo!Value
<1>2. Standard!SBOXBIT(places) = 32 * b5 + 16 * b0 + 8 * b4 + 4 * b3 + 2 * b2 + b1
  <2>1. /\ 0 \in places <=> 5 \in six
        /\ 1 \in places <=> 4 \in six
        /\ 2 \in places <=> 3 \in six
        /\ 3 \in places <=> 2 \in six
        /\ 4 \in places <=> 1 \in six
        /\ 5 \in places <=> 0 \in six
    OBVIOUS
  <2>2. QED
    BY <2>1 DEF Standard!SBOXBIT
<1>3. /\ b0 \in {0, 1} /\ b1 \in {0, 1} /\ b2 \in {0, 1}
      /\ b3 \in {0, 1} /\ b4 \in {0, 1} /\ b5 \in {0, 1}
  OBVIOUS
<1> HIDE DEF b0, b1, b2, b3, b4, b5
<1>4. /\ v \in 0 .. 63
      /\ 32 * (v \div 32) + 16 * (v % 2) + ((v \div 2) % 16)
           = 32 * b5 + 16 * b0 + 8 * b4 + 4 * b3 + 2 * b2 + b1
  <2>1. v \in 0 .. 63 /\ v \div 32 = b5 /\ v % 2 = b0
    BY <1>3
  <2>2. v \div 2 = 16 * b5 + (8 * b4 + 4 * b3 + 2 * b2 + b1)
    BY <1>3
  <2>3. (v \div 2) % 16 = 8 * b4 + 4 * b3 + 2 * b2 + b1
    BY <1>3, <2>2
  <2>4. QED
    BY <2>1, <2>3, <1>3
<1> HIDE DEF v
<1>5. Leo!Sboxes[g + 1][v + 1]
        = Standard!sbox[g + 1][32 * (v \div 32) + 16 * (v % 2) + ((v \div 2) % 16) + 1]
  BY <1>4, AllBoxesAgree DEF BoxesAgree
<1> DEFINE u == 32 * (v \div 32) + 16 * (v % 2) + ((v \div 2) % 16)
<1>6. Standard!SBOXBIT(places) = u
  BY <1>2, <1>4
<1>7. Leo!Sboxes[g + 1][v + 1] = Standard!sbox[g + 1][u + 1]
  BY <1>5
<1> HIDE DEF u
<1>8. QED
  BY <1>1, <1>6, <1>7

\* The bits of a half of a word.
Power == <<1, 2, 4, 8, 16, 32, 64, 128, 256, 512, 1024, 2048, 4096, 8192, 16384, 32768>>

BitAt(n, k) == (n \div Power[k + 1]) % 2 = 1

LEMMA Powers ==
  ASSUME NEW k \in 0 .. 15
  PROVE  2 ^ k = Power[k + 1]
<1>1. CASE k = 0
  BY <1>1 DEF Power
<1>2. CASE k = 1
  BY <1>2 DEF Power
<1>3. CASE k = 2
  BY <1>3 DEF Power
<1>4. CASE k = 3
  BY <1>4 DEF Power
<1>5. CASE k = 4
  BY <1>5 DEF Power
<1>6. CASE k = 5
  BY <1>6 DEF Power
<1>7. CASE k = 6
  BY <1>7 DEF Power
<1>8. CASE k = 7
  BY <1>8 DEF Power
<1>9. CASE k = 8
  BY <1>9 DEF Power
<1>10. CASE k = 9
  BY <1>10 DEF Power
<1>11. CASE k = 10
  BY <1>11 DEF Power
<1>12. CASE k = 11
  BY <1>12 DEF Power
<1>13. CASE k = 12
  BY <1>13 DEF Power
<1>14. CASE k = 13
  BY <1>14 DEF Power
<1>15. CASE k = 14
  BY <1>15 DEF Power
<1>16. CASE k = 15
  BY <1>16 DEF Power
<1>17. QED
  BY <1>1, <1>2, <1>3, <1>4, <1>5, <1>6, <1>7, <1>8, <1>9, <1>10, <1>11, <1>12,
     <1>13, <1>14, <1>15, <1>16

\* A word of Psboxes has the four bits of n at the places P, and no others.
MultipliedOut(P, n, high, low) ==
  /\ n \in 0 .. 15
  /\ \A b \in 0 .. 15 :
       /\ BitAt(low, b) <=> \E a \in 0 .. 3 : P[a + 1] = b /\ BitAt(n, a)
       /\ BitAt(high, b) <=> \E a \in 0 .. 3 : P[a + 1] = b + 16 /\ BitAt(n, a)

\* The bits of a small number, as numbers.
Digit(n, a) == (n \div Power[a + 1]) % 2

LEMMA DigitsAre ==
  ASSUME NEW n \in 0 .. 15, NEW a \in 0 .. 3
  PROVE  Digit(n, a) \in 0 .. 1 /\ (BitAt(n, a) <=> Digit(n, a) = 1)
BY DEF Digit, BitAt, Power

\* The 64 words of each box at lines 227-372 of leo_des_crypto.c are those of
\* the SMALL tables.
LEMMA Box0 ==
  ASSUME NEW v \in 0 .. 63
  PROVE  MultipliedOut(Leo!Ptbl[1], Leo!Sboxes[1][v + 1],
                       Leo!Psboxes[1][2 * v + 1], Leo!Psboxes[1][2 * v + 2])
<1> DEFINE n == Leo!Sboxes[1][v + 1]
           high == Leo!Psboxes[1][2 * v + 1]
           low == Leo!Psboxes[1][2 * v + 2]
           n0 == Digit(n, 0)
           n1 == Digit(n, 1)
           n2 == Digit(n, 2)
           n3 == Digit(n, 3)
<1>1. /\ n \in 0 .. 15
      /\ high = 128 * n3
      /\ low = 2 * n0 + 512 * n1 + 32768 * n2
  BY SMTT(60) DEF Leo!Psboxes, Leo!Sboxes, Digit, Power
<1> HIDE DEF n, high, low
<1>2. /\ n0 \in 0 .. 1 /\ n1 \in 0 .. 1 /\ n2 \in 0 .. 1 /\ n3 \in 0 .. 1
      /\ \A a \in 0 .. 3 : BitAt(n, a) <=> <<n0, n1, n2, n3>>[a + 1] = 1
  BY <1>1, DigitsAre
<1> HIDE DEF n0, n1, n2, n3
<1>3. ASSUME NEW b \in 0 .. 15
      PROVE  /\ BitAt(low, b) <=> ((b = 1 /\ n0 = 1) \/ (b = 9 /\ n1 = 1) \/ (b = 15 /\ n2 = 1))
             /\ BitAt(high, b) <=> ((b = 7 /\ n3 = 1))
  BY <1>1, <1>2, SMTT(60) DEF BitAt, Power
<1>4. Leo!Ptbl[1] = <<1, 9, 15, 23>>
  BY DEF Leo!Ptbl
<1>5. QED
  BY <1>1, <1>2, <1>3, <1>4 DEF MultipliedOut, n, high, low

LEMMA Box1 ==
  ASSUME NEW v \in 0 .. 63
  PROVE  MultipliedOut(Leo!Ptbl[2], Leo!Sboxes[2][v + 1],
                       Leo!Psboxes[2][2 * v + 1], Leo!Psboxes[2][2 * v + 2])
<1> DEFINE n == Leo!Sboxes[2][v + 1]
           high == Leo!Psboxes[2][2 * v + 1]
           low == Leo!Psboxes[2][2 * v + 2]
           n0 == Digit(n, 0)
           n1 == Digit(n, 1)
           n2 == Digit(n, 2)
           n3 == Digit(n, 3)
<1>1. /\ n \in 0 .. 15
      /\ high = 16384 * n1 + 8 * n3
      /\ low = 16384 * n0 + 16 * n2
  BY SMTT(60) DEF Leo!Psboxes, Leo!Sboxes, Digit, Power
<1> HIDE DEF n, high, low
<1>2. /\ n0 \in 0 .. 1 /\ n1 \in 0 .. 1 /\ n2 \in 0 .. 1 /\ n3 \in 0 .. 1
      /\ \A a \in 0 .. 3 : BitAt(n, a) <=> <<n0, n1, n2, n3>>[a + 1] = 1
  BY <1>1, DigitsAre
<1> HIDE DEF n0, n1, n2, n3
<1>3. ASSUME NEW b \in 0 .. 15
      PROVE  /\ BitAt(low, b) <=> ((b = 14 /\ n0 = 1) \/ (b = 4 /\ n2 = 1))
             /\ BitAt(high, b) <=> ((b = 14 /\ n1 = 1) \/ (b = 3 /\ n3 = 1))
  BY <1>1, <1>2, SMTT(60) DEF BitAt, Power
<1>4. Leo!Ptbl[2] = <<14, 30, 4, 19>>
  BY DEF Leo!Ptbl
<1>5. QED
  BY <1>1, <1>2, <1>3, <1>4 DEF MultipliedOut, n, high, low

LEMMA Box2 ==
  ASSUME NEW v \in 0 .. 63
  PROVE  MultipliedOut(Leo!Ptbl[3], Leo!Sboxes[3][v + 1],
                       Leo!Psboxes[3][2 * v + 1], Leo!Psboxes[3][2 * v + 2])
<1> DEFINE n == Leo!Sboxes[3][v + 1]
           high == Leo!Psboxes[3][2 * v + 1]
           low == Leo!Psboxes[3][2 * v + 2]
           n0 == Digit(n, 0)
           n1 == Digit(n, 1)
           n2 == Digit(n, 2)
           n3 == Digit(n, 3)
<1>1. /\ n \in 0 .. 15
      /\ high = 1024 * n0 + 1 * n2
      /\ low = 4 * n1 + 256 * n3
  BY SMTT(60) DEF Leo!Psboxes, Leo!Sboxes, Digit, Power
<1> HIDE DEF n, high, low
<1>2. /\ n0 \in 0 .. 1 /\ n1 \in 0 .. 1 /\ n2 \in 0 .. 1 /\ n3 \in 0 .. 1
      /\ \A a \in 0 .. 3 : BitAt(n, a) <=> <<n0, n1, n2, n3>>[a + 1] = 1
  BY <1>1, DigitsAre
<1> HIDE DEF n0, n1, n2, n3
<1>3. ASSUME NEW b \in 0 .. 15
      PROVE  /\ BitAt(low, b) <=> ((b = 2 /\ n1 = 1) \/ (b = 8 /\ n3 = 1))
             /\ BitAt(high, b) <=> ((b = 10 /\ n0 = 1) \/ (b = 0 /\ n2 = 1))
  BY <1>1, <1>2, SMTT(60) DEF BitAt, Power
<1>4. Leo!Ptbl[3] = <<26, 2, 16, 8>>
  BY DEF Leo!Ptbl
<1>5. QED
  BY <1>1, <1>2, <1>3, <1>4 DEF MultipliedOut, n, high, low

LEMMA Box3 ==
  ASSUME NEW v \in 0 .. 63
  PROVE  MultipliedOut(Leo!Ptbl[4], Leo!Sboxes[4][v + 1],
                       Leo!Psboxes[4][2 * v + 1], Leo!Psboxes[4][2 * v + 2])
<1> DEFINE n == Leo!Sboxes[4][v + 1]
           high == Leo!Psboxes[4][2 * v + 1]
           low == Leo!Psboxes[4][2 * v + 2]
           n0 == Digit(n, 0)
           n1 == Digit(n, 1)
           n2 == Digit(n, 2)
           n3 == Digit(n, 3)
<1>1. /\ n \in 0 .. 15
      /\ high = 32768 * n0 + 64 * n1
      /\ low = 4096 * n2 + 64 * n3
  BY SMTT(60) DEF Leo!Psboxes, Leo!Sboxes, Digit, Power
<1> HIDE DEF n, high, low
<1>2. /\ n0 \in 0 .. 1 /\ n1 \in 0 .. 1 /\ n2 \in 0 .. 1 /\ n3 \in 0 .. 1
      /\ \A a \in 0 .. 3 : BitAt(n, a) <=> <<n0, n1, n2, n3>>[a + 1] = 1
  BY <1>1, DigitsAre
<1> HIDE DEF n0, n1, n2, n3
<1>3. ASSUME NEW b \in 0 .. 15
      PROVE  /\ BitAt(low, b) <=> ((b = 12 /\ n2 = 1) \/ (b = 6 /\ n3 = 1))
             /\ BitAt(high, b) <=> ((b = 15 /\ n0 = 1) \/ (b = 6 /\ n1 = 1))
  BY <1>1, <1>2, SMTT(60) DEF BitAt, Power
<1>4. Leo!Ptbl[4] = <<31, 22, 12, 6>>
  BY DEF Leo!Ptbl
<1>5. QED
  BY <1>1, <1>2, <1>3, <1>4 DEF MultipliedOut, n, high, low

LEMMA Box4 ==
  ASSUME NEW v \in 0 .. 63
  PROVE  MultipliedOut(Leo!Ptbl[5], Leo!Sboxes[5][v + 1],
                       Leo!Psboxes[5][2 * v + 1], Leo!Psboxes[5][2 * v + 2])
<1> DEFINE n == Leo!Sboxes[5][v + 1]
           high == Leo!Psboxes[5][2 * v + 1]
           low == Leo!Psboxes[5][2 * v + 2]
           n0 == Digit(n, 0)
           n1 == Digit(n, 1)
           n2 == Digit(n, 2)
           n3 == Digit(n, 3)
<1>1. /\ n \in 0 .. 15
      /\ high = 8192 * n0 + 4 * n2 + 256 * n3
      /\ low = 128 * n1
  BY SMTT(60) DEF Leo!Psboxes, Leo!Sboxes, Digit, Power
<1> HIDE DEF n, high, low
<1>2. /\ n0 \in 0 .. 1 /\ n1 \in 0 .. 1 /\ n2 \in 0 .. 1 /\ n3 \in 0 .. 1
      /\ \A a \in 0 .. 3 : BitAt(n, a) <=> <<n0, n1, n2, n3>>[a + 1] = 1
  BY <1>1, DigitsAre
<1> HIDE DEF n0, n1, n2, n3
<1>3. ASSUME NEW b \in 0 .. 15
      PROVE  /\ BitAt(low, b) <=> ((b = 7 /\ n1 = 1))
             /\ BitAt(high, b) <=> ((b = 13 /\ n0 = 1) \/ (b = 2 /\ n2 = 1) \/ (b = 8 /\ n3 = 1))
  BY <1>1, <1>2, SMTT(60) DEF BitAt, Power
<1>4. Leo!Ptbl[5] = <<29, 7, 18, 24>>
  BY DEF Leo!Ptbl
<1>5. QED
  BY <1>1, <1>2, <1>3, <1>4 DEF MultipliedOut, n, high, low

LEMMA Box5 ==
  ASSUME NEW v \in 0 .. 63
  PROVE  MultipliedOut(Leo!Ptbl[6], Leo!Sboxes[6][v + 1],
                       Leo!Psboxes[6][2 * v + 1], Leo!Psboxes[6][2 * v + 2])
<1> DEFINE n == Leo!Sboxes[6][v + 1]
           high == Leo!Psboxes[6][2 * v + 1]
           low == Leo!Psboxes[6][2 * v + 2]
           n0 == Digit(n, 0)
           n1 == Digit(n, 1)
           n2 == Digit(n, 2)
           n3 == Digit(n, 3)
<1>1. /\ n \in 0 .. 15
      /\ high = 32 * n1 + 4096 * n3
      /\ low = 8192 * n0 + 8 * n2
  BY SMTT(60) DEF Leo!Psboxes, Leo!Sboxes, Digit, Power
<1> HIDE DEF n, high, low
<1>2. /\ n0 \in 0 .. 1 /\ n1 \in 0 .. 1 /\ n2 \in 0 .. 1 /\ n3 \in 0 .. 1
      /\ \A a \in 0 .. 3 : BitAt(n, a) <=> <<n0, n1, n2, n3>>[a + 1] = 1
  BY <1>1, DigitsAre
<1> HIDE DEF n0, n1, n2, n3
<1>3. ASSUME NEW b \in 0 .. 15
      PROVE  /\ BitAt(low, b) <=> ((b = 13 /\ n0 = 1) \/ (b = 3 /\ n2 = 1))
             /\ BitAt(high, b) <=> ((b = 5 /\ n1 = 1) \/ (b = 12 /\ n3 = 1))
  BY <1>1, <1>2, SMTT(60) DEF BitAt, Power
<1>4. Leo!Ptbl[6] = <<13, 21, 3, 28>>
  BY DEF Leo!Ptbl
<1>5. QED
  BY <1>1, <1>2, <1>3, <1>4 DEF MultipliedOut, n, high, low

LEMMA Box6 ==
  ASSUME NEW v \in 0 .. 63
  PROVE  MultipliedOut(Leo!Ptbl[7], Leo!Sboxes[7][v + 1],
                       Leo!Psboxes[7][2 * v + 1], Leo!Psboxes[7][2 * v + 2])
<1> DEFINE n == Leo!Sboxes[7][v + 1]
           high == Leo!Psboxes[7][2 * v + 1]
           low == Leo!Psboxes[7][2 * v + 2]
           n0 == Digit(n, 0)
           n1 == Digit(n, 1)
           n2 == Digit(n, 2)
           n3 == Digit(n, 3)
<1>1. /\ n \in 0 .. 15
      /\ high = 512 * n0 + 16 * n2
      /\ low = 1024 * n1 + 1 * n3
  BY SMTT(60) DEF Leo!Psboxes, Leo!Sboxes, Digit, Power
<1> HIDE DEF n, high, low
<1>2. /\ n0 \in 0 .. 1 /\ n1 \in 0 .. 1 /\ n2 \in 0 .. 1 /\ n3 \in 0 .. 1
      /\ \A a \in 0 .. 3 : BitAt(n, a) <=> <<n0, n1, n2, n3>>[a + 1] = 1
  BY <1>1, DigitsAre
<1> HIDE DEF n0, n1, n2, n3
<1>3. ASSUME NEW b \in 0 .. 15
      PROVE  /\ BitAt(low, b) <=> ((b = 10 /\ n1 = 1) \/ (b = 0 /\ n3 = 1))
             /\ BitAt(high, b) <=> ((b = 9 /\ n0 = 1) \/ (b = 4 /\ n2 = 1))
  BY <1>1, <1>2, SMTT(60) DEF BitAt, Power
<1>4. Leo!Ptbl[7] = <<25, 10, 20, 0>>
  BY DEF Leo!Ptbl
<1>5. QED
  BY <1>1, <1>2, <1>3, <1>4 DEF MultipliedOut, n, high, low

LEMMA Box7 ==
  ASSUME NEW v \in 0 .. 63
  PROVE  MultipliedOut(Leo!Ptbl[8], Leo!Sboxes[8][v + 1],
                       Leo!Psboxes[8][2 * v + 1], Leo!Psboxes[8][2 * v + 2])
<1> DEFINE n == Leo!Sboxes[8][v + 1]
           high == Leo!Psboxes[8][2 * v + 1]
           low == Leo!Psboxes[8][2 * v + 2]
           n0 == Digit(n, 0)
           n1 == Digit(n, 1)
           n2 == Digit(n, 2)
           n3 == Digit(n, 3)
<1>1. /\ n \in 0 .. 15
      /\ high = 2 * n1 + 2048 * n3
      /\ low = 2048 * n0 + 32 * n2
  BY SMTT(60) DEF Leo!Psboxes, Leo!Sboxes, Digit, Power
<1> HIDE DEF n, high, low
<1>2. /\ n0 \in 0 .. 1 /\ n1 \in 0 .. 1 /\ n2 \in 0 .. 1 /\ n3 \in 0 .. 1
      /\ \A a \in 0 .. 3 : BitAt(n, a) <=> <<n0, n1, n2, n3>>[a + 1] = 1
  BY <1>1, DigitsAre
<1> HIDE DEF n0, n1, n2, n3
<1>3. ASSUME NEW b \in 0 .. 15
      PROVE  /\ BitAt(low, b) <=> ((b = 11 /\ n0 = 1) \/ (b = 5 /\ n2 = 1))
             /\ BitAt(high, b) <=> ((b = 1 /\ n1 = 1) \/ (b = 11 /\ n3 = 1))
  BY <1>1, <1>2, SMTT(60) DEF BitAt, Power
<1>4. Leo!Ptbl[8] = <<11, 17, 5, 27>>
  BY DEF Leo!Ptbl
<1>5. QED
  BY <1>1, <1>2, <1>3, <1>4 DEF MultipliedOut, n, high, low

LEMMA EveryBox ==
  ASSUME NEW g \in 0 .. 7, NEW v \in 0 .. 63
  PROVE  MultipliedOut(Leo!Ptbl[g + 1], Leo!Sboxes[g + 1][v + 1],
                       Leo!Psboxes[g + 1][2 * v + 1], Leo!Psboxes[g + 1][2 * v + 2])
<1>1. ASSUME NEW h \in 1 .. 8
      PROVE  MultipliedOut(Leo!Ptbl[h], Leo!Sboxes[h][v + 1],
                           Leo!Psboxes[h][2 * v + 1], Leo!Psboxes[h][2 * v + 2])
  <2>1. CASE h = 1
    BY <2>1, Box0, Zenon
  <2>2. CASE h = 2
    BY <2>2, Box1, Zenon
  <2>3. CASE h = 3
    BY <2>3, Box2, Zenon
  <2>4. CASE h = 4
    BY <2>4, Box3, Zenon
  <2>5. CASE h = 5
    BY <2>5, Box4, Zenon
  <2>6. CASE h = 6
    BY <2>6, Box5, Zenon
  <2>7. CASE h = 7
    BY <2>7, Box6, Zenon
  <2>8. CASE h = 8
    BY <2>8, Box7, Zenon
  <2>9. QED
    BY <2>1, <2>2, <2>3, <2>4, <2>5, <2>6, <2>7, <2>8
<1>2. g + 1 \in 1 .. 8
  OBVIOUS
<1>3. QED
  BY <1>1, <1>2, Zenon

\* The build's table and the two of SMALL have the same word for every box and
\* every six bits.
LEMMA EntryIs ==
  ASSUME NEW g \in 0 .. 7, NEW six
  PROVE  Leo!ps(g, six) = Leo!ps_small(g, six)
<1> DEFINE v == Leo!Value(six)
           n == Leo!Sboxes[g + 1][v + 1]
           P == Leo!Ptbl[g + 1]
           high == Leo!Psboxes[g + 1][2 * v + 1]
           low == Leo!Psboxes[g + 1][2 * v + 2]
<1>1. v \in 0 .. 63
  BY DEF Leo!Value
<1> HIDE DEF v
<1>2. MultipliedOut(P, n, high, low)
  BY <1>1, EveryBox
<1>3. \A a \in 0 .. 3 : P[a + 1] \in 0 .. 31
  BY PlacesAgree
<1>4. /\ Leo!ps(g, six) =
           {b \in 0 .. 31 : ((IF b < 16 THEN low ELSE high) \div 2 ^ (b % 16)) % 2 = 1}
      /\ Leo!ps_small(g, six) =
           {P[a + 1] : a \in {a \in 0 .. 3 : (n \div 2 ^ a) % 2 = 1}}
  BY DEF Leo!ps, Leo!Entry, Leo!LongWord, Leo!ps_small, v
<1> HIDE DEF n, P, high, low
<1>5. ASSUME NEW a \in 0 .. 3
      PROVE  (n \div 2 ^ a) % 2 = 1 <=> BitAt(n, a)
  <2>1. a \in 0 .. 15
    OBVIOUS
  <2>2. 2 ^ a = Power[a + 1]
    BY <2>1, Powers, Zenon
  <2>3. QED
    BY <2>2, Zenon DEF BitAt
<1>6. ASSUME NEW b \in 0 .. 31
      PROVE  b \in Leo!ps(g, six) <=> \E a \in 0 .. 3 : P[a + 1] = b /\ BitAt(n, a)
  <2>1. CASE b < 16
    <3>1. b \in 0 .. 15 /\ b % 16 = b
      BY <2>1
    <3>2. b \in Leo!ps(g, six) <=> BitAt(low, b)
      BY <1>4, <2>1, <3>1, Powers DEF BitAt
    <3>3. QED
      BY <1>2, <3>1, <3>2 DEF MultipliedOut
  <2>2. CASE ~(b < 16)
    <3>1. b - 16 \in 0 .. 15 /\ b % 16 = b - 16 /\ (b - 16) + 16 = b
      BY <2>2
    <3>2. b \in Leo!ps(g, six) <=> BitAt(high, b - 16)
      BY <1>4, <2>2, <3>1, Powers DEF BitAt
    <3>3. BitAt(high, b - 16) <=> \E a \in 0 .. 3 : P[a + 1] = (b - 16) + 16 /\ BitAt(n, a)
      BY <1>2, <3>1 DEF MultipliedOut
    <3>4. QED
      BY <3>1, <3>2, <3>3
  <2>3. QED
    BY <2>1, <2>2
<1>7. \A b : b \in Leo!ps(g, six) => b \in 0 .. 31
  BY <1>4
<1>8. \A b : b \in Leo!ps_small(g, six) <=> \E a \in 0 .. 3 : P[a + 1] = b /\ BitAt(n, a)
  BY <1>4, <1>5
<1>9. QED
  BY <1>3, <1>6, <1>7, <1>8

\* The two rotations that stand for E.
LEMMA RotationsIs ==
  ASSUME NEW w \in Word, NEW y \in 0 .. 31
  PROVE  /\ Leo!rol1(w) \in Word /\ Leo!ror4(w) \in Word
         /\ y \in Leo!rol1(w) <=> (y + 31) % 32 \in w
         /\ y \in Leo!ror4(w) <=> (y + 4) % 32 \in w
<1>1. Leo!rol1(w) \in Word /\ Leo!ror4(w) \in Word
  BY DEF Leo!rol1, Leo!ror4, Word
<1>2. ASSUME y \in Leo!rol1(w)
      PROVE  (y + 31) % 32 \in w
  <2>1. PICK b \in w : y = (b + 1) % 32
    BY <1>2 DEF Leo!rol1
  <2>2. b \in 0 .. 31
    BY DEF Word
  <2>3. (y + 31) % 32 = b
    BY <2>1, <2>2
  <2>4. QED
    BY <2>3
<1>3. ASSUME (y + 31) % 32 \in w
      PROVE  y \in Leo!rol1(w)
  <2>1. y = (((y + 31) % 32) + 1) % 32
    OBVIOUS
  <2>2. QED
    BY <1>3, <2>1 DEF Leo!rol1
<1>4. ASSUME y \in Leo!ror4(w)
      PROVE  (y + 4) % 32 \in w
  <2>1. PICK b \in w : y = (b + 28) % 32
    BY <1>4 DEF Leo!ror4
  <2>2. b \in 0 .. 31
    BY DEF Word
  <2>3. (y + 4) % 32 = b
    BY <2>1, <2>2
  <2>4. QED
    BY <2>3
<1>5. ASSUME (y + 4) % 32 \in w
      PROVE  y \in Leo!ror4(w)
  <2>1. y = (((y + 4) % 32) + 28) % 32
    OBVIOUS
  <2>2. QED
    BY <1>5, <2>1 DEF Leo!ror4
<1>6. QED
  BY <1>1, <1>2, <1>3, <1>4, <1>5

\* For the same half and the same subkey every box sees the same six bits.
LEMMA SixAgrees ==
  ASSUME NEW r \in Word, NEW sub \in Word \X Word, NEW K, SubkeyAgrees(sub, K),
         NEW g \in 0 .. 7, NEW j \in 0 .. 5
  PROVE  5 - j \in Leo!Six(Leo!Mixed(r, sub), g) <=> j \in Standard!Six(FromLeft(r), K, g)
<1> DEFINE x == Leo!Mixed(r, sub)
           y == 29 - 8 * (g \div 2) - j
           p == (4 * g + j - 1) % 32
<1>1. y \in 0 .. 31 /\ p \in 0 .. 31
  OBVIOUS
<1>2. 5 - j \in Leo!Six(x, g) <=> y \in x[(g % 2) + 1]
  <2> DEFINE shift == 24 - 8 * (g \div 2)
  <2>1. 5 - j \in Leo!Six(x, g) <=>
          \E b \in shift .. shift + 5 : b \in x[(g % 2) + 1] /\ 5 - j = b - shift
    BY DEF Leo!Six
  <2>2. /\ y \in shift .. shift + 5
        /\ \A b \in shift .. shift + 5 : 5 - j = b - shift <=> b = y
    OBVIOUS
  <2> HIDE DEF shift, y, x
  <2>3. QED
    BY <2>1, <2>2
<1>3. y \in x[(g % 2) + 1] <=> ~(31 - p \in r <=> y \in sub[(g % 2) + 1])
  <2>1. CASE g % 2 = 0
    <3>1. x[(g % 2) + 1] = Leo!Xor(Leo!ror4(Leo!rol1(r)), sub[1])
      BY <2>1 DEF Leo!Mixed
    <3>2. y \in Leo!ror4(Leo!rol1(r)) <=> 31 - p \in r
      <4>1. (((y + 4) % 32) + 31) % 32 = 31 - p /\ (y + 4) % 32 \in 0 .. 31
        BY <2>1
      <4> HIDE DEF y, p
      <4>2. Leo!rol1(r) \in Word
        BY <1>1, RotationsIs
      <4>3. y \in Leo!ror4(Leo!rol1(r)) <=> (y + 4) % 32 \in Leo!rol1(r)
        BY <1>1, <4>2, RotationsIs
      <4>4. (y + 4) % 32 \in Leo!rol1(r) <=> (((y + 4) % 32) + 31) % 32 \in r
        BY <4>1, RotationsIs
      <4>5. QED
        BY <4>1, <4>3, <4>4
    <3> HIDE DEF x, y, p
    <3>3. QED
      BY <2>1, <3>1, <3>2 DEF Leo!Xor
  <2>2. CASE g % 2 = 1
    <3>1. x[(g % 2) + 1] = Leo!Xor(Leo!rol1(r), sub[2])
      BY <2>2 DEF Leo!Mixed
    <3>2. y \in Leo!rol1(r) <=> 31 - p \in r
      <4>1. (y + 31) % 32 = 31 - p
        BY <2>2
      <4> HIDE DEF y, p
      <4>2. QED
        BY <1>1, <4>1, RotationsIs
    <3> HIDE DEF x, y, p
    <3>3. QED
      BY <2>2, <3>1, <3>2 DEF Leo!Xor
  <2>3. g % 2 = 0 \/ g % 2 = 1
    OBVIOUS
  <2>4. QED
    BY <2>1, <2>2, <2>3
<1>4. j \in Standard!Six(FromLeft(r), K, g) <=> ~(p \in FromLeft(r) <=> 6 * g + j \in K)
  BY DEF Standard!Six
<1>5. p \in FromLeft(r) <=> 31 - p \in r
  BY <1>1, FromLeftIs
<1>6. 6 * g + j \in K <=> y \in sub[(g % 2) + 1]
  BY DEF SubkeyAgrees
<1> HIDE DEF x, y, p
<1>7. QED
  BY <1>2, <1>3, <1>4, <1>5, <1>6 DEF x

\* The round functions are the same.
LEMMA RoundFunctionAgrees ==
  ASSUME NEW r \in Word, NEW sub \in Word \X Word, NEW K, SubkeyAgrees(sub, K)
  PROVE  /\ Leo!RoundFunction(r, sub) \in Word
         /\ FromLeft(Leo!RoundFunction(r, sub)) = Standard!f(FromLeft(r), K)
<1> DEFINE N(g) == Leo!Sboxes[g + 1][Leo!Value(Leo!Six(Leo!Mixed(r, sub), g)) + 1]
           M(g) == Standard!sbox[g + 1][Standard!SBOXBIT(Standard!Six(FromLeft(r), K, g)) + 1]
           Bits == {ga \in (0 .. 7) \X (0 .. 3) : (N(ga[1]) \div 2 ^ ga[2]) % 2 = 1}
           x == Leo!RoundFunction(r, sub)
           z == Standard!f(FromLeft(r), K)
<1>1. \A g \in 0 .. 7 : N(g) = M(g)
  BY SixAgrees, EntryAgrees
<1>2. \A y : y \in x <=>
        \E g \in 0 .. 7, a \in 0 .. 3 : <<g, a>> \in Bits /\ y = Leo!Ptbl[g + 1][a + 1]
  <2> DEFINE p(g) == Leo!ps_small(g, Leo!Six(Leo!Mixed(r, sub), g))
  <2>1. x = Leo!Xor(Leo!Xor(Leo!Xor(p(7), p(5)), Leo!Xor(p(3), p(1))),
                    Leo!Xor(Leo!Xor(p(6), p(4)), Leo!Xor(p(2), p(0))))
    <3> DEFINE q(g) == Leo!ps(g, Leo!Six(Leo!Mixed(r, sub), g))
    <3>1. \A g \in 0 .. 7 : q(g) = p(g)
      BY EntryIs
    <3>2. x = Leo!Xor(Leo!Xor(Leo!Xor(q(7), q(5)), Leo!Xor(q(3), q(1))),
                      Leo!Xor(Leo!Xor(q(6), q(4)), Leo!Xor(q(2), q(0))))
      BY Zenon DEF Leo!RoundFunction
    <3>3. /\ q(0) = p(0) /\ q(1) = p(1) /\ q(2) = p(2) /\ q(3) = p(3)
          /\ q(4) = p(4) /\ q(5) = p(5) /\ q(6) = p(6) /\ q(7) = p(7)
      <4> HIDE DEF p, q
      <4>1. QED
        BY <3>1
    <3> HIDE DEF p, q, x
    <3>4. QED
      BY <3>2, <3>3, Zenon
  <2>2. ASSUME NEW g \in 0 .. 7, NEW y
        PROVE  y \in p(g) <=> \E a \in 0 .. 3 : <<g, a>> \in Bits /\ y = Leo!Ptbl[g + 1][a + 1]
    BY DEF Leo!ps_small
  <2> HIDE DEF p, x, Bits
  <2>3. ASSUME NEW g \in 0 .. 7, NEW h \in 0 .. 7, NEW y, y \in p(g), y \in p(h)
        PROVE  g = h
    <3>1. PICK a \in 0 .. 3 : y = Leo!Ptbl[g + 1][a + 1]
      BY <2>2, <2>3
    <3>2. PICK b \in 0 .. 3 : y = Leo!Ptbl[h + 1][b + 1]
      BY <2>2, <2>3
    <3>3. Standard!PBox[32 - y] = 4 * g + (3 - a) /\ Standard!PBox[32 - y] = 4 * h + (3 - b)
      BY <3>1, <3>2, PlacesAgree
    <3>4. QED
      BY <3>3
  <2>4. ASSUME NEW y
        PROVE  y \in x <=> \E g \in 0 .. 7 : y \in p(g)
    <3>1. /\ y \in p(0) => y \notin p(1) /\ y \notin p(2) /\ y \notin p(3)
                            /\ y \notin p(4) /\ y \notin p(5) /\ y \notin p(6) /\ y \notin p(7)
          /\ y \in p(1) => y \notin p(2) /\ y \notin p(3) /\ y \notin p(4)
                            /\ y \notin p(5) /\ y \notin p(6) /\ y \notin p(7)
          /\ y \in p(2) => y \notin p(3) /\ y \notin p(4) /\ y \notin p(5)
                            /\ y \notin p(6) /\ y \notin p(7)
          /\ y \in p(3) => y \notin p(4) /\ y \notin p(5) /\ y \notin p(6) /\ y \notin p(7)
          /\ y \in p(4) => y \notin p(5) /\ y \notin p(6) /\ y \notin p(7)
          /\ y \in p(5) => y \notin p(6) /\ y \notin p(7)
          /\ y \in p(6) => y \notin p(7)
      BY <2>3
    <3>2. y \in x <=> \/ y \in p(0) \/ y \in p(1) \/ y \in p(2) \/ y \in p(3)
                      \/ y \in p(4) \/ y \in p(5) \/ y \in p(6) \/ y \in p(7)
      BY <2>1, <3>1 DEF Leo!Xor
    <3>3. (\E g \in 0 .. 7 : y \in p(g)) <=>
            \/ y \in p(0) \/ y \in p(1) \/ y \in p(2) \/ y \in p(3)
            \/ y \in p(4) \/ y \in p(5) \/ y \in p(6) \/ y \in p(7)
      OBVIOUS
    <3>4. QED
      BY <3>2, <3>3
  <2>5. QED
    BY <2>2, <2>4
<1>3. \A c \in 0 .. 31 :
        c \in z <=> \E g \in 0 .. 7, k \in 0 .. 3 : <<g, 3 - k>> \in Bits
          /\ Standard!PBox[c + 1] = 4 * g + k
  <2> DEFINE Of(g) == {4 * g + k : k \in {a \in 0 .. 3 : (M(g) \div 2 ^ (3 - a)) % 2 = 1}}
             boxed == UNION {Of(g) : g \in 0 .. 7}
  <2>1. z = {c \in 0 .. 31 : Standard!PBox[c + 1] \in boxed}
    BY DEF Standard!f
  <2>2. ASSUME NEW g \in 0 .. 7, NEW k \in 0 .. 3
        PROVE  <<g, 3 - k>> \in Bits <=> (M(g) \div 2 ^ (3 - k)) % 2 = 1
    <3>1. N(g) = M(g) /\ 3 - k \in 0 .. 3
      BY <1>1
    <3> HIDE DEF N, M
    <3>2. QED
      BY <3>1
  <2>3. \A p : p \in boxed <=>
          \E g \in 0 .. 7, k \in 0 .. 3 : <<g, 3 - k>> \in Bits /\ p = 4 * g + k
    <3> HIDE DEF M, Bits
    <3>1. ASSUME NEW p, NEW g \in 0 .. 7
          PROVE  p \in Of(g) <=> \E k \in 0 .. 3 : <<g, 3 - k>> \in Bits /\ p = 4 * g + k
      BY <2>2
    <3> HIDE DEF Of
    <3>2. \A p : p \in boxed <=> \E g \in 0 .. 7 : p \in Of(g)
      OBVIOUS
    <3> HIDE DEF boxed
    <3>3. QED
      BY <3>1, <3>2
  <2> HIDE DEF boxed, z, Bits
  <2>4. QED
    BY <2>1, <2>3
<1>4. x \in Word /\ z \in Word
  <2>1. z \in Word
    BY DEF Standard!f, Word
  <2> HIDE DEF Bits, x, z
  <2>2. x \in Word
    <3>1. ASSUME NEW y \in x
          PROVE  y \in 0 .. 31
      <4>1. PICK g \in 0 .. 7, a \in 0 .. 3 : y = Leo!Ptbl[g + 1][a + 1]
        BY <1>2
      <4>2. QED
        BY <4>1, PlacesAgree
    <3>2. QED
      BY <3>1 DEF Word
  <2>3. QED
    BY <2>1, <2>2
<1> HIDE DEF Bits, x, z
<1>5. ASSUME NEW c \in 0 .. 31
      PROVE  c \in z <=> 31 - c \in x
  <2>1. ASSUME NEW g \in 0 .. 7, NEW k \in 0 .. 3, <<g, 3 - k>> \in Bits,
          Standard!PBox[c + 1] = 4 * g + k
        PROVE  31 - c \in x
    <3>1. Standard!PBox[c + 1] \div 4 = g /\ Standard!PBox[c + 1] % 4 = k
      BY <2>1
    <3>2. Leo!Ptbl[g + 1][4 - k] = 31 - c
      BY <3>1, PlacesAgree
    <3>3. 3 - k \in 0 .. 3 /\ (3 - k) + 1 = 4 - k
      OBVIOUS
    <3>4. QED
      BY <1>2, <2>1, <3>2, <3>3
  <2>2. ASSUME NEW g \in 0 .. 7, NEW a \in 0 .. 3, <<g, a>> \in Bits, 31 - c =
          Leo!Ptbl[g + 1][a + 1]
        PROVE  c \in z
    <3>1. 32 - Leo!Ptbl[g + 1][a + 1] = c + 1
      BY <2>2, PlacesAgree
    <3>2. Standard!PBox[c + 1] = 4 * g + (3 - a)
      BY <3>1, PlacesAgree
    <3>3. 3 - a \in 0 .. 3 /\ 3 - (3 - a) = a
      OBVIOUS
    <3>4. QED
      BY <1>3, <2>2, <3>2, <3>3
  <2>3. c \in z => 31 - c \in x
    BY <1>3, <2>1
  <2>4. 31 - c \in x => c \in z
    BY <1>2, <2>2
  <2>5. QED
    BY <2>3, <2>4
<1>6. FromLeft(x) \in Word /\ \A c \in 0 .. 31 : c \in FromLeft(x) <=> 31 - c \in x
  BY <1>4, FromLeftIs
<1>7. FromLeft(x) = z
  BY <1>4, <1>5, <1>6 DEF Word
<1>8. QED
  BY <1>4, <1>7 DEF x, z

-----------------------------------------------------------------------------
(***************************************************************************)
(* The halves of the key, turn by turn.                                    *)
(***************************************************************************)
\* From x there are n steps, the k-th by F[k].
Chain(S, x, F, n) ==
  \E h \in [0 .. n -> S] : h[0] = x /\ \A k \in 1 .. n : h[k] = F[k][h[k - 1]]

\* What the recursive functions of the two modules need to exist: a chain of
\* steps can be made one longer ...
LEMMA ChainGrows ==
  ASSUME NEW S, NEW x \in S, NEW F \in [1 .. 16 -> [S -> S]], NEW n \in 0 .. 15,
         Chain(S, x, F, n)
  PROVE  Chain(S, x, F, n + 1)
<1>1. PICK h \in [0 .. n -> S] : h[0] = x /\ \A k \in 1 .. n : h[k] = F[k][h[k - 1]]
  BY DEF Chain
<1> DEFINE g == [k \in 0 .. n + 1 |-> IF k = n + 1 THEN F[n + 1][h[n]] ELSE h[k]]
<1>2. F[n + 1][h[n]] \in S
  <2>1. F[n + 1] \in [S -> S] /\ h[n] \in S
    OBVIOUS
  <2>2. QED
    BY <2>1
<1>3. g \in [0 .. n + 1 -> S]
  BY <1>2
<1>4. g[0] = x
  BY <1>1
<1>5. ASSUME NEW k \in 1 .. n + 1
      PROVE  g[k] = F[k][g[k - 1]]
  <2>1. CASE k = n + 1
    BY <2>1
  <2>2. CASE k \in 1 .. n
    BY <1>1, <2>2
  <2>3. QED
    BY <2>1, <2>2
<1> HIDE DEF g
<1>6. QED
  BY <1>3, <1>4, <1>5 DEF Chain

\* ... and so has sixteen steps.
LEMMA ChainExists ==
  ASSUME NEW S, NEW x \in S, NEW F \in [1 .. 16 -> [S -> S]]
  PROVE  Chain(S, x, F, 16)
<1>0. Chain(S, x, F, 0)
  <2> DEFINE g == [k \in 0 .. 0 |-> x]
  <2>1. g \in [0 .. 0 -> S] /\ g[0] = x
    OBVIOUS
  <2>2. 1 .. 0 = {}
    OBVIOUS
  <2> HIDE DEF g
  <2>3. g[0] = x /\ \A k \in 1 .. 0 : g[k] = F[k][g[k - 1]]
    BY <2>1, <2>2
  <2>4. QED
    BY <2>1, <2>3, Zenon DEF Chain
<1>s. \A n \in 0 .. 15 : Chain(S, x, F, n) => Chain(S, x, F, n + 1)
  BY ChainGrows
<1> HIDE DEF Chain
<1>1. Chain(S, x, F, 4)
  BY <1>0, <1>s
<1>2. Chain(S, x, F, 8)
  BY <1>1, <1>s
<1>3. Chain(S, x, F, 12)
  BY <1>2, <1>s
<1>4. QED
  BY <1>3, <1>s

Half28 == SUBSET (0 .. 27)

\* The same half of a key, with its bits counted from either end.
Mirrors(x, X) ==
  /\ x \in Half28 /\ X \in Half28
  /\ \A n \in 0 .. 27 : n \in X <=> 27 - n \in x

\* Rotating a half of the key, bit by bit.
LEMMA RotatedIs ==
  ASSUME NEW x \in Half28, NEW k \in 0 .. 27
  PROVE  /\ Leo!Rotated(x, k) \in Half28
         /\ \A y \in 0 .. 27 : y \in Leo!Rotated(x, k) <=> (y + (28 - k)) % 28 \in x
         /\ Standard!RotatedLeft(x, k) \in Half28
         /\ \A y \in 0 .. 27 : y \in Standard!RotatedLeft(x, k) <=> (y + k) % 28 \in x
<1>1. Leo!Rotated(x, k) \in Half28 /\ Standard!RotatedLeft(x, k) \in Half28
  BY DEF Leo!Rotated, Standard!RotatedLeft, Half28
<1>2. ASSUME NEW y \in 0 .. 27
      PROVE  /\ y \in Leo!Rotated(x, k) <=> (y + (28 - k)) % 28 \in x
             /\ y \in Standard!RotatedLeft(x, k) <=> (y + k) % 28 \in x
  <2>1. \A b \in 0 .. 27 : y = (b + k) % 28 <=> b = (y + (28 - k)) % 28
    OBVIOUS
  <2>2. \A b \in 0 .. 27 : y = (b + (28 - k)) % 28 <=> b = (y + k) % 28
    OBVIOUS
  <2>3. \A b \in x : b \in 0 .. 27
    BY DEF Half28
  <2>4. QED
    BY <2>1, <2>2, <2>3 DEF Leo!Rotated, Standard!RotatedLeft
<1>3. QED
  BY <1>1, <1>2

\* Rotating keeps the halves of the key mirrors of each other.
LEMMA RotatedMirrors ==
  ASSUME NEW x, NEW X, Mirrors(x, X), NEW k \in 1 .. 2
  PROVE  Mirrors(Leo!Rotated(x, k), Standard!RotatedLeft(X, k))
<1>1. x \in Half28 /\ X \in Half28 /\ k \in 0 .. 27
  BY DEF Mirrors
<1>2. ASSUME NEW n \in 0 .. 27
      PROVE  n \in Standard!RotatedLeft(X, k) <=> 27 - n \in Leo!Rotated(x, k)
  <2>1. /\ 27 - n \in 0 .. 27 /\ (n + k) % 28 \in 0 .. 27
        /\ 27 - ((n + k) % 28) = (27 - n + (28 - k)) % 28
    OBVIOUS
  <2>2. n \in Standard!RotatedLeft(X, k) <=> (n + k) % 28 \in X
    BY <1>1, RotatedIs
  <2>3. 27 - n \in Leo!Rotated(x, k) <=> (27 - n + (28 - k)) % 28 \in x
    BY <1>1, <2>1, RotatedIs
  <2>4. (n + k) % 28 \in X <=> 27 - ((n + k) % 28) \in x
    BY <2>1 DEF Mirrors
  <2>5. QED
    BY <2>1, <2>2, <2>3, <2>4
<1>3. QED
  BY <1>1, <1>2, RotatedIs DEF Mirrors

\* Both rotate by the same numbers of places.
LEMMA ShiftsAgree ==
  \A n \in 1 .. 16 : Leo!nshifts[n] \in 1 .. 2 /\ Standard!key_rnd_shift[n] = Leo!nshifts[n]
BY DEF Leo!nshifts, Standard!key_rnd_shift

\* The halves of the key after each turn of the loop of des_setkey.
LEMMA LeoTurned ==
  ASSUME NEW x \in Half28
  PROVE  Leo!Turned(x) = [n \in 0 .. 16 |-> IF n = 0 THEN x
           ELSE Leo!Rotated(Leo!Turned(x)[n - 1], Leo!nshifts[n])]
<1> DEFINE P(c) == c = [n \in 0 .. 16 |-> IF n = 0 THEN x
             ELSE Leo!Rotated(c[n - 1], Leo!nshifts[n])]
           F == [n \in 1 .. 16 |-> [y \in Half28 |-> Leo!Rotated(y, Leo!nshifts[n])]]
<1>1. F \in [1 .. 16 -> [Half28 -> Half28]]
  <2>1. ASSUME NEW n \in 1 .. 16, NEW y \in Half28
        PROVE  Leo!Rotated(y, Leo!nshifts[n]) \in Half28
    <3>1. Leo!nshifts[n] \in 0 .. 27
      BY ShiftsAgree
    <3>2. QED
      BY <3>1, RotatedIs
  <2>2. QED
    BY <2>1
<1>2. PICK h \in [0 .. 16 -> Half28] : h[0] = x /\ \A n \in 1 .. 16 : h[n] = F[n][h[n - 1]]
  <2> HIDE DEF F
  <2>1. Chain(Half28, x, F, 16)
    BY <1>1, ChainExists
  <2>2. QED
    BY <2>1, Zenon DEF Chain
<1>3. ASSUME NEW n \in 1 .. 16
      PROVE  h[n] = Leo!Rotated(h[n - 1], Leo!nshifts[n])
  <2>1. n - 1 \in 0 .. 16
    OBVIOUS
  <2>2. QED
    BY <1>2, <2>1
<1>4. P(h)
  BY <1>2, <1>3
<1>5. Leo!Turned(x) = CHOOSE c : P(c)
  BY DEF Leo!Turned
<1> HIDE DEF P
<1>6. P(Leo!Turned(x))
  BY <1>4, <1>5, Zenon
<1>7. QED
  BY <1>6 DEF P

\* The halves of the key after each turn of the loop of des_key_setup.
LEMMA StandardTurned ==
  ASSUME NEW x \in Half28
  PROVE  Standard!Turned(x) =
           [n \in 0 .. 16 |-> IF n = 0 THEN x
                              ELSE Standard!RotatedLeft(Standard!Turned(x)[n - 1],
                                Standard!key_rnd_shift[n])]
<1> DEFINE P(c) == c = [n \in 0 .. 16 |-> IF n = 0 THEN x
                                           ELSE Standard!RotatedLeft(c[n - 1],
                                             Standard!key_rnd_shift[n])]
           F == [n \in 1 .. 16 |->
                   [y \in Half28 |-> Standard!RotatedLeft(y, Standard!key_rnd_shift[n])]]
<1>1. F \in [1 .. 16 -> [Half28 -> Half28]]
  <2>1. ASSUME NEW n \in 1 .. 16, NEW y \in Half28
        PROVE  Standard!RotatedLeft(y, Standard!key_rnd_shift[n]) \in Half28
    <3>1. Standard!key_rnd_shift[n] \in 0 .. 27
      BY ShiftsAgree
    <3>2. QED
      BY <3>1, RotatedIs
  <2>2. QED
    BY <2>1
<1>2. PICK h \in [0 .. 16 -> Half28] : h[0] = x /\ \A n \in 1 .. 16 : h[n] = F[n][h[n - 1]]
  <2> HIDE DEF F
  <2>1. Chain(Half28, x, F, 16)
    BY <1>1, ChainExists
  <2>2. QED
    BY <2>1, Zenon DEF Chain
<1>3. ASSUME NEW n \in 1 .. 16
      PROVE  h[n] = Standard!RotatedLeft(h[n - 1], Standard!key_rnd_shift[n])
  <2>1. n - 1 \in 0 .. 16
    OBVIOUS
  <2>2. QED
    BY <1>2, <2>1
<1>4. P(h)
  BY <1>2, <1>3
<1>5. Standard!Turned(x) = CHOOSE c : P(c)
  BY DEF Standard!Turned
<1> HIDE DEF P
<1>6. P(Standard!Turned(x))
  BY <1>4, <1>5, Zenon
<1>7. QED
  BY <1>6 DEF P

\* The halves of the key stay mirrors of each other.
LEMMA TurnedMirrors ==
  ASSUME NEW x, NEW X, Mirrors(x, X)
  PROVE  \A n \in 0 .. 16 : Mirrors(Leo!Turned(x)[n], Standard!Turned(X)[n])
<1> DEFINE c == Leo!Turned(x)
           C == Standard!Turned(X)
<1>1. /\ c[0] = x /\ \A n \in 1 .. 16 : c[n] = Leo!Rotated(c[n - 1], Leo!nshifts[n])
      /\ C[0] = X /\ \A n \in 1 .. 16 : C[n] =
           Standard!RotatedLeft(C[n - 1], Standard!key_rnd_shift[n])
  <2>1. /\ c = [n \in 0 .. 16 |-> IF n = 0 THEN x
             ELSE Leo!Rotated(c[n - 1], Leo!nshifts[n])]
        /\ C = [n \in 0 .. 16 |-> IF n = 0 THEN X
             ELSE Standard!RotatedLeft(C[n - 1], Standard!key_rnd_shift[n])]
    BY LeoTurned, StandardTurned DEF Mirrors
  <2> HIDE DEF c, C
  <2>2. QED
    BY <2>1
<1> HIDE DEF c, C
<1> DEFINE M(n) == Mirrors(c[n], C[n])
<1>2. M(0)
  BY <1>1
<1>3. ASSUME NEW n \in 0 .. 15, M(n)
      PROVE  M(n + 1)
  <2>1. n + 1 \in 1 .. 16 /\ (n + 1) - 1 = n
    OBVIOUS
  <2>2. Leo!nshifts[n + 1] \in 1 .. 2 /\ Standard!key_rnd_shift[n + 1] = Leo!nshifts[n + 1]
    BY <2>1, ShiftsAgree
  <2>3. c[n + 1] = Leo!Rotated(c[n], Leo!nshifts[n + 1])
          /\ C[n + 1] = Standard!RotatedLeft(C[n], Leo!nshifts[n + 1])
    BY <1>1, <2>1, <2>2
  <2>4. QED
    BY <1>3, <2>2, <2>3, RotatedMirrors
<1> HIDE DEF M
<1>4. M(0) /\ M(1) /\ M(2) /\ M(3) /\ M(4) /\ M(5)
  BY <1>2, <1>3
<1>5. M(6) /\ M(7) /\ M(8) /\ M(9) /\ M(10)
  BY <1>4, <1>3
<1>6. M(11) /\ M(12) /\ M(13) /\ M(14) /\ M(15) /\ M(16)
  BY <1>5, <1>3
<1>7. \A n \in 0 .. 16 : M(n)
  BY <1>4, <1>5, <1>6
<1>8. QED
  BY <1>7 DEF M, c, C

-----------------------------------------------------------------------------
(***************************************************************************)
(* The two choices of the key schedule.                                    *)
(***************************************************************************)
\* The tables of the two key schedules hold the same places.
LEMMA TablesAgree ==
  /\ \A m \in 0 .. 23 :
       /\ Leo!pc2_c[m + 1] \in 0 .. 27 /\ Leo!pc2_d[m + 1] \in 0 .. 27
       /\ Standard!key_compression[m + 1] = 27 - Leo!pc2_c[m + 1]
       /\ Standard!key_compression[m + 25] = 55 - Leo!pc2_d[m + 1]
  /\ \A n \in 0 .. 27 :
       /\ Standard!key_perm_c[n + 1] \in 0 .. 63 /\ Standard!key_perm_d[n + 1] \in 0 .. 63
       /\ Standard!key_perm_c[n + 1] % 8 \in 0 .. 6
            /\ Standard!key_perm_d[n + 1] % 8 \in 0 .. 6
       /\ Leo!pc1[(7 * (Standard!key_perm_c[n + 1] \div 8))
                    + (Standard!key_perm_c[n + 1] % 8) + 1] = 55 - n
       /\ Leo!pc1[(7 * (Standard!key_perm_d[n + 1] \div 8))
                    + (Standard!key_perm_d[n + 1] % 8) + 1] = 27 - n
<1>1. \A m \in 0 .. 23 :
       /\ Leo!pc2_c[m + 1] \in 0 .. 27 /\ Leo!pc2_d[m + 1] \in 0 .. 27
       /\ Standard!key_compression[m + 1] = 27 - Leo!pc2_c[m + 1]
       /\ Standard!key_compression[m + 25] = 55 - Leo!pc2_d[m + 1]
  BY DEF Leo!pc2_c, Leo!pc2_d, Standard!key_compression
<1>2. \A n \in 0 .. 27 :
       /\ Standard!key_perm_c[n + 1] \in 0 .. 63
       /\ Standard!key_perm_c[n + 1] % 8 \in 0 .. 6
       /\ Leo!pc1[(7 * (Standard!key_perm_c[n + 1] \div 8))
                    + (Standard!key_perm_c[n + 1] % 8) + 1] = 55 - n
  BY DEF Leo!pc1, Standard!key_perm_c
<1>3. \A n \in 0 .. 27 :
       /\ Standard!key_perm_d[n + 1] \in 0 .. 63
       /\ Standard!key_perm_d[n + 1] % 8 \in 0 .. 6
       /\ Leo!pc1[(7 * (Standard!key_perm_d[n + 1] \div 8))
                    + (Standard!key_perm_d[n + 1] % 8) + 1] = 27 - n
  BY DEF Leo!pc1, Standard!key_perm_d
<1>4. QED
  BY <1>1, <1>2, <1>3

\* No place of pc1 is named twice: each comes from one bit of the key.
LEMMA EachPlaceOnce ==
  \A m \in 0 .. 7, j \in 0 .. 6 :
    /\ Leo!pc1[(7 * m) + j + 1] \in 0 .. 55
    /\ \A n \in 0 .. 27 : 
         /\ Leo!pc1[(7 * m) + j + 1] = 55 - n => Standard!key_perm_c[n + 1] = (8 * m) + j
         /\ Leo!pc1[(7 * m) + j + 1] = 27 - n => Standard!key_perm_d[n + 1] = (8 * m) + j
<1>1. \A m \in 0 .. 7, j \in 0 .. 6 :
        /\ Leo!pc1[(7 * m) + j + 1] \in 0 .. 55
        /\ Leo!pc1[(7 * m) + j + 1] \in 28 .. 55 =>
             Standard!key_perm_c[56 - Leo!pc1[(7 * m) + j + 1]] = (8 * m) + j
        /\ Leo!pc1[(7 * m) + j + 1] \in 0 .. 27 =>
             Standard!key_perm_d[28 - Leo!pc1[(7 * m) + j + 1]] = (8 * m) + j
  BY DEF Leo!pc1, Standard!key_perm_c, Standard!key_perm_d
<1>2. QED
  <2> SUFFICES ASSUME NEW m \in 0 .. 7, NEW j \in 0 .. 6, NEW n \in 0 .. 27
               PROVE  LET p == Leo!pc1[(7 * m) + j + 1]
                      IN  /\ p \in 0 .. 55
                          /\ p = 55 - n => Standard!key_perm_c[n + 1] = (8 * m) + j
                          /\ p = 27 - n => Standard!key_perm_d[n + 1] = (8 * m) + j
    BY <1>1
  <2> DEFINE p == Leo!pc1[(7 * m) + j + 1]
  <2>1. /\ p \in 0 .. 55
        /\ p \in 28 .. 55 => Standard!key_perm_c[56 - p] = (8 * m) + j
        /\ p \in 0 .. 27 => Standard!key_perm_d[28 - p] = (8 * m) + j
    BY <1>1
  <2> HIDE DEF p
  <2>2. ASSUME p = 55 - n
        PROVE  Standard!key_perm_c[n + 1] = (8 * m) + j
    <3>1. p \in 28 .. 55 /\ 56 - p = n + 1
      BY <2>2
    <3>2. QED
      BY <2>1, <3>1
  <2>3. ASSUME p = 27 - n
        PROVE  Standard!key_perm_d[n + 1] = (8 * m) + j
    <3>1. p \in 0 .. 27 /\ 28 - p = n + 1
      BY <2>3
    <3>2. QED
      BY <2>1, <3>1
  <2>4. QED
    BY <2>1, <2>2, <2>3 DEF p

\* The first choice: both divide the key into the same halves.
LEMMA ChoicesAgree ==
  ASSUME NEW k \in Block
  PROVE  LET places == Leo!PermutedChoice1(k)
         IN  /\ Mirrors({b - 28 : b \in places \ (0 .. 27)},
                  Standard!PermutedChoice(k, Standard!key_perm_c))
             /\ Mirrors(places \intersect 0 .. 27,
                  Standard!PermutedChoice(k, Standard!key_perm_d))
<1> DEFINE places == Leo!PermutedChoice1(k)
           c == {b - 28 : b \in places \ (0 .. 27)}
           d == places \intersect 0 .. 27
           C == Standard!PermutedChoice(k, Standard!key_perm_c)
           D == Standard!PermutedChoice(k, Standard!key_perm_d)
<1>1. \A b : b \in places <=>
        \E m \in 0 .. 7, j \in 0 .. 6 : 7 - j \in k[m + 1] /\ b = Leo!pc1[(7 * m) + j + 1]
  <2> DEFINE Kept == {q \in (0 .. 7) \X (0 .. 6) : 7 - q[2] \in k[q[1] + 1]}
             At(q) == Leo!pc1[7 * q[1] + q[2] + 1]
  <2>1. places = {At(q) : q \in Kept}
    BY DEF Leo!PermutedChoice1
  <2>2. \A m \in 0 .. 7, j \in 0 .. 6 :
          /\ <<m, j>> \in Kept <=> 7 - j \in k[m + 1]
          /\ At(<<m, j>>) = Leo!pc1[(7 * m) + j + 1]
    OBVIOUS
  <2>3. \A q \in Kept : q[1] \in 0 .. 7 /\ q[2] \in 0 .. 6 /\ q = <<q[1], q[2]>>
    OBVIOUS
  <2> HIDE DEF Kept, At, places
  <2>4. \A b : b \in places <=> \E q \in Kept : b = At(q)
    BY <2>1
  <2>5. ASSUME NEW b, NEW q \in Kept, b = At(q)
        PROVE  \E m \in 0 .. 7, j \in 0 .. 6 : 7 - j \in k[m + 1]
                 /\ b = Leo!pc1[(7 * m) + j + 1]
    <3>1. PICK m \in 0 .. 7, j \in 0 .. 6 : q = <<m, j>>
      BY <2>3
    <3>2. QED
      BY <2>2, <2>5, <3>1
  <2>6. ASSUME NEW b, NEW m \in 0 .. 7, NEW j \in 0 .. 6, 7 - j \in k[m + 1], b =
          Leo!pc1[(7 * m) + j + 1]
        PROVE  \E q \in Kept : b = At(q)
    BY <2>2, <2>6
  <2>7. QED
    BY <2>4, <2>5, <2>6
<1> HIDE DEF places
<1>2. places \subseteq 0 .. 55
  <2>1. ASSUME NEW b \in places
        PROVE  b \in 0 .. 55
    <3>1. PICK m \in 0 .. 7, j \in 0 .. 6 : b = Leo!pc1[(7 * m) + j + 1]
      BY <1>1
    <3>2. QED
      BY <3>1, EachPlaceOnce
  <2>2. QED
    BY <2>1
<1>3. c \in Half28 /\ d \in Half28 /\ C \in Half28 /\ D \in Half28
  BY <1>2 DEF Half28, Standard!PermutedChoice
<1>4. ASSUME NEW n \in 0 .. 27
      PROVE  n \in C <=> 55 - n \in places
  <2> DEFINE v == Standard!key_perm_c[n + 1]
  <2>1. v \in 0 .. 63 /\ v % 8 \in 0 .. 6
          /\ Leo!pc1[(7 * (v \div 8)) + (v % 8) + 1] = 55 - n
    BY TablesAgree
  <2>2. n \in C <=> 7 - (v % 8) \in k[(v \div 8) + 1]
    BY DEF Standard!PermutedChoice, Standard!BITNUM
  <2> HIDE DEF v, C
  <2>3. v \div 8 \in 0 .. 7
    BY <2>1
  <2>4. ASSUME n \in C
        PROVE  55 - n \in places
    BY <1>1, <2>1, <2>2, <2>3, <2>4
  <2>5. ASSUME 55 - n \in places
        PROVE  n \in C
    <3>1. PICK m \in 0 .. 7, j \in 0 .. 6 : 7 - j \in k[m + 1]
                 /\ 55 - n = Leo!pc1[(7 * m) + j + 1]
      BY <1>1, <2>5
    <3>2. v = (8 * m) + j
      BY <3>1, EachPlaceOnce DEF v
    <3>3. v % 8 = j /\ v \div 8 = m
      BY <3>2
    <3>4. QED
      BY <2>2, <3>1, <3>3
  <2>6. QED
    BY <2>4, <2>5
<1>5. ASSUME NEW n \in 0 .. 27
      PROVE  n \in D <=> 27 - n \in places
  <2> DEFINE v == Standard!key_perm_d[n + 1]
  <2>1. v \in 0 .. 63 /\ v % 8 \in 0 .. 6
          /\ Leo!pc1[(7 * (v \div 8)) + (v % 8) + 1] = 27 - n
    BY TablesAgree
  <2>2. n \in D <=> 7 - (v % 8) \in k[(v \div 8) + 1]
    BY DEF Standard!PermutedChoice, Standard!BITNUM
  <2> HIDE DEF v, D
  <2>3. v \div 8 \in 0 .. 7
    BY <2>1
  <2>4. ASSUME n \in D
        PROVE  27 - n \in places
    BY <1>1, <2>1, <2>2, <2>3, <2>4
  <2>5. ASSUME 27 - n \in places
        PROVE  n \in D
    <3>1. PICK m \in 0 .. 7, j \in 0 .. 6 : 7 - j \in k[m + 1]
                 /\ 27 - n = Leo!pc1[(7 * m) + j + 1]
      BY <1>1, <2>5
    <3>2. v = (8 * m) + j
      BY <3>1, EachPlaceOnce DEF v
    <3>3. v % 8 = j /\ v \div 8 = m
      BY <3>2
    <3>4. QED
      BY <2>2, <3>1, <3>3
  <2>6. QED
    BY <2>4, <2>5
<1>6. ASSUME NEW n \in 0 .. 27
      PROVE  (27 - n \in c <=> 55 - n \in places) /\ (27 - n \in d <=> 27 - n \in places)
  <2>1. 55 - n \notin 0 .. 27 /\ (55 - n) - 28 = 27 - n /\ 27 - n \in 0 .. 27
    OBVIOUS
  <2>2. \A b \in 0 .. 55 : b - 28 = 27 - n <=> b = 55 - n
    OBVIOUS
  <2>3. QED
    BY <1>2, <2>1, <2>2
<1> HIDE DEF c, d, C, D
<1>7. Mirrors(c, C) /\ Mirrors(d, D)
  BY <1>3, <1>4, <1>5, <1>6 DEF Mirrors
<1>8. QED
  BY <1>7 DEF places, c, d, C, D

\* Where des_setkey packs bit j of w[g].
LEMMA PackedIs ==
  ASSUME NEW c, NEW d, NEW g \in 0 .. 7, NEW j \in 0 .. 5
  PROVE  29 - 8 * (g \div 2) - j \in Leo!Packed(c, d, g % 2) <=>
           Leo!PermutedChoice2(c, d, g, j)
<1> DEFINE y == 29 - 8 * (g \div 2) - j
           first == g % 2
           P(k, m) == Leo!PermutedChoice2(c, d, k, m)
<1>1. y \in Leo!Packed(c, d, first) <=>
        \E k \in {first, first + 2, first + 4, first + 6}, m \in 0 .. 5 :
          P(k, m) /\ y = 29 - 8 * (k \div 2) - m
  <2> DEFINE Kept == {p \in {first, first + 2, first + 4, first + 6} \X (0 .. 5) :
                        Leo!PermutedChoice2(c, d, p[1], p[2])}
             At(p) == 29 - 8 * (p[1] \div 2) - p[2]
  <2>1. Leo!Packed(c, d, first) = {At(p) : p \in Kept}
    BY DEF Leo!Packed
  <2>2. y \in Leo!Packed(c, d, first) <=> \E p \in Kept : y = At(p)
    BY <2>1
  <2>3. \A k \in {first, first + 2, first + 4, first + 6}, m \in 0 .. 5 :
          /\ <<k, m>> \in Kept <=> P(k, m)
          /\ At(<<k, m>>) = 29 - 8 * (k \div 2) - m
    OBVIOUS
  <2>4. \A p \in Kept : \E k \in {first, first + 2, first + 4, first + 6}, m \in 0 .. 5 :
          p = <<k, m>>
    OBVIOUS
  <2> HIDE DEF Kept, At, P, y, first
  <2>5. QED
    BY <2>2, <2>3, <2>4
<1>2. g \in {first, first + 2, first + 4, first + 6}
  OBVIOUS
<1>3. ASSUME NEW k \in {first, first + 2, first + 4, first + 6}, NEW m \in 0 .. 5,
             y = 29 - 8 * (k \div 2) - m
      PROVE  k = g /\ m = j
  BY <1>3
<1> HIDE DEF P, first
<1>4. y \in Leo!Packed(c, d, first) <=> P(g, j)
  BY <1>1, <1>2, <1>3
<1>5. QED
  BY <1>4 DEF P, first

\* The second choice: the packed subkeys are those of the standard.
LEMMA PackedAgrees ==
  ASSUME NEW c, NEW C, Mirrors(c, C), NEW d, NEW D, Mirrors(d, D)
  PROVE  /\ <<Leo!Packed(c, d, 0), Leo!Packed(c, d, 1)>> \in Word \X Word
         /\ Standard!Compressed(C, D) \in SUBSET (0 .. 47)
         /\ SubkeyAgrees(<<Leo!Packed(c, d, 0), Leo!Packed(c, d, 1)>>,
              Standard!Compressed(C, D))
<1> DEFINE sub == <<Leo!Packed(c, d, 0), Leo!Packed(c, d, 1)>>
           K == Standard!Compressed(C, D)
<1>1. sub \in Word \X Word
  <2>1. ASSUME NEW first \in 0 .. 1
        PROVE  Leo!Packed(c, d, first) \in Word
    <3>1. ASSUME NEW y \in Leo!Packed(c, d, first)
          PROVE  y \in 0 .. 31
      <4>1. PICK k \in {first, first + 2, first + 4, first + 6}, m \in 0 .. 5 : y =
                   29 - 8 * (k \div 2) - m
        BY DEF Leo!Packed
      <4>2. QED
        BY <4>1
    <3>2. QED
      BY <3>1 DEF Word
  <2>2. QED
    BY <2>1
<1>2. K \in SUBSET (0 .. 47)
  BY DEF Standard!Compressed
<1>3. ASSUME NEW g \in 0 .. 7, NEW j \in 0 .. 5
      PROVE  6 * g + j \in K <=> Leo!PermutedChoice2(c, d, g, j)
  <2>1. CASE g < 4
    <3> DEFINE m == 6 * g + j
    <3>1. m \in 0 .. 23 /\ m \in 0 .. 47 /\ m < 24
      BY <2>1
    <3>2. m \in K <=> Standard!key_compression[m + 1] \in C
      BY <3>1 DEF Standard!Compressed
    <3>3. Leo!PermutedChoice2(c, d, g, j) <=> Leo!pc2_c[m + 1] \in c
      BY <2>1 DEF Leo!PermutedChoice2
    <3> HIDE DEF m
    <3>4. 27 - Standard!key_compression[m + 1] = Leo!pc2_c[m + 1]
            /\ Standard!key_compression[m + 1] \in 0 .. 27
      <4>1. Leo!pc2_c[m + 1] \in 0 .. 27
              /\ Standard!key_compression[m + 1] = 27 - Leo!pc2_c[m + 1]
        BY <3>1, TablesAgree
      <4>2. QED
        BY <4>1
    <3>5. QED
      BY <3>2, <3>3, <3>4 DEF Mirrors, m
  <2>2. CASE ~(g < 4)
    <3> DEFINE m == 6 * (g - 4) + j
    <3>1. m \in 0 .. 23 /\ m + 24 \in 0 .. 47 /\ ~(m + 24 < 24) /\ 6 * g + j = m + 24
      BY <2>2
    <3> HIDE DEF m
    <3>2. m + 24 \in K <=> Standard!key_compression[(m + 24) + 1] - 28 \in D
      BY <3>1 DEF Standard!Compressed
    <3>3. Leo!PermutedChoice2(c, d, g, j) <=> Leo!pc2_d[m + 1] \in d
      BY <2>2 DEF Leo!PermutedChoice2, m
    <3>4. (m + 24) + 1 = m + 25
      BY <3>1
    <3>5. 27 - (Standard!key_compression[m + 25] - 28) = Leo!pc2_d[m + 1]
            /\ Standard!key_compression[m + 25] - 28 \in 0 .. 27
      <4>1. Leo!pc2_d[m + 1] \in 0 .. 27
              /\ Standard!key_compression[m + 25] = 55 - Leo!pc2_d[m + 1]
        BY <3>1, TablesAgree
      <4>2. QED
        BY <4>1
    <3>6. QED
      BY <3>1, <3>2, <3>3, <3>4, <3>5 DEF Mirrors
  <2>3. QED
    BY <2>1, <2>2
<1>4. ASSUME NEW g \in 0 .. 7
      PROVE  sub[(g % 2) + 1] = Leo!Packed(c, d, g % 2)
  <2>1. g % 2 = 0 \/ g % 2 = 1
    OBVIOUS
  <2>2. QED
    BY <2>1
<1> HIDE DEF sub, K
<1>5. SubkeyAgrees(sub, K)
  BY <1>3, <1>4, PackedIs DEF SubkeyAgrees
<1>6. QED
  BY <1>1, <1>2, <1>5 DEF sub, K

-----------------------------------------------------------------------------
(***************************************************************************)
(* The subkeys, a round, and the rounds undone.                            *)
(***************************************************************************)
Modes == {"encrypt", "decrypt"}

\* The subkeys for encrypting are the same.
LEMMA SetupIs ==
  ASSUME NEW k \in Block, NEW n \in 0 .. 15
  PROVE  LET sub == Leo!des_setkey(k)[n]
             K == Standard!des_key_setup(k, "encrypt")[n]
         IN  sub \in Word \X Word /\ K \in SUBSET (0 .. 47) /\ SubkeyAgrees(sub, K)
<1> DEFINE places == Leo!PermutedChoice1(k)
           c == {b - 28 : b \in places \ (0 .. 27)}
           d == places \intersect 0 .. 27
           C == Standard!PermutedChoice(k, Standard!key_perm_c)
           D == Standard!PermutedChoice(k, Standard!key_perm_d)
           tc == Leo!Turned(c)[n + 1]
           td == Leo!Turned(d)[n + 1]
           TC == Standard!Turned(C)[n + 1]
           TD == Standard!Turned(D)[n + 1]
<1>1. Mirrors(c, C) /\ Mirrors(d, D)
  BY ChoicesAgree
<1>2. Leo!des_setkey(k)[n] = <<Leo!Packed(tc, td, 0), Leo!Packed(tc, td, 1)>>
  BY DEF Leo!des_setkey
<1>3. Standard!des_key_setup(k, "encrypt")[n] = Standard!Compressed(TC, TD)
  <2>1. "encrypt" # "decrypt"
    OBVIOUS
  <2>2. QED
    BY <2>1 DEF Standard!des_key_setup
<1> HIDE DEF c, d, C, D
<1>4. Mirrors(tc, TC) /\ Mirrors(td, TD)
  <2>1. n + 1 \in 0 .. 16
    OBVIOUS
  <2>2. QED
    BY <1>1, <2>1, TurnedMirrors
<1> HIDE DEF tc, td, TC, TD
<1>5. QED
  BY <1>2, <1>3, <1>4, PackedAgrees

\* Decrypting uses them backwards.
LEMMA SetupBackwards ==
  ASSUME NEW k, NEW n \in 0 .. 15
  PROVE  Standard!des_key_setup(k, "decrypt")[n] =
           Standard!des_key_setup(k, "encrypt")[15 - n]
<1> DEFINE C == Standard!Turned(Standard!PermutedChoice(k, Standard!key_perm_c))
           D == Standard!Turned(Standard!PermutedChoice(k, Standard!key_perm_d))
<1>1. Standard!des_key_setup(k, "decrypt")[n] =
        Standard!Compressed(C[(15 - n) + 1], D[(15 - n) + 1])
  BY DEF Standard!des_key_setup
<1>2. Standard!des_key_setup(k, "encrypt")[15 - n] =
        Standard!Compressed(C[(15 - n) + 1], D[(15 - n) + 1])
  <2>1. "encrypt" # "decrypt" /\ 15 - n \in 0 .. 15
    OBVIOUS
  <2>2. QED
    BY <2>1 DEF Standard!des_key_setup
<1>3. QED
  BY <1>1, <1>2

\* In either direction every round of the two has the same subkey.
LEMMA KeysAgree ==
  ASSUME NEW k \in Block, NEW md \in Modes, NEW n \in 0 .. 15
  PROVE  LET sub == Leo!RoundKey(Leo!des_setkey(k), md, n)
             K == Standard!des_key_setup(k, md)[n]
         IN  sub \in Word \X Word /\ K \in SUBSET (0 .. 47) /\ SubkeyAgrees(sub, K)
<1>1. CASE md = "encrypt"
  <2>1. Leo!RoundKey(Leo!des_setkey(k), md, n) = Leo!des_setkey(k)[n]
    BY <1>1 DEF Leo!RoundKey
  <2>2. QED
    BY <1>1, <2>1, SetupIs
<1>2. CASE md = "decrypt"
  <2>1. 15 - n \in 0 .. 15
    OBVIOUS
  <2>2. Leo!RoundKey(Leo!des_setkey(k), md, n) = Leo!des_setkey(k)[15 - n]
    BY <1>2 DEF Leo!RoundKey
  <2>3. QED
    BY <1>2, <2>1, <2>2, SetupIs, SetupBackwards
<1>3. QED
  BY <1>1, <1>2 DEF Modes

-----------------------------------------------------------------------------

\* The halves switched.
Swap(s) == <<s[2], s[1]>>

\* Counting from the left and xor.
LEMMA XorTypes ==
  ASSUME NEW a \in Word, NEW b \in Word
  PROVE  /\ Leo!Xor(a, b) \in Word /\ Standard!Xor(a, b) \in Word
         /\ FromLeft(Leo!Xor(a, b)) = Standard!Xor(FromLeft(b), FromLeft(a))
<1>1. Leo!Xor(a, b) \in Word /\ Standard!Xor(a, b) \in Word
  BY DEF Leo!Xor, Standard!Xor, Word
<1>2. FromLeft(a) \in Word /\ FromLeft(b) \in Word
  BY FromLeftIs
<1>3. Standard!Xor(FromLeft(b), FromLeft(a)) \in Word
  BY <1>2 DEF Standard!Xor, Word
<1>4. FromLeft(Leo!Xor(a, b)) \in Word
  BY <1>1, FromLeftIs
<1>5. ASSUME NEW n \in 0 .. 31
      PROVE  n \in FromLeft(Leo!Xor(a, b)) <=> n \in Standard!Xor(FromLeft(b), FromLeft(a))
  <2>1. n \in FromLeft(Leo!Xor(a, b)) <=> 31 - n \in Leo!Xor(a, b)
    BY <1>1, FromLeftIs
  <2>2. (n \in FromLeft(a) <=> 31 - n \in a) /\ (n \in FromLeft(b) <=> 31 - n \in b)
    BY FromLeftIs
  <2>3. QED
    BY <2>1, <2>2 DEF Leo!Xor, Standard!Xor
<1>6. QED
  BY <1>1, <1>3, <1>4, <1>5 DEF Word

\* From the same halves and with the same subkey a round of the two yields the
\* same halves; the last round of the standard leaves them unswitched.
LEMMA RoundAgrees ==
  ASSUME NEW h \in Word \X Word, NEW sub \in Word \X Word, NEW K, SubkeyAgrees(sub, K),
         NEW t, t = <<FromLeft(h[1]), FromLeft(h[2])>>
  PROVE  LET g == Leo!Round(h, sub)
         IN  /\ g \in Word \X Word
             /\ Standard!Turn(t, K) = <<FromLeft(g[1]), FromLeft(g[2])>>
             /\ Standard!LastTurn(t, K) = <<FromLeft(g[2]), FromLeft(g[1])>>
<1> DEFINE fr == Leo!RoundFunction(h[2], sub)
           x == Leo!Xor(h[1], fr)
<1>1. h[1] \in Word /\ h[2] \in Word
  OBVIOUS
<1>2. fr \in Word /\ FromLeft(fr) = Standard!f(FromLeft(h[2]), K)
  BY <1>1, RoundFunctionAgrees
<1>3. Leo!Round(h, sub) = <<h[2], x>>
  BY DEF Leo!Round
<1> HIDE DEF fr
<1>4. x \in Word /\ FromLeft(x) =
        Standard!Xor(Standard!f(FromLeft(h[2]), K), FromLeft(h[1]))
  BY <1>1, <1>2, XorTypes
<1> HIDE DEF x
<1>5. t[1] = FromLeft(h[1]) /\ t[2] = FromLeft(h[2])
  OBVIOUS
<1>6. /\ Standard!Turn(t, K) = <<FromLeft(h[2]), FromLeft(x)>>
      /\ Standard!LastTurn(t, K) = <<FromLeft(x), FromLeft(h[2])>>
  BY <1>4, <1>5 DEF Standard!Turn, Standard!LastTurn
<1>7. QED
  BY <1>1, <1>3, <1>4, <1>6

-----------------------------------------------------------------------------
\* A round undoes itself once its halves are switched.
LEMMA TurnIs ==
  ASSUME NEW s \in Word \X Word, NEW K
  PROVE  /\ Standard!Turn(s, K) \in Word \X Word
         /\ Swap(s) \in Word \X Word /\ Swap(Swap(s)) = s
         /\ Standard!LastTurn(s, K) = Swap(Standard!Turn(s, K))
         /\ Standard!Turn(Swap(Standard!Turn(s, K)), K) = Swap(s)
<1> DEFINE v == Standard!f(s[2], K)
           x == Standard!Xor(v, s[1])
<1>1. s[1] \in Word /\ s[2] \in Word /\ s = <<s[1], s[2]>>
  OBVIOUS
<1>2. v \in Word
  BY DEF Standard!f, Word
<1>3. Standard!Turn(s, K) = <<s[2], x>> /\ Standard!LastTurn(s, K) = <<x, s[2]>>
  BY DEF Standard!Turn, Standard!LastTurn
<1> HIDE DEF v
<1>4. x \in Word /\ Standard!Xor(v, x) = s[1]
  <2>1. x \in Word
    BY <1>1, <1>2, XorTypes
  <2>2. Standard!Xor(v, x) = s[1]
    BY <1>2, <1>1 DEF Standard!Xor
  <2>3. QED
    BY <2>1, <2>2
<1> HIDE DEF x
<1>5. Swap(Standard!Turn(s, K)) = <<x, s[2]>>
  BY <1>3 DEF Swap
<1>6. Standard!Turn(<<x, s[2]>>, K) = <<s[2], s[1]>>
  <2>1. Standard!Turn(<<x, s[2]>>, K) = <<s[2], Standard!Xor(v, x)>>
    BY DEF Standard!Turn, v
  <2>2. QED
    BY <1>4, <2>1
<1>7. QED
  BY <1>1, <1>3, <1>4, <1>5, <1>6 DEF Swap

\* The states of des_crypt.
LEMMA TurnsIs ==
  ASSUME NEW x \in Block, NEW S
  PROVE  LET T == Standard!Turns(x, S)
         IN  /\ T[0] = Standard!IP(x)
             /\ \A n \in 1 .. 15 : T[n] = Standard!Turn(T[n - 1], S[n - 1])
             /\ \A n \in 0 .. 15 : T[n] \in Word \X Word
<1> DEFINE Pairs == Word \X Word
           P(c) == c = [n \in 0 .. 15 |-> IF n = 0 THEN Standard!IP(x)
             ELSE Standard!Turn(c[n - 1], S[n - 1])]
           F == [n \in 1 .. 16 |-> [y \in Pairs |-> Standard!Turn(y, S[n - 1])]]
           T == Standard!Turns(x, S)
<1>1. F \in [1 .. 16 -> [Pairs -> Pairs]]
  <2>1. ASSUME NEW n \in 1 .. 16, NEW y \in Pairs
        PROVE  Standard!Turn(y, S[n - 1]) \in Pairs
    BY TurnIs
  <2> HIDE DEF Pairs
  <2>2. QED
    BY <2>1
<1>2. Standard!IP(x) \in Pairs
  BY IPIs
<1> HIDE DEF Pairs
<1>3. PICK h \in [0 .. 16 -> Pairs] : h[0] = Standard!IP(x)
             /\ \A n \in 1 .. 16 : h[n] = F[n][h[n - 1]]
  <2> HIDE DEF F
  <2>1. Chain(Pairs, Standard!IP(x), F, 16)
    BY <1>1, <1>2, ChainExists
  <2>2. QED
    BY <2>1, Zenon DEF Chain
<1>4. ASSUME NEW n \in 1 .. 16
      PROVE  h[n] = Standard!Turn(h[n - 1], S[n - 1])
  <2>1. n - 1 \in 0 .. 16
    OBVIOUS
  <2>2. QED
    BY <1>3, <2>1
<1> DEFINE g == [n \in 0 .. 15 |-> h[n]]
<1>5. P(g)
  <2>1. \A n \in 0 .. 15 : h[n] = IF n = 0 THEN Standard!IP(x)
          ELSE Standard!Turn(g[n - 1], S[n - 1])
    BY <1>3, <1>4
  <2>2. QED
    BY <2>1
<1>6. T = CHOOSE c : P(c)
  BY DEF Standard!Turns
<1> HIDE DEF P, T, g
<1>7. P(T)
  BY <1>5, <1>6, Zenon
<1>8. /\ T[0] = Standard!IP(x)
      /\ \A n \in 1 .. 15 : T[n] = Standard!Turn(T[n - 1], S[n - 1])
  BY <1>7 DEF P
<1> DEFINE M(n) == T[n] \in Pairs
<1>9. ASSUME NEW n \in 0 .. 14, M(n)
      PROVE  M(n + 1)
  <2>1. n + 1 \in 1 .. 15 /\ (n + 1) - 1 = n
    OBVIOUS
  <2>2. T[n + 1] = Standard!Turn(T[n], S[n])
    BY <1>8, <2>1
  <2>3. QED
    BY <1>9, <2>2, TurnIs DEF Pairs
<1>10. M(0)
  BY <1>2, <1>8
<1> HIDE DEF M
<1>11. M(1) /\ M(2) /\ M(3) /\ M(4) /\ M(5)
  BY <1>9, <1>10
<1>12. M(6) /\ M(7) /\ M(8) /\ M(9) /\ M(10)
  BY <1>9, <1>11
<1>13. M(11) /\ M(12) /\ M(13) /\ M(14) /\ M(15)
  BY <1>9, <1>12
<1>14. \A n \in 0 .. 15 : M(n)
  BY <1>10, <1>11, <1>12, <1>13
<1>15. QED
  BY <1>8, <1>14 DEF M, T, Pairs

\* The state after n rounds.
After(x, S, n) ==
  IF n < 16 THEN Standard!Turns(x, S)[n] ELSE Standard!Turn(Standard!Turns(x, S)[15], S[15])

\* After is the loop of des_crypt, round by round.
LEMMA AfterIs ==
  ASSUME NEW x \in Block, NEW S
  PROVE  /\ After(x, S, 0) = Standard!IP(x)
         /\ \A n \in 0 .. 15 : After(x, S, n + 1) = Standard!Turn(After(x, S, n), S[n])
         /\ \A n \in 0 .. 16 : After(x, S, n) \in Word \X Word
         /\ Standard!des_crypt(x, S) = Standard!InvIP(Swap(After(x, S, 16)))
         /\ Standard!des_crypt(x, S) \in Block
<1> DEFINE T == Standard!Turns(x, S)
<1>1. /\ T[0] = Standard!IP(x)
      /\ \A n \in 1 .. 15 : T[n] = Standard!Turn(T[n - 1], S[n - 1])
      /\ \A n \in 0 .. 15 : T[n] \in Word \X Word
  BY TurnsIs
<1>2. \A n \in 0 .. 15 : After(x, S, n) = T[n]
  BY DEF After
<1>3. After(x, S, 16) = Standard!Turn(T[15], S[15])
  BY DEF After
<1>4. Standard!des_crypt(x, S) = Standard!InvIP(Standard!LastTurn(T[15], S[15]))
  BY DEF Standard!des_crypt
<1> HIDE DEF T
<1>5. T[15] \in Word \X Word
  BY <1>1
<1>6. After(x, S, 16) \in Word \X Word
        /\ Standard!LastTurn(T[15], S[15]) = Swap(After(x, S, 16))
  BY <1>3, <1>5, TurnIs
<1>7. ASSUME NEW n \in 0 .. 15
      PROVE  After(x, S, n + 1) = Standard!Turn(After(x, S, n), S[n])
  <2>1. CASE n = 15
    BY <1>2, <1>3, <2>1
  <2>2. CASE n \in 0 .. 14
    <3>1. n + 1 \in 1 .. 15 /\ n + 1 \in 0 .. 15 /\ (n + 1) - 1 = n
      BY <2>2
    <3>2. QED
      BY <1>1, <1>2, <3>1
  <2>3. QED
    BY <2>1, <2>2
<1>8. \A n \in 0 .. 16 : After(x, S, n) \in Word \X Word
  BY <1>1, <1>2, <1>6
<1>9. Standard!des_crypt(x, S) \in Block
  <2>1. Swap(After(x, S, 16)) \in Word \X Word
    BY <1>6, TurnIs
  <2>2. QED
    BY <1>4, <1>6, <2>1, InvIPIs
<1>10. QED
  BY <1>1, <1>2, <1>4, <1>6, <1>7, <1>8, <1>9

\* With the subkeys backwards des_crypt undoes itself.
LEMMA DecryptsBack ==
  ASSUME NEW x \in Block, NEW S, NEW R, \A n \in 0 .. 15 : R[n] = S[15 - n]
  PROVE  Standard!des_crypt(Standard!des_crypt(x, S), R) = x
<1> DEFINE y == Standard!des_crypt(x, S)
           a(n) == After(x, S, n)
           b(n) == After(y, R, n)
           M(n) == b(n) = Swap(a(16 - n))
<1>1. /\ a(0) = Standard!IP(x)
      /\ \A n \in 0 .. 15 : a(n + 1) = Standard!Turn(a(n), S[n])
      /\ \A n \in 0 .. 16 : a(n) \in Word \X Word
      /\ y = Standard!InvIP(Swap(a(16)))
      /\ y \in Block
  BY AfterIs
<1>2. /\ b(0) = Standard!IP(y)
      /\ \A n \in 0 .. 15 : b(n + 1) = Standard!Turn(b(n), R[n])
      /\ Standard!des_crypt(y, R) = Standard!InvIP(Swap(b(16)))
  BY <1>1, AfterIs
<1> HIDE DEF y, a, b
<1>3. M(0)
  <2>1. Swap(a(16)) \in Word \X Word
    BY <1>1, TurnIs
  <2>2. b(0) = Swap(a(16))
    BY <1>1, <1>2, <2>1, IPOfInvIP
  <2>3. QED
    BY <2>2
<1>4. ASSUME NEW n \in 0 .. 15, M(n)
      PROVE  M(n + 1)
  <2>1. 15 - n \in 0 .. 15 /\ 15 - n \in 0 .. 16 /\ (15 - n) + 1 = 16 - n
          /\ 16 - (n + 1) = 15 - n
    OBVIOUS
  <2>2. b(n + 1) = Standard!Turn(Swap(Standard!Turn(a(15 - n), S[15 - n])), S[15 - n])
    BY <1>1, <1>2, <1>4, <2>1
  <2>3. a(15 - n) \in Word \X Word
    BY <1>1, <2>1
  <2>4. QED
    BY <2>1, <2>2, <2>3, TurnIs
<1> HIDE DEF M
<1>5. M(1) /\ M(2) /\ M(3) /\ M(4) /\ M(5)
  BY <1>3, <1>4
<1>6. M(6) /\ M(7) /\ M(8) /\ M(9) /\ M(10)
  BY <1>4, <1>5
<1>7. M(11) /\ M(12) /\ M(13) /\ M(14) /\ M(15)
  BY <1>4, <1>6
<1>8. M(16)
  BY <1>4, <1>7
<1>9. Swap(b(16)) = Standard!IP(x)
  <2>1. b(16) = Swap(a(0))
    BY <1>8 DEF M
  <2>2. Standard!IP(x) \in Word \X Word
    BY IPIs
  <2>3. QED
    BY <1>1, <2>1, <2>2, TurnIs
<1>10. QED
  BY <1>2, <1>9, InvIPOfIP DEF y

-----------------------------------------------------------------------------
(***************************************************************************)
(* Triple DES, and the specification.                                      *)
(***************************************************************************)
\* A block after n passes of triple DES.
Passed(x, S, n) ==
  CASE n = 0 -> x
    [] n = 1 -> Standard!des_crypt(x, S[0])
    [] n = 2 -> Standard!des_crypt(Standard!des_crypt(x, S[0]), S[1])
    [] OTHER -> Standard!des_crypt(Standard!des_crypt(Standard!des_crypt(x, S[0]), S[1]),
      S[2])

\* Passed is the passes of triple DES, one by one.
LEMMA PassedIs ==
  ASSUME NEW x \in Block, NEW S
  PROVE  /\ Passed(x, S, 0) = x
         /\ \A n \in 0 .. 2 : Passed(x, S, n + 1) =
              Standard!des_crypt(Passed(x, S, n), S[n])
         /\ \A n \in 0 .. 3 : Passed(x, S, n) \in Block
<1> DEFINE p0 == x
           p1 == Standard!des_crypt(p0, S[0])
           p2 == Standard!des_crypt(p1, S[1])
           p3 == Standard!des_crypt(p2, S[2])
<1>1. /\ Passed(x, S, 0) = p0 /\ Passed(x, S, 1) = p1
      /\ Passed(x, S, 2) = p2 /\ Passed(x, S, 3) = p3
  BY DEF Passed
<1>2. p0 \in Block /\ p1 \in Block
  BY AfterIs
<1> HIDE DEF p1
<1>3. p2 \in Block
  BY <1>2, AfterIs
<1> HIDE DEF p2
<1>4. p3 \in Block
  BY <1>3, AfterIs
<1> HIDE DEF p3
<1>5. ASSUME NEW n \in 0 .. 2
      PROVE  Passed(x, S, n + 1) = Standard!des_crypt(Passed(x, S, n), S[n])
  <2>1. n = 0 \/ n = 1 \/ n = 2
    OBVIOUS
  <2>2. QED
    BY <1>1, <2>1 DEF p1, p2, p3
<1>6. ASSUME NEW n \in 0 .. 3
      PROVE  Passed(x, S, n) \in Block
  <2>1. n = 0 \/ n = 1 \/ n = 2 \/ n = 3
    OBVIOUS
  <2>2. QED
    BY <1>1, <1>2, <1>3, <1>4, <2>1
<1>7. QED
  BY <1>1, <1>5, <1>6

\* A part of the long key is a key.
LEMMA PartIs ==
  ASSUME NEW k \in [1 .. 24 -> Byte], NEW n \in 0 .. 2
  PROVE  Standard!Part(k, n) \in Block
<1>1. \A m \in 1 .. 8 : 8 * n + m \in 1 .. 24
  OBVIOUS
<1>2. QED
  BY <1>1 DEF Standard!Part, Block

\* Three passes with the parts of the key and the directions turned around undo
\* three passes.
LEMMA TripleComesBack ==
  ASSUME NEW x \in Block, NEW k
  PROVE  Passed(Passed(x, Standard!three_des_key_setup(k, "encrypt"), 3),
                Standard!three_des_key_setup(k, "decrypt"), 3) = x
<1> DEFINE E(n) == Standard!des_key_setup(Standard!Part(k, n), "encrypt")
           D(n) == Standard!des_key_setup(Standard!Part(k, n), "decrypt")
           S == Standard!three_des_key_setup(k, "encrypt")
           R == Standard!three_des_key_setup(k, "decrypt")
<1>1. "encrypt" # "decrypt" /\ Standard!Other("encrypt") = "decrypt"
        /\ Standard!Other("decrypt") = "encrypt"
  BY DEF Standard!Other
<1>2. /\ S[0] = E(0) /\ S[1] = D(1) /\ S[2] = E(2)
      /\ R[0] = D(2) /\ R[1] = E(1) /\ R[2] = D(0)
  BY <1>1 DEF Standard!three_des_key_setup
<1>3. \A n \in 0 .. 2 : \A m \in 0 .. 15 : D(n)[m] = E(n)[15 - m]
  BY SetupBackwards
<1>4. \A n \in 0 .. 2 : \A m \in 0 .. 15 : E(n)[m] = D(n)[15 - m]
  <2>1. \A m \in 0 .. 15 : 15 - m \in 0 .. 15 /\ 15 - (15 - m) = m
    OBVIOUS
  <2> HIDE DEF D, E
  <2>2. QED
    BY <1>3, <2>1
<1> HIDE DEF E, D, S, R
<1> DEFINE a1 == Standard!des_crypt(x, E(0))
           a2 == Standard!des_crypt(a1, D(1))
           a3 == Standard!des_crypt(a2, E(2))
<1>5. a1 \in Block
  BY AfterIs
<1>6. Standard!des_crypt(a1, D(0)) = x
  BY <1>3, DecryptsBack
<1> HIDE DEF a1
<1>7. a2 \in Block
  BY <1>5, AfterIs
<1>8. Standard!des_crypt(a2, E(1)) = a1
  BY <1>4, <1>5, DecryptsBack
<1> HIDE DEF a2
<1>9. Standard!des_crypt(a3, D(2)) = a2
  BY <1>3, <1>7, DecryptsBack
<1>10. Passed(x, S, 3) = a3
  BY <1>2 DEF Passed, a1, a2
<1> HIDE DEF a3
<1>11. Passed(a3, R, 3) =
         Standard!des_crypt(Standard!des_crypt(Standard!des_crypt(a3, D(2)), E(1)), D(0))
  BY <1>2 DEF Passed
<1>12. QED
  BY <1>6, <1>8, <1>9, <1>10, <1>11 DEF S, R

-----------------------------------------------------------------------------

\* What encrypting plain yields.
Encrypted ==
  IF cipher = "des" THEN Standard!des_crypt(plain, Standard!des_key_setup(key, "encrypt"))
  ELSE Passed(plain, Standard!three_des_key_setup(key, "encrypt"), 3)

\* What goes in, and what decrypting is given.
InputOK ==
  /\ \/ cipher = "des" /\ key \in Block
     \/ cipher = "triple" /\ key \in [1 .. 24 -> Byte]
  /\ plain \in Block
  /\ mode \in Modes
  /\ block = IF mode = "encrypt" THEN plain ELSE Encrypted

\* What the calls compute with.
ValuesOK ==
  /\ i \in 0 .. 16
  /\ halves \in Word \X Word
  /\ state \in Word \X Word
  /\ result \in Block \X Block

\* Whose subkeys are used: those of the key, in the direction of the call.
KeysSet ==
  /\ keys = <<>> \/ (cipher = "des" /\ keys = Leo!des_setkey(key))
  /\ cipher = "des" =>
       schedule = <<>> \/ \E md \in Modes : schedule = Standard!des_key_setup(key, md)
  /\ pc \in {"transpose", "round", "last"} => cipher = "des"
  /\ pc = "pass" => cipher = "triple"
  /\ cipher = "des" /\ pc # "setkey" =>
       keys = Leo!des_setkey(key) /\ schedule = Standard!des_key_setup(key, mode)
  /\ cipher = "triple" /\ pc # "setkey" =>
       schedule = Standard!three_des_key_setup(key, mode)

\* How far the block has come.
Progress ==
  \/ pc \in {"setkey", "transpose"}
  \/ /\ pc = "round"
     /\ i \in 0 .. 15
     /\ state = After(block, schedule, i)
     /\ state = <<FromLeft(halves[1]), FromLeft(halves[2])>>
  \/ /\ pc = "last"
     /\ state = Swap(After(block, schedule, 16))
     /\ state = <<FromLeft(halves[2]), FromLeft(halves[1])>>
  \/ /\ pc = "pass"
     /\ i \in 0 .. 2
     /\ result[2] = Passed(block, schedule, i)
  \/ /\ pc = "done"
     /\ cipher = "des" =>
          result[1] = result[2] /\ result[2] = Standard!des_crypt(block, schedule)
     /\ cipher = "triple" => result[2] = Passed(block, schedule, 3)

\* The inductive invariant.
IInv == InputOK /\ ValuesOK /\ KeysSet /\ Progress

\* What was encrypted is a block, and decrypting gives plain back.
LEMMA EncryptedIs ==
  ASSUME plain \in Block
  PROVE  /\ Encrypted \in Block
         /\ cipher = "des" =>
              Standard!des_crypt(Encrypted, Standard!des_key_setup(key, "decrypt")) = plain
         /\ cipher = "triple" =>
              Passed(Encrypted, Standard!three_des_key_setup(key, "decrypt"), 3) = plain
<1>1. Encrypted \in Block
  BY AfterIs, PassedIs DEF Encrypted
<1>2. ASSUME cipher = "des"
      PROVE  Standard!des_crypt(Encrypted, Standard!des_key_setup(key, "decrypt")) = plain
  BY <1>2, SetupBackwards, DecryptsBack DEF Encrypted
<1>3. ASSUME cipher = "triple"
      PROVE  Passed(Encrypted, Standard!three_des_key_setup(key, "decrypt"), 3) = plain
  BY <1>3, TripleComesBack DEF Encrypted
<1>4. QED
  BY <1>1, <1>2, <1>3

\* What a call is given is a block.
LEMMA BlockOK ==
  ASSUME InputOK
  PROVE  block \in Block
BY EncryptedIs DEF InputOK, Modes

\* The invariant holds before anything was called.
LEMMA InitIInv == Init => IInv
<1> SUFFICES ASSUME Init
             PROVE  IInv
  OBVIOUS
<1>1. {} \in Word /\ NoBlock \in Block
  <2>1. {} \in Byte /\ {} \in Word
    BY DEF Byte, Word
  <2>2. NoBlock \in [1 .. 8 -> Byte]
    BY <2>1 DEF NoBlock
  <2>3. QED
    BY <2>1, <2>2 DEF Block
<1>2. InputOK
  <2>1. CASE cipher = "des" /\ \E c \in Cases : key = c[1] /\ plain = c[2]
    BY <2>1, DesAgreementAssumption DEF Init, InputOK, Modes, Block
  <2>2. CASE cipher = "triple" /\ \E c \in TripleCases : key = c[1] /\ plain = c[2]
    BY <2>2, DesAgreementAssumption DEF Init, InputOK, Modes, Block
  <2>3. QED
    BY <2>1, <2>2 DEF Init
<1>3. ValuesOK
  <2>1. i = 0 /\ halves = <<{}, {}>> /\ state = <<{}, {}>> /\ result = <<NoBlock, NoBlock>>
    BY DEF Init
  <2>2. i \in 0 .. 16
    BY <2>1
  <2>3. halves \in Word \X Word /\ state \in Word \X Word /\ result \in Block \X Block
    BY <1>1, <2>1
  <2>4. QED
    BY <2>2, <2>3 DEF ValuesOK
<1>4. KeysSet
  <2>1. keys = <<>> /\ schedule = <<>> /\ pc = "setkey"
    BY DEF Init
  <2>2. QED
    BY <2>1 DEF KeysSet
<1>5. Progress
  BY DEF Init, Progress
<1>6. QED
  BY <1>2, <1>3, <1>4, <1>5 DEF IInv

\* Every step preserves the invariant.
LEMMA StepIInv == IInv /\ [Next]_vars => IInv'
<1> SUFFICES ASSUME IInv, [Next]_vars
             PROVE  IInv'
  OBVIOUS
<1>1. CASE SetKey
  <2>1. UNCHANGED <<cipher, key, plain, mode, block, i, halves, state, result>>
    BY <1>1 DEF SetKey, input
  <2>2. cipher = "des" /\ pc' = "transpose" /\ keys' = Leo!des_setkey(key)
          /\ schedule' = Standard!des_key_setup(key, mode)
    BY <1>1 DEF SetKey
  <2>3. InputOK' /\ ValuesOK'
    BY <2>1 DEF IInv, InputOK, ValuesOK, Encrypted
  <2>4. KeysSet'
    BY <2>1, <2>2 DEF IInv, InputOK, KeysSet
  <2>5. Progress'
    BY <2>2 DEF Progress
  <2>6. QED
    BY <2>3, <2>4, <2>5 DEF IInv
<1>2. CASE Transpose
  <2>1. UNCHANGED <<cipher, key, plain, mode, block, keys, schedule, result>>
    BY <1>2 DEF Transpose, input
  <2>2. /\ pc = "transpose" /\ pc' = "round" /\ i' = 0
        /\ halves' = Leo!InitialTranspose(block) /\ state' = Standard!IP(block)
    BY <1>2 DEF Transpose
  <2>3. block \in Block
    BY BlockOK DEF IInv
  <2>4. InputOK' /\ ValuesOK'
    BY <2>1, <2>2, <2>3, TransposeAgrees DEF IInv, InputOK, ValuesOK, Encrypted
  <2>5. KeysSet'
    BY <2>1, <2>2 DEF IInv, KeysSet
  <2>6. Progress'
    <3>1. After(block, schedule, 0) = Standard!IP(block)
      BY <2>3, AfterIs
    <3>2. state' = <<FromLeft(halves'[1]), FromLeft(halves'[2])>>
      BY <2>2, <2>3, TransposeAgrees
    <3>3. state' = After(block', schedule', i')
      BY <2>1, <2>2, <3>1
    <3>4. QED
      BY <2>2, <3>2, <3>3 DEF Progress
  <2>7. QED
    BY <2>4, <2>5, <2>6 DEF IInv
<1>3. CASE Round
  <2> DEFINE sub == Leo!RoundKey(keys, mode, i)
             K == schedule[i]
  <2>1. UNCHANGED <<cipher, key, plain, mode, block, keys, schedule, result>>
    BY <1>3 DEF Round, input
  <2>2. /\ pc = "round" /\ i' = i + 1 /\ pc' = IF i < 15 THEN "round" ELSE "last"
        /\ halves' = Leo!Round(halves, sub)
        /\ state' = IF i < 15 THEN Standard!Turn(state, K) ELSE Standard!LastTurn(state, K)
    BY <1>3 DEF Round
  <2>3. /\ i \in 0 .. 15
        /\ state = After(block, schedule, i)
        /\ state = <<FromLeft(halves[1]), FromLeft(halves[2])>>
    BY <2>2 DEF IInv, Progress
  <2>4. cipher = "des" /\ keys = Leo!des_setkey(key)
          /\ schedule = Standard!des_key_setup(key, mode)
    BY <2>2 DEF IInv, KeysSet
  <2>5. key \in Block /\ mode \in Modes /\ halves \in Word \X Word /\ state \in Word \X Word
    BY <2>4 DEF IInv, InputOK, ValuesOK
  <2>6. sub \in Word \X Word /\ SubkeyAgrees(sub, K)
    BY <2>3, <2>4, <2>5, KeysAgree
  <2> HIDE DEF sub, K
  <2>7. /\ halves' \in Word \X Word
        /\ Standard!Turn(state, K) = <<FromLeft(halves'[1]), FromLeft(halves'[2])>>
        /\ Standard!LastTurn(state, K) = <<FromLeft(halves'[2]), FromLeft(halves'[1])>>
    BY <2>2, <2>3, <2>5, <2>6, RoundAgrees
  <2>8. block \in Block
    BY BlockOK DEF IInv
  <2>9. /\ Standard!Turn(state, K) = After(block, schedule, i + 1)
        /\ Standard!LastTurn(state, K) = Swap(After(block, schedule, i + 1))
        /\ Standard!Turn(state, K) \in Word \X Word
        /\ Standard!LastTurn(state, K) \in Word \X Word
    <3>1. After(block, schedule, i + 1) =
            Standard!Turn(After(block, schedule, i), schedule[i])
      BY <2>3, <2>8, AfterIs
    <3>2. Standard!Turn(state, K) = After(block, schedule, i + 1)
      BY <2>3, <3>1 DEF K
    <3>3. /\ Standard!LastTurn(state, K) = Swap(Standard!Turn(state, K))
          /\ Standard!Turn(state, K) \in Word \X Word
      BY <2>5, TurnIs
    <3>4. Swap(Standard!Turn(state, K)) \in Word \X Word
      BY <3>3, TurnIs
    <3>5. QED
      BY <3>2, <3>3, <3>4
  <2>10. InputOK'
    BY <2>1 DEF IInv, InputOK, Encrypted
  <2>11. ValuesOK'
    BY <2>1, <2>2, <2>3, <2>7, <2>9 DEF IInv, ValuesOK
  <2>12. KeysSet'
    BY <2>1, <2>2, <2>4 DEF IInv, KeysSet
  <2>13. Progress'
    <3>1. CASE i < 15
      <4>1. pc' = "round" /\ i' \in 0 .. 15 /\ state' = Standard!Turn(state, K)
        BY <2>2, <2>3, <3>1
      <4>2. state' = After(block', schedule', i')
        BY <2>1, <2>2, <2>9, <4>1
      <4>3. QED
        BY <2>7, <4>1, <4>2 DEF Progress
    <3>2. CASE ~(i < 15)
      <4>1. pc' = "last" /\ i + 1 = 16 /\ state' = Standard!LastTurn(state, K)
        BY <2>2, <2>3, <3>2
      <4>2. state' = Swap(After(block', schedule', 16))
        BY <2>1, <2>9, <4>1
      <4>3. QED
        BY <2>7, <4>1, <4>2 DEF Progress
    <3>3. QED
      BY <3>1, <3>2
  <2>14. QED
    BY <2>10, <2>11, <2>12, <2>13 DEF IInv
<1>4. CASE Store
  <2>1. UNCHANGED <<cipher, key, plain, mode, block, keys, schedule, i, halves, state>>
    BY <1>4 DEF Store, input
  <2>2. /\ pc = "last" /\ pc' = "done"
        /\ result' = <<Leo!FinalTranspose(halves), Standard!InvIP(state)>>
    BY <1>4 DEF Store
  <2>3. /\ state = Swap(After(block, schedule, 16))
        /\ state = <<FromLeft(halves[2]), FromLeft(halves[1])>>
    BY <2>2 DEF IInv, Progress
  <2>4. block \in Block /\ halves \in Word \X Word /\ cipher = "des"
    BY <2>2, BlockOK DEF IInv, ValuesOK, KeysSet
  <2>5. Leo!FinalTranspose(halves) = Standard!InvIP(state)
          /\ Standard!InvIP(state) \in Block
    BY <2>3, <2>4, StoreAgrees
  <2>6. Standard!InvIP(state) = Standard!des_crypt(block, schedule)
    BY <2>3, <2>4, AfterIs
  <2>7. InputOK' /\ ValuesOK'
    BY <2>1, <2>2, <2>5 DEF IInv, InputOK, ValuesOK, Encrypted
  <2>8. KeysSet'
    BY <2>1, <2>2 DEF IInv, KeysSet
  <2>9. Progress'
    BY <2>1, <2>2, <2>4, <2>5, <2>6 DEF Progress
  <2>10. QED
    BY <2>7, <2>8, <2>9 DEF IInv
<1>5. CASE SetTripleKey
  <2>1. UNCHANGED <<cipher, key, plain, mode, block, keys, halves, state>>
    BY <1>5 DEF SetTripleKey, input
  <2>2. /\ cipher = "triple" /\ pc' = "pass" /\ i' = 0
        /\ schedule' = Standard!three_des_key_setup(key, mode)
        /\ result' = <<NoBlock, block>>
    BY <1>5 DEF SetTripleKey
  <2>3. block \in Block
    BY BlockOK DEF IInv
  <2>4. NoBlock \in Block
    <3>1. {} \in Byte
      BY DEF Byte
    <3>2. QED
      BY <3>1 DEF NoBlock, Block
  <2>5. InputOK' /\ ValuesOK'
    BY <2>1, <2>2, <2>3, <2>4 DEF IInv, InputOK, ValuesOK, Encrypted
  <2>6. KeysSet'
    BY <2>1, <2>2 DEF IInv, KeysSet
  <2>7. Progress'
    BY <2>1, <2>2, <2>3, PassedIs DEF Progress
  <2>8. QED
    BY <2>5, <2>6, <2>7 DEF IInv
<1>6. CASE Pass
  <2>1. UNCHANGED <<cipher, key, plain, mode, block, keys, schedule, halves, state>>
    BY <1>6 DEF Pass, input
  <2>2. /\ pc = "pass" /\ i' = i + 1 /\ pc' = IF i < 2 THEN "pass" ELSE "done"
        /\ result' = [result EXCEPT ![2] = Standard!des_crypt(result[2], schedule[i])]
    BY <1>6 DEF Pass
  <2>3. i \in 0 .. 2 /\ result[2] = Passed(block, schedule, i)
    BY <2>2 DEF IInv, Progress
  <2>4. block \in Block /\ result \in Block \X Block /\ cipher = "triple"
    BY <2>2, BlockOK DEF IInv, ValuesOK, KeysSet
  <2>5. /\ Standard!des_crypt(result[2], schedule[i]) = Passed(block, schedule, i + 1)
        /\ Passed(block, schedule, i + 1) \in Block
    <3>1. /\ \A n \in 0 .. 2 : Passed(block, schedule, n + 1) =
                Standard!des_crypt(Passed(block, schedule, n), schedule[n])
          /\ \A n \in 0 .. 3 : Passed(block, schedule, n) \in Block
      BY <2>4, PassedIs
    <3>2. i + 1 \in 0 .. 3
      BY <2>3
    <3>3. QED
      BY <2>3, <3>1, <3>2
  <2>6. result' \in Block \X Block /\ result'[2] = Passed(block', schedule', i')
    BY <2>1, <2>2, <2>4, <2>5
  <2>7. InputOK' /\ ValuesOK'
    BY <2>1, <2>2, <2>3, <2>6 DEF IInv, InputOK, ValuesOK, Encrypted
  <2>8. KeysSet'
    BY <2>1, <2>2, <2>4 DEF IInv, KeysSet
  <2>9. Progress'
    <3>1. CASE i < 2
      <4>1. pc' = "pass" /\ i' \in 0 .. 2
        BY <2>2, <2>3, <3>1
      <4>2. QED
        BY <2>6, <4>1 DEF Progress
    <3>2. CASE ~(i < 2)
      <4>1. pc' = "done" /\ i' = 3
        BY <2>2, <2>3, <3>2
      <4>2. QED
        BY <2>1, <2>4, <2>6, <4>1 DEF Progress
    <3>3. QED
      BY <3>1, <3>2
  <2>10. QED
    BY <2>7, <2>8, <2>9 DEF IInv
<1>7. CASE Back
  <2>1. UNCHANGED <<cipher, key, plain, keys, schedule, i, halves, state, result>>
    BY <1>7 DEF Back, input
  <2>2. /\ pc = "done" /\ mode = "encrypt" /\ mode' = "decrypt"
        /\ block' = result[2] /\ pc' = "setkey"
    BY <1>7 DEF Back
  <2>3. block = plain
    BY <2>2 DEF IInv, InputOK
  <2>4. result[2] = Encrypted
    <3>1. CASE cipher = "des"
      <4>1. schedule = Standard!des_key_setup(key, "encrypt")
              /\ result[2] = Standard!des_crypt(block, schedule)
        BY <2>2, <3>1 DEF IInv, KeysSet, Progress
      <4>2. QED
        BY <2>3, <3>1, <4>1 DEF Encrypted
    <3>2. CASE cipher = "triple"
      <4>1. schedule = Standard!three_des_key_setup(key, "encrypt")
              /\ result[2] = Passed(block, schedule, 3)
        BY <2>2, <3>2 DEF IInv, KeysSet, Progress
      <4>2. QED
        BY <2>3, <3>2, <4>1 DEF Encrypted
    <3>3. QED
      BY <3>1, <3>2 DEF IInv, InputOK
  <2>5. InputOK'
    <3>1. Encrypted' = Encrypted
      BY <2>1 DEF Encrypted
    <3>2. QED
      BY <2>1, <2>2, <2>4, <3>1 DEF IInv, InputOK, Modes
  <2>6. ValuesOK'
    BY <2>1 DEF IInv, ValuesOK
  <2>7. KeysSet'
    BY <2>1, <2>2 DEF IInv, KeysSet
  <2>8. Progress'
    BY <2>2 DEF Progress
  <2>9. QED
    BY <2>5, <2>6, <2>7, <2>8 DEF IInv
<1>8. CASE UNCHANGED vars
  <2>1. UNCHANGED <<cipher, key, plain, mode, block, pc, keys, schedule, i, halves, state,
          result>>
    BY <1>8 DEF vars, input
  <2>2. QED
    BY <2>1 DEF IInv, InputOK, ValuesOK, KeysSet, Progress, Encrypted
<1>9. QED
  BY <1>1, <1>2, <1>3, <1>4, <1>5, <1>6, <1>7, <1>8 DEF Next

\* The invariant always holds.
THEOREM Inductive == Spec => []IInv
BY InitIInv, StepIInv, PTL DEF Spec

\* The invariant implies what the runs check.
LEMMA IInvImplies == IInv => TypeOK /\ RoundsAgree /\ BlocksAgree /\ ComesBack
<1> SUFFICES ASSUME IInv
             PROVE  TypeOK /\ RoundsAgree /\ BlocksAgree /\ ComesBack
  OBVIOUS
<1>1. pc \in {"setkey", "transpose", "round", "last", "pass", "done"}
  BY DEF IInv, Progress
<1>2. ASSUME NEW n \in DOMAIN keys
      PROVE  keys[n] \in Word \X Word
  <2>1. keys # <<>>
    BY <1>2
  <2>2. key \in Block /\ keys = Leo!des_setkey(key)
    BY <2>1 DEF IInv, KeysSet, InputOK
  <2>3. n \in 0 .. 15
    BY <1>2, <2>2 DEF Leo!des_setkey
  <2>4. QED
    BY <2>2, <2>3, SetupIs
<1>3. ASSUME cipher = "des", NEW n \in DOMAIN schedule
      PROVE  schedule[n] \in SUBSET (0 .. 47)
  <2>1. schedule # <<>>
    BY <1>3
  <2>2. PICK md \in Modes : schedule = Standard!des_key_setup(key, md)
    BY <1>3, <2>1 DEF IInv, KeysSet
  <2>3. key \in Block
    BY <1>3 DEF IInv, InputOK
  <2>4. n \in 0 .. 15
    BY <1>3, <2>2 DEF Standard!des_key_setup
  <2>5. QED
    BY <2>2, <2>3, <2>4, KeysAgree
<1>4. TypeOK
  <2>1. block \in Block
    BY BlockOK DEF IInv
  <2>2. QED
    BY <1>1, <1>2, <1>3, <2>1 DEF IInv, InputOK, ValuesOK, TypeOK, Block, Modes
<1>5. RoundsAgree
  BY DEF IInv, Progress, RoundsAgree
<1>6. BlocksAgree
  BY DEF IInv, Progress, BlocksAgree
<1>7. ComesBack
  <2> SUFFICES ASSUME pc = "done", mode = "decrypt"
               PROVE  result[2] = plain /\ (cipher = "des" => result[1] = plain)
    BY DEF ComesBack
  <2>1. block = Encrypted /\ plain \in Block
    BY DEF IInv, InputOK
  <2>2. CASE cipher = "des"
    <3>1. schedule = Standard!des_key_setup(key, "decrypt")
      BY <2>2 DEF IInv, KeysSet
    <3>2. result[1] = result[2] /\ result[2] = Standard!des_crypt(block, schedule)
      BY <2>2 DEF IInv, Progress
    <3>3. QED
      BY <2>1, <2>2, <3>1, <3>2, EncryptedIs
  <2>3. CASE cipher = "triple"
    <3>1. schedule = Standard!three_des_key_setup(key, "decrypt")
      BY <2>3 DEF IInv, KeysSet
    <3>2. result[2] = Passed(block, schedule, 3)
      BY <2>3 DEF IInv, Progress
    <3>3. QED
      BY <2>1, <2>3, <3>1, <3>2, EncryptedIs
  <2>4. QED
    BY <2>2, <2>3 DEF IInv, InputOK
<1>8. QED
  BY <1>4, <1>5, <1>6, <1>7

\* For every key and block the types: words keep to 32 bits, subkeys to 48, and
\* blocks to eight bytes.
THEOREM TypeCorrect == Spec => []TypeOK
BY Inductive, IInvImplies, PTL

\* For every key and block the two have the same halves after every round, so
\* the tables of des_setkey and des_crypt are those of the standard.
THEOREM RoundsAgreeHolds == Spec => []RoundsAgree
BY Inductive, IInvImplies, PTL

\* For every key and block both store the same block.
THEOREM BlocksAgreeHolds == Spec => []BlocksAgree
BY Inductive, IInvImplies, PTL

\* For every key and block, decrypting what was encrypted gives the block back,
\* in both and in triple DES.
THEOREM ComesBackHolds == Spec => []ComesBack
BY Inductive, IInvImplies, PTL
=============================================================================
