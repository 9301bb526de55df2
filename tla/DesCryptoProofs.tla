-------------------------- MODULE DesCryptoProofs --------------------------
(***************************************************************************)
(* Proofs about DesCrypto, for any number of rounds, any bits, any keys    *)
(* and any round functions.                                                *)
(***************************************************************************)
EXTENDS DesCrypto, TLAPS

(***************************************************************************)
(* The halves a block passes through when it is encrypted.  Each follows   *)
(* from the two before it, and so the block from the last two: that is why *)
(* the network can be run backwards without inverting a round function.    *)
(***************************************************************************)
Paths == [0 .. Rounds + 1 -> Half]
Passes(h, in, n) == /\ h[0] = in.l /\ h[1] = in.r
                    /\ \A m \in 0 .. n - 1 :
                         h[m + 2] = Xor(h[m], schedule[Key][m][h[m + 1]])

(* The block in, encrypted with Key, is out.                               *)
Enciphers(in, out) == \E h \in Paths : /\ Passes(h, in, Rounds)
                                       /\ out = [l |-> h[Rounds + 1], r |-> h[Rounds]]

(* What cbc_crypt xors into block n before it encrypts it: the block       *)
(* before, which decryption keeps in ivec once it has overwritten it.      *)
Before(n) == IF n = done.decrypt + 1 THEN ivec.decrypt ELSE buf[n - 1]

(* What des_crypt is given for block n, and gives back.                    *)
Given(n) == IF mode = "cbc" THEN XorBlock(plain[n], Before(n)) ELSE plain[n]

(* Blocks not reached yet are as they were, but for the one being          *)
(* encrypted; blocks between the two ends are encrypted.                   *)
Untouched == \A n \in done.encrypt + 1 .. MaxBlocks :
               \/ pc = "round" /\ dir = "encrypt" /\ n = Here
               \/ buf[n] = plain[n]
Encrypted == \A n \in done.decrypt + 1 .. done.encrypt :
               Enciphers(Given(n), buf[n])

(* The encrypting end's vector is what its next block will be xored with.  *)
Chained == ivec.encrypt = IF mode = "cbc" THEN Before(done.encrypt + 1)
                          ELSE ivec.decrypt

(* des_crypt in the middle of a block: it stands between two of the halves *)
(* of encryption, on the way there or on the way back.                     *)
Forward == pc = "round" /\ dir = "encrypt" =>
             /\ i \in 0 .. Rounds
             /\ \E h \in Paths : /\ Passes(h, Given(Here), i)
                                 /\ half = [l |-> h[i], r |-> h[i + 1]]
Backward == pc = "round" /\ dir = "decrypt" =>
              /\ i \in -1 .. Rounds - 1
              /\ mode = "cbc" => nvec = buf[Here]
              /\ \E h \in Paths : /\ Passes(h, Given(Here), Rounds)
                                  /\ half = [l |-> h[i + 2], r |-> h[i + 1]]
                                  /\ buf[Here] = [l |-> h[Rounds + 1], r |-> h[Rounds]]

(* A running call has its own schedule in force and its blocks ahead.      *)
Running == /\ pc # "idle" => keys = schedule[Key]
           /\ pc = "round" => left > 0
           /\ done.decrypt <= done.encrypt

IInv == /\ TypeOK
        /\ WithinBuffer
        /\ Running
        /\ Untouched
        /\ Encrypted
        /\ Chained
        /\ Forward
        /\ Backward
        /\ RoundTrip

-----------------------------------------------------------------------------

\* Xor stays within the halves, and undoes itself.
LEMMA XorLaws ==
  ASSUME NEW a \in Half, NEW b \in Half
  PROVE  Xor(a, b) \in Half /\ Xor(Xor(a, b), b) = a
BY DEF Xor, Half

\* The same of blocks.
LEMMA XorBlockLaws ==
  ASSUME NEW a \in Block, NEW b \in Block
  PROVE  XorBlock(a, b) \in Block /\ XorBlock(XorBlock(a, b), b) = a
<1>1. a.l \in Half /\ a.r \in Half /\ b.l \in Half /\ b.r \in Half
  BY DEF Block
<1>2. /\ Xor(a.l, b.l) \in Half /\ Xor(Xor(a.l, b.l), b.l) = a.l
      /\ Xor(a.r, b.r) \in Half /\ Xor(Xor(a.r, b.r), b.r) = a.r
  BY <1>1, XorLaws
<1>3. a = [l |-> a.l, r |-> a.r]
  BY DEF Block
<1>4. QED
  BY <1>2, <1>3 DEF XorBlock, Block

\* A length of at most n blocks is rounded up to at most n.
LEMMA RoundingUp ==
  ASSUME NEW len \in Nat, NEW n \in Int, len <= 8 * n
  PROVE  Blocks(len) \in Nat /\ Blocks(len) <= n
BY DEF Blocks

\* Half of a Feistel round, either way: a round function's argument stays.
LEMMA RoundFunction ==
  ASSUME TypeOK, NEW m \in 0 .. Rounds - 1, NEW a \in Half
  PROVE  schedule[Key][m][a] \in Half
<1>1. schedule[Key] \in Schedule
  BY DesAssumption DEF TypeOK
<1>2. QED
  BY <1>1 DEF Schedule

\* How many blocks an end is through with, and may go on to.
LEMMA Progress ==
  ASSUME TypeOK, Running
  PROVE  /\ done.encrypt \in 0 .. MaxBlocks
         /\ done.decrypt \in 0 .. done.encrypt
         /\ \A d \in Ends : done[d] \in Nat /\ Ahead(d) \in Nat
BY DesAssumption DEF TypeOK, Running, Ahead, Ends

\* What des_crypt is given is a block.
LEMMA GivenIsBlock ==
  ASSUME TypeOK, Running,
         NEW n \in done.decrypt + 1 .. done.encrypt + 1, n <= MaxBlocks
  PROVE  Given(n) \in Block
<1>1. done.decrypt \in Nat /\ done.encrypt \in 0 .. MaxBlocks
  BY Progress
<1>2. n \in 1 .. MaxBlocks /\ plain[n] \in Block
  BY <1>1, DesAssumption DEF TypeOK
<1>3. n # done.decrypt + 1 => n - 1 \in 1 .. MaxBlocks
  BY <1>1, DesAssumption
<1>4. ivec.decrypt \in Block
  BY DEF TypeOK, Ends
<1>5. Before(n) \in Block
  BY <1>3, <1>4 DEF TypeOK, Before
<1>6. QED
  BY <1>2, <1>5, XorBlockLaws DEF Given

-----------------------------------------------------------------------------

LEMMA InitIInv == Init => IInv
<1> SUFFICES ASSUME Init PROVE IInv
  OBVIOUS
<1>1. TypeOK
  <2>1. {} \in Half
    BY DEF Half
  <2>2. keys \in Schedule
    BY <2>1 DEF Init, Schedule
  <2>3. ivec \in [Ends -> Block]
    BY DEF Init
  <2>4. half \in Block /\ nvec \in Block
    BY <2>1 DEF Init, Block
  <2>5. i \in -1 .. Rounds /\ left \in 0 .. MaxBlocks /\ done \in [Ends -> 0 .. MaxBlocks]
    BY DesAssumption DEF Init
  <2>6. QED
    BY <2>2, <2>3, <2>4, <2>5 DEF Init, TypeOK, Ends
<1>2. /\ done.encrypt = 0 /\ done.decrypt = 0
      /\ ivec.encrypt = ivec.decrypt
  BY DEF Init, Ends
<1>3. WithinBuffer /\ Running /\ Forward /\ Backward
  BY <1>2 DEF Init, WithinBuffer, Running, Forward, Backward
<1>4. Untouched /\ Encrypted /\ Chained /\ RoundTrip
  BY <1>2 DEF Init, Untouched, Encrypted, Chained, RoundTrip, Before
<1>5. QED
  BY <1>1, <1>3, <1>4 DEF IInv

\* Steps that leave the buffer, the vectors and the ends' places alone leave
\* alone what IInv says of them.
LEMMA BufferStays ==
  ASSUME IInv, UNCHANGED <<input, buf, ivec, done>>
  PROVE  /\ Encrypted' /\ Chained' /\ RoundTrip'
         /\ \A n : Given(n)' = Given(n)
         /\ \A h, in, n : Passes(h, in, n)' = Passes(h, in, n)
<1>1. /\ \A n : Given(n)' = Given(n)
      /\ \A n : Before(n)' = Before(n)
      /\ \A h, in, n : Passes(h, in, n)' = Passes(h, in, n)
      /\ \A in, out : Enciphers(in, out)' = Enciphers(in, out)
  BY DEF input, Given, Before, Passes, Enciphers
<1>2. Encrypted'
  BY <1>1 DEF IInv, Encrypted
<1>3. Chained' /\ RoundTrip'
  BY <1>1 DEF IInv, Chained, RoundTrip, input
<1>4. QED
  BY <1>1, <1>2, <1>3

LEMMA BeginIInv ==
  ASSUME IInv, NEW d \in Ends, NEW len \in Lens, Begin(d, len)
  PROVE  IInv'
<1>1. len \in Nat /\ Ahead(d) \in Nat /\ Ahead(d) <= MaxBlocks
  BY DesAssumption, Progress DEF IInv, TypeOK, Running, Ahead, Ends
<1>2. left' = Blocks(len) /\ Blocks(len) \in Nat /\ Blocks(len) <= Ahead(d)
  BY <1>1, RoundingUp DEF Begin
<1>3. schedule[Key] \in Schedule
  BY DesAssumption DEF IInv, TypeOK
<1>4. left' \in 0 .. MaxBlocks
  BY <1>1, <1>2, DesAssumption
<1>5. TypeOK'
  BY <1>3, <1>4 DEF Begin, IInv, TypeOK, input, des_setkey
<1>6. WithinBuffer' /\ Running'
  BY <1>2 DEF Begin, IInv, WithinBuffer, Running, Ahead, input, des_setkey
<1>7. Untouched' /\ Forward' /\ Backward'
  BY DEF Begin, IInv, Untouched, Forward, Backward, input
<1>8. Encrypted' /\ Chained' /\ RoundTrip'
  BY BufferStays DEF Begin
<1>9. QED
  BY <1>5, <1>6, <1>7, <1>8 DEF IInv

LEMMA OtherCallIInv ==
  ASSUME IInv, NEW k \in Keys, OtherCall(k)
  PROVE  IInv'
<1>1. schedule[k] \in Schedule
  BY DEF IInv, TypeOK
<1>2. TypeOK'
  BY <1>1 DEF OtherCall, IInv, TypeOK, input, local, des_setkey
<1>3. WithinBuffer' /\ Running' /\ Untouched' /\ Forward' /\ Backward'
  BY DEF OtherCall, IInv, WithinBuffer, Running, Untouched, Forward, Backward, input, local
<1>4. Encrypted' /\ Chained' /\ RoundTrip'
  BY BufferStays DEF OtherCall
<1>5. QED
  BY <1>2, <1>3, <1>4 DEF IInv

LEMMA ReturnIInv ==
  ASSUME IInv, Return
  PROVE  IInv'
<1>1. TypeOK'
  BY DEF Return, IInv, TypeOK, input
<1>2. WithinBuffer' /\ Running' /\ Untouched' /\ Forward' /\ Backward'
  BY DEF Return, IInv, WithinBuffer, Running, Untouched, Forward, Backward, input
<1>3. Encrypted' /\ Chained' /\ RoundTrip'
  BY BufferStays DEF Return
<1>4. QED
  BY <1>1, <1>2, <1>3 DEF IInv

\* A call at the head of its loop, with blocks left, stands at a block of the
\* buffer: the next to encrypt, or one that is encrypted.
LEMMA Position ==
  ASSUME IInv, pc # "idle", left > 0
  PROVE  /\ Here \in done.decrypt + 1 .. done.encrypt + 1
         /\ Here \in 1 .. MaxBlocks
         /\ dir = "encrypt" => Here = done.encrypt + 1
         /\ dir = "decrypt" => Here = done.decrypt + 1 /\ Here <= done.encrypt
<1>1. /\ done.encrypt \in 0 .. MaxBlocks /\ done.decrypt \in 0 .. done.encrypt
      /\ Ahead(dir) > 0
  BY Progress, DesAssumption DEF IInv, TypeOK, WithinBuffer
<1>2. CASE dir = "encrypt"
  BY <1>1, <1>2, DesAssumption DEF Here, Ahead
<1>3. CASE dir = "decrypt"
  BY <1>1, <1>3, DesAssumption DEF Here, Ahead
<1>4. QED
  BY <1>2, <1>3 DEF IInv, TypeOK, Ends

\* The block des_crypt starts from, and the half way it starts at.
LEMMA NextBlockIInv ==
  ASSUME IInv, NextBlock
  PROVE  IInv'
<1> DEFINE b == IF mode = "cbc" /\ dir = "encrypt"
                THEN XorBlock(buf[Here], ivec[dir]) ELSE buf[Here]
<1>1. /\ pc = "next" /\ left > 0 /\ pc' = "round" /\ half' = b
      /\ buf' = [buf EXCEPT ![Here] = b]
      /\ nvec' = IF mode = "cbc" /\ dir = "decrypt" THEN buf[Here] ELSE nvec
      /\ i' = FirstRound(dir)
      /\ UNCHANGED <<input, keys, ivec, done, dir, left>>
  BY DEF NextBlock
<1>2. /\ Here \in done.decrypt + 1 .. done.encrypt + 1 /\ Here \in 1 .. MaxBlocks
      /\ dir = "encrypt" => Here = done.encrypt + 1
      /\ dir = "decrypt" => Here = done.decrypt + 1 /\ Here <= done.encrypt
      /\ done.encrypt \in 0 .. MaxBlocks /\ done.decrypt \in 0 .. done.encrypt
  BY <1>1, Position, Progress DEF IInv
<1>3. /\ Given(Here) \in Block
      /\ buf[Here] \in Block /\ ivec[dir] \in Block
      /\ buf \in [1 .. MaxBlocks -> Block]
  BY <1>2, GivenIsBlock DEF IInv, TypeOK
<1>4. b \in Block
  BY <1>3, XorBlockLaws
<1>5. dir = "encrypt" => b = Given(Here)
  <2>1. ASSUME dir = "encrypt" PROVE buf[Here] = plain[Here]
    BY <1>1, <1>2, <2>1 DEF IInv, Untouched
  <2>2. ASSUME dir = "encrypt", mode = "cbc" PROVE ivec[dir] = Before(Here)
    BY <1>2, <2>2 DEF IInv, Chained
  <2>3. QED
    BY <2>1, <2>2 DEF Given
<1>6. dir = "decrypt" => b = buf[Here] /\ buf' = buf
  BY <1>1, <1>3
<1>7. Here' = Here
  BY <1>1 DEF Here
<1> HIDE DEF b
<1>8. ASSUME NEW n \in 1 .. MaxBlocks, n # Here \/ dir = "decrypt"
      PROVE  buf'[n] = buf[n]
  BY <1>1, <1>3, <1>6, <1>8
<1>9. ASSUME NEW n \in done.decrypt + 1 .. done.encrypt + 1, n <= MaxBlocks + 1
      PROVE  Before(n)' = Before(n) /\ Given(n)' = Given(n)
  <2>1. n # done.decrypt + 1
          => /\ n - 1 \in 1 .. MaxBlocks
             /\ n - 1 # Here \/ dir = "decrypt"
    BY <1>2, <1>9, DesAssumption DEF IInv, TypeOK, Ends
  <2>2. n # done.decrypt + 1 => buf'[n - 1] = buf[n - 1]
    BY <1>8, <2>1
  <2>3. Before(n)' = Before(n)
    BY <1>1, <2>2 DEF Before
  <2>4. QED
    BY <1>1, <2>3 DEF Given, input
<1>10. /\ \A in, out : Enciphers(in, out)' = Enciphers(in, out)
       /\ Given(Here)' = Given(Here)
       /\ schedule' = schedule /\ mode' = mode
  <2>1. schedule' = schedule /\ mode' = mode
    BY <1>1 DEF input
  <2>2. Given(Here)' = Given(Here)
    BY <1>2, <1>7, <1>9, DesAssumption DEF Given, Before
  <2>3. \A in, out : Enciphers(in, out)' = Enciphers(in, out)
    BY <2>1 DEF Passes, Enciphers
  <2>4. QED
    BY <2>1, <2>2, <2>3
<1>11. TypeOK'
  <2>1. i' \in -1 .. Rounds
    BY <1>1, DesAssumption DEF FirstRound
  <2>2. buf' \in [1 .. MaxBlocks -> Block] /\ half' \in Block /\ nvec' \in Block
    BY <1>1, <1>3, <1>4 DEF IInv, TypeOK
  <2>3. QED
    BY <1>1, <2>1, <2>2 DEF IInv, TypeOK, input
<1>12. WithinBuffer' /\ Running'
  BY <1>1 DEF IInv, WithinBuffer, Running, Ahead, input
<1>13. Untouched'
  <2>1. ASSUME NEW n \in done.encrypt + 1 .. MaxBlocks,
               ~ (dir = "encrypt" /\ n = Here)
        PROVE  buf'[n] = plain[n]
    <3>1. n \in 1 .. MaxBlocks /\ buf[n] = plain[n]
      BY <1>1, <1>2, <2>1, DesAssumption DEF IInv, Untouched
    <3>2. n # Here
      BY <1>2, <2>1 DEF IInv, TypeOK, Ends
    <3>3. QED
      BY <1>8, <3>1, <3>2
  <2>2. QED
    BY <1>1, <1>7, <2>1 DEF Untouched, input
<1>14. Encrypted'
  <2>1. ASSUME NEW n \in done.decrypt + 1 .. done.encrypt
        PROVE  Enciphers(Given(n), buf[n])'
    <3>1. /\ n \in done.decrypt + 1 .. done.encrypt + 1
          /\ n \in 1 .. MaxBlocks
          /\ n # Here \/ dir = "decrypt"
      BY <1>2, DesAssumption DEF IInv, TypeOK, Ends
    <3>2. buf'[n] = buf[n] /\ Given(n)' = Given(n)
      BY <1>8, <1>9, <3>1, DesAssumption
    <3>3. Enciphers(Given(n), buf[n])
      BY DEF IInv, Encrypted
    <3>4. QED
      BY <1>10, <3>2, <3>3
  <2>2. QED
    BY <1>1, <2>1 DEF Encrypted
<1>15. Chained'
  <2>1. Before(done.encrypt + 1)' = Before(done.encrypt + 1)
    BY <1>1, <1>2, <1>9, DesAssumption
  <2>2. QED
    BY <1>1, <2>1 DEF IInv, Chained, input
<1>16. Forward'
  <2> SUFFICES ASSUME dir = "encrypt"
               PROVE  /\ i' \in 0 .. Rounds
                      /\ \E h \in Paths : /\ Passes(h, Given(Here), i')
                                          /\ half' = [l |-> h[i'], r |-> h[i' + 1]]
    BY <1>1, <1>7, <1>10 DEF Forward, Passes
  <2> DEFINE h == [m \in 0 .. Rounds + 1 |-> IF m = 0 THEN b.l ELSE b.r]
  <2>1. i' = 0
    BY <1>1 DEF FirstRound
  <2>2. h \in Paths /\ h[0] = b.l /\ h[1] = b.r /\ b = [l |-> b.l, r |-> b.r]
    BY <1>4, DesAssumption DEF Paths, Block
  <2> HIDE DEF h
  <2>3. Passes(h, Given(Here), 0)
    BY <1>5, <2>2 DEF Passes
  <2>4. half' = [l |-> h[0], r |-> h[0 + 1]]
    BY <1>1, <2>2
  <2>5. QED
    BY <2>1, <2>2, <2>3, <2>4, DesAssumption
<1>17. Backward'
  <2> SUFFICES ASSUME dir = "decrypt"
               PROVE  /\ i' \in -1 .. Rounds - 1
                      /\ mode = "cbc" => nvec' = buf'[Here]
                      /\ \E h \in Paths :
                           /\ Passes(h, Given(Here), Rounds)
                           /\ half' = [l |-> h[i' + 2], r |-> h[i' + 1]]
                           /\ buf'[Here] = [l |-> h[Rounds + 1], r |-> h[Rounds]]
    BY <1>1, <1>7, <1>10 DEF Backward, Passes
  <2>1. i' = Rounds - 1
    BY <1>1 DEF FirstRound
  <2>2. buf'[Here] = buf[Here] /\ half' = buf[Here]
    BY <1>1, <1>6
  <2>3. PICK h \in Paths : /\ Passes(h, Given(Here), Rounds)
                           /\ buf[Here] = [l |-> h[Rounds + 1], r |-> h[Rounds]]
    BY <1>2 DEF IInv, Encrypted, Enciphers
  <2>4. i' \in -1 .. Rounds - 1 /\ i' + 2 = Rounds + 1 /\ i' + 1 = Rounds
    BY <2>1, DesAssumption
  <2>5. half' = [l |-> h[i' + 2], r |-> h[i' + 1]]
    BY <2>2, <2>3, <2>4
  <2>6. mode = "cbc" => nvec' = buf'[Here]
    BY <1>1, <2>2
  <2>7. QED
    BY <2>2, <2>3, <2>4, <2>5, <2>6
<1>18. RoundTrip'
  <2>1. ASSUME NEW n \in 1 .. done.decrypt
        PROVE  buf'[n] = plain[n]
    <3>1. n \in 1 .. MaxBlocks /\ n # Here
      BY <1>2, DesAssumption
    <3>2. QED
      BY <1>8, <3>1 DEF IInv, RoundTrip
  <2>2. QED
    BY <1>1, <2>1 DEF RoundTrip, input
<1>19. QED
  BY <1>11, <1>12, <1>13, <1>14, <1>15, <1>16, <1>17, <1>18 DEF IInv

\* A round moves des_crypt by one half along the halves of encryption,
\* forward by the next or back to the one before.
LEMMA RoundIInv ==
  ASSUME IInv, Round
  PROVE  IInv'
<1>1. /\ pc = "round" /\ i \in 0 .. Rounds - 1
      /\ half' = [l |-> half.r, r |-> Xor(half.l, keys[i][half.r])]
      /\ i' = IF dir = "encrypt" THEN i + 1 ELSE i - 1
      /\ UNCHANGED <<input, keys, buf, ivec, done, dir, left, pc, nvec>>
  BY DEF Round, FollowingRound
<1>2. keys = schedule[Key] /\ half.l \in Half /\ half.r \in Half
  BY <1>1 DEF IInv, Running, TypeOK, Block
<1>3. keys[i][half.r] \in Half
  BY <1>1, <1>2, RoundFunction DEF IInv
<1>4. TypeOK'
  <2>1. half' \in Block
    BY <1>1, <1>2, <1>3, XorLaws DEF Block
  <2>2. i' \in -1 .. Rounds
    BY <1>1, DesAssumption
  <2>3. QED
    BY <1>1, <2>1, <2>2 DEF IInv, TypeOK, input
<1>5. WithinBuffer' /\ Running' /\ Untouched'
  BY <1>1 DEF IInv, WithinBuffer, Running, Untouched, Ahead, Here, input
<1>6. /\ Encrypted' /\ Chained' /\ RoundTrip'
      /\ \A n : Given(n)' = Given(n)
  BY <1>1, BufferStays
<1>7. Given(Here)' = Given(Here) /\ Here' = Here /\ schedule' = schedule
  BY <1>1 DEF Given, Before, Here, input
<1>8. Forward'
  <2> SUFFICES ASSUME dir = "encrypt"
               PROVE  /\ i + 1 \in 0 .. Rounds
                      /\ \E h \in Paths : /\ Passes(h, Given(Here), i + 1)
                                          /\ half' = [l |-> h[i + 1], r |-> h[(i + 1) + 1]]
    BY <1>1, <1>7 DEF Forward, Passes
  <2>1. PICK h \in Paths : /\ Passes(h, Given(Here), i)
                           /\ half = [l |-> h[i], r |-> h[i + 1]]
    BY <1>1 DEF IInv, Forward
  <2> DEFINE x == Xor(half.l, keys[i][half.r])
             g == [h EXCEPT ![i + 2] = x]
  <2>2. x \in Half
    BY <1>2, <1>3, XorLaws
  <2>3. /\ g \in Paths /\ g[i + 2] = x
        /\ \A m \in 0 .. i + 1 : g[m] = h[m]
    BY <1>1, <2>2, DesAssumption DEF Paths
  <2>4. x = Xor(g[i], schedule[Key][i][g[i + 1]])
    BY <1>1, <1>2, <2>1, <2>3
  <2> HIDE DEF x, g
  <2>5. Passes(g, Given(Here), i + 1)
    <3>1. g[0] = Given(Here).l /\ g[1] = Given(Here).r
      BY <1>1, <2>1, <2>3 DEF Passes
    <3>2. ASSUME NEW m \in 0 .. (i + 1) - 1
          PROVE  g[m + 2] = Xor(g[m], schedule[Key][m][g[m + 1]])
      <4>1. CASE m = i
        BY <2>3, <2>4, <4>1
      <4>2. CASE m # i
        <5>1. m \in 0 .. i - 1 /\ m + 2 \in 0 .. i + 1 /\ m + 1 \in 0 .. i + 1 /\ m \in 0 .. i + 1
          BY <1>1, <4>2
        <5>2. h[m + 2] = Xor(h[m], schedule[Key][m][h[m + 1]])
          BY <2>1, <5>1 DEF Passes
        <5>3. QED
          BY <2>3, <5>1, <5>2
      <4>3. QED
        BY <4>1, <4>2
    <3>3. QED
      BY <3>1, <3>2 DEF Passes
  <2>6. half' = [l |-> g[i + 1], r |-> g[(i + 1) + 1]]
    <3>1. half' = [l |-> h[i + 1], r |-> x]
      BY <1>1, <2>1 DEF x
    <3>2. i + 1 \in 0 .. i + 1 /\ (i + 1) + 1 = i + 2
      BY <1>1
    <3>3. QED
      BY <2>3, <3>1, <3>2
  <2>7. i + 1 \in 0 .. Rounds
    BY <1>1, DesAssumption
  <2>8. QED
    BY <2>3, <2>5, <2>6, <2>7
<1>9. Backward'
  <2> SUFFICES ASSUME dir = "decrypt"
               PROVE  /\ i - 1 \in -1 .. Rounds - 1
                      /\ mode = "cbc" => nvec = buf[Here]
                      /\ \E h \in Paths :
                           /\ Passes(h, Given(Here), Rounds)
                           /\ half' = [l |-> h[(i - 1) + 2], r |-> h[(i - 1) + 1]]
                           /\ buf[Here] = [l |-> h[Rounds + 1], r |-> h[Rounds]]
    BY <1>1, <1>7 DEF Backward, Passes, input
  <2>1. PICK h \in Paths : /\ Passes(h, Given(Here), Rounds)
                           /\ half = [l |-> h[i + 2], r |-> h[i + 1]]
                           /\ buf[Here] = [l |-> h[Rounds + 1], r |-> h[Rounds]]
    BY <1>1 DEF IInv, Backward
  <2>2. h[i + 2] = Xor(h[i], keys[i][h[i + 1]])
    BY <1>1, <1>2, <2>1 DEF Passes
  <2>3. h[i] \in Half
    BY <1>1, DesAssumption DEF Paths
  <2>4. Xor(half.l, keys[i][half.r]) = h[i]
    <3>1. half.l = h[i + 2] /\ half.r = h[i + 1]
      BY <2>1
    <3>2. QED
      BY <1>3, <2>2, <2>3, <3>1, XorLaws
  <2>5. half' = [l |-> h[(i - 1) + 2], r |-> h[(i - 1) + 1]]
    <3>1. half' = [l |-> h[i + 1], r |-> h[i]]
      BY <1>1, <2>1, <2>4
    <3>2. (i - 1) + 2 = i + 1 /\ (i - 1) + 1 = i
      BY <1>1
    <3>3. QED
      BY <3>1, <3>2
  <2>6. i - 1 \in -1 .. Rounds - 1
    BY <1>1, DesAssumption
  <2>7. mode = "cbc" => nvec = buf[Here]
    BY <1>1 DEF IInv, Backward
  <2>8. QED
    BY <2>1, <2>5, <2>6, <2>7
<1>10. QED
  BY <1>4, <1>5, <1>6, <1>8, <1>9 DEF IInv

\* When its rounds are over, des_crypt's output is the block enciphered, or
\* the block that was given to encryption.
LEMMA OutputOfRounds ==
  ASSUME IInv, pc = "round", i \notin 0 .. Rounds - 1
  PROVE  /\ Output \in Block
         /\ dir = "encrypt" => Enciphers(Given(Here), Output)
         /\ dir = "decrypt" => Output = Given(Here)
<1>1. Output \in Block
  BY DEF IInv, TypeOK, Output, Block
<1>2. ASSUME dir = "encrypt"
      PROVE  Enciphers(Given(Here), Output)
  <2>1. i = Rounds
    BY <1>2, DesAssumption DEF IInv, Forward
  <2>2. PICK h \in Paths : /\ Passes(h, Given(Here), i)
                           /\ half = [l |-> h[i], r |-> h[i + 1]]
    BY <1>2 DEF IInv, Forward
  <2>3. Output = [l |-> h[Rounds + 1], r |-> h[Rounds]]
    BY <2>1, <2>2 DEF Output
  <2>4. QED
    BY <2>1, <2>2, <2>3 DEF Enciphers
<1>3. ASSUME dir = "decrypt"
      PROVE  Output = Given(Here)
  <2>1. i = -1
    BY <1>3, DesAssumption DEF IInv, Backward
  <2>2. PICK h \in Paths : /\ Passes(h, Given(Here), Rounds)
                           /\ half = [l |-> h[i + 2], r |-> h[i + 1]]
    BY <1>3 DEF IInv, Backward
  <2>3. i + 2 = 1 /\ i + 1 = 0
    BY <2>1
  <2>4. Output = [l |-> Given(Here).l, r |-> Given(Here).r]
    BY <2>2, <2>3 DEF Output, Passes
  <2>5. Given(Here) \in Block
    BY Position, GivenIsBlock DEF IInv, Running
  <2>6. QED
    BY <2>4, <2>5 DEF Block
<1>4. QED
  BY <1>1, <1>2, <1>3

\* Encryption hands its block over to the end that decrypts.
LEMMA EncryptedBlockIInv ==
  ASSUME IInv, EndBlock, dir = "encrypt"
  PROVE  IInv'
<1>1. /\ pc = "round" /\ i \notin 0 .. Rounds - 1 /\ left > 0
      /\ buf' = [buf EXCEPT ![Here] = Output]
      /\ ivec' = IF mode = "ecb" THEN ivec
                 ELSE [ivec EXCEPT !["encrypt"] = Output]
      /\ done' = [done EXCEPT !["encrypt"] = @ + 1]
      /\ left' = left - 1 /\ pc' = "next"
      /\ UNCHANGED <<input, keys, dir, i, half, nvec>>
  BY DEF EndBlock, NextVector, IInv, Running
<1>2. /\ Here = done.encrypt + 1 /\ Here \in 1 .. MaxBlocks
      /\ done.encrypt \in 0 .. MaxBlocks /\ done.decrypt \in 0 .. done.encrypt
  BY <1>1, Position, Progress DEF IInv
<1>3. Output \in Block /\ Enciphers(Given(Here), Output)
  BY <1>1, OutputOfRounds
<1>4. /\ done' \in [Ends -> 0 .. MaxBlocks]
      /\ done'.encrypt = Here /\ done'.decrypt = done.decrypt
  BY <1>1, <1>2 DEF IInv, TypeOK, Ends
<1>5. /\ buf' \in [1 .. MaxBlocks -> Block] /\ buf'[Here] = Output
      /\ \A n \in 1 .. MaxBlocks : n # Here => buf'[n] = buf[n]
  BY <1>1, <1>2, <1>3 DEF IInv, TypeOK
<1>6. /\ ivec' \in [Ends -> Block] /\ ivec'.decrypt = ivec.decrypt
      /\ ivec'.encrypt = IF mode = "ecb" THEN ivec.encrypt ELSE Output
  BY <1>1, <1>3 DEF IInv, TypeOK, Ends
<1>7. ASSUME NEW n \in done.decrypt + 1 .. Here
      PROVE  Given(n)' = Given(n)
  <2>1. n # done.decrypt + 1 => n - 1 \in 1 .. MaxBlocks /\ n - 1 # Here
    BY <1>2, DesAssumption
  <2>2. Before(n)' = Before(n)
    BY <1>4, <1>5, <1>6, <2>1 DEF Before
  <2>3. QED
    BY <1>1, <2>2 DEF Given, input
<1>8. \A in, out : Enciphers(in, out)' = Enciphers(in, out)
  BY <1>1 DEF Passes, Enciphers, input
<1>9. TypeOK'
  <2>1. left' \in 0 .. MaxBlocks
    BY <1>1, DesAssumption DEF IInv, TypeOK
  <2>2. QED
    BY <1>1, <1>4, <1>5, <1>6, <2>1 DEF IInv, TypeOK, input
<1>10. WithinBuffer' /\ Running'
  <2>1. left <= MaxBlocks - done.encrypt
    BY <1>1 DEF IInv, WithinBuffer, Ahead
  <2>2. left' <= MaxBlocks - done'.encrypt
    BY <1>1, <1>2, <1>4, <2>1, DesAssumption DEF IInv, TypeOK
  <2>3. WithinBuffer'
    BY <1>1, <2>2 DEF WithinBuffer, Ahead
  <2>4. Running'
    BY <1>1, <1>2, <1>4 DEF IInv, Running, input
  <2>5. QED
    BY <2>3, <2>4
<1>11. Untouched'
  <2>1. ASSUME NEW n \in Here + 1 .. MaxBlocks
        PROVE  buf'[n] = plain[n]
    <3>1. n \in done.encrypt + 1 .. MaxBlocks /\ n \in 1 .. MaxBlocks /\ n # Here
      BY <1>2
    <3>2. QED
      BY <1>5, <3>1 DEF IInv, Untouched
  <2>2. QED
    BY <1>1, <1>4, <2>1 DEF Untouched, input
<1>12. Encrypted'
  <2>1. ASSUME NEW n \in done.decrypt + 1 .. Here
        PROVE  Enciphers(Given(n), buf'[n])
    <3>1. CASE n = Here
      BY <1>3, <1>5, <3>1
    <3>2. CASE n # Here
      <4>1. n \in done.decrypt + 1 .. done.encrypt /\ n \in 1 .. MaxBlocks
        BY <1>2, <3>2, DesAssumption
      <4>2. QED
        BY <1>5, <3>2, <4>1 DEF IInv, Encrypted
    <3>3. QED
      BY <3>1, <3>2
  <2>2. ASSUME NEW n \in done.decrypt + 1 .. Here
        PROVE  Enciphers(Given(n), buf[n])'
    BY <1>7, <1>8, <2>1
  <2>3. QED
    BY <1>4, <2>2 DEF Encrypted
<1>13. Chained'
  <2>1. mode' = mode /\ mode \in {"ecb", "cbc"}
    BY <1>1 DEF IInv, TypeOK, input
  <2>2. Before(done.encrypt + 1)' = Output
    <3>1. Here + 1 # done.decrypt + 1 /\ (Here + 1) - 1 = Here
      BY <1>2
    <3>2. QED
      BY <1>4, <1>5, <3>1 DEF Before
  <2>3. ivec'.encrypt = IF mode' = "cbc" THEN Before(done.encrypt + 1)'
                        ELSE ivec'.decrypt
    BY <1>6, <2>1, <2>2 DEF IInv, Chained
  <2>4. QED
    BY <2>3 DEF Chained
<1>14. RoundTrip'
  <2>1. \A n \in 1 .. done.decrypt : n \in 1 .. MaxBlocks /\ n # Here
    BY <1>2, DesAssumption
  <2>2. QED
    BY <1>1, <1>4, <1>5, <2>1 DEF IInv, RoundTrip, input
<1>15. Forward' /\ Backward'
  BY <1>1 DEF Forward, Backward
<1>16. QED
  BY <1>9, <1>10, <1>11, <1>12, <1>13, <1>14, <1>15 DEF IInv

\* Decryption gives back the block, and keeps what it overwrites in the vector.
LEMMA DecryptedBlockIInv ==
  ASSUME IInv, EndBlock, dir = "decrypt"
  PROVE  IInv'
<1> DEFINE b == IF mode = "cbc" THEN XorBlock(Output, ivec["decrypt"]) ELSE Output
<1>1. /\ pc = "round" /\ i \notin 0 .. Rounds - 1 /\ left > 0
      /\ buf' = [buf EXCEPT ![Here] = b]
      /\ ivec' = IF mode = "ecb" THEN ivec
                 ELSE [ivec EXCEPT !["decrypt"] = nvec]
      /\ done' = [done EXCEPT !["decrypt"] = @ + 1]
      /\ left' = left - 1 /\ pc' = "next"
      /\ UNCHANGED <<input, keys, dir, i, half, nvec>>
  BY DEF EndBlock, NextVector, IInv, Running
<1>2. /\ Here = done.decrypt + 1 /\ Here \in 1 .. MaxBlocks /\ Here <= done.encrypt
      /\ done.encrypt \in 0 .. MaxBlocks /\ done.decrypt \in 0 .. done.encrypt
  BY <1>1, Position, Progress DEF IInv
<1>3. Output \in Block /\ Output = Given(Here)
  BY <1>1, OutputOfRounds
<1>4. b = plain[Here] /\ b \in Block
  <2>1. plain[Here] \in Block /\ ivec["decrypt"] \in Block
    BY <1>2 DEF IInv, TypeOK, Ends
  <2>2. Before(Here) = ivec["decrypt"]
    BY <1>2 DEF Before
  <2>3. QED
    BY <1>3, <2>1, <2>2, XorBlockLaws DEF Given
<1> HIDE DEF b
<1>5. /\ done' \in [Ends -> 0 .. MaxBlocks]
      /\ done'.encrypt = done.encrypt /\ done'.decrypt = Here
  BY <1>1, <1>2 DEF IInv, TypeOK, Ends
<1>6. /\ buf' \in [1 .. MaxBlocks -> Block] /\ buf'[Here] = plain[Here]
      /\ \A n \in 1 .. MaxBlocks : n # Here => buf'[n] = buf[n]
  BY <1>1, <1>2, <1>4 DEF IInv, TypeOK
<1>7. mode \in {"ecb", "cbc"} /\ mode' = mode /\ plain' = plain /\ schedule' = schedule
  BY <1>1 DEF IInv, TypeOK, input
<1>8. /\ ivec' \in [Ends -> Block] /\ ivec'.encrypt = ivec.encrypt
      /\ mode = "cbc" => ivec'.decrypt = buf[Here]
      /\ mode = "ecb" => ivec' = ivec
  BY <1>1, <1>7 DEF IInv, TypeOK, Ends, Backward
<1>9. ASSUME NEW n \in Here + 1 .. done.encrypt + 1, mode = "cbc"
      PROVE  Before(n)' = Before(n)
  <2>1. CASE n = Here + 1
    <3>1. n # done.decrypt + 1 /\ n - 1 = Here /\ n = done'.decrypt + 1
      BY <1>2, <1>5, <2>1
    <3>2. QED
      BY <1>8, <1>9, <3>1 DEF Before
  <2>2. CASE n # Here + 1
    <3>1. /\ n # done.decrypt + 1 /\ n # done'.decrypt + 1
          /\ n - 1 \in 1 .. MaxBlocks /\ n - 1 # Here
      BY <1>2, <1>5, <2>2, DesAssumption
    <3>2. QED
      BY <1>6, <3>1 DEF Before
  <2>3. QED
    BY <2>1, <2>2
<1>10. \A in, out : Enciphers(in, out)' = Enciphers(in, out)
  BY <1>7 DEF Passes, Enciphers
<1>11. TypeOK'
  <2>1. left' \in 0 .. MaxBlocks
    BY <1>1, DesAssumption DEF IInv, TypeOK
  <2>2. QED
    BY <1>1, <1>5, <1>6, <1>8, <2>1 DEF IInv, TypeOK, input
<1>12. WithinBuffer' /\ Running'
  <2>1. left <= done.encrypt - done.decrypt
    BY <1>1 DEF IInv, WithinBuffer, Ahead
  <2>2. left' <= done'.encrypt - done'.decrypt
    BY <1>1, <1>2, <1>5, <2>1, DesAssumption DEF IInv, TypeOK
  <2>3. WithinBuffer'
    BY <1>1, <2>2 DEF WithinBuffer, Ahead
  <2>4. Running'
    BY <1>1, <1>2, <1>5 DEF IInv, Running, input
  <2>5. QED
    BY <2>3, <2>4
<1>13. Untouched'
  <2>1. \A n \in done.encrypt + 1 .. MaxBlocks : n \in 1 .. MaxBlocks /\ n # Here
    BY <1>2, DesAssumption
  <2>2. \A n \in done.encrypt + 1 .. MaxBlocks : buf[n] = plain[n]
    BY <1>2 DEF IInv, Untouched
  <2>3. QED
    BY <1>5, <1>6, <1>7, <2>1, <2>2 DEF Untouched
<1>14. Encrypted'
  <2>1. ASSUME NEW n \in Here + 1 .. done.encrypt
        PROVE  Enciphers(Given(n), buf[n])'
    <3>1. /\ n \in done.decrypt + 1 .. done.encrypt /\ n \in 1 .. MaxBlocks
          /\ n # Here /\ n \in Here + 1 .. done.encrypt + 1
      BY <1>2, DesAssumption
    <3>2. buf'[n] = buf[n] /\ Given(n)' = Given(n)
      BY <1>6, <1>7, <1>9, <3>1 DEF Given
    <3>3. Enciphers(Given(n), buf[n])
      BY <3>1 DEF IInv, Encrypted
    <3>4. QED
      BY <1>10, <3>2, <3>3
  <2>2. QED
    BY <1>5, <2>1 DEF Encrypted
<1>15. Chained'
  <2>1. ASSUME mode = "cbc"
        PROVE  Before(done.encrypt + 1)' = Before(done.encrypt + 1)
    <3>1. done.encrypt + 1 \in Here + 1 .. done.encrypt + 1
      BY <1>2
    <3>2. QED
      BY <1>5, <1>9, <2>1, <3>1 DEF Before
  <2>2. QED
    BY <1>7, <1>8, <2>1 DEF IInv, Chained
<1>16. RoundTrip'
  <2>1. ASSUME NEW n \in 1 .. Here
        PROVE  buf'[n] = plain[n]
    <3>1. CASE n = Here
      BY <1>6, <3>1
    <3>2. CASE n # Here
      <4>1. n \in 1 .. done.decrypt /\ n \in 1 .. MaxBlocks
        BY <1>2, <3>2, DesAssumption
      <4>2. QED
        BY <1>6, <3>2, <4>1 DEF IInv, RoundTrip
    <3>3. QED
      BY <3>1, <3>2
  <2>2. QED
    BY <1>5, <1>7, <2>1 DEF RoundTrip
<1>17. Forward' /\ Backward'
  BY <1>1 DEF Forward, Backward
<1>18. QED
  BY <1>11, <1>12, <1>13, <1>14, <1>15, <1>16, <1>17 DEF IInv

-----------------------------------------------------------------------------

LEMMA StepIInv == IInv /\ [Next]_vars => IInv'
<1> SUFFICES ASSUME IInv, [Next]_vars PROVE IInv'
  OBVIOUS
<1>1. ASSUME NEW d \in Ends, NEW len \in Lens, Begin(d, len)
      PROVE  IInv'
  BY <1>1, BeginIInv
<1>2. ASSUME NEW k \in Keys, OtherCall(k)
      PROVE  IInv'
  BY <1>2, OtherCallIInv
<1>3. CASE NextBlock
  BY <1>3, NextBlockIInv
<1>4. CASE Round
  BY <1>4, RoundIInv
<1>5. CASE EndBlock
  BY <1>5, EncryptedBlockIInv, DecryptedBlockIInv DEF IInv, TypeOK, Ends
<1>6. CASE Return
  BY <1>6, ReturnIInv
<1>7. CASE UNCHANGED vars
  <2>1. TypeOK' /\ WithinBuffer' /\ Running' /\ Untouched' /\ Forward' /\ Backward'
    BY <1>7 DEF vars, input, local, IInv, TypeOK, WithinBuffer, Running, Untouched,
                Forward, Backward, Ahead, Here, Passes, Given, Before
  <2>2. Encrypted' /\ Chained' /\ RoundTrip'
    BY <1>7, BufferStays DEF vars
  <2>3. QED
    BY <2>1, <2>2 DEF IInv
<1>8. QED
  BY <1>1, <1>2, <1>3, <1>4, <1>5, <1>6, <1>7 DEF Next

\* The invariant always holds.
THEOREM InvariantHolds == Spec => []IInv
<1>1. QED
  BY InitIInv, StepIInv, PTL DEF Spec

\* The program's variables keep their types through every step of a call.
THEOREM TypeCorrect == Spec => []TypeOK
<1>1. IInv => TypeOK
  BY DEF IInv
<1>2. QED
  BY <1>1, InvariantHolds, PTL

\* The blocks a length is rounded up to are blocks of the buffer, and when
\* decrypting, blocks that are encrypted.
THEOREM WithinBufferHolds == Spec => []WithinBuffer
<1>1. IInv => WithinBuffer
  BY DEF IInv
<1>2. QED
  BY <1>1, InvariantHolds, PTL

\* ecb_crypt and cbc_crypt decrypt what they have encrypted, for every number
\* of rounds, every round function, every key used in between, and every way
\* to cut the buffer into calls.
THEOREM RoundTripHolds == Spec => []RoundTrip
<1>1. IInv => RoundTrip
  BY DEF IInv
<1>2. QED
  BY <1>1, InvariantHolds, PTL

\* Two ends that have worked on the same blocks hold the same vector.
THEOREM InStepHolds == Spec => []InStep
<1>1. IInv => InStep
  BY DEF IInv, Chained, Before, InStep
<1>2. QED
  BY <1>1, InvariantHolds, PTL
=============================================================================
