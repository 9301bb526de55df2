-------------------------- MODULE RingBufferProofs --------------------------
(***************************************************************************)
(* Proofs about RingBuffer, for every size dividing 2^32, every set of     *)
(* byte values and every length of call.                                   *)
(***************************************************************************)
EXTENDS RingBuffer, ModArithmetic, SequenceTheorems

(***************************************************************************)
(* The inductive invariant: what a call that is half way through has       *)
(* established and still relies on.                                        *)
(***************************************************************************)
Filled == Used(write_p, read_p)

\* There is room for what the writer's call has settled on, and the bytes
\* it has copied stay behind the write index until the index moves.
WriteHolds ==
  /\ Len(wdata) <= Size - Filled
  /\ \A i \in DOMAIN wdata \ wleft : buf[Slot(write_p + i - 1)] = wdata[i]
  /\ writing = "none" => wdata = <<>>
  /\ writing # "none" => staged = <<>>

\* What the reader's call has settled on is still there, and the bytes it
\* has copied are those at the read index.
ReadHolds ==
  /\ Len(rdata) <= Filled
  /\ \A i \in DOMAIN rdata \ rleft : rdata[i] = buf[Slot(read_p + i - 1)]
  /\ reading = "none" <=> rdata = <<>>

\* Every byte between the indices is one that was written.
LiveBytes ==
  \A i \in 1 .. Size : i <= Filled => buf[Slot(read_p + i - 1)] \in Bytes

IInv == TypeOK /\ WriteHolds /\ StagedStays /\ ReadHolds /\ LiveBytes /\ NoGarbage

-----------------------------------------------------------------------------
(***************************************************************************)
(* The indices.                                                            *)
(***************************************************************************)
\* The unsigned difference of two indices, without %.
LEMMA UsedValue ==
  ASSUME NEW x \in Index, NEW y \in Index
  PROVE  /\ Used(x, y) = IF x >= y THEN x - y ELSE x - y + W
         /\ Used(x, y) \in Nat
<1>1. W \in Nat \ {0}
  BY IndexAssumption
<1>2. Used(x, y) = IF x >= y THEN x - y ELSE x - y + W
  BY <1>1, ModDifference DEF Used, Index
<1>3. QED
  BY <1>1, <1>2 DEF Index

\* available() is what used() leaves of the buffer.
LEMMA AvailableValue ==
  ASSUME NEW x \in Index, NEW y \in Index, Used(x, y) <= Size
  PROVE  Available(x, y) = Size - Used(x, y)
<1>1. W \in Nat \ {0} /\ Size - Used(x, y) \in 0 .. W - 1
  BY UsedValue, IndexAssumption
<1>2. QED
  BY <1>1, ModSmall DEF Available

\* Moving an index by at most the size of the buffer, without %.
LEMMA AdvanceValue ==
  ASSUME NEW x \in Index, NEW d \in 0 .. Size
  PROVE  /\ Advance(x, d) \in Index
         /\ Advance(x, d) = IF x + d < W THEN x + d ELSE x + d - W
<1>1. d \in 0 .. W /\ W \in Nat \ {0}
  BY IndexAssumption
<1>2. (x + d) % W = IF x + d < W THEN x + d ELSE x + d - W
  BY <1>1, ModSum DEF Index
<1>3. QED
  BY <1>1, <1>2, IndexAssumption DEF Advance, Index

\* The write index moves: that many bytes more are readable.
LEMMA UsedAfterWrite ==
  ASSUME NEW x \in Index, NEW y \in Index, NEW d \in 0 .. Size,
         Used(x, y) + d <= Size
  PROVE  Used(Advance(x, d), y) = Used(x, y) + d
<1>1. W \in Nat \ {0} /\ d \in 0 .. W - 1 /\ Used(x, y) + d < W
  BY UsedValue, IndexAssumption
<1>2. QED
  BY <1>1, ModAdvance DEF Used, Advance, Index

\* The read index moves: that many bytes are gone.
LEMMA UsedAfterRead ==
  ASSUME NEW x \in Index, NEW y \in Index, NEW d \in 0 .. Size, d <= Used(x, y)
  PROVE  Used(x, Advance(y, d)) = Used(x, y) - d
<1>1. W \in Nat \ {0} /\ d \in 0 .. W - 1
  BY IndexAssumption
<1>2. QED
  BY <1>1, ModFollow DEF Used, Advance, Index

-----------------------------------------------------------------------------
(***************************************************************************)
(* Where bytes lie.                                                        *)
(***************************************************************************)
\* Masking gives a position in the array.
LEMMA SlotType ==
  ASSUME NEW x \in Int
  PROVE  Slot(x) \in 0 .. Size - 1
  BY IndexAssumption, ModSplit DEF Slot

\* The wrap of an index leaves positions where they would have been.
LEMMA SlotOfAdvance ==
  ASSUME NEW x \in Index, NEW d \in 0 .. Size, NEW i \in Int
  PROVE  Slot(Advance(x, d) + i) = Slot(x + d + i)
<1>1. W \in Nat \ {0} /\ x + d \in Int
  BY IndexAssumption DEF Index
<1>2. QED
  BY <1>1, IndexAssumption, ModShift DEF Slot, Advance

\* The bytes behind the write index follow those between the indices.
LEMMA WriteSlot ==
  ASSUME NEW x \in Index, NEW y \in Index, NEW i \in Int
  PROVE  Slot(x + i) = Slot(y + Used(x, y) + i)
<1> DEFINE u == (x - y) % W
<1>1. W \in Nat \ {0} /\ x - y \in Int /\ y + i \in Int /\ u \in Int
  BY IndexAssumption, ModSplit DEF Index
<1>2. (u + (y + i)) % Size = ((x - y) + (y + i)) % Size
  BY <1>1, IndexAssumption, ModShift
<1>3. Used(x, y) = u
  BY DEF Used
<1> HIDE DEF u
<1>4. (x - y) + (y + i) = x + i /\ u + (y + i) = y + u + i
  BY <1>1 DEF Index
<1>5. QED
  BY <1>2, <1>3, <1>4 DEF Slot

\* As many consecutive indices as the buffer has bytes share no position.
LEMMA SlotsDistinct ==
  ASSUME NEW y \in Int, NEW i \in 0 .. Size - 1, NEW j \in 0 .. Size - 1, i # j
  PROVE  Slot(y + i) # Slot(y + j)
<1>1. y + i \in Int /\ y + j \in Int
  BY IndexAssumption
<1>2. (y + i) - (y + j) < Size /\ (y + j) - (y + i) < Size /\ y + i # y + j
  BY IndexAssumption
<1>3. QED
  BY <1>1, <1>2, IndexAssumption, ModInjective DEF Slot

\* The two memcpys of a call that is no longer than the buffer put byte i
\* where index + i - 1 masks to.
LEMMA PlaceIsSlot ==
  ASSUME NEW x \in Index, NEW len \in 0 .. Size, NEW i \in 1 .. len
  PROVE  Place(x, len, i) = Slot(x + i - 1)
<1> USE IndexAssumption
<1> DEFINE s == Slot(x)
           q == x \div Size
<1>1. x \in Int /\ s \in 0 .. Size - 1 /\ q \in Int /\ x = Size * q + s
  BY ModSplit DEF Slot, Index
<1> HIDE DEF s, q
<1>2. CASE i <= Size - s
  <2>1. Place(x, len, i) = s + i - 1
    <3>1. i <= Lesser(len, Size - s)
      BY <1>2 DEF Lesser
    <3>2. QED
      BY <3>1 DEF Place, s
  <2>2. s + i - 1 \in 0 .. Size - 1 /\ x + i - 1 = Size * q + (s + i - 1)
    BY <1>1, <1>2
  <2>3. (Size * q + (s + i - 1)) % Size = s + i - 1
    BY <1>1, <2>2, ModUnique
  <2>4. QED
    BY <2>1, <2>2, <2>3 DEF Slot
<1>3. CASE i > Size - s
  <2>1. Place(x, len, i) = i - (Size - s) - 1
    <3>1. Lesser(len, Size - s) = Size - s /\ ~(i <= Lesser(len, Size - s))
      BY <1>1, <1>3 DEF Lesser
    <3>2. QED
      BY <3>1 DEF Place, s
  <2>2. /\ i - (Size - s) - 1 \in 0 .. Size - 1 /\ q + 1 \in Int
        /\ x + i - 1 = Size * (q + 1) + (i - (Size - s) - 1)
    BY <1>1, <1>3
  <2>3. (Size * (q + 1) + (i - (Size - s) - 1)) % Size = i - (Size - s) - 1
    BY <2>2, ModUnique
  <2>4. QED
    BY <2>1, <2>2, <2>3 DEF Slot
<1>4. QED
  BY <1>1, <1>2, <1>3

-----------------------------------------------------------------------------
(***************************************************************************)
(* What is left of a sequence when its first n elements are taken.         *)
(***************************************************************************)
\* The bytes that remain keep their order and move up by n.
LEMMA RestProperties ==
  ASSUME NEW S, NEW seq \in Seq(S), NEW n \in 0 .. Len(seq)
  PROVE  /\ SubSeq(seq, n + 1, Len(seq)) \in Seq(S)
         /\ Len(SubSeq(seq, n + 1, Len(seq))) = Len(seq) - n
         /\ \A i \in 1 .. Len(seq) - n : SubSeq(seq, n + 1, Len(seq))[i] = seq[n + i]
<1> DEFINE l == Len(seq)
           rest == SubSeq(seq, n + 1, l)
<1>1. l \in Nat /\ n \in Int /\ n + 1 \in Int /\ n <= l
  BY LenProperties
<1>2. \A i \in n + 1 .. l : seq[i] \in S
  BY ElementOfSeq
<1> HIDE DEF l
<1>3. /\ rest \in Seq(S)
      /\ Len(rest) = IF n + 1 <= l THEN l - (n + 1) + 1 ELSE 0
      /\ \A i \in 1 .. l - (n + 1) + 1 : rest[i] = seq[n + 1 + i - 1]
  BY <1>1, <1>2, SubSeqProperties
<1> HIDE DEF rest
<1>4. Len(rest) = l - n
  BY <1>1, <1>3
<1>5. ASSUME NEW i \in 1 .. l - n
      PROVE  rest[i] = seq[n + i]
  <2>1. i \in 1 .. l - (n + 1) + 1 /\ n + 1 + i - 1 = n + i
    BY <1>1
  <2>2. rest[i] = seq[n + 1 + i - 1]
    BY <1>3, <2>1
  <2>3. QED
    BY <2>1, <2>2
<1>6. QED
  BY <1>3, <1>4, <1>5 DEF l, rest

\* The bytes that are taken keep their places.
LEMMA FrontProperties ==
  ASSUME NEW S, NEW seq, NEW n \in Nat, \A i \in 1 .. n : seq[i] \in S
  PROVE  /\ SubSeq(seq, 1, n) \in Seq(S)
         /\ Len(SubSeq(seq, 1, n)) = n
         /\ \A i \in 1 .. n : SubSeq(seq, 1, n)[i] = seq[i]
<1> DEFINE front == SubSeq(seq, 1, n)
<1>1. /\ front \in Seq(S) /\ Len(front) = IF 1 <= n THEN n - 1 + 1 ELSE 0
      /\ \A i \in 1 .. n - 1 + 1 : front[i] = seq[1 + i - 1]
  BY SubSeqProperties
<1> HIDE DEF front
<1>2. Len(front) = n
  BY <1>1
<1>3. ASSUME NEW i \in 1 .. n PROVE front[i] = seq[i]
  <2>1. i \in 1 .. n - 1 + 1 /\ 1 + i - 1 = i
    OBVIOUS
  <2>2. QED
    BY <1>1, <2>1
<1>4. QED
  BY <1>1, <1>2, <1>3 DEF front

-----------------------------------------------------------------------------
(***************************************************************************)
(* The inductive invariant holds.                                          *)
(***************************************************************************)
\* What every step relies on: the indices, the counts, and the sequences as
\* functions on an interval.
Facts ==
  /\ Size \in Nat \ {0}
  /\ write_p \in Index /\ read_p \in Index
  /\ write_p \in Int /\ read_p \in Int
  /\ Filled \in 0 .. Size
  /\ Available(write_p, read_p) = Size - Filled
  /\ wdata \in Seq(Bytes) /\ Len(wdata) \in 0 .. Size - Filled
  /\ DOMAIN wdata = 1 .. Len(wdata)
  /\ \A i \in 1 .. Len(wdata) : wdata[i] \in Bytes
  /\ staged \in Seq(Bytes) /\ Len(staged) \in 0 .. Size - Filled
  /\ DOMAIN staged = 1 .. Len(staged)
  /\ rdata \in Seq(Bytes \union {Garbage}) /\ Len(rdata) \in 0 .. Filled
  /\ DOMAIN rdata = 1 .. Len(rdata)

\* They follow from the invariant.
LEMMA FactsHold == IInv => Facts
<1> SUFFICES ASSUME IInv PROVE Facts
  OBVIOUS
<1> USE IndexAssumption
<1>1. /\ write_p \in Index /\ read_p \in Index /\ Used(write_p, read_p) <= Size
      /\ wdata \in Seq(Bytes) /\ staged \in Seq(Bytes)
      /\ rdata \in Seq(Bytes \union {Garbage})
  BY DEF IInv, TypeOK
<1>2. Filled \in 0 .. Size /\ Available(write_p, read_p) = Size - Filled
  BY <1>1, UsedValue, AvailableValue DEF Filled
<1>3. write_p \in Int /\ read_p \in Int
  BY <1>1 DEF Index
<1>4. /\ Len(wdata) \in Nat /\ DOMAIN wdata = 1 .. Len(wdata)
      /\ \A i \in 1 .. Len(wdata) : wdata[i] \in Bytes
  BY <1>1, LenProperties, ElementOfSeq
<1>5. Len(staged) \in Nat /\ DOMAIN staged = 1 .. Len(staged)
  BY <1>1, LenProperties
<1>6. Len(rdata) \in Nat /\ DOMAIN rdata = 1 .. Len(rdata)
  BY <1>1, LenProperties
<1>7. /\ Len(wdata) <= Size - Filled /\ Len(staged) <= Size - Filled
      /\ Len(rdata) <= Filled
  BY DEF IInv, WriteHolds, StagedStays, ReadHolds, Filled
<1>8. QED
  BY <1>1, <1>2, <1>3, <1>4, <1>5, <1>6, <1>7 DEF Facts

\* The writer moves its index over bytes it has stored: they join the live
\* ones, and nothing else changes place.
LEMMA WriterMoves ==
  ASSUME IInv, NEW d \in 0 .. Size - Filled,
         \A i \in 1 .. d : buf[Slot(write_p + i - 1)] \in Bytes,
         write_p' = Advance(write_p, d), UNCHANGED <<buf, read_p>>
  PROVE  Filled' = Filled + d /\ write_p' \in Index /\ LiveBytes'
<1>0. Facts
  BY FactsHold
<1> USE <1>0 DEF Facts
<1>1. d \in 0 .. Size /\ Used(write_p, read_p) + d <= Size
  BY DEF Filled
<1>2. Filled' = Filled + d
  BY <1>1, UsedAfterWrite DEF Filled
<1>3. write_p' \in Index
  BY <1>1, AdvanceValue
<1>4. ASSUME NEW i \in 1 .. Size, i <= Filled + d
      PROVE  buf[Slot(read_p + i - 1)] \in Bytes
  <2>1. CASE i <= Filled
    BY <2>1 DEF IInv, LiveBytes
  <2>2. CASE i > Filled
    <3> DEFINE j == i - Filled
    <3>1. j \in 1 .. d /\ j - 1 \in Int
      BY <1>4, <2>2
    <3>2. Slot(write_p + (j - 1)) = Slot(read_p + Used(write_p, read_p) + (j - 1))
      BY <3>1, WriteSlot
    <3>3. /\ write_p + (j - 1) = write_p + j - 1
          /\ read_p + Used(write_p, read_p) + (j - 1) = read_p + i - 1
      BY <3>1 DEF Filled
    <3>4. QED
      BY <3>1, <3>2, <3>3
  <2>3. QED
    BY <2>1, <2>2
<1>5. LiveBytes'
  BY <1>2, <1>4 DEF LiveBytes
<1>6. QED
  BY <1>2, <1>3, <1>5

\* The reader moves its index over bytes that are there.
LEMMA ReaderMoves ==
  ASSUME IInv, NEW d \in 0 .. Filled,
         read_p' = Advance(read_p, d), UNCHANGED <<buf, write_p>>
  PROVE  Filled' = Filled - d /\ read_p' \in Index /\ LiveBytes'
<1>0. Facts
  BY FactsHold
<1> USE <1>0 DEF Facts
<1>1. d \in 0 .. Size /\ d <= Used(write_p, read_p)
  BY DEF Filled
<1>2. Filled' = Filled - d
  BY <1>1, UsedAfterRead DEF Filled
<1>3. read_p' \in Index
  BY <1>1, AdvanceValue
<1>4. ASSUME NEW i \in 1 .. Size, i <= Filled - d
      PROVE  buf[Slot(read_p' + i - 1)] \in Bytes
  <2>1. i - 1 \in Int /\ i + d \in 1 .. Size /\ i + d <= Filled
    BY <1>1, <1>4
  <2>2. Slot(Advance(read_p, d) + (i - 1)) = Slot(read_p + d + (i - 1))
    BY <1>1, <2>1, SlotOfAdvance
  <2>3. /\ read_p + d + (i - 1) = read_p + (i + d) - 1
        /\ Advance(read_p, d) + (i - 1) = read_p' + i - 1
    BY <1>1, <1>3 DEF Index
  <2>4. QED
    BY <2>1, <2>2, <2>3 DEF IInv, LiveBytes
<1>5. LiveBytes'
  BY <1>2, <1>4 DEF LiveBytes
<1>6. QED
  BY <1>2, <1>3, <1>5

\* A store of the writer touches its own byte and none of the others within
\* the buffer's length of the read index.
LEMMA StoreTouchesOne ==
  ASSUME IInv, NEW i, StoreByte(i)
  PROVE  /\ i \in 1 .. Len(wdata) /\ Filled + i - 1 \in 0 .. Size - 1
         /\ buf' \in [0 .. Size - 1 -> Bytes \union {Garbage}]
         /\ \A k \in 0 .. Size - 1 :
              buf'[Slot(read_p + k)] =
                IF k = Filled + i - 1 THEN wdata[i] ELSE buf[Slot(read_p + k)]
<1>0. Facts
  BY FactsHold
<1> USE <1>0 DEF Facts
<1>1. i \in 1 .. Len(wdata) /\ i \in wleft
  BY DEF StoreByte, IInv, TypeOK
<1>2. Filled + i - 1 \in 0 .. Size - 1
  BY <1>1
<1> DEFINE f == Filled + i - 1
           p == Slot(read_p + f)
<1>3. Place(write_p, Len(wdata), i) = p
  <2>1. Place(write_p, Len(wdata), i) = Slot(write_p + i - 1)
    <3>1. Len(wdata) \in 0 .. Size
      OBVIOUS
    <3>2. QED
      BY <1>1, <3>1, PlaceIsSlot
  <2>2. Slot(write_p + (i - 1)) = Slot(read_p + Used(write_p, read_p) + (i - 1))
    BY <1>1, WriteSlot
  <2>3. /\ write_p + (i - 1) = write_p + i - 1
        /\ read_p + Used(write_p, read_p) + (i - 1) = read_p + f
    BY <1>1 DEF Filled
  <2>4. QED
    BY <2>1, <2>2, <2>3
<1>4. p \in 0 .. Size - 1
  <2>1. read_p + f \in Int
    BY <1>2
  <2>2. QED
    BY <2>1, SlotType
<1>5. buf \in [0 .. Size - 1 -> Bytes \union {Garbage}] /\ buf' = [buf EXCEPT ![p] = wdata[i]]
  BY <1>3 DEF StoreByte, IInv, TypeOK
<1> HIDE DEF p
<1>6. buf' \in [0 .. Size - 1 -> Bytes \union {Garbage}]
  BY <1>1, <1>4, <1>5
<1>7. ASSUME NEW k \in 0 .. Size - 1
      PROVE  buf'[Slot(read_p + k)] = IF k = f THEN wdata[i] ELSE buf[Slot(read_p + k)]
  <2>0. read_p + k \in Int
    OBVIOUS
  <2>1. Slot(read_p + k) \in 0 .. Size - 1
    BY <2>0, SlotType
  <2>2. CASE k = f
    BY <1>4, <1>5, <2>2 DEF p
  <2>3. CASE k # f
    <3>1. Slot(read_p + k) # p
      BY <1>2, <2>3, SlotsDistinct DEF p
    <3>2. QED
      BY <1>5, <2>1, <2>3, <3>1
  <2>4. QED
    BY <2>2, <2>3
<1>8. QED
  BY <1>1, <1>2, <1>6, <1>7

\* The constructor's ring is empty, though its array holds garbage.
LEMMA InitIInv == Init => IInv
<1> SUFFICES ASSUME Init PROVE IInv
  OBVIOUS
<1> USE IndexAssumption
<1>1. 0 \in Index /\ Used(0, 0) = 0
  <2>1. 0 \in Index
    BY DEF Index
  <2>2. QED
    BY <2>1, UsedValue
<1>2. write_p \in Index /\ read_p \in Index /\ Filled = 0
  BY <1>1 DEF Init, Filled
<1>3. /\ wdata = <<>> /\ staged = <<>> /\ rdata = <<>> /\ got = <<>>
      /\ wleft = {} /\ rleft = {} /\ writing = "none" /\ reading = "none"
      /\ buf \in [0 .. Size - 1 -> Bytes \union {Garbage}]
  BY DEF Init
<1>4. TypeOK
  BY <1>2, <1>3 DEF TypeOK, Filled
<1>5. WriteHolds /\ StagedStays /\ ReadHolds /\ LiveBytes /\ NoGarbage
  BY <1>2, <1>3 DEF WriteHolds, StagedStays, ReadHolds, LiveBytes, NoGarbage, Filled
<1>6. QED
  BY <1>4, <1>5 DEF IInv

\* A call of the writer begins: it has settled on no more than there is
\* room for, and copied nothing.
LEMMA BeginWriteIInv ==
  ASSUME IInv, NEW call \in {"put", "peek"}, NEW data \in Seq(Bytes),
         Len(data) <= Size - Filled, BeginWrite(call, data)
  PROVE  IInv'
<1>1. /\ wdata' = data /\ wleft' = DOMAIN data /\ staged' = <<>>
      /\ writing' = call /\ writing' # "none"
      /\ UNCHANGED <<buf, write_p, read_p, reading, rdata, rleft, got>>
  BY DEF BeginWrite, reader
<1>2. Filled' = Filled /\ Filled \in 0 .. Size /\ Size \in Nat
  BY <1>1, FactsHold DEF Filled, Facts
<1>3. TypeOK'
  BY <1>1 DEF IInv, TypeOK
<1>4. WriteHolds'
  BY <1>1, <1>2 DEF WriteHolds
<1>5. StagedStays'
  BY <1>1, <1>2 DEF StagedStays, Filled
<1>6. ReadHolds' /\ LiveBytes' /\ NoGarbage'
  BY <1>1, <1>2 DEF IInv, ReadHolds, LiveBytes, NoGarbage
<1>7. QED
  BY <1>3, <1>4, <1>5, <1>6 DEF IInv

\* The bytes a call is made with, and the part of them that kfifo_put takes.
LEMMA ChunkType ==
  ASSUME NEW chunk \in Chunks, NEW n \in Nat, n <= Len(chunk)
  PROVE  /\ chunk \in Seq(Bytes) /\ Len(chunk) \in Nat \ {0}
         /\ SubSeq(chunk, 1, n) \in Seq(Bytes) /\ Len(SubSeq(chunk, 1, n)) = n
<1>1. PICK m \in Lens : chunk \in [1 .. m -> Bytes]
  BY DEF Chunks
<1>2. m \in Nat \ {0}
  BY RingAssumption DEF Lens
<1>3. chunk \in Seq(Bytes) /\ Len(chunk) = m
  BY <1>1, <1>2
<1>4. \A i \in 1 .. n : chunk[i] \in Bytes
  BY <1>1, <1>2, <1>3
<1>5. SubSeq(chunk, 1, n) \in Seq(Bytes) /\ Len(SubSeq(chunk, 1, n)) = n
  BY <1>4, FrontProperties
<1>6. QED
  BY <1>2, <1>3, <1>5

\* The writer copies a byte behind the write index: what is staged there is
\* its own, and no byte of the reader is touched.
LEMMA StoreByteIInv ==
  ASSUME IInv, NEW i, StoreByte(i)
  PROVE  IInv'
<1>0. Facts
  BY FactsHold
<1> USE <1>0 DEF Facts
<1> DEFINE f == Filled + i - 1
<1>1. /\ i \in 1 .. Len(wdata) /\ f \in 0 .. Size - 1
      /\ buf' \in [0 .. Size - 1 -> Bytes \union {Garbage}]
      /\ \A k \in 0 .. Size - 1 :
           buf'[Slot(read_p + k)] = IF k = f THEN wdata[i] ELSE buf[Slot(read_p + k)]
  BY StoreTouchesOne
<1>2. /\ wleft' = wleft \ {i}
      /\ UNCHANGED <<write_p, read_p, writing, wdata, staged, reading, rdata, rleft, got>>
  BY DEF StoreByte, reader
<1>3. Filled' = Filled
  BY <1>2 DEF Filled
<1>4. \A k \in 1 .. Filled : buf'[Slot(read_p + k - 1)] = buf[Slot(read_p + k - 1)]
  <2> SUFFICES ASSUME NEW k \in 1 .. Filled
               PROVE  buf'[Slot(read_p + k - 1)] = buf[Slot(read_p + k - 1)]
    OBVIOUS
  <2>1. k - 1 \in 0 .. Size - 1 /\ k - 1 # f /\ read_p + (k - 1) = read_p + k - 1
    BY <1>1
  <2>2. QED
    BY <1>1, <2>1
<1>5. TypeOK'
  BY <1>1, <1>2, <1>3 DEF IInv, TypeOK, Filled
<1>6. WriteHolds'
  <2>1. ASSUME NEW j \in DOMAIN wdata, j \notin wleft'
        PROVE  buf'[Slot(write_p + j - 1)] = wdata[j]
    <3> DEFINE k == Filled + j - 1
    <3>1. j \in 1 .. Len(wdata) /\ j - 1 \in Int /\ k \in 0 .. Size - 1
      BY <2>1
    <3>2. Slot(write_p + (j - 1)) = Slot(read_p + Used(write_p, read_p) + (j - 1))
      BY <3>1, WriteSlot
    <3>3. /\ write_p + (j - 1) = write_p + j - 1
          /\ read_p + Used(write_p, read_p) + (j - 1) = read_p + k
      BY <3>1 DEF Filled
    <3>4. buf'[Slot(write_p + j - 1)] = IF k = f THEN wdata[i] ELSE buf[Slot(write_p + j - 1)]
      BY <1>1, <3>1, <3>2, <3>3
    <3>5. CASE j = i
      BY <3>4, <3>5
    <3>6. CASE j # i
      <4>1. j \notin wleft
        BY <1>2, <2>1, <3>6
      <4>2. buf[Slot(write_p + j - 1)] = wdata[j]
        BY <4>1 DEF IInv, WriteHolds
      <4>3. k # f
        BY <1>1, <3>1, <3>6
      <4>4. QED
        BY <3>4, <4>2, <4>3
    <3>7. QED
      BY <3>5, <3>6
  <2>2. QED
    BY <1>2, <1>3, <2>1 DEF IInv, WriteHolds
<1>7. StagedStays'
  <2>1. writing # "none"
    BY <1>1 DEF IInv, WriteHolds
  <2>2. staged' = <<>>
    BY <1>2, <2>1 DEF IInv, WriteHolds
  <2>3. QED
    BY <1>2, <1>3, <2>2 DEF StagedStays, Filled
<1>8. ReadHolds'
  <2>1. ASSUME NEW j \in DOMAIN rdata \ rleft
        PROVE  rdata[j] = buf'[Slot(read_p + j - 1)]
    <3>1. j \in 1 .. Filled
      OBVIOUS
    <3>2. rdata[j] = buf[Slot(read_p + j - 1)]
      BY DEF IInv, ReadHolds
    <3>3. QED
      BY <1>4, <3>1, <3>2
  <2>2. QED
    BY <1>2, <1>3, <2>1 DEF IInv, ReadHolds
<1>9. LiveBytes'
  <2>1. ASSUME NEW k \in 1 .. Size, k <= Filled
        PROVE  buf'[Slot(read_p + k - 1)] \in Bytes
    <3>1. k \in 1 .. Filled
      BY <2>1
    <3>2. buf[Slot(read_p + k - 1)] \in Bytes
      BY <2>1 DEF IInv, LiveBytes
    <3>3. QED
      BY <1>4, <3>1, <3>2
  <2>2. QED
    BY <1>2, <1>3, <2>1 DEF LiveBytes
<1>10. NoGarbage'
  BY <1>2 DEF IInv, NoGarbage
<1>11. QED
  BY <1>5, <1>6, <1>7, <1>8, <1>9, <1>10 DEF IInv

\* kfifo_put publishes what it has copied.
LEMMA EndPutIInv ==
  ASSUME IInv, EndPut
  PROVE  IInv'
<1>0. Facts
  BY FactsHold
<1> USE <1>0 DEF Facts
<1>1. /\ writing = "put" /\ wleft = {} /\ write_p' = Advance(write_p, Len(wdata))
      /\ writing' = "none" /\ wdata' = <<>> /\ wleft' = {}
      /\ UNCHANGED <<buf, read_p, staged, reading, rdata, rleft, got>>
  BY DEF EndPut, Copied, reader
<1>2. staged = <<>> /\ staged' = <<>>
  BY <1>1 DEF IInv, WriteHolds
<1>3. Filled' = Filled + Len(wdata) /\ write_p' \in Index /\ LiveBytes'
  <2>1. \A i \in 1 .. Len(wdata) : buf[Slot(write_p + i - 1)] \in Bytes
    BY <1>1 DEF IInv, WriteHolds
  <2>2. QED
    BY <1>1, <2>1, WriterMoves
<1>4. TypeOK'
  BY <1>1, <1>2, <1>3 DEF IInv, TypeOK, Filled
<1>5. WriteHolds' /\ StagedStays'
  BY <1>1, <1>2, <1>3 DEF WriteHolds, StagedStays, Filled
<1>6. ReadHolds' /\ NoGarbage'
  <2>1. Len(rdata) <= Filled + Len(wdata)
    OBVIOUS
  <2>2. QED
    BY <1>1, <1>3, <2>1 DEF IInv, ReadHolds, NoGarbage
<1>7. QED
  BY <1>3, <1>4, <1>5, <1>6 DEF IInv

\* peek_write leaves what it has copied behind the write index.
LEMMA EndPeekWriteIInv ==
  ASSUME IInv, EndPeekWrite
  PROVE  IInv'
<1>0. Facts
  BY FactsHold
<1> USE <1>0 DEF Facts
<1>1. /\ wleft = {} /\ staged' = wdata
      /\ writing' = "none" /\ wdata' = <<>> /\ wleft' = {}
      /\ UNCHANGED <<buf, write_p, read_p, reading, rdata, rleft, got>>
  BY DEF EndPeekWrite, Copied, reader
<1>2. Filled' = Filled
  BY <1>1 DEF Filled
<1>3. TypeOK'
  BY <1>1 DEF IInv, TypeOK
<1>4. WriteHolds'
  BY <1>1, <1>2 DEF WriteHolds
<1>5. StagedStays'
  <2>1. \A i \in 1 .. Len(wdata) : buf[Slot(write_p + i - 1)] = wdata[i]
    BY <1>1 DEF IInv, WriteHolds
  <2>2. QED
    BY <1>1, <1>2, <2>1 DEF StagedStays, Filled
<1>6. ReadHolds' /\ LiveBytes' /\ NoGarbage'
  BY <1>1, <1>2 DEF IInv, ReadHolds, LiveBytes, NoGarbage
<1>7. QED
  BY <1>3, <1>4, <1>5, <1>6 DEF IInv

\* seek_write publishes the first of the staged bytes; the others stay where
\* a later seek_write finds them.
LEMMA SeekWriteIInv ==
  ASSUME IInv, NEW len \in Lens, SeekWrite(len)
  PROVE  IInv'
<1>0. Facts
  BY FactsHold
<1> USE <1>0 DEF Facts
<1>1. /\ writing = "none" /\ len \in Nat \ {0}
      /\ len <= Len(staged) /\ len \in 0 .. Size - Filled
      /\ write_p' = Advance(write_p, len)
      /\ staged' = SubSeq(staged, len + 1, Len(staged))
      /\ UNCHANGED <<buf, read_p, writing, wdata, wleft, reading, rdata, rleft, got>>
  BY RingAssumption DEF SeekWrite, reader, Lens
<1>2. \A i \in 1 .. Len(staged) :
        staged[i] \in Bytes /\ buf[Slot(write_p + i - 1)] = staged[i]
  BY ElementOfSeq DEF IInv, StagedStays
<1>3. /\ staged' \in Seq(Bytes) /\ Len(staged') = Len(staged) - len
      /\ \A i \in 1 .. Len(staged) - len : staged'[i] = staged[len + i]
  <2>1. len \in 0 .. Len(staged)
    BY <1>1
  <2>2. /\ SubSeq(staged, len + 1, Len(staged)) \in Seq(Bytes)
        /\ Len(SubSeq(staged, len + 1, Len(staged))) = Len(staged) - len
        /\ \A i \in 1 .. Len(staged) - len :
             SubSeq(staged, len + 1, Len(staged))[i] = staged[len + i]
    BY <2>1, RestProperties
  <2>3. QED
    BY <1>1, <2>2
<1>4. Filled' = Filled + len /\ write_p' \in Index /\ LiveBytes'
  <2>1. ASSUME NEW i \in 1 .. len
        PROVE  buf[Slot(write_p + i - 1)] \in Bytes
    <3>1. i \in 1 .. Len(staged)
      BY <1>1
    <3>2. QED
      BY <1>2, <3>1
  <2>2. QED
    BY <1>1, <2>1, WriterMoves
<1>5. TypeOK'
  <2>1. Filled + len <= Size
    BY <1>1
  <2>2. QED
    BY <1>1, <1>3, <1>4, <2>1 DEF IInv, TypeOK, Filled
<1>6. WriteHolds'
  <2>1. wdata = <<>>
    BY <1>1 DEF IInv, WriteHolds
  <2>2. 0 <= Size - (Filled + len)
    BY <1>1
  <2>3. QED
    BY <1>1, <1>4, <2>1, <2>2 DEF WriteHolds
<1>7. StagedStays'
  <2>1. ASSUME NEW i \in 1 .. Len(staged) - len
        PROVE  buf[Slot(write_p' + i - 1)] = staged'[i]
    <3>1. i - 1 \in Int /\ len + i \in 1 .. Len(staged) /\ len \in 0 .. Size
      BY <1>1
    <3>2. Slot(Advance(write_p, len) + (i - 1)) = Slot(write_p + len + (i - 1))
      BY <3>1, SlotOfAdvance
    <3>3. /\ write_p + len + (i - 1) = write_p + (len + i) - 1
          /\ Advance(write_p, len) + (i - 1) = write_p' + i - 1
      BY <1>1, <1>4, <3>1 DEF Index
    <3>4. QED
      BY <1>2, <1>3, <3>1, <3>2, <3>3
  <2>2. Len(staged') <= Size - Filled'
    BY <1>1, <1>3, <1>4
  <2>3. QED
    BY <1>1, <1>3, <2>1, <2>2 DEF StagedStays, Filled
<1>8. ReadHolds' /\ NoGarbage'
  <2>1. Len(rdata) <= Filled + len
    BY <1>1
  <2>2. QED
    BY <1>1, <1>4, <2>1 DEF IInv, ReadHolds, NoGarbage
<1>9. QED
  BY <1>4, <1>5, <1>6, <1>7, <1>8 DEF IInv

\* A call of the reader begins: it has settled on no more than is there, and
\* read nothing.
LEMMA BeginReadIInv ==
  ASSUME IInv, NEW call \in {"get", "peek"}, NEW len \in 1 .. Filled,
         BeginRead(call, len)
  PROVE  IInv'
<1>0. Facts
  BY FactsHold
<1>1. /\ reading' = call /\ reading' # "none"
      /\ rdata' = [i \in 1 .. len |-> Garbage] /\ rleft' = 1 .. len
      /\ UNCHANGED <<buf, write_p, read_p, writing, wdata, wleft, staged, got>>
  BY DEF BeginRead, writer
<1>2. Filled' = Filled /\ len \in Nat \ {0} /\ len <= Filled
  BY <1>0, <1>1 DEF Filled, Facts
<1>3. /\ rdata' \in Seq(Bytes \union {Garbage}) /\ Len(rdata') = len
      /\ DOMAIN rdata' = 1 .. len /\ rdata' # <<>>
  BY <1>1, <1>2
<1>4. TypeOK'
  BY <1>1, <1>3 DEF IInv, TypeOK
<1>5. ReadHolds'
  BY <1>1, <1>2, <1>3 DEF ReadHolds
<1>6. WriteHolds' /\ StagedStays' /\ LiveBytes' /\ NoGarbage'
  BY <1>1, <1>2 DEF IInv, WriteHolds, StagedStays, LiveBytes, NoGarbage, Filled
<1>7. QED
  BY <1>4, <1>5, <1>6 DEF IInv

\* The reader copies a byte from where it lies, wherever the call splits.
LEMMA LoadByteIInv ==
  ASSUME IInv, NEW i, LoadByte(i)
  PROVE  IInv'
<1>0. Facts
  BY FactsHold
<1> USE <1>0 DEF Facts
<1> DEFINE b == buf[Slot(read_p + i - 1)]
<1>1. /\ i \in rleft /\ rleft' = rleft \ {i} /\ i \in 1 .. Len(rdata)
      /\ rdata' = [rdata EXCEPT ![i] = buf[Place(read_p, Len(rdata), i)]]
      /\ UNCHANGED <<buf, write_p, read_p, writing, wdata, wleft, staged, reading, got>>
  BY DEF LoadByte, writer, IInv, TypeOK
<1>2. Filled' = Filled
  BY <1>1 DEF Filled
<1>3. rdata' = [rdata EXCEPT ![i] = b]
  <2>1. Len(rdata) \in 0 .. Size
    OBVIOUS
  <2>2. Place(read_p, Len(rdata), i) = Slot(read_p + i - 1)
    BY <1>1, <2>1, PlaceIsSlot
  <2>3. QED
    BY <1>1, <2>2
<1>4. b \in Bytes \union {Garbage}
  <2>1. read_p + i - 1 \in Int
    BY <1>1
  <2>2. Slot(read_p + i - 1) \in 0 .. Size - 1
    BY <2>1, SlotType
  <2>3. QED
    BY <2>2 DEF IInv, TypeOK
<1> HIDE DEF b
<1>5. /\ rdata' \in Seq(Bytes \union {Garbage}) /\ Len(rdata') = Len(rdata)
      /\ DOMAIN rdata' = DOMAIN rdata
      /\ \A j \in 1 .. Len(rdata) : rdata'[j] = IF j = i THEN b ELSE rdata[j]
  BY <1>1, <1>3, <1>4, ExceptSeq
<1>6. TypeOK'
  BY <1>1, <1>5 DEF IInv, TypeOK
<1>7. ReadHolds'
  <2>1. ASSUME NEW j \in DOMAIN rdata \ rleft'
        PROVE  rdata'[j] = buf[Slot(read_p + j - 1)]
    <3>1. CASE j = i
      BY <1>5, <3>1 DEF b
    <3>2. CASE j # i
      <4>1. j \in DOMAIN rdata \ rleft
        BY <1>1, <3>2
      <4>2. rdata[j] = buf[Slot(read_p + j - 1)]
        BY <4>1 DEF IInv, ReadHolds
      <4>3. QED
        BY <1>5, <3>2, <4>2
    <3>3. QED
      BY <3>1, <3>2
  <2>2. reading' # "none" /\ rdata' # <<>>
    <3>1. rdata # <<>> /\ Len(rdata') # 0
      BY <1>1, <1>5
    <3>2. QED
      BY <1>1, <3>1 DEF IInv, ReadHolds
  <2>3. QED
    BY <1>1, <1>2, <1>5, <2>1, <2>2 DEF ReadHolds
<1>8. WriteHolds' /\ StagedStays' /\ LiveBytes' /\ NoGarbage'
  BY <1>1, <1>2 DEF IInv, WriteHolds, StagedStays, LiveBytes, NoGarbage, Filled
<1>9. QED
  BY <1>6, <1>7, <1>8 DEF IInv

\* What a call of the reader has copied when it ends was written by someone.
LEMMA ReadBytes ==
  ASSUME IInv, rleft = {}
  PROVE  /\ \A i \in 1 .. Len(rdata) : rdata[i] = buf[Slot(read_p + i - 1)]
         /\ \A i \in 1 .. Len(rdata) : rdata[i] \in Bytes
<1>0. Facts
  BY FactsHold
<1> USE <1>0 DEF Facts
<1>1. \A i \in 1 .. Len(rdata) : rdata[i] = buf[Slot(read_p + i - 1)]
  BY DEF IInv, ReadHolds
<1>2. ASSUME NEW i \in 1 .. Len(rdata) PROVE rdata[i] \in Bytes
  <2>1. i \in 1 .. Size /\ i <= Filled
    OBVIOUS
  <2>2. QED
    BY <1>1, <2>1 DEF IInv, LiveBytes
<1>3. QED
  BY <1>1, <1>2

\* The read index moves while the reader has nothing in hand: the writer's
\* bytes stay where they are and have more room.
LEMMA WriterUndisturbed ==
  ASSUME IInv, NEW d \in 0 .. Filled, Filled' = Filled - d,
         UNCHANGED <<buf, write_p, writing, wdata, wleft, staged>>
  PROVE  WriteHolds' /\ StagedStays'
<1>0. Facts
  BY FactsHold
<1>1. Len(wdata) <= Size - (Filled - d) /\ Len(staged) <= Size - (Filled - d)
  BY <1>0 DEF Facts
<1>2. QED
  BY <1>1 DEF IInv, WriteHolds, StagedStays, Filled

\* kfifo_get hands out what it has read and gives its place back.
LEMMA EndGetIInv ==
  ASSUME IInv, EndGet
  PROVE  IInv'
<1>0. Facts
  BY FactsHold
<1>1. /\ rleft = {} /\ read_p' = Advance(read_p, Len(rdata)) /\ got' = rdata
      /\ reading' = "none" /\ rdata' = <<>> /\ rleft' = {}
      /\ UNCHANGED <<buf, write_p, writing, wdata, wleft, staged>>
  BY DEF EndGet, Copied, writer
<1>2. Len(rdata) \in 0 .. Filled /\ Filled \in 0 .. Size /\ Size \in Nat
  BY <1>0 DEF Facts
<1>3. Filled' = Filled - Len(rdata) /\ read_p' \in Index /\ LiveBytes'
  BY <1>1, <1>2, ReaderMoves
<1>4. TypeOK'
  <2>1. Filled - Len(rdata) <= Size
    BY <1>2
  <2>2. QED
    BY <1>1, <1>3, <2>1 DEF IInv, TypeOK, Filled
<1>5. WriteHolds' /\ StagedStays'
  BY <1>1, <1>2, <1>3, WriterUndisturbed
<1>6. ReadHolds'
  BY <1>1, <1>2, <1>3 DEF ReadHolds
<1>7. NoGarbage'
  BY <1>0, <1>1, ReadBytes DEF NoGarbage, Facts
<1>8. QED
  BY <1>3, <1>4, <1>5, <1>6, <1>7 DEF IInv

\* peek_read hands out what it has read and keeps it in the ring.
LEMMA EndPeekReadIInv ==
  ASSUME IInv, EndPeekRead
  PROVE  IInv'
<1>0. Facts
  BY FactsHold
<1>1. /\ rleft = {} /\ got' = rdata
      /\ reading' = "none" /\ rdata' = <<>> /\ rleft' = {}
      /\ UNCHANGED <<buf, write_p, read_p, writing, wdata, wleft, staged>>
  BY DEF EndPeekRead, Copied, writer
<1>2. Filled' = Filled
  BY <1>1 DEF Filled
<1>3. TypeOK'
  BY <1>1 DEF IInv, TypeOK
<1>4. WriteHolds' /\ StagedStays' /\ LiveBytes'
  BY <1>1, <1>2 DEF IInv, WriteHolds, StagedStays, LiveBytes, Filled
<1>5. ReadHolds'
  BY <1>0, <1>1, <1>2 DEF ReadHolds, Facts
<1>6. NoGarbage'
  BY <1>0, <1>1, ReadBytes DEF NoGarbage, Facts
<1>7. QED
  BY <1>3, <1>4, <1>5, <1>6 DEF IInv

\* seek_read gives bytes back unread.
LEMMA SeekReadIInv ==
  ASSUME IInv, NEW len \in Lens, SeekRead(len)
  PROVE  IInv'
<1>0. Facts
  BY FactsHold
<1>1. /\ reading = "none" /\ read_p' = Advance(read_p, len)
      /\ UNCHANGED <<buf, write_p, writing, wdata, wleft, staged,
                     reading, rdata, rleft, got>>
  BY DEF SeekRead, writer, reader
<1>2. len \in 0 .. Filled /\ Filled \in 0 .. Size /\ Size \in Nat
  BY <1>0, RingAssumption DEF SeekRead, Facts, Filled, Lens
<1>3. Filled' = Filled - len /\ read_p' \in Index /\ LiveBytes'
  BY <1>1, <1>2, ReaderMoves
<1>4. TypeOK'
  <2>1. Filled - len <= Size
    BY <1>2
  <2>2. QED
    BY <1>1, <1>3, <2>1 DEF IInv, TypeOK, Filled
<1>5. WriteHolds' /\ StagedStays'
  BY <1>1, <1>2, <1>3, WriterUndisturbed
<1>6. ReadHolds'
  <2>1. rdata = <<>>
    BY <1>1 DEF IInv, ReadHolds
  <2>2. QED
    BY <1>1, <1>2, <1>3, <2>1 DEF ReadHolds
<1>7. NoGarbage'
  BY <1>1 DEF IInv, NoGarbage
<1>8. QED
  BY <1>3, <1>4, <1>5, <1>6, <1>7 DEF IInv

\* clear() leaves an empty ring, wherever the indices stood.
LEMMA ClearIInv ==
  ASSUME IInv, Clear
  PROVE  IInv'
<1> USE IndexAssumption
<1>1. /\ writing = "none" /\ reading = "none"
      /\ write_p' = 0 /\ read_p' = 0 /\ staged' = <<>> /\ got' = <<>>
      /\ UNCHANGED <<buf, writing, wdata, wleft, reading, rdata, rleft>>
  BY DEF Clear
<1>2. wdata = <<>> /\ rdata = <<>>
  BY <1>1 DEF IInv, WriteHolds, ReadHolds
<1>3. 0 \in Index /\ Used(0, 0) = 0 /\ Filled' = 0
  <2>1. 0 \in Index
    BY DEF Index
  <2>2. Used(0, 0) = 0
    BY <2>1, UsedValue
  <2>3. QED
    BY <1>1, <2>1, <2>2 DEF Filled
<1>4. TypeOK'
  BY <1>1, <1>3 DEF IInv, TypeOK
<1>5. WriteHolds' /\ StagedStays'
  BY <1>1, <1>2, <1>3 DEF WriteHolds, StagedStays, Filled
<1>6. ReadHolds' /\ LiveBytes' /\ NoGarbage'
  BY <1>1, <1>2, <1>3 DEF ReadHolds, LiveBytes, NoGarbage
<1>7. QED
  BY <1>4, <1>5, <1>6 DEF IInv

\* kfifo_put and peek_write settle on bytes there is room for.
LEMMA BeginsWrite ==
  ASSUME IInv, NEW chunk \in Chunks, BeginPut(chunk) \/ BeginPeekWrite(chunk)
  PROVE  \E call \in {"put", "peek"}, data \in Seq(Bytes) :
           Len(data) <= Size - Filled /\ BeginWrite(call, data)
<1>0. Facts
  BY FactsHold
<1> DEFINE free == Size - Filled
<1>1. free \in Nat /\ Available(write_p, read_p) = free
  BY <1>0 DEF Facts
<1> HIDE DEF free
<1>2. chunk \in Seq(Bytes) /\ Len(chunk) \in Nat
  BY LenProperties, ChunkType
<1>3. CASE BeginPut(chunk)
  <2> DEFINE n == Lesser(Len(chunk), free)
  <2>1. n \in Nat /\ n <= Len(chunk) /\ n <= free
    BY <1>1, <1>2 DEF Lesser
  <2>2. BeginWrite("put", SubSeq(chunk, 1, n))
    BY <1>1, <1>3 DEF BeginPut
  <2> HIDE DEF n
  <2>3. SubSeq(chunk, 1, n) \in Seq(Bytes) /\ Len(SubSeq(chunk, 1, n)) = n
    BY <2>1, ChunkType
  <2>4. QED
    BY <2>1, <2>2, <2>3 DEF free
<1>4. CASE BeginPeekWrite(chunk)
  <2>1. Len(chunk) <= free /\ BeginWrite("peek", chunk)
    BY <1>1, <1>4 DEF BeginPeekWrite
  <2>2. QED
    BY <1>2, <2>1 DEF free
<1>5. QED
  BY <1>3, <1>4

\* kfifo_get and peek_read settle on bytes that are there.
LEMMA BeginsRead ==
  ASSUME IInv, NEW len \in Lens, BeginGet(len) \/ BeginPeekRead(len)
  PROVE  \E call \in {"get", "peek"}, n \in 1 .. Filled : BeginRead(call, n)
<1>1. Filled \in Nat /\ len \in Nat \ {0}
  BY FactsHold, RingAssumption DEF Facts, Lens
<1>2. CASE BeginGet(len)
  <2>1. Lesser(len, Filled) \in 1 .. Filled /\ BeginRead("get", Lesser(len, Filled))
    BY <1>1, <1>2 DEF BeginGet, Lesser, Filled
  <2>2. QED
    BY <2>1
<1>3. CASE BeginPeekRead(len)
  <2>1. len \in 1 .. Filled /\ BeginRead("peek", len)
    BY <1>1, <1>3 DEF BeginPeekRead, Filled
  <2>2. QED
    BY <2>1
<1>4. QED
  BY <1>2, <1>3

\* Every step of either side preserves the invariant, whatever the other is
\* in the middle of.
LEMMA StepIInv ==
  ASSUME IInv, [Next]_vars
  PROVE  IInv'
<1>1. ASSUME NEW chunk \in Chunks, BeginPut(chunk) \/ BeginPeekWrite(chunk)
      PROVE  IInv'
  BY <1>1, BeginsWrite, BeginWriteIInv
<1>2. ASSUME NEW i \in 1 .. Size, StoreByte(i)
      PROVE  IInv'
  BY <1>2, StoreByteIInv
<1>3. CASE EndPut
  BY <1>3, EndPutIInv
<1>4. CASE EndPeekWrite
  BY <1>4, EndPeekWriteIInv
<1>5. ASSUME NEW len \in Lens, SeekWrite(len)
      PROVE  IInv'
  BY <1>5, SeekWriteIInv
<1>6. ASSUME NEW len \in Lens, BeginGet(len) \/ BeginPeekRead(len)
      PROVE  IInv'
  BY <1>6, BeginsRead, BeginReadIInv
<1>7. ASSUME NEW len \in Lens, SeekRead(len)
      PROVE  IInv'
  BY <1>7, SeekReadIInv
<1>8. ASSUME NEW i \in 1 .. Size, LoadByte(i)
      PROVE  IInv'
  BY <1>8, LoadByteIInv
<1>9. CASE EndGet
  BY <1>9, EndGetIInv
<1>10. CASE EndPeekRead
  BY <1>10, EndPeekReadIInv
<1>11. CASE Clear
  BY <1>11, ClearIInv
<1>12. CASE UNCHANGED vars
  BY <1>12 DEF vars, writer, reader, IInv, TypeOK, WriteHolds, StagedStays,
     ReadHolds, LiveBytes, NoGarbage, Filled
<1>13. QED
  BY <1>1, <1>2, <1>3, <1>4, <1>5, <1>6, <1>7, <1>8, <1>9, <1>10, <1>11, <1>12
     DEF Next, Write, Read

\* The invariant always holds, whatever the two sides do and interleave.
THEOREM InvariantHolds == Spec => []IInv
<1>1. Init => IInv
  BY InitIInv
<1>2. IInv /\ [Next]_vars => IInv'
  BY StepIInv
<1>3. QED
  BY <1>1, <1>2, PTL DEF Spec

\* Types hold, and used() never exceeds the size of the buffer, however
\* often the indices wrap.
THEOREM TypeCorrect == Spec => []TypeOK
<1>1. IInv => TypeOK
  BY DEF IInv
<1>2. QED
  BY <1>1, InvariantHolds, PTL

\* The reader is never handed a byte that nobody wrote.
THEOREM NoGarbageHolds == Spec => []NoGarbage
<1>1. IInv => NoGarbage
  BY DEF IInv
<1>2. QED
  BY <1>1, InvariantHolds, PTL

\* What peek_write stored is what seek_write will publish.
THEOREM StagedStaysHolds == Spec => []StagedStays
<1>1. IInv => StagedStays
  BY DEF IInv
<1>2. QED
  BY <1>1, InvariantHolds, PTL

\* The memcpys of the two sides never touch the same byte.
THEOREM NoByteRaceHolds == Spec => []NoByteRace
<1>1. IInv => NoByteRace
  <2> SUFFICES ASSUME IInv, NEW i \in wleft, NEW j \in rleft
               PROVE  Place(write_p, Len(wdata), i) # Place(read_p, Len(rdata), j)
    BY DEF NoByteRace
  <2>0. Facts
    BY FactsHold
  <2> USE <2>0 DEF Facts
  <2>1. i \in 1 .. Len(wdata) /\ j \in 1 .. Len(rdata)
    BY DEF IInv, TypeOK
  <2>2. Len(wdata) \in 0 .. Size /\ Len(rdata) \in 0 .. Size
    OBVIOUS
  <2>3. /\ Place(write_p, Len(wdata), i) = Slot(write_p + i - 1)
        /\ Place(read_p, Len(rdata), j) = Slot(read_p + j - 1)
    BY <2>1, <2>2, PlaceIsSlot
  <2> DEFINE f == Filled + i - 1
  <2>4. Slot(write_p + (i - 1)) = Slot(read_p + Used(write_p, read_p) + (i - 1))
    BY <2>1, WriteSlot
  <2>5. /\ write_p + (i - 1) = write_p + i - 1
        /\ read_p + Used(write_p, read_p) + (i - 1) = read_p + f
        /\ read_p + (j - 1) = read_p + j - 1
    BY <2>1 DEF Filled
  <2>6. f \in 0 .. Size - 1 /\ j - 1 \in 0 .. Size - 1 /\ f # j - 1
    BY <2>1
  <2>7. Slot(read_p + f) # Slot(read_p + (j - 1))
    BY <2>6, SlotsDistinct
  <2>8. QED
    BY <2>3, <2>4, <2>5, <2>7
<1>2. QED
  BY <1>1, InvariantHolds, PTL

-----------------------------------------------------------------------------
(***************************************************************************)
(* RingBuffer implements ByteFifo.                                         *)
(***************************************************************************)
\* The bytes between the indices, read from read_p on, form a sequence.
ContentFacts ==
  /\ content \in Seq(Bytes) /\ Len(content) = Filled
  /\ \A i \in 1 .. Filled : content[i] = buf[Slot(read_p + i - 1)]

\* They follow from the invariant.
LEMMA ContentType == IInv => ContentFacts
<1> SUFFICES ASSUME IInv PROVE ContentFacts
  OBVIOUS
<1>1. Filled \in 0 .. Size /\ Size \in Nat
  BY FactsHold DEF Facts
<1>2. content = [i \in 1 .. Filled |-> buf[Slot(read_p + i - 1)]]
  BY DEF content, Filled
<1>3. ASSUME NEW i \in 1 .. Filled PROVE buf[Slot(read_p + i - 1)] \in Bytes
  BY <1>1 DEF IInv, LiveBytes
<1>4. QED
  BY <1>1, <1>2, <1>3 DEF ContentFacts

\* Moving the write index over bytes that lie there appends them.
LEMMA WriterAppends ==
  ASSUME IInv, IInv', NEW chunk \in Seq(Bytes), Len(chunk) <= Size - Filled,
         \A i \in 1 .. Len(chunk) : buf[Slot(write_p + i - 1)] = chunk[i],
         write_p' = Advance(write_p, Len(chunk)), UNCHANGED <<buf, read_p>>
  PROVE  content' = content \o chunk
<1>0. Facts /\ Len(chunk) \in Nat
  BY FactsHold, LenProperties
<1> DEFINE d == Len(chunk)
<1>1. d \in 0 .. Size - Filled /\ d \in 0 .. Size /\ d \in Nat
      /\ Used(write_p, read_p) + d <= Size
  BY <1>0 DEF Facts, Filled
<1>2. Filled' = Filled + d
  BY <1>0, <1>1, UsedAfterWrite DEF Filled, Facts
<1>3. /\ content \in Seq(Bytes) /\ Len(content) = Filled
      /\ \A i \in 1 .. Filled : content[i] = buf[Slot(read_p + i - 1)]
  BY ContentType DEF ContentFacts
<1>4. /\ content' \in Seq(Bytes) /\ Len(content') = Filled + d
      /\ \A i \in 1 .. Filled + d : content'[i] = buf[Slot(read_p + i - 1)]
  <2>1. /\ content' \in Seq(Bytes) /\ Len(content') = Filled'
        /\ \A i \in 1 .. Filled' : content'[i] = buf'[Slot(read_p' + i - 1)]
    <3>1. ContentFacts'
      BY ContentType, PTL
    <3>2. QED
      BY <3>1 DEF ContentFacts
  <2>2. QED
    BY <1>2, <2>1
<1>5. /\ content \o chunk \in Seq(Bytes) /\ Len(content \o chunk) = Filled + d
      /\ \A i \in 1 .. Filled + d :
           (content \o chunk)[i] = IF i <= Filled THEN content[i] ELSE chunk[i - Filled]
  BY <1>3, ConcatProperties
<1>6. ASSUME NEW i \in 1 .. Filled + d
      PROVE  content'[i] = (content \o chunk)[i]
  <2>0. Filled \in Nat
    BY <1>0 DEF Facts
  <2>1. CASE i <= Filled
    <3>1. i \in 1 .. Filled
      BY <1>1, <2>0, <2>1
    <3>2. content[i] = buf[Slot(read_p + i - 1)]
      BY <1>3, <3>1
    <3>3. content'[i] = buf[Slot(read_p + i - 1)]
      BY <1>4
    <3>4. QED
      BY <1>5, <2>1, <3>2, <3>3
  <2>2. CASE i > Filled
    <3> DEFINE j == i - Filled
    <3>1. j \in 1 .. d /\ j - 1 \in Int /\ ~(i <= Filled)
      BY <1>0, <1>1, <2>2 DEF Facts
    <3>2. Slot(write_p + (j - 1)) = Slot(read_p + Used(write_p, read_p) + (j - 1))
      BY <1>0, <3>1, WriteSlot DEF Facts
    <3>3. /\ write_p + (j - 1) = write_p + j - 1
          /\ read_p + Used(write_p, read_p) + (j - 1) = read_p + i - 1
      BY <1>0, <3>1 DEF Facts, Filled
    <3>4. content'[i] = buf[Slot(read_p + i - 1)]
      BY <1>4
    <3>5. content'[i] = chunk[j]
      BY <3>1, <3>2, <3>3, <3>4
    <3>6. QED
      BY <1>5, <3>1, <3>5
  <2>3. i <= Filled \/ i > Filled
    BY <1>1, <2>0
  <2>4. QED
    BY <2>1, <2>2, <2>3
<1>7. QED
  BY <1>4, <1>5, <1>6, SeqEqual

\* Moving the read index drops the bytes it passes.
LEMMA ReaderDrops ==
  ASSUME IInv, IInv', NEW d \in 0 .. Filled,
         read_p' = Advance(read_p, d), UNCHANGED <<buf, write_p>>
  PROVE  content' = SubSeq(content, d + 1, Len(content))
<1>0. Facts
  BY FactsHold
<1>1. d \in 0 .. Size /\ d <= Used(write_p, read_p) /\ d \in Int /\ Filled \in Int
  BY <1>0 DEF Facts, Filled
<1>2. Filled' = Filled - d
  BY <1>0, <1>1, UsedAfterRead DEF Filled, Facts
<1>3. /\ content \in Seq(Bytes) /\ Len(content) = Filled
      /\ \A i \in 1 .. Filled : content[i] = buf[Slot(read_p + i - 1)]
  BY ContentType DEF ContentFacts
<1>4. /\ content' \in Seq(Bytes) /\ Len(content') = Filled - d
      /\ \A i \in 1 .. Filled - d : content'[i] = buf[Slot(read_p' + i - 1)]
  <2>1. /\ content' \in Seq(Bytes) /\ Len(content') = Filled'
        /\ \A i \in 1 .. Filled' : content'[i] = buf'[Slot(read_p' + i - 1)]
    <3>1. ContentFacts'
      BY ContentType, PTL
    <3>2. QED
      BY <3>1 DEF ContentFacts
  <2>2. QED
    BY <1>2, <2>1
<1> DEFINE rest == SubSeq(content, d + 1, Len(content))
<1>5. /\ rest \in Seq(Bytes) /\ Len(rest) = Filled - d
      /\ \A i \in 1 .. Filled - d : rest[i] = content[d + i]
  BY <1>3, RestProperties
<1> HIDE DEF rest
<1>6. ASSUME NEW i \in 1 .. Filled - d
      PROVE  content'[i] = rest[i]
  <2>1. i - 1 \in Int /\ d + i \in 1 .. Filled
    BY <1>1
  <2>2. Slot(Advance(read_p, d) + (i - 1)) = Slot(read_p + d + (i - 1))
    BY <1>0, <1>1, <2>1, SlotOfAdvance DEF Facts
  <2>3. Advance(read_p, d) \in Int
    BY <1>0, <1>1, AdvanceValue DEF Facts, Index
  <2>4. /\ read_p + d + (i - 1) = read_p + (d + i) - 1
        /\ Advance(read_p, d) + (i - 1) = read_p' + i - 1
    BY <1>0, <1>1, <2>1, <2>3 DEF Facts
  <2>5. content'[i] = buf[Slot(read_p' + i - 1)]
    BY <1>4
  <2>6. QED
    BY <1>3, <1>5, <2>1, <2>2, <2>4, <2>5
<1>7. content' = rest
  BY <1>4, <1>5, <1>6, SeqEqual
<1>8. QED
  BY <1>7 DEF rest

\* What a call of the reader has copied is the front of the content.
LEMMA ReadIsFront ==
  ASSUME IInv, rleft = {}
  PROVE  /\ Len(rdata) <= Len(content)
         /\ rdata = SubSeq(content, 1, Len(rdata))
<1>0. Facts
  BY FactsHold
<1> DEFINE n == Len(rdata)
<1>1. /\ n \in 0 .. Filled /\ n \in Nat /\ Filled \in Nat
      /\ rdata \in Seq(Bytes \union {Garbage})
  BY <1>0 DEF Facts
<1>2. /\ content \in Seq(Bytes) /\ Len(content) = Filled
      /\ \A i \in 1 .. Filled : content[i] = buf[Slot(read_p + i - 1)]
  BY ContentType DEF ContentFacts
<1>3. \A i \in 1 .. n : rdata[i] = buf[Slot(read_p + i - 1)]
  BY ReadBytes
<1> HIDE DEF n
<1> DEFINE front == SubSeq(content, 1, n)
           S == Bytes \union {Garbage}
<1>4. /\ front \in Seq(S) /\ Len(front) = n
      /\ \A i \in 1 .. n : front[i] = content[i]
  <2>1. \A i \in 1 .. n : content[i] \in S
    <3> SUFFICES ASSUME NEW i \in 1 .. n PROVE content[i] \in S
      OBVIOUS
    <3>1. i \in 1 .. Len(content)
      BY <1>1, <1>2
    <3>2. content[i] \in Bytes
      BY <1>2, <3>1, ElementOfSeq
    <3>3. QED
      BY <3>2
  <2>2. QED
    BY <1>1, <2>1, FrontProperties
<1> HIDE DEF front
<1>5. ASSUME NEW i \in 1 .. n PROVE rdata[i] = front[i]
  <2>1. i \in 1 .. Filled
    BY <1>1
  <2>2. content[i] = buf[Slot(read_p + i - 1)]
    BY <1>2, <2>1
  <2>3. QED
    BY <1>3, <1>4, <2>2
<1>6. rdata = front
  BY <1>1, <1>4, <1>5, SeqEqual DEF n
<1>7. QED
  BY <1>1, <1>2, <1>6 DEF n, front

\* A store of the writer is none of the content's.
LEMMA StoreIsInvisible ==
  ASSUME IInv, NEW i, StoreByte(i)
  PROVE  UNCHANGED <<content, got>>
<1>0. Facts
  BY FactsHold
<1>1. /\ i \in 1 .. Len(wdata)
      /\ \A k \in 0 .. Size - 1 :
           buf'[Slot(read_p + k)] =
             IF k = Filled + i - 1 THEN wdata[i] ELSE buf[Slot(read_p + k)]
  BY StoreTouchesOne
<1>2. UNCHANGED <<write_p, read_p, got>> /\ Filled' = Filled
  BY DEF StoreByte, reader, Filled
<1>3. ASSUME NEW k \in 1 .. Filled
      PROVE  buf'[Slot(read_p + k - 1)] = buf[Slot(read_p + k - 1)]
  <2>1. k - 1 \in 0 .. Size - 1 /\ k - 1 # Filled + i - 1 /\ read_p + (k - 1) = read_p + k - 1
    BY <1>0, <1>1 DEF Facts
  <2>2. QED
    BY <1>1, <2>1
<1>4. /\ content' = [k \in 1 .. Filled |-> buf'[Slot(read_p + k - 1)]]
      /\ content = [k \in 1 .. Filled |-> buf[Slot(read_p + k - 1)]]
  BY <1>2 DEF content, Filled
<1>5. QED
  BY <1>2, <1>3, <1>4

\* The writer's moves of its index are the abstract put.
LEMMA PublishIsPut ==
  ASSUME IInv, IInv', NEW chunk \in Seq(Bytes), Len(chunk) <= Size - Filled,
         \A i \in 1 .. Len(chunk) : buf[Slot(write_p + i - 1)] = chunk[i],
         write_p' = Advance(write_p, Len(chunk)), UNCHANGED <<buf, read_p, got>>
  PROVE  [Abstract!Next]_(Abstract!absvars)
<1>0. Facts /\ Len(chunk) \in Nat
  BY FactsHold, LenProperties
<1>1. content' = content \o chunk
  BY WriterAppends
<1>2. content \in Seq(Bytes) /\ Len(content) = Filled
  BY ContentType DEF ContentFacts
<1>3. CASE chunk = <<>>
  <2>1. content' = content
    BY <1>1, <1>2, <1>3, ConcatEmptySeq
  <2>2. QED
    BY <2>1 DEF Abstract!absvars
<1>4. CASE chunk # <<>>
  <2>1. Len(chunk) \in 1 .. Size /\ chunk \in [1 .. Len(chunk) -> Bytes]
    BY <1>0, <1>4, LenProperties, EmptySeq DEF Facts
  <2>2. chunk \in Abstract!Chunks
    BY <2>1 DEF Abstract!Chunks
  <2>3. Abstract!Put(chunk)
    BY <1>0, <1>1, <1>2 DEF Abstract!Put, Facts
  <2>4. QED
    BY <2>2, <2>3 DEF Abstract!Next
<1>5. QED
  BY <1>3, <1>4

\* Every step is an abstract one or leaves content and got alone.
LEMMA StepImplements ==
  ASSUME IInv, IInv', [Next]_vars
  PROVE  [Abstract!Next]_(Abstract!absvars)
<1>0. Facts
  BY FactsHold
<1>1. ASSUME NEW chunk \in Chunks, BeginPut(chunk) \/ BeginPeekWrite(chunk)
      PROVE  UNCHANGED <<content, got>>
  BY <1>1 DEF BeginPut, BeginPeekWrite, BeginWrite, reader, content
<1>2. ASSUME NEW i \in 1 .. Size, StoreByte(i)
      PROVE  UNCHANGED <<content, got>>
  BY <1>2, StoreIsInvisible
<1>3. ASSUME EndPut
      PROVE  [Abstract!Next]_(Abstract!absvars)
  <2>1. /\ wleft = {} /\ write_p' = Advance(write_p, Len(wdata))
        /\ UNCHANGED <<buf, read_p, got>>
    BY <1>3 DEF EndPut, Copied, reader
  <2>2. \A i \in 1 .. Len(wdata) : buf[Slot(write_p + i - 1)] = wdata[i]
    BY <1>0, <2>1 DEF IInv, WriteHolds, Facts
  <2>3. wdata \in Seq(Bytes) /\ Len(wdata) <= Size - Filled
    BY <1>0 DEF Facts
  <2>4. QED
    BY <2>1, <2>2, <2>3, PublishIsPut
<1>4. ASSUME EndPeekWrite
      PROVE  UNCHANGED <<content, got>>
  BY <1>4 DEF EndPeekWrite, reader, content
<1>5. ASSUME NEW len \in Lens, SeekWrite(len)
      PROVE  [Abstract!Next]_(Abstract!absvars)
  <2> DEFINE chunk == SubSeq(staged, 1, len)
  <2>1. /\ len \in Nat \ {0} /\ len <= Len(staged) /\ len <= Size - Filled
        /\ write_p' = Advance(write_p, len) /\ UNCHANGED <<buf, read_p, got>>
    BY <1>0, <1>5, RingAssumption DEF SeekWrite, Facts, Lens, reader
  <2>2. \A i \in 1 .. len : staged[i] \in Bytes /\ buf[Slot(write_p + i - 1)] = staged[i]
    <3> SUFFICES ASSUME NEW i \in 1 .. len
                 PROVE  staged[i] \in Bytes /\ buf[Slot(write_p + i - 1)] = staged[i]
      OBVIOUS
    <3>1. i \in 1 .. Len(staged)
      BY <1>0, <2>1 DEF Facts
    <3>2. staged[i] \in Bytes
      BY <1>0, <3>1, ElementOfSeq DEF Facts
    <3>3. QED
      BY <3>1, <3>2 DEF IInv, StagedStays
  <2>3. /\ chunk \in Seq(Bytes) /\ Len(chunk) = len
        /\ \A i \in 1 .. len : chunk[i] = staged[i]
    BY <2>1, <2>2, FrontProperties
  <2> HIDE DEF chunk
  <2>4. \A i \in 1 .. Len(chunk) : buf[Slot(write_p + i - 1)] = chunk[i]
    BY <2>2, <2>3
  <2>5. QED
    BY <2>1, <2>3, <2>4, PublishIsPut
<1>6. ASSUME NEW len \in Lens, BeginGet(len) \/ BeginPeekRead(len)
      PROVE  UNCHANGED <<content, got>>
  BY <1>6 DEF BeginGet, BeginPeekRead, BeginRead, content
<1>7. ASSUME NEW len \in Lens, SeekRead(len)
      PROVE  Abstract!Next
  <2>1. /\ len \in 1 .. Filled /\ len \in 0 .. Filled /\ len \in 1 .. Size
        /\ read_p' = Advance(read_p, len) /\ UNCHANGED <<buf, write_p, got>>
    BY <1>0, <1>7, RingAssumption DEF SeekRead, Facts, Filled, Lens, writer, reader
  <2>2. content' = SubSeq(content, len + 1, Len(content)) /\ Len(content) = Filled
    BY <2>1, ReaderDrops, ContentType DEF ContentFacts
  <2>3. Abstract!Skip(len)
    BY <2>1, <2>2 DEF Abstract!Skip
  <2>4. QED
    BY <2>1, <2>3 DEF Abstract!Next
<1>8. ASSUME NEW i \in 1 .. Size, LoadByte(i)
      PROVE  UNCHANGED <<content, got>>
  BY <1>8 DEF LoadByte, content
<1>9. ASSUME EndGet
      PROVE  Abstract!Next
  <2> DEFINE n == Len(rdata)
  <2>1. /\ reading # "none" /\ rleft = {} /\ read_p' = Advance(read_p, n)
        /\ got' = rdata /\ UNCHANGED <<buf, write_p>>
    BY <1>9 DEF EndGet, Copied
  <2>2. n \in 0 .. Filled /\ n \in 1 .. Size
    BY <1>0, <2>1, EmptySeq DEF IInv, ReadHolds, Facts
  <2>3. content' = SubSeq(content, n + 1, Len(content))
    BY <2>1, <2>2, ReaderDrops
  <2>4. n <= Len(content) /\ got' = SubSeq(content, 1, n)
    BY <2>1, ReadIsFront
  <2>5. Abstract!Get(n)
    BY <2>3, <2>4 DEF Abstract!Get
  <2>6. QED
    BY <2>2, <2>5 DEF Abstract!Next
<1>10. ASSUME EndPeekRead
       PROVE  Abstract!Next
  <2> DEFINE n == Len(rdata)
  <2>1. /\ reading # "none" /\ rleft = {} /\ got' = rdata
        /\ UNCHANGED <<buf, write_p, read_p>>
    BY <1>10 DEF EndPeekRead, Copied
  <2>2. n \in 1 .. Size
    BY <1>0, <2>1, EmptySeq DEF IInv, ReadHolds, Facts
  <2>3. content' = content
    BY <2>1 DEF content
  <2>4. n <= Len(content) /\ got' = SubSeq(content, 1, n)
    BY <2>1, ReadIsFront
  <2>5. Abstract!Peek(n)
    BY <2>3, <2>4 DEF Abstract!Peek
  <2>6. QED
    BY <2>2, <2>5 DEF Abstract!Next
<1>11. ASSUME Clear
       PROVE  Abstract!Next
  <2>1. write_p' = 0 /\ read_p' = 0 /\ got' = <<>>
    BY <1>11 DEF Clear
  <2>2. 0 \in Index
    BY IndexAssumption DEF Index
  <2>3. Used(write_p, read_p)' = 0
    BY <2>1, <2>2, UsedValue, IndexAssumption
  <2>4. content' = <<>>
    BY <2>3 DEF content
  <2>5. QED
    BY <2>1, <2>4 DEF Abstract!Next, Abstract!Discard
<1>12. ASSUME UNCHANGED vars
       PROVE  UNCHANGED <<content, got>>
  BY <1>12 DEF vars, reader, content
<1>13. QED
  BY <1>1, <1>2, <1>3, <1>4, <1>5, <1>6, <1>7, <1>8, <1>9, <1>10, <1>11, <1>12
     DEF Next, Write, Read, Abstract!absvars

\* One writer and one reader that copy byte by byte at the same time use the
\* ring as one FIFO of bytes that come and go in whole chunks.
THEOREM RingImplements == Spec => ImplementsFifo
<1>1. Init => Abstract!Init
  <2> SUFFICES ASSUME Init PROVE Abstract!Init
    OBVIOUS
  <2>1. 0 \in Index
    BY IndexAssumption DEF Index
  <2>2. Used(write_p, read_p) = 0
    BY <2>1, UsedValue, IndexAssumption DEF Init
  <2>3. content = <<>>
    BY <2>2 DEF content
  <2>4. QED
    BY <2>3 DEF Init, Abstract!Init
<1>2. IInv /\ IInv' /\ [Next]_vars => [Abstract!Next]_(Abstract!absvars)
  BY StepImplements
<1>3. QED
  BY <1>1, <1>2, InvariantHolds, PTL DEF Spec, ImplementsFifo, Abstract!Spec
=============================================================================
