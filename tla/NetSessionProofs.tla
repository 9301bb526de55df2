-------------------------- MODULE NetSessionProofs --------------------------
(***************************************************************************)
(* Proofs about ReadPath, for every size of the ring dividing 2^32, every  *)
(* set of lengths, those that exceed it included, and any number of        *)
(* frames, however TCP cuts them into pieces; about WritePath, for all     *)
(* messages; and about NetSession, in which both sets of proofs hold       *)
(* together.                                                               *)
(*                                                                         *)
(* Of reading, what does not depend on how lengths are counted comes       *)
(* first: types, and what a full ring means.  That the loop stays on the   *)
(* boundaries of frames then needs peers that count as on_read does, and a *)
(* picture of everything between the read index and the last byte sent.    *)
(***************************************************************************)
EXTENDS NetSession, ModArithmetic, SequenceTheorems

\* Every byte in the ring or under way is of a frame that was sent, and those
\* under way are as they were sent.
Known ==
  /\ \A s \in 0 .. Size - 1 : buf[s].frame <= Len(length)
  /\ \A i \in 1 .. Len(wire) : wire[i].frame <= Len(length) /\ ~wire[i].plain

\* When the loop has been left, no whole frame waits.
Room == pc = "idle" => Incomplete

\* Messages are numbered in the order they were made.
QueueKnown == read_queue \in Seq(1 .. taken)

IInv == TypeOK /\ Known /\ Room /\ QueueKnown

-----------------------------------------------------------------------------
(***************************************************************************)
(* The indices.                                                            *)
(***************************************************************************)
LEMMA UsedType ==
  ASSUME NEW x \in Index, NEW y \in Index
  PROVE  Used(x, y) \in 0 .. W - 1
BY IndexAssumption, ModSplit DEF Used, Index

LEMMA AvailableValue ==
  ASSUME NEW x \in Index, NEW y \in Index, Used(x, y) <= Size
  PROVE  Available(x, y) = Size - Used(x, y)
<1>1. W \in Nat \ {0} /\ Size - Used(x, y) \in 0 .. W - 1
  BY UsedType, IndexAssumption
<1>2. QED
  BY <1>1, ModSmall DEF Available

LEMMA AdvanceType ==
  ASSUME NEW x \in Index, NEW d \in Nat
  PROVE  Advance(x, d) \in Index
<1>1. W \in Nat \ {0} /\ x + d \in Int
  BY IndexAssumption DEF Index
<1>2. QED
  BY <1>1, ModSplit DEF Advance, Index

\* seek_write makes that many bytes more readable, seek_read as many less.
LEMMA UsedAfterWrite ==
  ASSUME NEW x \in Index, NEW y \in Index, NEW d \in 0 .. Size,
         Used(x, y) + d <= Size
  PROVE  Used(Advance(x, d), y) = Used(x, y) + d
<1>1. W \in Nat \ {0} /\ d \in 0 .. W - 1 /\ Used(x, y) + d < W
  BY UsedType, IndexAssumption
<1>2. QED
  BY <1>1, ModAdvance DEF Used, Advance, Index

LEMMA UsedAfterRead ==
  ASSUME NEW x \in Index, NEW y \in Index, NEW d \in 0 .. Size, d <= Used(x, y)
  PROVE  Used(x, Advance(y, d)) = Used(x, y) - d
<1>1. W \in Nat \ {0} /\ d \in 0 .. W - 1
  BY IndexAssumption
<1>2. QED
  BY <1>1, ModFollow DEF Used, Advance, Index

LEMMA SlotType ==
  ASSUME NEW x \in Int
  PROVE  Slot(x) \in 0 .. Size - 1
BY IndexAssumption, ModSplit DEF Slot

\* A byte keeps its place when the read index wraps at 2^32.
LEMMA SlotOfAdvance ==
  ASSUME NEW x \in Index, NEW d \in Nat, NEW i \in Int
  PROVE  Slot(Advance(x, d) + i) = Slot(x + d + i)
<1>1. W \in Nat \ {0} /\ x + d \in Int
  BY IndexAssumption DEF Index
<1>2. QED
  BY <1>1, IndexAssumption, ModShift DEF Slot, Advance

\* The free bytes follow those between the indices.
LEMMA WriteSlot ==
  ASSUME NEW x \in Index, NEW y \in Index, NEW i \in Int
  PROVE  Slot(x + i) = Slot(y + Used(x, y) + i)
<1> DEFINE u == (x - y) % W
<1>1. W \in Nat \ {0} /\ x - y \in Int /\ y + i \in Int /\ u \in Int
  BY IndexAssumption, ModSplit DEF Index
<1>2. (u + (y + i)) % Size = ((x - y) + (y + i)) % Size
  BY <1>1, IndexAssumption, ModShift
<1>3. Used(x, y) = u
  BY DEF Used
<1> HIDE DEF u
<1>4. (x - y) + (y + i) = x + i /\ u + (y + i) = y + u + i
  BY <1>1 DEF Index
<1>5. QED
  BY <1>2, <1>3, <1>4 DEF Slot

LEMMA SlotsDistinct ==
  ASSUME NEW y \in Int, NEW i \in 0 .. Size - 1, NEW j \in 0 .. Size - 1, i # j
  PROVE  Slot(y + i) # Slot(y + j)
<1>1. y + i \in Int /\ y + j \in Int
  BY IndexAssumption
<1>2. (y + i) - (y + j) < Size /\ (y + j) - (y + i) < Size /\ y + i # y + j
  BY IndexAssumption
<1>3. QED
  BY <1>1, <1>2, IndexAssumption, ModInjective DEF Slot

\* Up to the end of the array nothing wraps.
LEMMA SlotStraight ==
  ASSUME NEW x \in Int, NEW i \in Nat, Slot(x) + i < Size
  PROVE  Slot(x + i) = Slot(x) + i
<1>1. /\ x % Size \in 0 .. Size - 1 /\ x \div Size \in Int
      /\ x = Size * (x \div Size) + (x % Size)
  BY IndexAssumption, ModSplit
<1>2. x + i = Size * (x \div Size) + ((x % Size) + i) /\ (x % Size) + i \in 0 .. Size - 1
  BY <1>1, IndexAssumption DEF Slot
<1>3. (Size * (x \div Size) + ((x % Size) + i)) % Size = (x % Size) + i
  BY <1>1, <1>2, IndexAssumption, ModUnique
<1>4. QED
  BY <1>2, <1>3 DEF Slot

-----------------------------------------------------------------------------
(***************************************************************************)
(* Types, and room for the next call.                                      *)
(***************************************************************************)
\* Turning a byte over leaves it a byte of the same frame and place.
LEMMA FlipType ==
  ASSUME NEW b \in Stored
  PROVE  Flip(b) \in Stored /\ Flip(b).frame = b.frame /\ Flip(b).pos = b.pos
<1>1. CASE b \in Byte
  BY <1>1 DEF Stored, Byte, Flip
<1>2. CASE b \in [frame : {0}, pos : {0}, plain : BOOLEAN]
  BY <1>2 DEF Stored, Flip
<1>3. QED
  BY <1>1, <1>2 DEF Stored

LEMMA StoredFrame ==
  ASSUME NEW b \in Stored
  PROVE  b.frame \in Nat
BY ReadAssumption DEF Stored, Byte, Frames

LEMMA LengthType ==
  ASSUME NEW len \in Lengths
  PROVE  /\ len \in Nat
         /\ FrameSize(len) \in Nat /\ FrameSize(len) >= LenField
         /\ LenCovers = "frame" /\ len >= LenField => FrameSize(len) = len
BY ReadAssumption DEF LenField, FrameSize

\* The length the loop reads is one that was sent.
LEMMA MessageLen ==
  ASSUME IInv, IsLength
  PROVE  /\ At(1).frame \in 1 .. Len(length)
         /\ message_len \in Lengths
<1>1. /\ length \in Seq(Lengths) /\ buf \in [0 .. Size - 1 -> Stored] /\ read_p \in Index
  BY DEF IInv, TypeOK
<1>2. Slot(read_p + 1 - 1) \in 0 .. Size - 1
  BY <1>1, SlotType DEF Index
<1>3. At(1).frame <= Len(length) /\ At(1).frame \in Nat
  BY <1>1, <1>2, StoredFrame DEF IInv, Known, At
<1>4. At(1).frame # 0
  BY DEF IsLength, LenField
<1>5. At(1).frame \in 1 .. Len(length)
  BY <1>1, <1>3, <1>4, LenProperties
<1>6. QED
  BY <1>1, <1>5, ElementOfSeq DEF message_len

\* A frame sent changes nothing of the length that waits.
LEMMA SameRoom ==
  ASSUME IInv, UNCHANGED <<buf, write_p, read_p, pc>>,
         \A n \in 1 .. Len(length) : length'[n] = length[n]
  PROVE  Room'
<1>1. used' = used /\ (IsLength => IsLength' /\ At(1)' = At(1))
  BY DEF used, IsLength, At
<1>2. IsLength => message_len' = message_len
  BY <1>1, MessageLen DEF message_len
<1>3. QED
  BY <1>1, <1>2 DEF IInv, Room, Incomplete

LEMMA InitIInv == Init => IInv
<1> SUFFICES ASSUME Init PROVE IInv
  OBVIOUS
<1>1. 0 \in Index /\ 0 % W = 0 /\ used = 0
  BY IndexAssumption, ModSmall DEF Index, Init, used, Used
<1>2. /\ length \in Seq(Lengths) /\ Len(length) = 0
      /\ wire \in Seq(Byte) /\ Len(wire) = 0
      /\ read_queue \in Seq(1 .. taken) /\ Len(read_queue) = 0
  BY EmptySeq DEF Init
<1>3. buf \in [0 .. Size - 1 -> Stored]
  BY DEF Init, Stored, Stale
<1>4. TypeOK
  <2>1. /\ waits \in BOOLEAN /\ outside \in BOOLEAN /\ misread \in BOOLEAN
        /\ pc \in {"idle", "parse"}
    BY DEF Init
  <2>2. write_p \in Index /\ read_p \in Index /\ used <= Size
    BY <1>1, IndexAssumption DEF Init
  <2>3. Len(length) <= MaxFrames /\ Len(read_queue) <= QueueLen
    BY <1>2, ReadAssumption, SessionQueueAssumption
  <2>4. sequence_id \in 0 .. taken /\ taken \in 0 .. MaxFrames
    BY ReadAssumption DEF Init
  <2>5. QED
    BY <1>2, <1>3, <2>1, <2>2, <2>3, <2>4 DEF TypeOK
<1>5. Known
  BY <1>2 DEF Init, Known, Stale
<1>6. QED
  BY <1>1, <1>2, <1>4, <1>5 DEF Init, IInv, Room, Incomplete, LenField, QueueKnown

\* A frame sent: nothing in the ring changes, and its bytes are of a frame
\* that is now known.
LEMMA SendStep ==
  ASSUME IInv, NEW len \in Lengths, SendFrame(len)
  PROVE  IInv'
<1> DEFINE frame == Len(length) + 1
           sent == [i \in 1 .. FrameSize(len) |-> [frame |-> frame, pos |-> i, plain |-> FALSE]]
<1>0. TypeOK /\ Known /\ Room /\ QueueKnown
  BY DEF IInv
<1>1. /\ frame \in Frames /\ length' = Append(length, len) /\ wire' = wire \o sent
      /\ UNCHANGED <<waits, ring, pc, sequence_id, taken, read_queue, outside, misread>>
  BY DEF SendFrame
<1>2. length \in Seq(Lengths) /\ Len(length) \in Nat /\ wire \in Seq(Byte)
  BY <1>0, LenProperties DEF TypeOK
<1>3. length' \in Seq(Lengths) /\ Len(length') = Len(length) + 1
  BY <1>1, <1>2, AppendProperties
<1>4. sent \in Seq(Byte) /\ Len(sent) = FrameSize(len)
  <2>1. FrameSize(len) \in Nat
    BY LengthType
  <2>2. \A i \in 1 .. FrameSize(len) :
          [frame |-> frame, pos |-> i, plain |-> FALSE] \in Byte
    BY <1>1, <2>1 DEF Byte
  <2>3. sent \in [1 .. FrameSize(len) -> Byte]
    BY <2>2
  <2> HIDE DEF sent
  <2>4. QED
    BY <2>1, <2>3, SeqDef, LenProperties
<1>5. /\ wire' \in Seq(Byte) /\ Len(wire') = Len(wire) + Len(sent)
      /\ \A i \in 1 .. Len(wire') :
           wire'[i] = IF i <= Len(wire) THEN wire[i] ELSE sent[i - Len(wire)]
  <2> HIDE DEF sent
  <2>1. wire' = wire \o sent /\ wire \in Seq(Byte) /\ sent \in Seq(Byte)
    BY <1>1, <1>2, <1>4
  <2>2. /\ wire \o sent \in Seq(Byte) /\ Len(wire \o sent) = Len(wire) + Len(sent)
        /\ \A i \in 1 .. Len(wire) + Len(sent) : (wire \o sent)[i] =
             IF i <= Len(wire) THEN wire[i] ELSE sent[i - Len(wire)]
    BY <2>1, ConcatProperties
  <2>3. QED
    BY <2>1, <2>2
<1>6. TypeOK'
  <2> HIDE DEF frame, sent
  <2>1. Len(length') <= MaxFrames
    BY <1>1, <1>3, ReadAssumption DEF frame, Frames
  <2>2. QED
    BY <1>0, <1>1, <1>3, <1>5, <2>1 DEF TypeOK, ring, used
<1>7. Known'
  <2>1. \A s \in 0 .. Size - 1 : buf'[s].frame <= Len(length')
    <3>1. TAKE s \in 0 .. Size - 1
    <3>2. buf[s].frame \in Nat /\ buf[s].frame <= Len(length)
      BY <1>0, StoredFrame DEF TypeOK, Known
    <3>3. QED
      BY <1>1, <1>2, <1>3, <3>2 DEF ring
  <2>2. \A i \in 1 .. Len(wire') : wire'[i].frame <= Len(length') /\ ~wire'[i].plain
    <3>1. TAKE i \in 1 .. Len(wire')
    <3>2. CASE i <= Len(wire)
      <4>1. i \in 1 .. Len(wire) /\ wire'[i] = wire[i]
        <5> HIDE DEF frame, sent
        <5>1. i \in Nat /\ i >= 1
          BY <1>5, LenProperties
        <5>2. QED
          BY <1>2, <1>5, <3>2, <5>1
      <4>2. wire[i] \in Byte /\ wire[i].frame <= Len(length) /\ ~wire[i].plain
        BY <1>0, <1>2, <4>1, ElementOfSeq DEF Known
      <4>3. wire[i].frame \in Nat
        BY <4>2, ReadAssumption DEF Byte, Frames
      <4>4. QED
        BY <1>2, <1>3, <4>1, <4>2, <4>3
    <3>3. CASE ~(i <= Len(wire))
      <4>1. Len(wire) \in Nat /\ FrameSize(len) \in Nat
        BY <1>2, LenProperties, LengthType
      <4>2. i - Len(wire) \in 1 .. FrameSize(len) /\ wire'[i] = sent[i - Len(wire)]
        BY <1>4, <1>5, <3>3, <4>1
      <4>3. wire'[i].frame = frame /\ wire'[i].plain = FALSE
        BY <4>2
      <4>4. QED
        BY <1>2, <1>3, <4>3
    <3>4. QED
      BY <3>2, <3>3
  <2>3. QED
    BY <2>1, <2>2 DEF Known
<1>8. Room'
  <2>1. \A n \in 1 .. Len(length) : length'[n] = length[n]
    BY <1>1, <1>2, AppendProperties
  <2>2. QED
    BY <1>1, <2>1, SameRoom DEF ring
<1>9. QueueKnown'
  BY <1>0, <1>1 DEF QueueKnown
<1>10. QED
  BY <1>6, <1>7, <1>8, <1>9 DEF IInv

\* What is under way goes into the ring, or past its end.
LEMMA RecvStep ==
  ASSUME IInv, NEW len \in 1 .. Size, Recv(len)
  PROVE  IInv'
<1>0. TypeOK /\ Known /\ Room /\ QueueKnown
  BY DEF IInv
<1>1. /\ pc = "idle" /\ len \in 1 .. Len(wire) /\ len <= available
      /\ wire' = SubSeq(wire, len + 1, Len(wire))
      /\ write_p' = Advance(write_p, len) /\ pc' = "parse"
      /\ UNCHANGED <<waits, length, read_p, sequence_id, taken, read_queue, misread>>
  BY DEF Recv, recv_len
<1>2. /\ wire \in Seq(Byte) /\ Len(wire) \in Nat /\ write_p \in Index /\ read_p \in Index
      /\ buf \in [0 .. Size - 1 -> Stored] /\ length \in Seq(Lengths)
  BY <1>0, LenProperties DEF TypeOK
<1>3. used \in Nat /\ used <= Size /\ available = Size - used
  BY <1>0, <1>2, UsedType, AvailableValue, IndexAssumption DEF TypeOK, used, available
<1>4. write_p' \in Index /\ used' = used + len
  <2>1. len \in 0 .. Size /\ len \in Nat /\ Used(write_p, read_p) + len <= Size
    BY <1>1, <1>3, IndexAssumption DEF used
  <2>2. QED
    BY <1>1, <1>2, <2>1, AdvanceType, UsedAfterWrite DEF used
<1>5. /\ wire' \in Seq(Byte) /\ Len(wire') = Len(wire) - len
      /\ \A i \in 1 .. Len(wire') : len + i \in 1 .. Len(wire) /\ wire'[i] = wire[len + i]
  <2>1. len + 1 \in 1 .. Len(wire) + 1
    BY <1>1, <1>2
  <2>2. /\ wire' \in Seq(Byte)
        /\ Len(wire') = IF len + 1 <= Len(wire) THEN Len(wire) - (len + 1) + 1 ELSE 0
        /\ \A i \in 1 .. Len(wire) - (len + 1) + 1 : wire'[i] = wire[(len + 1) + i - 1]
    BY <1>1, <1>2, <2>1, SubSeqProperties
  <2>3. QED
    BY <1>1, <1>2, <2>2
<1>6. \A i \in 1 .. Len(wire) : wire[i] \in Byte /\ wire[i] \in Stored
  BY <1>2, ElementOfSeq DEF Stored
<1>7. buf' \in [0 .. Size - 1 -> Stored] /\ \A s \in 0 .. Size - 1 : buf'[s].frame <= Len(length)
  <2>1. CASE Slot(write_p) + len <= Size
    <3>1. buf' = [s \in DOMAIN buf |->
                IF s - Slot(write_p) \in 0 .. len - 1
                THEN wire[s - Slot(write_p) + 1] ELSE buf[s]]
      BY <2>1 DEF Recv
    <3>2. \A s \in 0 .. Size - 1 : buf'[s] \in Stored /\ buf'[s].frame <= Len(length)
      <4>1. TAKE s \in 0 .. Size - 1
      <4>2. CASE s - Slot(write_p) \in 0 .. len - 1
        <5>1. Slot(write_p) \in Int
          BY <1>2, SlotType, IndexAssumption DEF Index
        <5>2. s - Slot(write_p) + 1 \in 1 .. Len(wire)
          BY <1>1, <1>2, <4>2, <5>1, IndexAssumption
        <5>3. buf'[s] = wire[s - Slot(write_p) + 1]
          BY <1>2, <3>1, <4>2
        <5>4. QED
          BY <1>0, <1>6, <5>2, <5>3 DEF Known
      <4>3. CASE ~(s - Slot(write_p) \in 0 .. len - 1)
        BY <1>0, <1>2, <3>1, <4>3 DEF Known
      <4>4. QED
        BY <4>2, <4>3
    <3>3. QED
      BY <1>2, <3>1, <3>2
  <2>2. CASE ~(Slot(write_p) + len <= Size)
    BY <1>0, <1>2, <2>2 DEF Recv, Known
  <2>3. QED
    BY <2>1, <2>2
<1>8. outside' \in BOOLEAN
  BY <1>0 DEF Recv, TypeOK
<1>9. TypeOK'
  <2>1. used' <= Size
    BY <1>1, <1>3, <1>4, IndexAssumption
  <2>2. QED
    BY <1>0, <1>1, <1>4, <1>5, <1>7, <1>8, <2>1 DEF TypeOK
<1>10. Known'
  BY <1>0, <1>1, <1>5, <1>7 DEF Known
<1>11. Room' /\ QueueKnown'
  BY <1>0, <1>1 DEF Room, QueueKnown
<1>12. QED
  BY <1>9, <1>10, <1>11 DEF IInv

\* A turn of the loop that ends, or that reads something else than a length.
LEMMA LeaveStep ==
  ASSUME IInv, LeaveLoop
  PROVE  IInv'
<1>0. TypeOK /\ Known /\ Room /\ QueueKnown
  BY DEF IInv
<1>1. /\ pc = "parse" /\ Incomplete /\ pc' = "idle"
      /\ UNCHANGED <<waits, length, wire, buf, write_p, read_p, sequence_id, taken,
                     read_queue, outside, misread>>
  BY DEF LeaveLoop, ring
<1>2. TypeOK' /\ Known' /\ QueueKnown'
  BY <1>0, <1>1 DEF TypeOK, Known, QueueKnown, used
<1>3. Room'
  BY <1>1 DEF Room, Incomplete, IsLength, message_len, At, used
<1>4. QED
  BY <1>2, <1>3 DEF IInv

LEMMA MisreadStep ==
  ASSUME IInv, Misread
  PROVE  IInv'
BY DEF IInv, TypeOK, Known, Room, QueueKnown, Misread, ring, used

LEMMA FetchStep ==
  ASSUME IInv, Fetch
  PROVE  IInv'
<1>0. TypeOK /\ Known /\ Room /\ QueueKnown
  BY DEF IInv
<1>1. /\ read_queue # <<>> /\ read_queue' = Tail(read_queue)
      /\ UNCHANGED <<waits, length, wire, buf, write_p, read_p, pc, sequence_id, taken,
                     outside, misread>>
  BY DEF Fetch, ring
<1>2. /\ Tail(read_queue) \in Seq(1 .. taken)
      /\ Len(Tail(read_queue)) = Len(read_queue) - 1 /\ Len(read_queue) \in Nat
  BY <1>0, <1>1, HeadTailProperties, LenProperties DEF QueueKnown
<1>3. Len(read_queue') <= QueueLen
  <2>1. Len(read_queue) <= QueueLen
    BY <1>0 DEF TypeOK
  <2>2. QED
    BY <1>1, <1>2, <2>1, SessionQueueAssumption
<1>4. TypeOK'
  BY <1>0, <1>1, <1>3 DEF TypeOK, used
<1>5. Room'
  BY <1>1, SameRoom
<1>6. QED
  BY <1>0, <1>1, <1>2, <1>4, <1>5 DEF IInv, Known, QueueKnown

\* xor_decrypt leaves every byte where it was, of the frame it was of.
LEMMA DecryptType ==
  ASSUME buf \in [0 .. Size - 1 -> Stored], NEW len \in Int
  PROVE  /\ xor_decrypt(len) \in [0 .. Size - 1 -> Stored]
         /\ \A s \in 0 .. Size - 1 :
              /\ xor_decrypt(len)[s].frame = buf[s].frame
              /\ xor_decrypt(len)[s].pos = buf[s].pos
<1>1. xor_decrypt(len) = [s \in 0 .. Size - 1 |->
        IF s - Slot(read_p) \in LenField .. LenField + len - 1 THEN Flip(buf[s]) ELSE buf[s]]
  BY DEF xor_decrypt
<1>2. \A s \in 0 .. Size - 1 :
        Flip(buf[s]) \in Stored /\ Flip(buf[s]).frame = buf[s].frame /\ Flip(buf[s]).pos = buf[s].pos
  BY FlipType
<1>3. QED
  BY <1>1, <1>2

\* What a turn of the loop takes is no more than there is.
LEMMA TakeShrinks ==
  ASSUME IInv, TakeMessage
  PROVE  message_len \in 0 .. Size /\ read_p' \in Index /\ used' = used - message_len
<1>1. /\ IsLength /\ message_len <= Used(write_p, read_p)
      /\ read_p' = Advance(read_p, message_len) /\ write_p' = write_p
  BY DEF TakeMessage, seek_read, used
<1>2. message_len \in Nat /\ message_len \in 0 .. Size
  <2>1. message_len \in Nat
    BY <1>1, MessageLen, LengthType
  <2>2. Used(write_p, read_p) \in Int /\ Used(write_p, read_p) <= Size /\ Size \in Nat
    BY UsedType, IndexAssumption DEF IInv, TypeOK, used
  <2> HIDE DEF message_len
  <2>3. QED
    BY <1>1, <2>1, <2>2
<1>3. write_p \in Index /\ read_p \in Index
  BY DEF IInv, TypeOK
<1> HIDE DEF message_len
<1>4. QED
  BY <1>1, <1>2, <1>3, AdvanceType, UsedAfterRead DEF used

LEMMA TakeStep ==
  ASSUME IInv, TakeMessage
  PROVE  IInv'
<1>0. TypeOK /\ Known /\ Room /\ QueueKnown
  BY DEF IInv
<1>1. /\ pc = "parse" /\ IsLength /\ message_len <= used /\ taken < MaxFrames
      /\ read_p' = Advance(read_p, message_len) /\ taken' = taken + 1
      /\ read_queue' = IF Len(read_queue) < QueueLen THEN Append(read_queue, taken')
                       ELSE read_queue
      /\ UNCHANGED <<waits, length, wire, write_p, pc, misread>>
  BY DEF TakeMessage, seek_read, push_back
<1>2. message_len \in 0 .. Size /\ read_p' \in Index /\ used' = used - message_len
  BY TakeShrinks
<1>3. write_p \in Index /\ used \in Nat
  BY <1>0, UsedType, IndexAssumption DEF TypeOK, used
<1>4. read_p' \in Index /\ used' = used - message_len
  BY <1>2
<1>5. buf' \in [0 .. Size - 1 -> Stored] /\ \A s \in 0 .. Size - 1 : buf'[s].frame <= Len(length)
  <2>1. buf \in [0 .. Size - 1 -> Stored] /\ \A s \in 0 .. Size - 1 : buf[s].frame <= Len(length)
    BY <1>0 DEF TypeOK, Known
  <2>2. CASE buf' = buf
    BY <2>1, <2>2
  <2>3. CASE buf' = xor_decrypt(message_len)
    <3>1. message_len \in Int
      BY <1>2, IndexAssumption
    <3> HIDE DEF message_len
    <3>2. QED
      BY <2>1, <2>3, <3>1, DecryptType
  <2>4. QED
    BY <2>2, <2>3 DEF TakeMessage
<1>6. sequence_id' \in 0 .. taken' /\ taken' \in 0 .. MaxFrames
  <2>1. sequence_id' = sequence_id \/ sequence_id' = sequence_id + 1
    BY DEF TakeMessage
  <2>2. sequence_id \in 0 .. taken /\ taken \in 0 .. MaxFrames
    BY <1>0 DEF TypeOK
  <2>3. QED
    BY <1>1, <2>1, <2>2, ReadAssumption
<1>7. outside' \in BOOLEAN
  BY <1>0 DEF TakeMessage, TypeOK
<1>8. QueueKnown' /\ Len(read_queue') <= QueueLen
  <2>1. taken \in Nat /\ read_queue \in Seq(1 .. taken) /\ Len(read_queue) <= QueueLen
    BY <1>0, ReadAssumption DEF QueueKnown, TypeOK
  <2>2. read_queue \in Seq(1 .. taken') /\ taken' \in 1 .. taken' /\ Len(read_queue) \in Nat
    BY <1>1, <2>1, SeqMonotonic, LenProperties
  <2>3. /\ Append(read_queue, taken') \in Seq(1 .. taken')
        /\ Len(Append(read_queue, taken')) = Len(read_queue) + 1
    BY <2>2, AppendProperties
  <2>4. CASE Len(read_queue) < QueueLen
    <3>1. read_queue' = Append(read_queue, taken')
      BY <1>1, <2>4
    <3>2. Len(read_queue) + 1 <= QueueLen
      BY <2>2, <2>4, SessionQueueAssumption
    <3>3. QED
      BY <2>3, <3>1, <3>2 DEF QueueKnown
  <2>5. CASE ~(Len(read_queue) < QueueLen)
    <3>1. read_queue' = read_queue
      BY <1>1, <2>5
    <3>2. QED
      BY <2>1, <2>2, <3>1 DEF QueueKnown
  <2>6. QED
    BY <2>4, <2>5
<1>9. TypeOK'
  <2>1. used' <= Size
    BY <1>0, <1>2, <1>3, <1>4, IndexAssumption DEF TypeOK
  <2>2. QED
    BY <1>0, <1>1, <1>4, <1>5, <1>6, <1>7, <1>8, <2>1 DEF TypeOK
<1>10. Known' /\ Room'
  BY <1>0, <1>1, <1>5 DEF Known, Room
<1>11. QED
  BY <1>8, <1>9, <1>10 DEF IInv

LEMMA StepIInv == IInv /\ [Next]_vars => IInv'
<1> SUFFICES ASSUME IInv, [Next]_vars PROVE IInv'
  OBVIOUS
<1>1. ASSUME NEW len \in Lengths, SendFrame(len) PROVE IInv'
  BY <1>1, SendStep
<1>2. ASSUME NEW len \in 1 .. Size, Recv(len) PROVE IInv'
  BY <1>2, RecvStep
<1>3. CASE Loop
  BY <1>3, LeaveStep, TakeStep, MisreadStep DEF Loop
<1>4. CASE Fetch
  BY <1>4, FetchStep
<1>5. CASE UNCHANGED vars
  <2>1. Room'
    BY <1>5, SameRoom DEF vars, ring
  <2>2. QED
    BY <1>5, <2>1 DEF IInv, TypeOK, Known, QueueKnown, vars, ring, used
<1>6. QED
  BY <1>1, <1>2, <1>3, <1>4, <1>5 DEF Next

LEMMA InvariantHolds == Spec => []IInv
BY InitIInv, StepIInv, PTL DEF Spec

(***************************************************************************)
(* Every variable stays in its type: the indices inside their 32 bits, no  *)
(* more bytes between them than the ring holds, and no more messages in    *)
(* the queue than MAX_QUEUE_LEN.                                           *)
(***************************************************************************)
THEOREM TypeCorrect == Spec => []TypeOK
<1>1. IInv => TypeOK
  BY DEF IInv
<1>2. QED
  BY <1>1, InvariantHolds, PTL

(***************************************************************************)
(* When on_read has returned and the ring is full, a length that exceeds   *)
(* the ring stands in front of it: no pattern of other frames and pieces   *)
(* leaves recv without room.  The loop must take a frame that fills the    *)
(* ring to the last byte for it.                                           *)
(***************************************************************************)
THEOREM StoppedByLengthHolds == Spec => []StoppedByLength
<1>1. IInv => StoppedByLength
  <2> SUFFICES ASSUME IInv, pc = "idle", available = 0 PROVE IsLength /\ message_len > Size
    BY DEF StoppedByLength
  <2>1. write_p \in Index /\ read_p \in Index /\ Used(write_p, read_p) <= Size
    BY DEF IInv, TypeOK, used
  <2>2. used \in Int /\ used = Size
    BY <2>1, AvailableValue, UsedType, IndexAssumption DEF available, used
  <2>3. Incomplete /\ ~(used < LenField)
    BY <2>2, ReadAssumption, IndexAssumption DEF IInv, Room, LenField
  <2>4. QED
    BY <2>2, <2>3 DEF Incomplete
<1>2. QED
  BY <1>1, InvariantHolds, PTL

-----------------------------------------------------------------------------
(***************************************************************************)
(* The boundaries of frames.                                               *)
(***************************************************************************)
\* The byte that is j-th from the read index, in the ring or still under way.
Ahead(j) == IF j <= used THEN At(j) ELSE wire[j - used]

\* Place[n] bytes lie before frame n, whose own follow in their order.
Lies(place) ==
  /\ place[taken + 1] = 0
  /\ \A n \in taken + 1 .. Len(length) : place[n + 1] = place[n] + FrameSize(length[n])
  /\ \A m, n \in taken + 1 .. Len(length) + 1 : m <= n => place[m] <= place[n]
  /\ place[Len(length) + 1] = used + Len(wire)
  /\ \A n \in taken + 1 .. Len(length) : \A i \in 1 .. FrameSize(length[n]) :
       Ahead(place[n] + i).frame = n /\ Ahead(place[n] + i).pos = i

\* From the read index on lie the frames not yet taken, and nothing else.
Layout ==
  Followed =>
    /\ taken <= Len(length)
    /\ \E place \in [taken + 1 .. Len(length) + 1 -> Int] : Lies(place)

\* A peer that waits has one frame under way, and no byte of it has been
\* turned over.
OneFrame ==
  Followed /\ waits =>
    /\ Len(length) <= taken + 1
    /\ \A j \in 1 .. used : ~At(j).plain

LInv == IInv /\ Layout /\ OneFrame /\ LengthsIntact

\* What the state looks like before a step, in one place.
LEMMA Facts ==
  ASSUME IInv
  PROVE  /\ write_p \in Index /\ read_p \in Index
         /\ used \in Nat /\ used <= Size /\ available = Size - used
         /\ wire \in Seq(Byte) /\ Len(wire) \in Nat
         /\ length \in Seq(Lengths) /\ Len(length) \in Nat
         /\ taken \in Nat
         /\ buf \in [0 .. Size - 1 -> Stored]
         /\ \A n \in 1 .. Len(length) :
              /\ length[n] \in Lengths
              /\ FrameSize(length[n]) \in Nat /\ FrameSize(length[n]) >= 2
<1>1. TypeOK
  BY DEF IInv
<1>2. used \in Nat /\ used <= Size /\ available = Size - used
  BY <1>1, UsedType, AvailableValue, IndexAssumption DEF TypeOK, used, available
<1>3. length \in Seq(Lengths) /\ Len(length) \in Nat /\ wire \in Seq(Byte) /\ Len(wire) \in Nat
  BY <1>1, LenProperties DEF TypeOK
<1>4. \A n \in 1 .. Len(length) :
        /\ length[n] \in Lengths
        /\ FrameSize(length[n]) \in Nat /\ FrameSize(length[n]) >= 2
  <2>1. TAKE n \in 1 .. Len(length)
  <2>2. length[n] \in Lengths
    BY <1>3, ElementOfSeq
  <2>3. QED
    BY <2>2, LengthType DEF LenField
<1>5. taken \in Nat
  BY <1>1, ReadAssumption DEF TypeOK
<1>6. QED
  BY <1>1, <1>2, <1>3, <1>4, <1>5 DEF TypeOK

\* recv writes behind the bytes that wait, and over none of them.
LEMMA RecvBytes ==
  ASSUME IInv, NEW len \in 1 .. Size, Recv(len), Slot(write_p) + len <= Size
  PROVE  /\ \A j \in 1 .. used : At(j)' = At(j)
         /\ \A i \in used + 1 .. used + len : At(i)' = wire[i - used]
<1>1. /\ read_p' = read_p /\ len <= available
      /\ buf' = [s \in DOMAIN buf |->
                IF s - Slot(write_p) \in 0 .. len - 1
                THEN wire[s - Slot(write_p) + 1] ELSE buf[s]]
  BY DEF Recv, recv_len
<1>2. /\ write_p \in Index /\ read_p \in Index /\ used \in Nat /\ used <= Size
      /\ available = Size - used /\ DOMAIN buf = 0 .. Size - 1
      /\ write_p \in Int /\ read_p \in Int /\ Size \in Nat
  BY Facts, IndexAssumption DEF Index
<1>3. \A k \in 0 .. len - 1 : Slot(write_p) + k = Slot(read_p + (used + k))
  <2>1. TAKE k \in 0 .. len - 1
  <2>2. k \in Nat /\ k \in Int /\ Slot(write_p) + k < Size
    BY <1>2, SlotType
  <2>3. Slot(write_p + k) = Slot(write_p) + k
    BY <1>2, <2>2, SlotStraight
  <2>4. Slot(write_p + k) = Slot(read_p + Used(write_p, read_p) + k)
    BY <1>2, <2>2, WriteSlot
  <2>5. read_p + Used(write_p, read_p) + k = read_p + (used + k)
    BY <1>2, <2>2 DEF used
  <2>6. QED
    BY <2>3, <2>4, <2>5
<1>4. ASSUME NEW j \in 1 .. used PROVE At(j)' = At(j)
  <2> DEFINE s == Slot(read_p + j - 1)
  <2>1. j - 1 \in 0 .. Size - 1 /\ read_p + j - 1 = read_p + (j - 1) /\ read_p + (j - 1) \in Int
    BY <1>2
  <2>2. s \in 0 .. Size - 1
    BY <2>1, SlotType
  <2>3. ~(s - Slot(write_p) \in 0 .. len - 1)
    <3>1. SUFFICES ASSUME NEW k \in 0 .. len - 1, s - Slot(write_p) = k PROVE FALSE
      OBVIOUS
    <3>2. Slot(write_p) \in Int
      BY <1>2, SlotType
    <3>3. s = Slot(write_p) + k
      <4> HIDE DEF s
      <4>1. QED
        BY <2>2, <3>1, <3>2
    <3>4. Slot(read_p + (j - 1)) = Slot(read_p + (used + k))
      BY <1>3, <2>1, <3>3
    <3>5. used + k \in 0 .. Size - 1 /\ used + k # j - 1
      BY <1>1, <1>2
    <3>6. QED
      BY <1>2, <2>1, <3>4, <3>5, SlotsDistinct
  <2>4. buf'[s] = buf[s]
    <3> HIDE DEF s
    <3>1. QED
      BY <1>1, <1>2, <2>2, <2>3
  <2>5. QED
    BY <1>1, <2>4 DEF At
<1>5. ASSUME NEW i \in used + 1 .. used + len PROVE At(i)' = wire[i - used]
  <2> DEFINE k == (i - used) - 1
  <2>1. k \in 0 .. len - 1 /\ i - 1 = used + k /\ k + 1 = i - used /\ i \in Int
    BY <1>2
  <2> HIDE DEF k
  <2>2. read_p + i - 1 = read_p + (used + k) /\ read_p + (used + k) \in Int
    BY <1>2, <2>1
  <2>3. Slot(read_p + i - 1) = Slot(write_p) + k
    BY <1>3, <2>1, <2>2
  <2>4. Slot(write_p) + k \in 0 .. Size - 1 /\ Slot(write_p) \in Int
    BY <1>2, <2>2, <2>3, SlotType
  <2>5. (Slot(write_p) + k) - Slot(write_p) = k
    BY <2>1, <2>4
  <2>6. buf'[Slot(write_p) + k] = wire[k + 1]
    BY <1>1, <1>2, <2>1, <2>4, <2>5
  <2>7. QED
    BY <1>1, <2>1, <2>3, <2>6 DEF At
<1>6. QED
  BY <1>4, <1>5

\* After recv every byte is as far ahead as it was.
LEMMA RecvAhead ==
  ASSUME IInv, NEW len \in 1 .. Size, Recv(len), Slot(write_p) + len <= Size
  PROVE  /\ used' = used + len /\ Len(wire') = Len(wire) - len
         /\ \A j \in 1 .. used + Len(wire) : Ahead(j)' = Ahead(j)
         /\ \A j \in 1 .. used' : At(j)' = IF j <= used THEN At(j) ELSE wire[j - used]
<1>1. /\ len \in 1 .. Len(wire) /\ len <= available
      /\ wire' = SubSeq(wire, len + 1, Len(wire))
      /\ write_p' = Advance(write_p, len) /\ read_p' = read_p
  BY DEF Recv, recv_len
<1>2. /\ write_p \in Index /\ read_p \in Index /\ used \in Nat /\ used <= Size
      /\ available = Size - used /\ wire \in Seq(Byte) /\ Len(wire) \in Nat
  BY Facts
<1>3. used' = used + len
  <2>1. len \in 0 .. Size /\ Used(write_p, read_p) + len <= Size
    BY <1>1, <1>2, IndexAssumption DEF used
  <2>2. QED
    BY <1>1, <1>2, <2>1, UsedAfterWrite DEF used
<1>4. /\ Len(wire') = Len(wire) - len
      /\ \A i \in 1 .. Len(wire) - len : wire'[i] = wire[len + i]
  <2>1. len + 1 \in Int /\ \A i \in len + 1 .. Len(wire) : wire[i] \in Byte
    BY <1>1, <1>2, ElementOfSeq
  <2>2. /\ Len(wire') = IF len + 1 <= Len(wire) THEN Len(wire) - (len + 1) + 1 ELSE 0
        /\ \A i \in 1 .. Len(wire) - (len + 1) + 1 : wire'[i] = wire[(len + 1) + i - 1]
    BY <1>1, <1>2, <2>1, SubSeqProperties
  <2>3. QED
    BY <1>1, <1>2, <2>2
<1>5. \A j \in 1 .. used' : At(j)' = IF j <= used THEN At(j) ELSE wire[j - used]
  BY <1>2, <1>3, RecvBytes
<1>6. ASSUME NEW j \in 1 .. used + Len(wire) PROVE Ahead(j)' = Ahead(j)
  <2>1. CASE j <= used + len
    <3>1. j \in 1 .. used' /\ j <= used'
      BY <1>2, <1>3, <2>1
    <3>2. Ahead(j)' = At(j)'
      BY <3>1 DEF Ahead
    <3>3. QED
      BY <1>5, <3>1, <3>2 DEF Ahead
  <2>2. CASE ~(j <= used + len)
    <3>1. j - (used + len) \in 1 .. Len(wire) - len /\ ~(j <= used)
      BY <1>1, <1>2, <2>2
    <3>2. len + (j - (used + len)) = j - used
      BY <1>2
    <3>3. Ahead(j)' = wire'[j - (used + len)]
      BY <1>3, <2>2 DEF Ahead
    <3>4. QED
      BY <1>4, <3>1, <3>2, <3>3 DEF Ahead
  <2>3. QED
    BY <2>1, <2>2
<1>7. QED
  BY <1>3, <1>4, <1>5, <1>6

\* A sum of lengths places every frame inside what has been sent.
LEMMA PlaceBounds ==
  ASSUME IInv, taken <= Len(length),
         NEW place \in [taken + 1 .. Len(length) + 1 -> Int], Lies(place),
         NEW n \in taken + 1 .. Len(length), NEW i \in 1 .. FrameSize(length[n])
  PROVE  /\ place[n] \in Nat /\ place[n] + i \in 1 .. used + Len(wire)
         /\ n \in 1 .. Len(length)
<1>1. /\ used \in Nat /\ Len(wire) \in Nat /\ Len(length) \in Nat /\ taken \in Nat
      /\ \A k \in 1 .. Len(length) : FrameSize(length[k]) \in Nat
  BY Facts
<1>2. /\ n \in 1 .. Len(length) /\ n \in taken + 1 .. Len(length) + 1 /\ n + 1 \in taken + 1 .. Len(length) + 1
      /\ taken + 1 \in taken + 1 .. Len(length) + 1 /\ Len(length) + 1 \in taken + 1 .. Len(length) + 1
      /\ taken + 1 <= n /\ n + 1 <= Len(length) + 1
  BY <1>1
<1>3. /\ place[taken + 1] <= place[n] /\ place[n + 1] <= place[Len(length) + 1]
      /\ place[n + 1] = place[n] + FrameSize(length[n]) /\ place[taken + 1] = 0
      /\ place[Len(length) + 1] = used + Len(wire)
  BY <1>2 DEF Lies
<1>4. place[n] \in Int /\ FrameSize(length[n]) \in Nat
  BY <1>1, <1>2
<1>5. QED
  BY <1>1, <1>2, <1>3, <1>4

\* What the loop sees first is the first frame not yet taken.
LEMMA FirstFrame ==
  ASSUME IInv, Layout, Followed, used > 0
  PROVE  /\ taken + 1 \in 1 .. Len(length)
         /\ \A i \in 1 .. FrameSize(length[taken + 1]) :
              Ahead(i).frame = taken + 1 /\ Ahead(i).pos = i
<1>1. taken <= Len(length)
  BY DEF Layout
<1>2. PICK place \in [taken + 1 .. Len(length) + 1 -> Int] : Lies(place)
  BY DEF Layout
<1>3. /\ used \in Nat /\ Len(wire) \in Nat /\ Len(length) \in Nat /\ taken \in Nat
      /\ \A n \in 1 .. Len(length) : FrameSize(length[n]) \in Nat
  BY Facts
<1>4. taken # Len(length)
  BY <1>2, <1>3 DEF Lies
<1>5. taken + 1 \in taken + 1 .. Len(length) /\ taken + 1 \in 1 .. Len(length)
  BY <1>1, <1>3, <1>4
<1>6. place[taken + 1] = 0
  BY <1>2 DEF Lies
<1>7. \A i \in 1 .. FrameSize(length[taken + 1]) : 0 + i = i
  BY <1>3, <1>5
<1>8. \A i \in 1 .. FrameSize(length[taken + 1]) : Ahead(0 + i).frame = taken + 1 /\ Ahead(0 + i).pos = i
  BY <1>2, <1>5, <1>6 DEF Lies
<1>9. QED
  BY <1>5, <1>7, <1>8

LEMMA InitLInv == Init => LInv
<1> SUFFICES ASSUME Init PROVE LInv
  OBVIOUS
<1>1. IInv
  BY InitIInv
<1>2. Len(length) = 0 /\ Len(wire) = 0 /\ taken = 0 /\ used = 0 /\ ~misread
  <2>1. used = 0
    BY IndexAssumption, ModSmall DEF Init, used, Used
  <2>2. QED
    BY <2>1, EmptySeq DEF Init
<1>3. Lies([n \in taken + 1 .. Len(length) + 1 |-> 0])
  BY <1>2 DEF Lies
<1>4. Layout
  BY <1>2, <1>3 DEF Layout
<1>5. QED
  BY <1>1, <1>2, <1>4 DEF LInv, OneFrame, LengthsIntact

\* A frame sent lies behind all others.
LEMMA SendLayout ==
  ASSUME LInv, Followed, NEW len \in Lengths, SendFrame(len)
  PROVE  Layout' /\ OneFrame' /\ LengthsIntact'
<1> DEFINE frame == Len(length) + 1
           size == FrameSize(len)
           sent == [i \in 1 .. size |-> [frame |-> frame, pos |-> i, plain |-> FALSE]]
<1>0. IInv /\ Layout /\ OneFrame /\ LengthsIntact
  BY DEF LInv
<1>1. /\ waits => taken = Len(length)
      /\ length' = Append(length, len) /\ wire' = wire \o sent
      /\ frame \in Frames
      /\ UNCHANGED <<waits, buf, write_p, read_p, pc, taken, outside, misread>>
  BY DEF SendFrame, ring
<1>2. /\ length \in Seq(Lengths) /\ Len(length) \in Nat /\ wire \in Seq(Byte) /\ Len(wire) \in Nat
      /\ used \in Nat /\ taken \in Nat
      /\ \A n \in 1 .. Len(length) : FrameSize(length[n]) \in Nat
  BY <1>0, Facts
<1>3. /\ Len(length') = Len(length) + 1 /\ length'[Len(length) + 1] = len
      /\ \A n \in 1 .. Len(length) : length'[n] = length[n]
  BY <1>1, <1>2, AppendProperties
<1>4. used' = used /\ \A j : At(j)' = At(j)
  BY <1>1 DEF used, At
<1>5. size \in Nat
  BY LengthType
<1>6. sent \in Seq(Byte) /\ Len(sent) = size
  <2>1. \A i \in 1 .. size : [frame |-> frame, pos |-> i, plain |-> FALSE] \in Byte
    BY <1>1, <1>5 DEF Byte
  <2>2. sent \in [1 .. size -> Byte]
    BY <1>5, <2>1
  <2> HIDE DEF sent
  <2>3. QED
    BY <1>5, <2>2, SeqDef, LenProperties
<1>7. \A i \in 1 .. size : sent[i].frame = frame /\ sent[i].pos = i
  BY <1>5
<1>a. size = FrameSize(len)
  OBVIOUS
<1> HIDE DEF frame, size, sent
<1>8. /\ Len(wire') = Len(wire) + size
      /\ \A i \in 1 .. Len(wire) + size :
           wire'[i] = IF i <= Len(wire) THEN wire[i] ELSE sent[i - Len(wire)]
  <2>1. /\ Len(wire \o sent) = Len(wire) + Len(sent)
        /\ \A i \in 1 .. Len(wire) + Len(sent) : (wire \o sent)[i] =
             IF i <= Len(wire) THEN wire[i] ELSE sent[i - Len(wire)]
    BY <1>2, <1>6, ConcatProperties
  <2>2. QED
    BY <1>1, <1>6, <2>1
<1>9. \A j \in 1 .. used + Len(wire) : Ahead(j)' = Ahead(j)
  <2>1. TAKE j \in 1 .. used + Len(wire)
  <2>2. CASE j <= used
    BY <1>4, <2>2 DEF Ahead
  <2>3. CASE ~(j <= used)
    <3>1. j - used \in 1 .. Len(wire) + size /\ j - used <= Len(wire)
      BY <1>2, <1>5, <2>3
    <3>2. Ahead(j)' = wire'[j - used] /\ Ahead(j) = wire[j - used]
      BY <1>4, <2>3 DEF Ahead
    <3>3. QED
      BY <1>8, <3>1, <3>2
  <2>4. QED
    BY <2>2, <2>3
<1>10. ASSUME NEW j \in used + Len(wire) + 1 .. used + Len(wire) + size
       PROVE  Ahead(j)' = sent[j - (used + Len(wire))]
  <2>1. /\ ~(j <= used) /\ j - used \in 1 .. Len(wire) + size /\ ~(j - used <= Len(wire))
        /\ (j - used) - Len(wire) = j - (used + Len(wire))
    BY <1>2, <1>5
  <2>2. Ahead(j)' = wire'[j - used]
    BY <1>4, <2>1 DEF Ahead
  <2>3. QED
    BY <1>8, <2>1, <2>2
<1>11. Layout'
  <2>1. taken <= Len(length)
    BY <1>0 DEF Layout
  <2>2. PICK place \in [taken + 1 .. Len(length) + 1 -> Int] : Lies(place)
    BY <1>0 DEF Layout
  <2>3. PICK next \in [taken + 1 .. Len(length) + 2 -> Int] :
          next = [n \in taken + 1 .. Len(length) + 2 |->
                    IF n <= Len(length) + 1 THEN place[n] ELSE used + Len(wire) + size]
    <3> DEFINE f == [n \in taken + 1 .. Len(length) + 2 |->
                       IF n <= Len(length) + 1 THEN place[n] ELSE used + Len(wire) + size]
    <3>1. f \in [taken + 1 .. Len(length) + 2 -> Int]
      BY <1>2, <1>5, <2>2
    <3>2. QED
      BY <3>1
  <2>4. /\ \A n \in taken + 1 .. Len(length) + 1 : next[n] = place[n]
        /\ next[Len(length) + 2] = used + Len(wire) + size
    BY <1>2, <2>1, <2>3
  <2>5. /\ place[taken + 1] = 0 /\ place[Len(length) + 1] = used + Len(wire)
        /\ \A n \in taken + 1 .. Len(length) : place[n + 1] = place[n] + FrameSize(length[n])
        /\ \A m, n \in taken + 1 .. Len(length) + 1 : m <= n => place[m] <= place[n]
        /\ \A n \in taken + 1 .. Len(length) : \A i \in 1 .. FrameSize(length[n]) :
             Ahead(place[n] + i).frame = n /\ Ahead(place[n] + i).pos = i
    BY <2>2 DEF Lies
  <2>6. next[taken + 1] = 0 /\ next[Len(length) + 1] = used + Len(wire)
    <3>1. taken + 1 \in taken + 1 .. Len(length) + 1 /\ Len(length) + 1 \in taken + 1 .. Len(length) + 1
      BY <1>2, <2>1
    <3>2. QED
      BY <2>4, <2>5, <3>1
  <2>7. ASSUME NEW n \in taken + 1 .. Len(length) + 1
        PROVE  next[n + 1] = next[n] + FrameSize(length'[n])
    <3>1. CASE n = Len(length) + 1
      <4>1. n + 1 = Len(length) + 2 /\ next[n] = used + Len(wire)
        BY <1>2, <2>6, <3>1
      <4>2. QED
        BY <1>3, <1>a, <2>4, <3>1, <4>1
    <3>2. CASE n # Len(length) + 1
      <4>1. /\ n \in taken + 1 .. Len(length) /\ n \in 1 .. Len(length)
            /\ n + 1 \in taken + 1 .. Len(length) + 1
        BY <1>2, <3>2
      <4>2. QED
        BY <1>3, <2>4, <2>5, <4>1
    <3>3. QED
      BY <3>1, <3>2
  <2>8. ASSUME NEW m \in taken + 1 .. Len(length) + 2, NEW n \in taken + 1 .. Len(length) + 2, m <= n
        PROVE  next[m] <= next[n]
    <3>1. CASE n <= Len(length) + 1
      <4>1. m \in taken + 1 .. Len(length) + 1 /\ n \in taken + 1 .. Len(length) + 1
        BY <1>2, <2>8, <3>1
      <4>2. QED
        BY <2>4, <2>5, <2>8, <4>1
    <3>2. CASE n = Len(length) + 2 /\ m <= Len(length) + 1
      <4>1. /\ m \in taken + 1 .. Len(length) + 1
            /\ Len(length) + 1 \in taken + 1 .. Len(length) + 1
            /\ m <= Len(length) + 1
        BY <1>2, <2>1, <3>2
      <4>2. place[m] <= used + Len(wire) /\ next[m] = place[m] /\ place[m] \in Int
        BY <2>2, <2>4, <2>5, <4>1
      <4>3. QED
        BY <1>2, <1>5, <2>4, <3>2, <4>2
    <3>3. CASE n = Len(length) + 2 /\ m = Len(length) + 2
      BY <1>2, <1>5, <2>4, <3>3
    <3>4. QED
      BY <1>2, <2>8, <3>1, <3>2, <3>3
  <2>9. ASSUME NEW n \in taken + 1 .. Len(length) + 1, NEW i \in 1 .. FrameSize(length'[n])
        PROVE  Ahead(next[n] + i)'.frame = n /\ Ahead(next[n] + i)'.pos = i
    <3>1. CASE n = Len(length) + 1
      <4>1. next[n] = used + Len(wire) /\ FrameSize(length'[n]) = size
        BY <1>3, <1>a, <2>6, <3>1
      <4>2. /\ next[n] + i \in used + Len(wire) + 1 .. used + Len(wire) + size
            /\ (next[n] + i) - (used + Len(wire)) = i /\ i \in 1 .. size
        <5>1. i \in 1 .. size /\ i \in Int
          BY <1>5, <4>1
        <5>2. used \in Nat /\ Len(wire) \in Nat
          BY <1>2
        <5>3. QED
          BY <1>5, <4>1, <5>1, <5>2
      <4>3. Ahead(next[n] + i)' = sent[i]
        BY <1>10, <4>2
      <4>4. QED
        BY <1>7, <3>1, <4>2, <4>3 DEF frame
    <3>2. CASE n # Len(length) + 1
      <4>1. n \in taken + 1 .. Len(length) /\ n \in 1 .. Len(length)
        BY <1>2, <3>2
      <4>2. length'[n] = length[n] /\ next[n] = place[n]
        BY <1>3, <2>4, <4>1
      <4>3. place[n] + i \in 1 .. used + Len(wire)
        BY <1>0, <2>1, <2>2, <4>1, <4>2, PlaceBounds
      <4>4. QED
        BY <1>9, <2>5, <4>1, <4>2, <4>3
    <3>3. QED
      BY <3>1, <3>2
  <2>10. /\ Len(length') + 1 = Len(length) + 2 /\ taken' = taken
         /\ taken' + 1 .. Len(length') = taken + 1 .. Len(length) + 1
         /\ used' + Len(wire') = used + Len(wire) + size
    BY <1>1, <1>2, <1>3, <1>4, <1>5, <1>8
  <2>11. Lies(next)'
    BY <2>4, <2>6, <2>7, <2>8, <2>9, <2>10 DEF Lies
  <2>12. QED
    BY <1>2, <2>1, <2>3, <2>10, <2>11 DEF Layout
<1>12. OneFrame'
  BY <1>0, <1>1, <1>2, <1>3, <1>4, <1>8 DEF OneFrame, Followed, Layout
<1>13. QED
  BY <1>0, <1>1, <1>11, <1>12 DEF LengthsIntact

\* recv moves the border between the ring and what is under way.
LEMMA RecvLayout ==
  ASSUME LInv, Followed, NEW len \in 1 .. Size, Recv(len)
  PROVE  Layout' /\ OneFrame' /\ LengthsIntact'
<1>0. IInv /\ Layout /\ OneFrame /\ LengthsIntact
  BY DEF LInv
<1>1. UNCHANGED <<waits, length, taken, misread>>
  BY DEF Recv
<1>2. /\ used \in Nat /\ Len(wire) \in Nat /\ Len(length) \in Nat /\ taken \in Nat
      /\ len \in 1 .. Len(wire)
  BY <1>0, Facts DEF Recv
<1>3. CASE Slot(write_p) + len <= Size
  <2>1. /\ used' = used + len /\ Len(wire') = Len(wire) - len
        /\ \A j \in 1 .. used + Len(wire) : Ahead(j)' = Ahead(j)
        /\ \A j \in 1 .. used' : At(j)' = IF j <= used THEN At(j) ELSE wire[j - used]
    BY <1>0, <1>3, RecvAhead
  <2>2. used' + Len(wire') = used + Len(wire)
    BY <1>2, <2>1
  <2>3. taken <= Len(length)
    BY <1>0 DEF Layout
  <2>4. PICK place \in [taken + 1 .. Len(length) + 1 -> Int] : Lies(place)
    BY <1>0 DEF Layout
  <2>5. ASSUME NEW n \in taken + 1 .. Len(length), NEW i \in 1 .. FrameSize(length[n])
        PROVE  Ahead(place[n] + i)'.frame = n /\ Ahead(place[n] + i)'.pos = i
    <3>1. place[n] + i \in 1 .. used + Len(wire)
      BY <1>0, <2>3, <2>4, PlaceBounds
    <3>2. Ahead(place[n] + i).frame = n /\ Ahead(place[n] + i).pos = i
      BY <2>4 DEF Lies
    <3>3. QED
      BY <2>1, <3>1, <3>2
  <2>6. Lies(place)'
    BY <1>1, <2>2, <2>4, <2>5 DEF Lies
  <2>7. Layout'
    BY <1>1, <2>3, <2>4, <2>6 DEF Layout
  <2>8. OneFrame'
    <3>1. SUFFICES ASSUME waits
                   PROVE  Len(length) <= taken + 1 /\ \A j \in 1 .. used' : ~At(j)'.plain
      BY <1>1 DEF OneFrame
    <3>2. Len(length) <= taken + 1 /\ \A j \in 1 .. used : ~At(j).plain
      BY <1>0, <3>1 DEF OneFrame
    <3>3. \A j \in 1 .. Len(wire) : ~wire[j].plain
      BY <1>0 DEF IInv, Known
    <3>4. ASSUME NEW j \in 1 .. used' PROVE ~At(j)'.plain
      <4>1. CASE j <= used
        <5>1. j \in 1 .. used /\ At(j)' = At(j)
          BY <1>2, <2>1, <4>1
        <5>2. QED
          BY <3>2, <5>1
      <4>2. CASE ~(j <= used)
        <5>1. j - used \in 1 .. Len(wire) /\ At(j)' = wire[j - used]
          BY <1>2, <2>1, <4>2
        <5>2. QED
          BY <3>3, <5>1
      <4>3. QED
        BY <4>1, <4>2
    <3>5. QED
      BY <3>2, <3>4
  <2>9. QED
    BY <1>0, <1>1, <2>7, <2>8 DEF LengthsIntact
<1>4. CASE ~(Slot(write_p) + len <= Size)
  <2>1. outside'
    BY <1>4 DEF Recv
  <2>2. QED
    BY <1>0, <1>1, <2>1 DEF Layout, OneFrame, LengthsIntact, Followed
<1>5. QED
  BY <1>3, <1>4

\* After seek_read every byte is closer by the length of the frame.
LEMMA TakeAhead ==
  ASSUME IInv, TakeMessage
  PROVE  /\ message_len \in Nat /\ message_len <= used /\ used' = used - message_len
         /\ wire' = wire
         /\ \A j \in 1 .. used' + Len(wire) :
              /\ Ahead(j)'.frame = Ahead(message_len + j).frame
              /\ Ahead(j)'.pos = Ahead(message_len + j).pos
<1> DEFINE len == message_len
<1>1. /\ IsLength /\ len <= used /\ read_p' = Advance(read_p, len)
      /\ UNCHANGED <<wire, write_p>>
      /\ buf' = xor_decrypt(len) \/ buf' = buf
  BY DEF TakeMessage, seek_read
<1>2. len \in Nat /\ len \in 0 .. Size
  BY TakeShrinks, IndexAssumption
<1> HIDE DEF len
<1>3. /\ write_p \in Index /\ read_p \in Index /\ read_p \in Int /\ used \in Nat
      /\ Len(wire) \in Nat /\ buf \in [0 .. Size - 1 -> Stored]
  BY Facts DEF Index
<1>4. used' = used - len
  <2>1. len <= Used(write_p, read_p)
    BY <1>1 DEF used
  <2>2. QED
    BY <1>1, <1>2, <1>3, <2>1, UsedAfterRead DEF used
<1>5. \A s \in 0 .. Size - 1 : buf'[s].frame = buf[s].frame /\ buf'[s].pos = buf[s].pos
  <2>1. CASE buf' = xor_decrypt(len)
    <3>1. len \in Int
      BY <1>2
    <3>2. \A s \in 0 .. Size - 1 :
            xor_decrypt(len)[s].frame = buf[s].frame /\ xor_decrypt(len)[s].pos = buf[s].pos
      BY <1>3, <3>1, DecryptType
    <3>3. QED
      BY <2>1, <3>2
  <2>2. QED
    BY <1>1, <2>1
<1>6. ASSUME NEW j \in 1 .. used' + Len(wire)
      PROVE  Ahead(j)'.frame = Ahead(len + j).frame /\ Ahead(j)'.pos = Ahead(len + j).pos
  <2>1. CASE j <= used'
    <3>1. /\ j - 1 \in Int /\ read_p' + j - 1 = read_p' + (j - 1)
          /\ read_p + len + (j - 1) = read_p + (len + j) - 1 /\ read_p + len + (j - 1) \in Int
          /\ len + j <= used
      <4>1. read_p' \in Int
        BY <1>1, <1>2, <1>3, AdvanceType DEF Index
      <4>2. QED
        BY <1>2, <1>3, <1>4, <2>1, <4>1
    <3>2. Slot(read_p' + j - 1) = Slot(read_p + (len + j) - 1)
      BY <1>1, <1>2, <1>3, <3>1, SlotOfAdvance
    <3>3. Slot(read_p + (len + j) - 1) \in 0 .. Size - 1
      <4>1. Slot(read_p + len + (j - 1)) \in 0 .. Size - 1
        BY <3>1, SlotType
      <4>2. QED
        BY <3>1, <4>1
    <3>4. Ahead(j)' = buf'[Slot(read_p + (len + j) - 1)]
      BY <2>1, <3>2 DEF Ahead, At
    <3>5. Ahead(len + j) = buf[Slot(read_p + (len + j) - 1)]
      BY <3>1 DEF Ahead, At
    <3>6. QED
      BY <1>5, <3>3, <3>4, <3>5
  <2>2. CASE ~(j <= used')
    <3>1. ~(len + j <= used) /\ (len + j) - used = j - used'
      BY <1>2, <1>3, <1>4, <2>2
    <3>2. Ahead(j)' = wire[j - used']
      BY <1>1, <2>2 DEF Ahead
    <3>3. Ahead(len + j) = wire[(len + j) - used]
      BY <3>1 DEF Ahead
    <3>4. QED
      BY <3>1, <3>2, <3>3
  <2>3. QED
    BY <2>1, <2>2
<1>7. QED
  BY <1>1, <1>2, <1>4, <1>6 DEF len

\* A message leaves the read index at the next frame.
LEMMA TakeLayout ==
  ASSUME LInv, LenCovers = "frame", Followed, TakeMessage
  PROVE  Layout' /\ OneFrame' /\ LengthsIntact'
<1> DEFINE len == message_len
<1>0. IInv /\ Layout /\ OneFrame /\ LengthsIntact
  BY DEF LInv
<1>1. /\ taken' = taken + 1 /\ UNCHANGED <<waits, length, misread>> /\ used >= LenField
  BY DEF TakeMessage
<1>l. ~outside' => len >= LenField
  <2>1. ~outside' => LenField + len >= CrcField
    BY DEF TakeMessage, StaysInside
  <2>2. len \in 0 .. Size /\ Size \in Nat
    BY <1>0, TakeShrinks, IndexAssumption
  <2> HIDE DEF len
  <2>3. QED
    BY <2>1, <2>2 DEF LenField, CrcField
<1>a. CASE outside'
  BY <1>0, <1>1, <1>a DEF Layout, OneFrame, LengthsIntact, Followed
<1>b. SUFFICES ASSUME ~outside' PROVE Layout' /\ OneFrame' /\ LengthsIntact'
  BY <1>a
<1>2. /\ used \in Nat /\ Len(wire) \in Nat /\ Len(length) \in Nat /\ taken \in Nat
      /\ \A n \in 1 .. Len(length) :
           /\ length[n] \in Lengths
           /\ FrameSize(length[n]) \in Nat /\ FrameSize(length[n]) >= 2
  BY <1>0, Facts
<1>3. /\ taken + 1 \in 1 .. Len(length)
      /\ \A i \in 1 .. FrameSize(length[taken + 1]) : Ahead(i).frame = taken + 1 /\ Ahead(i).pos = i
  BY <1>0, <1>1, <1>2, FirstFrame DEF LenField
<1>4. len = FrameSize(length[taken + 1])
  <2>1. 1 \in 1 .. FrameSize(length[taken + 1]) /\ 1 <= used
    BY <1>1, <1>2, <1>3, IndexAssumption DEF LenField
  <2>2. Ahead(1) = At(1)
    BY <2>1 DEF Ahead
  <2>3. len = length[taken + 1]
    BY <1>3, <2>1, <2>2 DEF message_len
  <2>4. QED
    BY <1>2, <1>3, <1>b, <1>l, <2>3, LengthType
<1>5. /\ len \in Nat /\ len <= used /\ used' = used - len /\ wire' = wire
      /\ \A j \in 1 .. used' + Len(wire) :
           Ahead(j)'.frame = Ahead(len + j).frame /\ Ahead(j)'.pos = Ahead(len + j).pos
  BY <1>0, TakeAhead
<1>6. PICK size : size = len
  OBVIOUS
<1> HIDE DEF len
<1>7. PICK place \in [taken + 1 .. Len(length) + 1 -> Int] : Lies(place)
  BY <1>0 DEF Layout
<1>8. /\ place[taken + 1] = 0 /\ place[Len(length) + 1] = used + Len(wire)
      /\ \A n \in taken + 1 .. Len(length) : place[n + 1] = place[n] + FrameSize(length[n])
      /\ \A m, n \in taken + 1 .. Len(length) + 1 : m <= n => place[m] <= place[n]
      /\ \A n \in taken + 1 .. Len(length) : \A i \in 1 .. FrameSize(length[n]) :
           Ahead(place[n] + i).frame = n /\ Ahead(place[n] + i).pos = i
  BY <1>7 DEF Lies
<1>9. place[taken + 2] = size
  <2>1. taken + 1 \in taken + 1 .. Len(length) /\ (taken + 1) + 1 = taken + 2
    BY <1>2, <1>3
  <2>2. place[taken + 2] = 0 + len
    BY <1>4, <1>8, <2>1
  <2>3. QED
    BY <1>5, <1>6, <2>2
<1>10. PICK next \in [taken + 2 .. Len(length) + 1 -> Int] :
         \A n \in taken + 2 .. Len(length) + 1 : next[n] = place[n] - size
  <2> DEFINE f == [n \in taken + 2 .. Len(length) + 1 |-> place[n] - size]
  <2>1. f \in [taken + 2 .. Len(length) + 1 -> Int]
    BY <1>2, <1>5, <1>6, <1>7
  <2>2. QED
    BY <2>1
<1>11. next[taken + 2] = 0 /\ next[Len(length) + 1] = used' + Len(wire)
  <2>1. taken + 2 \in taken + 2 .. Len(length) + 1 /\ Len(length) + 1 \in taken + 2 .. Len(length) + 1
    BY <1>2, <1>3
  <2>2. next[taken + 2] = size - size /\ next[Len(length) + 1] = (used + Len(wire)) - size
    BY <1>8, <1>9, <1>10, <2>1
  <2>3. used \in Nat /\ Len(wire) \in Nat /\ size \in Nat /\ used' = used - size
    BY <1>2, <1>5, <1>6
  <2>4. QED
    BY <2>2, <2>3
<1>12. ASSUME NEW n \in taken + 2 .. Len(length)
       PROVE  next[n + 1] = next[n] + FrameSize(length[n])
  <2>1. /\ n \in taken + 1 .. Len(length) /\ n \in taken + 2 .. Len(length) + 1
        /\ n + 1 \in taken + 2 .. Len(length) + 1 /\ n \in 1 .. Len(length)
        /\ n \in taken + 1 .. Len(length) + 1
    BY <1>2
  <2>2. place[n] \in Int /\ FrameSize(length[n]) \in Nat /\ size \in Nat
    BY <1>2, <1>5, <1>6, <1>7, <2>1
  <2>3. /\ place[n + 1] = place[n] + FrameSize(length[n])
        /\ next[n] = place[n] - size /\ next[n + 1] = place[n + 1] - size
    BY <1>8, <1>10, <2>1
  <2>4. QED
    BY <2>2, <2>3
<1>13. ASSUME NEW m \in taken + 2 .. Len(length) + 1, NEW n \in taken + 2 .. Len(length) + 1, m <= n
       PROVE  next[m] <= next[n]
  <2>1. m \in taken + 1 .. Len(length) + 1 /\ n \in taken + 1 .. Len(length) + 1
    BY <1>2
  <2>2. place[m] \in Int /\ place[n] \in Int /\ size \in Nat /\ place[m] <= place[n]
    BY <1>5, <1>6, <1>7, <1>8, <1>13, <2>1
  <2>3. QED
    BY <1>10, <2>2
<1>14. ASSUME NEW n \in taken + 2 .. Len(length), NEW i \in 1 .. FrameSize(length[n])
       PROVE  Ahead(next[n] + i)'.frame = n /\ Ahead(next[n] + i)'.pos = i
  <2>1. /\ n \in taken + 1 .. Len(length) /\ n \in taken + 2 .. Len(length) + 1
        /\ n \in taken + 1 .. Len(length) + 1 /\ taken + 2 \in taken + 1 .. Len(length) + 1
        /\ taken + 2 <= n
    BY <1>2
  <2>2. place[n] + i \in 1 .. used + Len(wire) /\ place[n] \in Int /\ size <= place[n]
    BY <1>0, <1>3, <1>7, <1>8, <1>9, <2>1, PlaceBounds DEF Layout
  <2>3. next[n] = place[n] - size /\ size \in Nat
    BY <1>5, <1>6, <1>10, <2>1
  <2>4. size + (next[n] + i) = place[n] + i /\ next[n] + i \in 1 .. used' + Len(wire)
    <3>1. i \in Nat /\ i >= 1 /\ place[n] + i <= used + Len(wire) /\ next[n] \in Int
      <4>1. n \in 1 .. Len(length)
        BY <1>2
      <4>2. FrameSize(length[n]) \in Nat
        BY <1>2, <4>1
      <4>3. QED
        BY <2>2, <2>3, <4>2
    <3>2. used' = used - size
      BY <1>5, <1>6
    <3>3. ASSUME NEW p \in Int, NEW u \in Nat, NEW l \in Nat, NEW k \in Nat, NEW z \in Nat,
                 k >= 1, z <= p, p + k <= u + l
          PROVE  /\ z + ((p - z) + k) = p + k
                 /\ (p - z) + k \in 1 .. (u - z) + l
      BY <3>3
    <3>4. /\ place[n] \in Int /\ used \in Nat /\ Len(wire) \in Nat /\ i \in Nat /\ size \in Nat
          /\ i >= 1 /\ size <= place[n] /\ place[n] + i <= used + Len(wire)
      BY <1>2, <2>2, <2>3, <3>1
    <3>5. /\ size + ((place[n] - size) + i) = place[n] + i
          /\ (place[n] - size) + i \in 1 .. (used - size) + Len(wire)
      BY <3>3, <3>4, Zenon
    <3>6. QED
      BY <2>3, <3>2, <3>5, Zenon
  <2>5. Ahead(size + (next[n] + i)).frame = n /\ Ahead(size + (next[n] + i)).pos = i
    BY <1>8, <2>1, <2>4
  <2>6. QED
    BY <1>5, <1>6, <2>4, <2>5
<1>15. Layout'
  <2>1. /\ taken' + 1 = taken + 2 /\ length' = length /\ wire' = wire
        /\ taken + 1 <= Len(length)
    BY <1>1, <1>2, <1>3, <1>5
  <2>2. Lies(next)'
    BY <1>11, <1>12, <1>13, <1>14, <2>1 DEF Lies
  <2>3. QED
    BY <1>1, <1>10, <2>1, <2>2 DEF Layout
<1>16. OneFrame'
  <2>1. SUFFICES ASSUME waits
                 PROVE  Len(length) <= taken + 2 /\ \A j \in 1 .. used' : ~At(j)'.plain
    BY <1>1, <1>2 DEF OneFrame
  <2>2. Len(length) = taken + 1
    BY <1>0, <1>2, <1>3, <2>1 DEF OneFrame
  <2>3. used' + Len(wire) = 0
    BY <1>2, <1>11, <2>2
  <2>4. used' = 0
    BY <1>2, <1>5, <2>3
  <2>5. QED
    BY <1>2, <2>2, <2>4
<1>17. QED
  BY <1>0, <1>1, <1>15, <1>16 DEF LengthsIntact

\* The length field the loop finds is whole and as it was sent, when the
\* peer waits.
LEMMA MisreadNever ==
  ASSUME LInv, Followed, waits, used >= LenField
  PROVE  IsLength
<1>0. IInv /\ Layout /\ OneFrame
  BY DEF LInv
<1>1. /\ write_p \in Index /\ read_p \in Index /\ read_p \in Int /\ used \in Nat /\ used <= Size
      /\ buf \in [0 .. Size - 1 -> Stored] /\ taken \in Nat
      /\ \A n \in 1 .. Len(length) : FrameSize(length[n]) \in Nat /\ FrameSize(length[n]) >= 2
  BY <1>0, Facts DEF Index
<1>2. /\ taken + 1 \in 1 .. Len(length)
      /\ \A i \in 1 .. FrameSize(length[taken + 1]) : Ahead(i).frame = taken + 1 /\ Ahead(i).pos = i
  BY <1>0, <1>1, FirstFrame DEF LenField
<1>3. ASSUME NEW i \in 1 .. LenField
      PROVE  /\ At(i) = [frame |-> taken + 1, pos |-> i, plain |-> FALSE]
             /\ At(i).frame = taken + 1
  <2>1. i \in 1 .. FrameSize(length[taken + 1]) /\ i <= used /\ i \in 1 .. used /\ i - 1 \in Int
    BY <1>1, <1>2, IndexAssumption DEF LenField
  <2>2. At(i).frame = taken + 1 /\ At(i).pos = i
    BY <1>2, <2>1 DEF Ahead
  <2>3. ~At(i).plain
    BY <1>0, <2>1 DEF OneFrame
  <2>4. At(i) \in Stored
    <3>1. read_p + i - 1 \in Int
      BY <1>1, <2>1
    <3>2. QED
      BY <1>1, <3>1, SlotType DEF At
  <2>5. At(i) \in Byte
    BY <1>1, <2>2, <2>4 DEF Stored
  <2>6. At(i) = [frame |-> At(i).frame, pos |-> At(i).pos, plain |-> At(i).plain]
    BY <2>5 DEF Byte
  <2>7. At(i).plain = FALSE
    BY <2>3, <2>5 DEF Byte
  <2>8. QED
    BY <2>2, <2>6, <2>7
<1>4. 1 \in 1 .. LenField /\ taken + 1 # 0
  BY <1>1 DEF LenField
<1>5. QED
  BY <1>3, <1>4 DEF IsLength

\* What neither the ring nor the wire sees changes nothing of the layout.
LEMMA SameLayout ==
  ASSUME LInv, UNCHANGED <<waits, length, wire, buf, write_p, read_p, taken, outside, misread>>
  PROVE  Layout' /\ OneFrame' /\ LengthsIntact'
BY DEF LInv, Layout, OneFrame, LengthsIntact, Lies, Ahead, At, used, Followed

LEMMA StepLInv == LenCovers = "frame" /\ LInv /\ [Next]_vars => LInv'
<1> SUFFICES ASSUME LenCovers = "frame", LInv, [Next]_vars PROVE LInv'
  OBVIOUS
<1>1. IInv'
  BY StepIInv DEF LInv
<1>2. Layout' /\ OneFrame' /\ LengthsIntact'
  <2>1. ASSUME Followed, NEW len \in Lengths, SendFrame(len)
        PROVE  Layout' /\ OneFrame' /\ LengthsIntact'
    BY <2>1, SendLayout
  <2>2. ASSUME Followed, NEW len \in 1 .. Size, Recv(len)
        PROVE  Layout' /\ OneFrame' /\ LengthsIntact'
    BY <2>2, RecvLayout
  <2>3. CASE LeaveLoop
    BY <2>3, SameLayout DEF LeaveLoop, ring
  <2>4. CASE Followed /\ TakeMessage
    BY <2>4, TakeLayout
  <2>5. CASE Followed /\ Misread
    <3>1. ~waits
      BY <2>5, MisreadNever DEF Misread
    <3>2. QED
      BY <2>5, <3>1 DEF Misread, Layout, OneFrame, LengthsIntact, Followed
  <2>6. CASE Fetch
    BY <2>6, SameLayout DEF Fetch, ring
  <2>7. CASE UNCHANGED vars
    BY <2>7, SameLayout DEF vars, ring
  <2>8. QED
    BY <2>1, <2>2, <2>3, <2>4, <2>5, <2>6, <2>7 DEF Next, Loop
<1>3. QED
  BY <1>1, <1>2 DEF LInv

LEMMA LayoutHolds ==
  ASSUME LenCovers = "frame"
  PROVE  Spec => []LInv
BY InitLInv, StepLInv, PTL DEF Spec

(***************************************************************************)
(* With peers whose length field counts itself, the loop of on_read stands *)
(* at the first byte of the next frame whenever it looks for one: whatever *)
(* the sizes of the frames, wherever TCP cuts the stream and however often *)
(* the indices have wrapped.  With peers that count as                     *)
(* transform_buffer_to_message does, TLC shows that it does not.           *)
(***************************************************************************)
THEOREM AlignedHolds ==
  ASSUME LenCovers = "frame"
  PROVE  Spec => []Aligned
<1>1. LInv => Aligned
  <2> SUFFICES ASSUME LInv, Followed, used > 0
               PROVE  At(1).frame = taken + 1 /\ At(1).pos = 1
    BY DEF Aligned
  <2>1. IInv /\ Layout
    BY DEF LInv
  <2>2. /\ taken + 1 \in 1 .. Len(length)
        /\ \A i \in 1 .. FrameSize(length[taken + 1]) : Ahead(i).frame = taken + 1 /\ Ahead(i).pos = i
    BY <2>1, FirstFrame
  <2>3. used \in Nat /\ FrameSize(length[taken + 1]) \in Nat /\ FrameSize(length[taken + 1]) >= 2
    BY <2>1, <2>2, Facts
  <2>4. 1 \in 1 .. FrameSize(length[taken + 1]) /\ Ahead(1) = At(1)
    BY <2>3, IndexAssumption DEF Ahead
  <2>5. QED
    BY <2>2, <2>4
<1>2. QED
  BY <1>1, LayoutHolds, PTL

(***************************************************************************)
(* With such peers, when each also waits until a frame has been taken, no  *)
(* length is ever read that was not sent: the two bytes xor_decrypt turns  *)
(* over behind a frame are never those of the next.                        *)
(***************************************************************************)
THEOREM LengthsIntactHolds ==
  ASSUME LenCovers = "frame"
  PROVE  Spec => []LengthsIntact
<1>1. LInv => LengthsIntact
  BY DEF LInv
<1>2. QED
  BY <1>1, LayoutHolds, PTL

-----------------------------------------------------------------------------
(***************************************************************************)
(* The other direction of the session: WritePath, for every set of         *)
(* messages and of sizes.                                                  *)
(***************************************************************************)
\* Behind the test of the write buffer the event is added, and the message of
\* a running call is one.
EventFirst ==
  /\ logic = "push" => ev_added
  /\ logic # "idle" => msg \in Messages

\* on_write never gets a message into the buffer, since it allows it the
\* message's own size and the header needs more.
NothingWritten == write_used = 0

WriteInv ==
  /\ WriteTypeOK
  /\ NoLostWakeup
  /\ EventFirst
  /\ NothingWritten

LEMMA InitWriteInv ==
  ASSUME WriteInit
  PROVE  WriteInv
<1>1. write_queue = <<>> /\ Len(write_queue) <= QueueLen
  BY SessionQueueAssumption DEF WriteInit
<1>2. WriteTypeOK
  <2>1. write_queue \in Seq(Messages) /\ write_used \in 0 .. BufSize
    BY <1>1, WriteAssumption, EmptySeq DEF WriteInit
  <2>2. QED
    BY <1>1, <2>1 DEF WriteInit, WriteTypeOK
<1>3. QED
  BY <1>1, <1>2 DEF WriteInit, NoLostWakeup, EventFirst, NothingWritten, WriteInv

\* What on_write makes of a message, whatever size it reads.
LEMMA NoRoomForMessage ==
  ASSUME NEW size \in Sizes
  PROVE  transform_message_to_buffer(size, BufLen(size)) = 0
BY WriteAssumption DEF transform_message_to_buffer, BufLen, HeaderLen

LEMMA StepWriteInv ==
  ASSUME WriteInv, [WriteNext]_write_vars
  PROVE  WriteInv'
<1> USE DEF WriteInv, WriteTypeOK, NoLostWakeup, EventFirst, NothingWritten
<1>1. ASSUME NEW m \in Messages, BeginSend(m)
      PROVE  WriteInv'
  BY <1>1 DEF BeginSend
<1>2. CASE TestBuffer
  BY <1>2 DEF TestBuffer, MustAdd
<1>3. CASE add_write_event
  BY <1>3 DEF add_write_event
<1>4. CASE PushMessage
  <2>1. ev_added' /\ msg \in Messages
    BY <1>4 DEF PushMessage
  <2>2. write_queue' \in Seq(Messages) /\ Len(write_queue') <= QueueLen
    BY <1>4, <2>1, SessionQueueAssumption DEF PushMessage, push_back
  <2>3. QED
    BY <1>4, <2>1, <2>2 DEF PushMessage
<1>5. CASE StartSelect
  BY <1>5 DEF StartSelect
<1>6. CASE Writable
  BY <1>6 DEF Writable
<1>7. CASE OtherEvent
  BY <1>7 DEF OtherEvent
<1>8. CASE FetchMessage
  <2>1. write_used' = 0
    BY <1>8, NoRoomForMessage DEF FetchMessage
  <2>2. /\ write_queue # <<>>
        /\ write_queue' = Tail(write_queue)
    BY <1>8 DEF FetchMessage
  <2>3. /\ write_queue' \in Seq(Messages)
        /\ Len(write_queue') <= QueueLen
    BY <2>2, SessionQueueAssumption
  <2>4. 0 \in 0 .. BufSize
    BY WriteAssumption
  <2>5. QED
    BY <1>8, <2>1, <2>2, <2>3, <2>4 DEF FetchMessage
<1>9. CASE FetchNothing
  BY <1>9 DEF FetchNothing
<1>10. CASE Crash
  BY <1>10 DEF Crash
<1>11. CASE Send
  <2>1. ev_added' = ev_added
    BY <1>11 DEF Send, Drained
  <2>2. QED
    BY <1>11, <2>1 DEF Send
<1>12. CASE UNCHANGED write_vars
  BY <1>12 DEF write_vars
<1>13. QED
  BY <1>1, <1>2, <1>3, <1>4, <1>5, <1>6, <1>7, <1>8, <1>9, <1>10, <1>11, <1>12
     DEF WriteNext, Logic, LogicCall, Net

LEMMA WriteInvHolds ==
  WriteSpec => []WriteInv
BY InitWriteInv, StepWriteInv, PTL DEF WriteSpec

(***************************************************************************)
(* The types of WritePath.                                                 *)
(***************************************************************************)
THEOREM WriteTypeCorrect ==
  WriteSpec => []WriteTypeOK
BY WriteInvHolds, PTL DEF WriteInv

(***************************************************************************)
(* No message waits without the write event, for any number of messages,   *)
(* although push_to_writequeue adds the event before it pushes and on_write *)
(* may run in between: on_write only deletes the event once it has sent    *)
(* something, and it never has anything to send.                           *)
(***************************************************************************)
THEOREM NoLostWakeupHolds ==
  WriteSpec => []NoLostWakeup
BY WriteInvHolds, PTL DEF WriteInv

-----------------------------------------------------------------------------
(***************************************************************************)
(* Both directions together.                                               *)
(***************************************************************************)
(***************************************************************************)
(* Sharing the two threads, each direction still does only what it does    *)
(* alone: every step of NetSession is a step of ReadPath or none, and a    *)
(* step of WritePath or none.  So all that is proved of either holds.      *)
(***************************************************************************)
THEOREM SessionImplementsPaths == SessionSpec => Spec /\ WriteSpec
<1>1. SessionInit => Init /\ WriteInit
  BY DEF SessionInit
<1>2. ASSUME [SessionNext]_session_vars
      PROVE  [Next]_vars /\ [WriteNext]_write_vars
  <2>1. CASE UNCHANGED session_vars
    BY <2>1 DEF session_vars
  <2>2. CASE SessionNext
    <3>1. [Next]_vars
      BY <2>2 DEF SessionNext, Running, Next, Loop, NetThread, Select, EnterOnRead,
         TurnOfOnRead, ReturnFromOnRead, EnterOnWrite, TurnOfOnWrite, OtherSocket,
         FetchFromRead, SendCall, BeginSendCall, PeerSends
    <3>2. [WriteNext]_write_vars
      BY <2>2 DEF SessionNext, Running, WriteNext, Logic, Net, NetThread, Select,
         EnterOnRead, TurnOfOnRead, ReturnFromOnRead, EnterOnWrite, TurnOfOnWrite,
         OtherSocket, FetchFromRead, SendCall, BeginSendCall, PeerSends
    <3>3. QED
      BY <3>1, <3>2
  <2>3. QED
    BY <1>2, <2>1, <2>2
<1>3. QED
  BY <1>1, <1>2, PTL DEF SessionSpec, Spec, WriteSpec

(***************************************************************************)
(* on_read only runs where select has returned, so never during on_write.  *)
(***************************************************************************)
THEOREM OneCallbackHolds == SessionSpec => []OneCallback
<1>1. SessionInit => OneCallback
  BY DEF SessionInit, Init, OneCallback
<1>2. ASSUME OneCallback, [SessionNext]_session_vars
      PROVE  OneCallback'
  <2>1. CASE UNCHANGED session_vars
    BY <1>2, <2>1 DEF OneCallback, session_vars, vars, write_vars
  <2>2. CASE NetThread
    <3>1. CASE Select
      BY <1>2, <3>1 DEF OneCallback, Select, StartSelect, vars
    <3>2. CASE EnterOnRead
      BY <3>2 DEF OneCallback, EnterOnRead, SelectReturned, write_vars
    <3>3. CASE TurnOfOnRead
      BY <1>2, <3>3 DEF OneCallback, TurnOfOnRead, TakeMessage, Misread, write_vars
    <3>4. CASE ReturnFromOnRead
      BY <3>4 DEF OneCallback, ReturnFromOnRead, LeaveLoop
    <3>5. CASE EnterOnWrite
      BY <3>5 DEF OneCallback, EnterOnWrite, vars
    <3>6. CASE TurnOfOnWrite
      BY <1>2, <3>6 DEF OneCallback, TurnOfOnWrite, FetchMessage, FetchNothing, Send, vars
    <3>7. QED
      BY <2>2, <3>1, <3>2, <3>3, <3>4, <3>5, <3>6 DEF NetThread
  <2>3. CASE OtherSocket
    BY <2>3 DEF OneCallback, OtherSocket, vars
  <2>4. CASE Crash /\ UNCHANGED vars
    BY <1>2, <2>4 DEF OneCallback, Crash, vars
  <2>5. CASE FetchFromRead
    BY <1>2, <2>5 DEF OneCallback, FetchFromRead, Fetch, write_vars
  <2>6. CASE SendCall
    BY <1>2, <2>6
       DEF OneCallback, SendCall, LogicCall, TestBuffer, add_write_event, PushMessage, vars
  <2>7. CASE BeginSendCall
    BY <1>2, <2>7 DEF OneCallback, BeginSendCall, BeginSend, vars
  <2>8. CASE PeerSends
    BY <1>2, <2>8 DEF OneCallback, PeerSends, SendFrame, write_vars
  <2>9. QED
    BY <1>2, <2>1, <2>2, <2>3, <2>4, <2>5, <2>6, <2>7, <2>8 DEF SessionNext
<1>3. QED
  BY <1>1, <1>2, PTL DEF SessionSpec

(***************************************************************************)
(* In the composition the types hold and one callback runs at a time.      *)
(***************************************************************************)
THEOREM SessionTypeCorrect == SessionSpec => []SessionTypeOK
<1>1. SessionSpec => []TypeOK /\ []WriteTypeOK /\ []OneCallback
  BY SessionImplementsPaths, TypeCorrect, WriteTypeCorrect, OneCallbackHolds, PTL
<1>2. TypeOK /\ WriteTypeOK /\ OneCallback => SessionTypeOK
  BY DEF SessionTypeOK
<1>3. QED
  BY <1>1, <1>2, PTL

(***************************************************************************)
(* In the composition a full ring still means a length that exceeds it,    *)
(* and no message waits without the write event; with peers that count as  *)
(* on_read does the loop keeps to the boundaries of frames.                *)
(***************************************************************************)
THEOREM SessionSafe ==
  /\ SessionSpec => [](StoppedByLength /\ NoLostWakeup)
  /\ LenCovers = "frame" => (SessionSpec => [](Aligned /\ LengthsIntact))
<1>1. SessionSpec => [](StoppedByLength /\ NoLostWakeup)
  BY SessionImplementsPaths, StoppedByLengthHolds, NoLostWakeupHolds, PTL
<1>2. ASSUME LenCovers = "frame"
      PROVE  SessionSpec => [](Aligned /\ LengthsIntact)
  BY <1>2, SessionImplementsPaths, AlignedHolds, LengthsIntactHolds, PTL
<1>3. QED
  BY <1>1, <1>2
=============================================================================
