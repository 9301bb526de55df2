------------------------------- MODULE ReadPath -------------------------------
(***************************************************************************)
(* How the bytes of a connection become messages: on_read of               *)
(* src/src/main.c and transform_buffer_to_message of                       *)
(* src/src/leo_tcp_game_protocol.c, working in place in the session's read *)
(* ring, while the peer keeps sending and the logic thread takes messages. *)
(*                                                                         *)
(* A byte is known by the frame it belongs to, its position in it, and     *)
(* whether it is as the peer sent it: xor_decrypt turns a byte over in     *)
(* place, and back when it meets it again.  The first two bytes of a frame *)
(* are its length field.                                                   *)
(*                                                                         *)
(* recv, xor_decrypt and check_crc32 are handed a pointer into the ring    *)
(* and a length, and know nothing of its end.  What happens after one of   *)
(* them has run past the array, or after a length was read that no peer    *)
(* sent, is not followed.  A frame too short for a crc32 is such a run:    *)
(* check_crc32 takes 4 from an unsigned length of 2 or 3.                  *)
(***************************************************************************)
EXTENDS RingIndex, SessionQueue

CONSTANTS
  LenCovers,   \* what a peer counts in the length field: the "frame" with the
               \* field itself, as seek_read takes it, or its "body" without
               \* it, as transform_buffer_to_message takes it
  Lengths,     \* the lengths peers send, any 16 bits: on_read only compares one
               \* with used(), so it may be longer than the ring, or nothing
  MaxFrames    \* bound: the frames a peer sends, and on_read takes

LenField == 2   \* sizeof(unsigned short)
CrcField == 4   \* sizeof(unsigned int)

ASSUME ReadAssumption ==
  /\ LenCovers \in {"frame", "body"}
  /\ Lengths \subseteq Nat
  /\ LenField <= Size
  /\ MaxFrames \in Nat

Frames == 1 .. MaxFrames

VARIABLES
  waits,         \* whether the peer waits for a frame to be taken before it
                 \* sends the next
  length,        \* the length field of every frame sent so far
  wire,          \* bytes under way, oldest first
  buf,           \* the read buffer's array
  write_p,       \* its indices
  read_p,
  pc,            \* on_read: "idle", or "parse" inside its loop
  sequence_id,   \* __crypt.sequence_id
  taken,         \* messages on_read has made
  read_queue,    \* __read_queue; a message is known by its number
  outside,       \* memory past the end of the array was used
  misread        \* a length was read that no peer sent

ring == <<buf, write_p, read_p>>
vars == <<waits, length, wire, ring, pc, sequence_id, taken, read_queue, outside, misread>>

Byte == [frame : Frames, pos : Nat \ {0}, plain : BOOLEAN]
Stale == [frame |-> 0, pos |-> 0, plain |-> FALSE]
Stored == Byte \union [frame : {0}, pos : {0}, plain : BOOLEAN]

\* The field itself is there whatever it says.
FrameSize(len) ==
  IF LenCovers = "body" THEN LenField + len ELSE IF len < LenField THEN LenField ELSE len

used == Used(write_p, read_p)
available == Available(write_p, read_p)
At(i) == buf[Slot(read_p + i - 1)]
Flip(b) == [b EXCEPT !.plain = ~@]

(***************************************************************************)
(* The peer.                                                               *)
(***************************************************************************)
SendFrame(len) ==
  LET frame == Len(length) + 1
  IN /\ frame \in Frames
     /\ waits => taken = Len(length)
     /\ length' = Append(length, len)
     /\ wire' = wire \o
          [i \in 1 .. FrameSize(len) |-> [frame |-> frame, pos |-> i, plain |-> FALSE]]
     /\ UNCHANGED <<waits, ring, pc, sequence_id, taken, read_queue, outside, misread>>

(***************************************************************************)
(* on_read: recv up to available() bytes to write_p(), and seek_write.     *)
(* TCP delivers any prefix of what is under way.                           *)
(***************************************************************************)
Faulty_recv_len == Size
recv_len == available

Recv(len) ==
  /\ pc = "idle"
  /\ len \in 1 .. Len(wire)
  /\ len <= recv_len
  /\ IF Slot(write_p) + len <= Size
     THEN /\ buf' = [s \in DOMAIN buf |->
                IF s - Slot(write_p) \in 0 .. len - 1
                THEN wire[s - Slot(write_p) + 1] ELSE buf[s]]
          /\ UNCHANGED outside
     ELSE /\ outside' = TRUE
          /\ UNCHANGED buf
  /\ wire' = SubSeq(wire, len + 1, Len(wire))
  /\ write_p' = Advance(write_p, len)
  /\ pc' = "parse"
  /\ UNCHANGED <<waits, length, read_p, sequence_id, taken, read_queue, misread>>

(***************************************************************************)
(* The loop of on_read.                                                    *)
(***************************************************************************)
\* preread_message_size finds a length field, whole and as it was sent.
IsLength ==
  \A i \in 1 .. LenField :
    At(i).frame # 0 /\ At(i) = [frame |-> At(1).frame, pos |-> i, plain |-> FALSE]
message_len == length[At(1).frame]

\* Too few bytes for a length field, or fewer than the length asks for.
Faulty_Incomplete == used < LenField \/ (IsLength /\ message_len >= used)
Incomplete == used < LenField \/ (IsLength /\ message_len > used)

LeaveLoop ==
  /\ pc = "parse"
  /\ Incomplete
  /\ pc' = "idle"
  /\ UNCHANGED <<waits, length, wire, ring, sequence_id, taken, read_queue, outside, misread>>

Misread ==
  /\ pc = "parse"
  /\ used >= LenField /\ ~IsLength
  /\ misread' = TRUE
  /\ UNCHANGED <<waits, length, wire, ring, pc, sequence_id, taken, read_queue, outside>>

\* xor_decrypt starts behind the length field and runs for msg_len bytes.
xor_decrypt(msg_len) ==
  [s \in DOMAIN buf |->
    IF s - Slot(read_p) \in LenField .. LenField + msg_len - 1 THEN Flip(buf[s]) ELSE buf[s]]

\* The bytes check_crc32 is given are those of one frame, in order and
\* decrypted, up to the crc32 that ends it; and the sequence number is the
\* one expected, which the peer counts from 0 as the server does.
Verifies(array, msg_len) ==
  LET frame == At(1).frame
      last == LenField + msg_len
  IN /\ FrameSize(length[frame]) = last
     /\ \A i \in LenField + 1 .. last :
          array[Slot(read_p) + i - 1] = [frame |-> frame, pos |-> i, plain |-> TRUE]
     /\ frame - 1 = sequence_id

Faulty_seek_read(len) == Advance(read_p, len - LenField)
Faulty_seek_read2(len) == read_p
seek_read(len) == Advance(read_p, len)

\* Whether transform_buffer_to_message keeps to the array.
StaysInside(msg_len) ==
  /\ Slot(read_p) + LenField + msg_len <= Size
  /\ LenField + msg_len >= CrcField

\* One turn of the loop: transform_buffer_to_message, whose result is not
\* looked at, seek_read, and push_to_readqueue, whose result is not either.
TakeMessage ==
  /\ pc = "parse"
  /\ used >= LenField /\ IsLength /\ message_len <= used
  /\ taken < MaxFrames
  /\ IF StaysInside(message_len)
     THEN /\ buf' = xor_decrypt(message_len)
          /\ sequence_id' = IF Verifies(buf', message_len) THEN sequence_id + 1 ELSE sequence_id
          /\ UNCHANGED outside
     ELSE /\ outside' = TRUE
          /\ UNCHANGED <<buf, sequence_id>>
  /\ read_p' = seek_read(message_len)
  /\ taken' = taken + 1
  /\ read_queue' = push_back(read_queue, taken')
  /\ UNCHANGED <<waits, length, wire, write_p, pc, misread>>

(***************************************************************************)
(* The logic thread: fetch_from_readqueue.                                 *)
(***************************************************************************)
Fetch ==
  /\ read_queue # <<>>
  /\ read_queue' = Tail(read_queue)
  /\ UNCHANGED <<waits, length, wire, ring, pc, sequence_id, taken, outside, misread>>

Init ==
  /\ waits \in BOOLEAN
  /\ length = <<>>
  /\ wire = <<>>
  /\ buf = [s \in 0 .. Size - 1 |-> Stale]
  /\ write_p = 0
  /\ read_p = 0
  /\ pc = "idle"
  /\ sequence_id = 0
  /\ taken = 0
  /\ read_queue = <<>>
  /\ outside = FALSE
  /\ misread = FALSE

Loop == LeaveLoop \/ TakeMessage \/ Misread
Followed == ~outside /\ ~misread

Next ==
  /\ Followed
  /\ \/ \E len \in Lengths : SendFrame(len)
     \/ \E len \in 1 .. Size : Recv(len)
     \/ Loop
     \/ Fetch

Spec == Init /\ [][Next]_vars

\* on_read, once called, is not interrupted.
FairSpec == Spec /\ WF_vars(Followed /\ Loop)
-----------------------------------------------------------------------------
(***************************************************************************)
(* Properties                                                              *)
(***************************************************************************)
TypeOK ==
  /\ waits \in BOOLEAN
  /\ length \in Seq(Lengths) /\ Len(length) <= MaxFrames
  /\ wire \in Seq(Byte)
  /\ buf \in [0 .. Size - 1 -> Stored]
  /\ write_p \in Index
  /\ read_p \in Index
  /\ used <= Size
  /\ pc \in {"idle", "parse"}
  /\ sequence_id \in 0 .. taken
  /\ taken \in 0 .. MaxFrames
  /\ Len(read_queue) <= QueueLen
  /\ outside \in BOOLEAN
  /\ misread \in BOOLEAN

\* Whenever the loop looks for a length field, it stands at the first byte
\* of the frame after those it has taken, however TCP cut the stream.
Aligned ==
  Followed /\ used > 0 =>
    At(1).frame = taken + 1 /\ At(1).pos = 1

\* With a peer that waits, the length the loop reads is one the peer sent:
\* the two bytes decrypted behind a frame are never those of the next.  With
\* one that does not, they are as soon as TCP delivers them early.
LengthsIntact == waits => ~misread

\* No byte is stored or read beyond the ring's array, however the frames and
\* the pieces TCP delivers lie in it.
InsideArray == ~outside

\* Between two calls of on_read the ring is full only in front of a length that
\* exceeds the ring: from then on recv is asked for 0 bytes, and the connection
\* has stopped for good.  No run of lengths that fit, however TCP cut it, comes
\* to that, a frame that fills the ring to its last byte included.
StoppedByLength ==
  Followed /\ pc = "idle" /\ available = 0 => IsLength /\ message_len > Size

\* on_read returns.
OnReadReturns == pc = "parse" ~> pc = "idle" \/ ~Followed
=============================================================================
