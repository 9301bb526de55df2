----------------------------- MODULE RingBuffer -----------------------------
(***************************************************************************)
(* ring_buffer (src/src/ring_buffer.h, ring_buffer.cpp): the byte ring of  *)
(* a session's read and write sides, shared by one writer and one reader.  *)
(*                                                                         *)
(* The grain is one byte.  A call samples the other side's index when it   *)
(* starts, copies its bytes in any order (memcpy promises none), and then  *)
(* moves its own index; the barriers smp_rmb/smp_mb/smp_wmb keep the three *)
(* stages apart.  kfifo_get and peek_read read __write_p more than once    *)
(* before they copy; __write_p only grows meanwhile, so the last of these  *)
(* reads decides and is the one the model takes.                           *)
(***************************************************************************)
EXTENDS RingIndex, Sequences

CONSTANTS
  Bytes,     \* the values of a byte
  Garbage,   \* what a byte nobody has stored to holds
  MaxLen     \* bound: the longest len a call is made with

ASSUME RingAssumption ==
  /\ Garbage \notin Bytes
  /\ MaxLen \in Nat

VARIABLES
  buf,       \* __ring_buffer
  write_p,   \* __write_p, stored by the writer only
  read_p,    \* __read_p, stored by the reader only
  writing,   \* the writer's running call
  wdata,     \* the bytes it copies, cut to the len it settled on
  wleft,     \* the positions of wdata it still has to copy
  staged,    \* what peek_write has put past write_p and not yet made readable
  reading,   \* the reader's running call
  rdata,     \* the caller's buffer it fills
  rleft,     \* the positions of rdata it still has to fill
  got        \* what the reader's last call handed it

writer == <<writing, wdata, wleft, staged>>
reader == <<reading, rdata, rleft, got>>
vars == <<buf, write_p, read_p, writer, reader>>

Lens == 1 .. MaxLen
Chunks == UNION {[1 .. n -> Bytes] : n \in Lens}

\* The second barrier: the index moves when every byte has been copied.
Faulty_Copied(left) == TRUE
Copied(left) == left = {}

(***************************************************************************)
(* The writer.                                                             *)
(***************************************************************************)
BeginWrite(call, chunk) ==
  /\ writing = "none"
  /\ writing' = call
  /\ wdata' = chunk
  /\ wleft' = DOMAIN chunk
  /\ staged' = <<>>
  /\ UNCHANGED <<buf, write_p, read_p, reader>>

\* kfifo_put writes as much as fits; nothing changes when nothing does.
BeginPut(chunk) ==
  LET len == Lesser(Len(chunk), Available(write_p, read_p))
  IN /\ len > 0
     /\ BeginWrite("put", SubSeq(chunk, 1, len))

\* peek_write writes everything or nothing.
BeginPeekWrite(chunk) ==
  /\ Len(chunk) <= Available(write_p, read_p)
  /\ BeginWrite("peek", chunk)

StoreByte(i) ==
  /\ i \in wleft
  /\ buf' = [buf EXCEPT ![Place(write_p, Len(wdata), i)] = wdata[i]]
  /\ wleft' = wleft \ {i}
  /\ UNCHANGED <<write_p, read_p, writing, wdata, staged, reader>>

EndPut ==
  /\ writing = "put"
  /\ Copied(wleft)
  /\ write_p' = Advance(write_p, Len(wdata))
  /\ writing' = "none"
  /\ wdata' = <<>>
  /\ wleft' = {}
  /\ UNCHANGED <<buf, read_p, staged, reader>>

EndPeekWrite ==
  /\ writing = "peek"
  /\ Copied(wleft)
  /\ staged' = wdata
  /\ writing' = "none"
  /\ wdata' = <<>>
  /\ wleft' = {}
  /\ UNCHANGED <<buf, write_p, read_p, reader>>

\* seek_write; its caller seeks over bytes it has stored there before.
SeekWrite(len) ==
  /\ writing = "none"
  /\ len <= Len(staged)
  /\ len <= Available(write_p, read_p)
  /\ write_p' = Advance(write_p, len)
  /\ staged' = SubSeq(staged, len + 1, Len(staged))
  /\ UNCHANGED <<buf, read_p, writing, wdata, wleft, reader>>

(***************************************************************************)
(* The reader.                                                             *)
(***************************************************************************)
BeginRead(call, len) ==
  /\ reading = "none"
  /\ reading' = call
  /\ rdata' = [i \in 1 .. len |-> Garbage]
  /\ rleft' = 1 .. len
  /\ UNCHANGED <<buf, write_p, read_p, writer, got>>

\* kfifo_get reads as much as there is.
BeginGet(len) ==
  /\ Used(write_p, read_p) # 0
  /\ BeginRead("get", Lesser(len, Used(write_p, read_p)))

\* peek_read reads everything or nothing.
BeginPeekRead(len) ==
  /\ len <= Used(write_p, read_p)
  /\ BeginRead("peek", len)

LoadByte(i) ==
  /\ i \in rleft
  /\ rdata' = [rdata EXCEPT ![i] = buf[Place(read_p, Len(rdata), i)]]
  /\ rleft' = rleft \ {i}
  /\ UNCHANGED <<buf, write_p, read_p, writer, reading, got>>

EndGet ==
  /\ reading = "get"
  /\ Copied(rleft)
  /\ read_p' = Advance(read_p, Len(rdata))
  /\ reading' = "none"
  /\ got' = rdata
  /\ rdata' = <<>>
  /\ rleft' = {}
  /\ UNCHANGED <<buf, write_p, writer>>

EndPeekRead ==
  /\ reading = "peek"
  /\ Copied(rleft)
  /\ reading' = "none"
  /\ got' = rdata
  /\ rdata' = <<>>
  /\ rleft' = {}
  /\ UNCHANGED <<buf, write_p, read_p, writer>>

SeekRead(len) ==
  /\ reading = "none"
  /\ len <= Used(write_p, read_p)
  /\ read_p' = Advance(read_p, len)
  /\ UNCHANGED <<buf, write_p, writer, reader>>

(***************************************************************************)
(* clear() stores both indices: its callers must have stopped both sides.  *)
(***************************************************************************)
Clear ==
  /\ writing = "none"
  /\ reading = "none"
  /\ write_p' = 0
  /\ read_p' = 0
  /\ staged' = <<>>
  /\ got' = <<>>
  /\ UNCHANGED <<buf, writing, wdata, wleft, reading, rdata, rleft>>

\* The constructor: the array is new char[], never cleared.
Init ==
  /\ buf = [s \in 0 .. Size - 1 |-> Garbage]
  /\ write_p = 0
  /\ read_p = 0
  /\ writing = "none" /\ wdata = <<>> /\ wleft = {} /\ staged = <<>>
  /\ reading = "none" /\ rdata = <<>> /\ rleft = {} /\ got = <<>>

Write ==
  \/ \E chunk \in Chunks : BeginPut(chunk) \/ BeginPeekWrite(chunk)
  \/ \E i \in 1 .. Size : StoreByte(i)
  \/ EndPut
  \/ EndPeekWrite
  \/ \E len \in Lens : SeekWrite(len)

Read ==
  \/ \E len \in Lens : BeginGet(len) \/ BeginPeekRead(len) \/ SeekRead(len)
  \/ \E i \in 1 .. Size : LoadByte(i)
  \/ EndGet
  \/ EndPeekRead

Next == Write \/ Read \/ Clear

Spec == Init /\ [][Next]_vars
-----------------------------------------------------------------------------
(***************************************************************************)
(* Properties                                                              *)
(***************************************************************************)
\* Every variable has its type, and the indices, however often they wrap,
\* never drift apart by more than the size of the buffer.
TypeOK ==
  /\ buf \in [0 .. Size - 1 -> Bytes \union {Garbage}]
  /\ write_p \in Index
  /\ read_p \in Index
  /\ Used(write_p, read_p) <= Size
  /\ writing \in {"none", "put", "peek"}
  /\ wdata \in Seq(Bytes)
  /\ wleft \in SUBSET DOMAIN wdata
  /\ staged \in Seq(Bytes)
  /\ reading \in {"none", "get", "peek"}
  /\ rdata \in Seq(Bytes \union {Garbage})
  /\ rleft \in SUBSET DOMAIN rdata
  /\ got \in Seq(Bytes \union {Garbage})

\* No byte that the writer has still to store is one that the reader has
\* still to load: the memcpys of the two sides never meet.
NoByteRace ==
  \A i \in wleft, j \in rleft :
    Place(write_p, Len(wdata), i) # Place(read_p, Len(rdata), j)

\* What peek_write stored stays where seek_write will publish it, whatever
\* the reader does and however the indices wrap in between.
StagedStays ==
  /\ Len(staged) <= Size - Used(write_p, read_p)
  /\ \A i \in 1 .. Len(staged) : buf[Slot(write_p + i - 1)] = staged[i]

\* The reader is never handed a byte that nobody wrote.
NoGarbage ==
  \A i \in DOMAIN got : got[i] \in Bytes

(***************************************************************************)
(* The abstract buffer: the bytes between the two indices.                 *)
(***************************************************************************)
content ==
  [i \in 1 .. Used(write_p, read_p) |-> buf[Slot(read_p + i - 1)]]

Abstract == INSTANCE ByteFifo WITH Capacity <- Size

\* Every behaviour of the two sides is one of the byte FIFO.
ImplementsFifo == Abstract!Spec
=============================================================================
