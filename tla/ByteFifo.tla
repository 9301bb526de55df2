------------------------------ MODULE ByteFifo ------------------------------
(***************************************************************************)
(* What ring_buffer promises one writer and one reader: a first-in         *)
(* first-out buffer of at most Capacity bytes.  Bytes arrive and leave in  *)
(* chunks, each at one instant.  RingBuffer is shown to implement this.    *)
(***************************************************************************)
EXTENDS Integers, Sequences

CONSTANTS
  Capacity,   \* how many bytes fit
  Bytes       \* the values of a byte

VARIABLES
  content,    \* the bytes in the buffer, oldest first
  got         \* the bytes the reader was last handed

absvars == <<content, got>>

Init ==
  /\ content = <<>>
  /\ got = <<>>

Put(chunk) ==
  /\ Len(content) + Len(chunk) <= Capacity
  /\ content' = content \o chunk
  /\ UNCHANGED got

Get(n) ==
  /\ n <= Len(content)
  /\ got' = SubSeq(content, 1, n)
  /\ content' = SubSeq(content, n + 1, Len(content))

Peek(n) ==
  /\ n <= Len(content)
  /\ got' = SubSeq(content, 1, n)
  /\ UNCHANGED content

\* Drop bytes the reader has no more use for.
Skip(n) ==
  /\ n <= Len(content)
  /\ content' = SubSeq(content, n + 1, Len(content))
  /\ UNCHANGED got

\* Everything is discarded at once, and seen to be.
Discard ==
  /\ content' = <<>>
  /\ got' = <<>>

Chunks == UNION {[1 .. n -> Bytes] : n \in 1 .. Capacity}

Next ==
  \/ \E chunk \in Chunks : Put(chunk)
  \/ \E n \in 1 .. Capacity : Get(n) \/ Peek(n) \/ Skip(n)
  \/ Discard

Spec == Init /\ [][Next]_absvars
=============================================================================
