---------------------------- MODULE BoundedQueue ----------------------------
(***************************************************************************)
(* What static_lock_free_queue promises its two users: a first-in          *)
(* first-out queue of at most Capacity entries.  A push appends one entry  *)
(* when there is room, a pop hands out the oldest entry, and both take     *)
(* effect at one instant.  LockFreeQueue is shown to implement this.       *)
(***************************************************************************)
EXTENDS Naturals, Sequences

CONSTANTS
  Capacity,   \* how many entries fit
  Entries,    \* what can be pushed
  Nothing     \* what the popping side holds before its first pop

VARIABLES
  items,      \* the entries in the queue, oldest first
  got         \* the entry handed out last since the queue was last emptied

absvars == <<items, got>>

Init ==
  /\ items = <<>>
  /\ got = Nothing

Push(v) ==
  /\ Len(items) < Capacity
  /\ items' = Append(items, v)
  /\ UNCHANGED got

Pop ==
  /\ items # <<>>
  /\ got' = Head(items)
  /\ items' = Tail(items)

\* Everything is discarded at once, and seen to be.
Discard ==
  /\ items' = <<>>
  /\ got' = Nothing

Next ==
  \/ \E v \in Entries : Push(v)
  \/ Pop
  \/ Discard

Spec == Init /\ [][Next]_absvars

\* The popping side comes back as long as there is something to pop.
FairSpec == Spec /\ WF_absvars(Pop)
=============================================================================
