---------------------------- MODULE LockFreeQueue ----------------------------
(***************************************************************************)
(* static_lock_free_queue<t, n> (src/src/leo_lock_free_queue.h): the       *)
(* single-producer single-consumer ring through which a session's net      *)
(* thread and logic thread exchange net_message pointers.                  *)
(*                                                                         *)
(* The grain is one access to shared memory.  Each side owns one index and *)
(* reads the other's exactly once per call, in the test that opens the     *)
(* call; what is left of the call is one access to the slot and one store  *)
(* to its own index.  `pushing' and `popping' hold the accesses a call     *)
(* still has to make, so a side is outside any call when its set is empty. *)
(*                                                                         *)
(* Indices are unsigned ints that are never reduced modulo n: they wrap at *)
(* W = 2^32 and are masked with n - 1, which is % N for a power of two.    *)
(***************************************************************************)
EXTENDS Integers, Sequences

CONSTANTS
  N,             \* the template parameter n
  W,             \* the number of values of an unsigned int
  Entries,       \* the net_message pointers that are pushed
  Nothing,       \* the content of a slot nobody has pushed to
  ProgramOrder   \* whether a call's two accesses happen in source order: the
                 \* class has no barrier and no volatile, so it holds of the
                 \* unoptimised Debug build on x86 and is not promised to the
                 \* optimised Release build

(***************************************************************************)
(* The header's comment asks for n a power of two.  All that matters of it *)
(* is that n divides 2^32, and that a full queue differs from an empty one.*)
(***************************************************************************)
ASSUME QueueAssumption ==
  /\ N \in Nat \ {0}
  /\ W \in Nat
  /\ N < W
  /\ W % N = 0
  /\ Nothing \notin Entries
  /\ ProgramOrder \in BOOLEAN

VARIABLES
  queue,        \* __queue
  push_index,   \* __push_index, written by the producer only
  pop_index,    \* __pop_index, written by the consumer only
  pushing,      \* accesses the running push_back still has to make
  arg,          \* _t of the running push_back
  popping,      \* accesses the running pop_front still has to make
  out,          \* _t of the running pop_front
  got           \* _t of the latest pop_front since empty() that returned true

vars == <<queue, push_index, pop_index, pushing, arg, popping, out, got>>

Index == 0 .. W - 1
Slots == 0 .. N - 1
Accesses == {"slot", "index"}

(***************************************************************************)
(* Unsigned arithmetic of the class.                                       *)
(***************************************************************************)
Used(push, pop) == (push - pop) % W
Faulty_HasRoom(push, pop) == Used(push, pop) <= N
HasRoom(push, pop) == Used(push, pop) < N
Faulty_SlotOf(index) == index % (N + 1)
SlotOf(index) == index % N
Faulty_Succ(index) == (index + 1) % N
Succ(index) == (index + 1) % W
Faulty_HasEntry(push, pop) == Used(push, pop) > 1
HasEntry(push, pop) == push # pop

\* Whether the access `which' of a call with `pending' left may happen now.
Faulty_MayAccess(which, pending) == which \in pending
MayAccess(which, pending) ==
  /\ which \in pending
  /\ ProgramOrder /\ which = "index" => "slot" \notin pending

(***************************************************************************)
(* push_back                                                               *)
(***************************************************************************)
\* The test of both indices; a full queue returns false and changes nothing.
BeginPush(v) ==
  /\ pushing = {}
  /\ HasRoom(push_index, pop_index)
  /\ pushing' = Accesses
  /\ arg' = v
  /\ UNCHANGED <<queue, push_index, pop_index, popping, out, got>>

StoreSlot ==
  /\ MayAccess("slot", pushing)
  /\ queue' = [queue EXCEPT ![SlotOf(push_index)] = arg]
  /\ pushing' = pushing \ {"slot"}
  /\ UNCHANGED <<push_index, pop_index, arg, popping, out, got>>

StorePushIndex ==
  /\ MayAccess("index", pushing)
  /\ push_index' = Succ(push_index)
  /\ pushing' = pushing \ {"index"}
  /\ UNCHANGED <<queue, pop_index, arg, popping, out, got>>

(***************************************************************************)
(* pop_front                                                               *)
(***************************************************************************)
\* The test of both indices; an empty queue returns false and changes nothing.
BeginPop ==
  /\ popping = {}
  /\ HasEntry(push_index, pop_index)
  /\ popping' = Accesses
  /\ UNCHANGED <<queue, push_index, pop_index, pushing, arg, out, got>>

LoadSlot ==
  /\ MayAccess("slot", popping)
  /\ out' = queue[SlotOf(pop_index)]
  /\ popping' = popping \ {"slot"}
  /\ got' = IF popping' = {} THEN out' ELSE got
  /\ UNCHANGED <<queue, push_index, pop_index, pushing, arg>>

StorePopIndex ==
  /\ MayAccess("index", popping)
  /\ pop_index' = Succ(pop_index)
  /\ popping' = popping \ {"index"}
  /\ got' = IF popping' = {} THEN out ELSE got
  /\ UNCHANGED <<queue, push_index, pushing, arg, out>>

(***************************************************************************)
(* empty() writes both indices and so belongs to neither side: its callers *)
(* must have stopped both.                                                 *)
(***************************************************************************)
Empty ==
  /\ pushing = {}
  /\ popping = {}
  /\ push_index' = 0
  /\ pop_index' = 0
  /\ got' = Nothing
  /\ UNCHANGED <<queue, pushing, arg, popping, out>>

Producer ==
  \/ \E v \in Entries : BeginPush(v)
  \/ StoreSlot
  \/ StorePushIndex

Consumer ==
  \/ BeginPop
  \/ LoadSlot
  \/ StorePopIndex

Next == Producer \/ Consumer \/ Empty

\* Neither side is inside a call.
Idle ==
  /\ pushing = {}
  /\ popping = {}
  /\ arg = Nothing
  /\ out = Nothing
  /\ got = Nothing

\* The state init_queue() leaves.
Init ==
  /\ queue = [s \in Slots |-> Nothing]
  /\ push_index = 0
  /\ pop_index = 0
  /\ Idle

(***************************************************************************)
(* The state the queues of a net_session are really in: its constructor    *)
(* never calls init_queue(), and the sessions come from new[], so both     *)
(* indices hold whatever the heap held.                                    *)
(***************************************************************************)
RawInit ==
  /\ queue = [s \in Slots |-> Nothing]
  /\ push_index \in Index
  /\ pop_index \in Index
  /\ Idle

Spec == Init /\ [][Next]_vars
RawSpec == RawInit /\ [][Next]_vars

(***************************************************************************)
(* A call is a few instructions of a running thread, and the consumer      *)
(* polls; nothing obliges the producer to push.                            *)
(***************************************************************************)
FairSpec == Spec /\ WF_vars(StoreSlot) /\ WF_vars(StorePushIndex) /\ WF_vars(Consumer)
-----------------------------------------------------------------------------
(***************************************************************************)
(* Properties                                                              *)
(***************************************************************************)
\* Every variable has its type, and the two indices never drift apart by
\* more than n: the unsigned difference the two tests compute stays a count.
TypeOK ==
  /\ queue \in [Slots -> Entries \union {Nothing}]
  /\ push_index \in Index
  /\ pop_index \in Index
  /\ pushing \in {{}, {"index"}, {"slot"}, Accesses}
  /\ popping \in {{}, {"index"}, {"slot"}, Accesses}
  /\ arg \in Entries \union {Nothing}
  /\ out \in Entries \union {Nothing}
  /\ got \in Entries \union {Nothing}
  /\ Used(push_index, pop_index) \in 0 .. N

\* A pop_front that has read its slot holds an entry some push_back stored,
\* never the content of a slot nobody pushed to.
NoPhantom ==
  popping # {} /\ "slot" \notin popping => out \in Entries

\* push_back never has a store outstanding to the slot that pop_front is
\* about to load: the two threads share no slot at any instant.
NoSlotRace ==
  "slot" \in pushing /\ "slot" \in popping => SlotOf(push_index) # SlotOf(pop_index)

(***************************************************************************)
(* The abstract queue: the entries between the two indices.                *)
(***************************************************************************)
items ==
  [i \in 1 .. Used(push_index, pop_index) |-> queue[SlotOf(pop_index + i - 1)]]

Abstract == INSTANCE BoundedQueue WITH Capacity <- N

\* Every behaviour of the two threads is one of the FIFO queue.
ImplementsQueue == Abstract!Spec

\* ... and a consumer that polls gets every entry.
ImplementsFairQueue == Abstract!FairSpec
=============================================================================
