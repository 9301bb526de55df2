------------------------- MODULE LockFreeQueueProofs -------------------------
(***************************************************************************)
(* Proofs about LockFreeQueue, for every n dividing 2^32 and every set of  *)
(* entries, of builds that keep the two accesses of a call in order.       *)
(***************************************************************************)
EXTENDS LockFreeQueue, ModArithmetic, SequenceTheorems

(***************************************************************************)
(* The inductive invariant: what a call that is half way through has       *)
(* established and still relies on.                                        *)
(***************************************************************************)
Count == Used(push_index, pop_index)

\* Accesses are made in source order: the slot is never left for last.
InOrder ==
  /\ pushing \in {{}, {"index"}, Accesses}
  /\ popping \in {{}, {"index"}, Accesses}

\* What push_back tested still holds at its stores, and the slot it has
\* stored keeps its entry until the index makes it visible.
PushHolds ==
  /\ pushing # {} => Count < N /\ arg \in Entries
  /\ pushing = {"index"} => queue[SlotOf(push_index)] = arg

\* What pop_front tested still holds, and the slot it has read keeps its
\* entry until the index gives the slot back.
PopHolds ==
  /\ popping # {} => Count > 0
  /\ popping = {"index"} => out = queue[SlotOf(pop_index)]

\* Every slot between the indices holds an entry that was pushed.
LiveSlots ==
  \A i \in 0 .. N - 1 : i < Count => queue[SlotOf(pop_index + i)] \in Entries

IInv == TypeOK /\ InOrder /\ PushHolds /\ PopHolds /\ LiveSlots

-----------------------------------------------------------------------------
(***************************************************************************)
(* The indices.                                                            *)
(***************************************************************************)
\* The unsigned difference of two indices, without %.
LEMMA UsedValue ==
  ASSUME NEW x \in Index, NEW y \in Index
  PROVE  Used(x, y) = IF x >= y THEN x - y ELSE x - y + W
  BY QueueAssumption, ModDifference DEF Used, Index

\* Incrementing an index, without %.
LEMMA SuccValue ==
  ASSUME NEW x \in Index
  PROVE  /\ Succ(x) \in Index
         /\ Succ(x) = IF x = W - 1 THEN 0 ELSE x + 1
<1>1. 1 \in 0 .. W /\ W \in Nat \ {0}
  BY QueueAssumption
<1>2. (x + 1) % W = IF x + 1 < W THEN x + 1 ELSE x + 1 - W
  BY <1>1, ModSum DEF Index
<1>3. QED
  BY <1>1, <1>2, QueueAssumption DEF Succ, Index

\* A completed push_back counts one more entry.
LEMMA UsedAfterPush ==
  ASSUME NEW x \in Index, NEW y \in Index, Used(x, y) < N
  PROVE  Used(Succ(x), y) = Used(x, y) + 1
<1>1. Used(x, y) = IF x >= y THEN x - y ELSE x - y + W
  BY UsedValue
<1>2. Succ(x) \in Index /\ Succ(x) = IF x = W - 1 THEN 0 ELSE x + 1
  BY SuccValue
<1>3. Used(Succ(x), y) = IF Succ(x) >= y THEN Succ(x) - y ELSE Succ(x) - y + W
  BY <1>2, UsedValue
<1>4. QED
  BY <1>1, <1>2, <1>3, QueueAssumption DEF Index

\* A completed pop_front counts one entry less.
LEMMA UsedAfterPop ==
  ASSUME NEW x \in Index, NEW y \in Index, Used(x, y) > 0
  PROVE  Used(x, Succ(y)) = Used(x, y) - 1
<1>1. Used(x, y) = IF x >= y THEN x - y ELSE x - y + W
  BY UsedValue
<1>2. Succ(y) \in Index /\ Succ(y) = IF y = W - 1 THEN 0 ELSE y + 1
  BY SuccValue
<1>3. Used(x, Succ(y)) = IF x >= Succ(y) THEN x - Succ(y) ELSE x - Succ(y) + W
  BY <1>2, UsedValue
<1>4. QED
  BY <1>1, <1>2, <1>3, QueueAssumption DEF Index

\* The test of pop_front, push_index # pop_index, is the test of a count.
LEMMA NotEmpty ==
  ASSUME NEW x \in Index, NEW y \in Index
  PROVE  x # y <=> Used(x, y) > 0
<1>1. Used(x, y) = IF x >= y THEN x - y ELSE x - y + W
  BY UsedValue
<1>2. x \in Int /\ y \in Int /\ x < W /\ y < W /\ x >= 0 /\ y >= 0 /\ W \in Int
  BY QueueAssumption DEF Index
<1>3. QED
  BY <1>1, <1>2

-----------------------------------------------------------------------------
(***************************************************************************)
(* The slots.                                                              *)
(***************************************************************************)
\* Masking gives a slot of the array.
LEMMA SlotType ==
  ASSUME NEW x \in Int
  PROVE  SlotOf(x) \in Slots
  BY QueueAssumption, ModSplit DEF SlotOf, Slots

\* The wrap of an index goes to the next slot like any other increment.
LEMMA SlotOfSucc ==
  ASSUME NEW x \in Index, NEW i \in Int
  PROVE  SlotOf(Succ(x) + i) = SlotOf(x + 1 + i)
<1> USE QueueAssumption
<1>1. x \in Int /\ Succ(x) \in Int
  BY SuccValue DEF Index
<1>2. CASE Succ(x) = x + 1
  BY <1>2
<1>3. CASE Succ(x) = 0 /\ x = W - 1
  <2>1. W = N * (W \div N) /\ W \div N \in Int
    BY ModSplit
  <2>2. (i + N * (W \div N)) % N = i % N
    BY <2>1, ModLaps
  <2>3. x + 1 + i = i + N * (W \div N) /\ Succ(x) + i = i
    BY <1>3, <2>1 DEF Index
  <2>4. QED
    BY <2>2, <2>3 DEF SlotOf
<1>4. QED
  BY <1>2, <1>3, SuccValue

\* The slot push_back writes is the one just past the entries.
LEMMA PushSlot ==
  ASSUME NEW x \in Index, NEW y \in Index
  PROVE  SlotOf(x) = SlotOf(y + Used(x, y))
<1> USE QueueAssumption
<1>1. x \in Int /\ y \in Int /\ Used(x, y) \in Int
  BY UsedValue DEF Index
<1>2. CASE y + Used(x, y) = x
  BY <1>2
<1>3. CASE y + Used(x, y) = x + W
  <2>1. W = N * (W \div N) /\ W \div N \in Int
    BY ModSplit
  <2>2. (x + N * (W \div N)) % N = x % N
    BY <1>1, <2>1, ModLaps
  <2>3. QED
    BY <1>3, <2>1, <2>2 DEF SlotOf
<1>4. QED
  BY <1>2, <1>3, UsedValue DEF Index

\* Fewer than n consecutive indices have distinct slots.
LEMMA SlotsDistinct ==
  ASSUME NEW y \in Int, NEW i \in 0 .. N - 1, NEW j \in 0 .. N - 1, i # j
  PROVE  SlotOf(y + i) # SlotOf(y + j)
<1>1. y + i \in Int /\ y + j \in Int
  BY QueueAssumption
<1>2. (y + i) - (y + j) < N /\ (y + j) - (y + i) < N /\ y + i # y + j
  BY QueueAssumption
<1>3. QED
  BY <1>1, <1>2, QueueAssumption, ModInjective DEF SlotOf

-----------------------------------------------------------------------------
(***************************************************************************)
(* The inductive invariant holds.                                          *)
(***************************************************************************)
\* A queue that init_queue() has just reset satisfies the invariant.
LEMMA InitIInv == Init => IInv
<1> SUFFICES ASSUME Init PROVE IInv
  OBVIOUS
<1> USE QueueAssumption
<1>1. push_index \in Index /\ pop_index \in Index /\ Count = 0
  <2>1. 0 \in Index
    BY DEF Index
  <2>2. QED
    BY <2>1, UsedValue DEF Init, Count
<1>2. TypeOK
  BY <1>1 DEF Init, Idle, TypeOK, Count
<1>3. InOrder /\ PushHolds /\ PopHolds
  BY <1>1 DEF Init, Idle, InOrder, PushHolds, PopHolds, Accesses
<1>4. LiveSlots
  BY <1>1 DEF LiveSlots
<1>5. QED
  BY <1>2, <1>3, <1>4 DEF IInv

\* The accesses of a call, as sets.
LEMMA AccessSets ==
  /\ Accesses # {}
  /\ "slot" \in Accesses /\ "index" \in Accesses
  /\ Accesses \ {"slot"} = {"index"}
  /\ {"index"} \ {"index"} = {}
  /\ {"index"} # Accesses
  /\ "slot" \notin {"index"} /\ {"index"} # {}
  BY DEF Accesses

\* Every step of either thread preserves the invariant, whatever the other
\* thread is in the middle of.
LEMMA StepIInv ==
  ASSUME ProgramOrder, IInv, [Next]_vars
  PROVE  IInv'
<1> USE QueueAssumption, AccessSets
<1>0. /\ push_index \in Index /\ pop_index \in Index /\ Count \in 0 .. N
      /\ push_index \in Int /\ pop_index \in Int
  BY DEF IInv, TypeOK, Count, Index
<1>1. ASSUME NEW v \in Entries, BeginPush(v)
      PROVE  IInv'
  <2>1. Count' = Count /\ Count < N
    BY <1>1, <1>0 DEF BeginPush, HasRoom, Count
  <2>2. TypeOK'
    BY <1>1, <2>1 DEF IInv, TypeOK, BeginPush, Count
  <2>3. InOrder' /\ PushHolds'
    BY <1>1, <2>1 DEF IInv, InOrder, PushHolds, BeginPush
  <2>4. PopHolds' /\ LiveSlots'
    BY <1>1, <2>1 DEF IInv, PopHolds, LiveSlots, BeginPush
  <2>5. QED
    BY <2>2, <2>3, <2>4 DEF IInv
<1>2. ASSUME StoreSlot
      PROVE  IInv'
  <2>1. /\ Count' = Count /\ pushing = Accesses /\ pushing' = {"index"}
        /\ Count < N /\ arg \in Entries
    BY <1>2 DEF StoreSlot, MayAccess, Count, IInv, InOrder, PushHolds
  <2>2. SlotOf(push_index) \in Slots /\ SlotOf(push_index) = SlotOf(pop_index + Count)
    BY <1>0, SlotType, PushSlot DEF Count
  <2>3. queue \in [Slots -> Entries \union {Nothing}]
    BY DEF IInv, TypeOK
  <2>4. TypeOK'
    BY <1>2, <2>1, <2>3 DEF IInv, TypeOK, StoreSlot, Count
  <2>5. InOrder' /\ PushHolds'
    BY <1>2, <2>1, <2>2, <2>3 DEF IInv, InOrder, PushHolds, StoreSlot
  <2>6. \A i \in 0 .. N - 1 :
          i < Count => queue'[SlotOf(pop_index + i)] = queue[SlotOf(pop_index + i)]
    <3> SUFFICES ASSUME NEW i \in 0 .. N - 1, i < Count
                 PROVE  queue'[SlotOf(pop_index + i)] = queue[SlotOf(pop_index + i)]
      OBVIOUS
    <3>1. Count \in 0 .. N - 1 /\ i # Count
      BY <1>0, <2>1
    <3>2. SlotOf(pop_index + i) # SlotOf(pop_index + Count)
      BY <1>0, <3>1, SlotsDistinct
    <3>3. SlotOf(pop_index + i) \in Slots
      BY <1>0, SlotType
    <3>4. QED
      BY <1>2, <2>2, <2>3, <3>2, <3>3 DEF StoreSlot
  <2>7. PopHolds'
    <3>1. 0 \in 0 .. N - 1 /\ pop_index + 0 = pop_index
      BY <1>0
    <3>2. Count > 0 => queue'[SlotOf(pop_index)] = queue[SlotOf(pop_index)]
      BY <2>6, <3>1
    <3>3. QED
      BY <1>2, <2>1, <3>2 DEF IInv, PopHolds, StoreSlot
  <2>8. LiveSlots'
    BY <1>2, <2>1, <2>6 DEF IInv, LiveSlots, StoreSlot
  <2>9. QED
    BY <2>4, <2>5, <2>7, <2>8 DEF IInv
<1>3. ASSUME StorePushIndex
      PROVE  IInv'
  <2>1. /\ pushing = {"index"} /\ pushing' = {}
        /\ Count < N /\ arg \in Entries /\ queue[SlotOf(push_index)] = arg
    BY <1>3 DEF StorePushIndex, MayAccess, IInv, InOrder, PushHolds
  <2>2. Count' = Count + 1 /\ push_index' \in Index
    BY <1>0, <1>3, <2>1, UsedAfterPush, SuccValue DEF StorePushIndex, Count
  <2>3. TypeOK'
    BY <1>0, <1>3, <2>1, <2>2 DEF IInv, TypeOK, StorePushIndex, Count
  <2>4. InOrder' /\ PushHolds' /\ PopHolds'
    BY <1>0, <1>3, <2>1, <2>2 DEF IInv, InOrder, PushHolds, PopHolds, StorePushIndex
  <2>5. LiveSlots'
    <3> SUFFICES ASSUME NEW i \in 0 .. N - 1, i < Count + 1
                 PROVE  queue[SlotOf(pop_index + i)] \in Entries
      BY <1>3, <2>2 DEF LiveSlots, StorePushIndex
    <3>1. CASE i < Count
      BY <3>1 DEF IInv, LiveSlots
    <3>2. CASE i = Count
      BY <1>0, <2>1, <3>2, PushSlot DEF Count
    <3>3. QED
      BY <1>0, <3>1, <3>2
  <2>6. QED
    BY <2>3, <2>4, <2>5 DEF IInv
<1>4. ASSUME BeginPop
      PROVE  IInv'
  <2>1. Count' = Count /\ Count > 0
    BY <1>0, <1>4, NotEmpty DEF BeginPop, HasEntry, Count
  <2>2. TypeOK'
    BY <1>4, <2>1 DEF IInv, TypeOK, BeginPop, Count
  <2>3. InOrder' /\ PushHolds' /\ PopHolds' /\ LiveSlots'
    BY <1>4, <2>1 DEF IInv, InOrder, PushHolds, PopHolds, LiveSlots, BeginPop
  <2>4. QED
    BY <2>2, <2>3 DEF IInv
<1>5. ASSUME LoadSlot
      PROVE  IInv'
  <2>1. Count' = Count /\ popping = Accesses /\ popping' = {"index"} /\ Count > 0
    BY <1>5 DEF LoadSlot, MayAccess, Count, IInv, InOrder, PopHolds
  <2>2. out' = queue[SlotOf(pop_index)] /\ out' \in Entries \union {Nothing} /\ got' = got
    BY <1>0, <1>5, <2>1, SlotType DEF LoadSlot, IInv, TypeOK
  <2>3. TypeOK'
    BY <1>5, <2>1, <2>2 DEF IInv, TypeOK, LoadSlot, Count
  <2>4. InOrder' /\ PushHolds' /\ PopHolds' /\ LiveSlots'
    BY <1>5, <2>1, <2>2 DEF IInv, InOrder, PushHolds, PopHolds, LiveSlots, LoadSlot
  <2>5. QED
    BY <2>3, <2>4 DEF IInv
<1>6. ASSUME StorePopIndex
      PROVE  IInv'
  <2>1. popping = {"index"} /\ popping' = {} /\ Count > 0
    BY <1>6 DEF StorePopIndex, MayAccess, IInv, InOrder, PopHolds
  <2>2. Count' = Count - 1 /\ pop_index' \in Index /\ pop_index' = Succ(pop_index)
    BY <1>0, <1>6, <2>1, UsedAfterPop, SuccValue DEF StorePopIndex, Count
  <2>3. TypeOK'
    BY <1>0, <1>6, <2>1, <2>2 DEF IInv, TypeOK, StorePopIndex, Count
  <2>4. InOrder' /\ PushHolds' /\ PopHolds'
    BY <1>0, <1>6, <2>1, <2>2 DEF IInv, InOrder, PushHolds, PopHolds, StorePopIndex
  <2>5. LiveSlots'
    <3> SUFFICES ASSUME NEW i \in 0 .. N - 1, i < Count - 1
                 PROVE  queue[SlotOf(Succ(pop_index) + i)] \in Entries
      BY <1>6, <2>2 DEF LiveSlots, StorePopIndex
    <3>1. SlotOf(Succ(pop_index) + i) = SlotOf(pop_index + 1 + i)
      BY <1>0, SlotOfSucc
    <3>2. i + 1 \in 0 .. N - 1 /\ i + 1 < Count /\ pop_index + 1 + i = pop_index + (i + 1)
      BY <1>0
    <3>3. QED
      BY <3>1, <3>2 DEF IInv, LiveSlots
  <2>6. QED
    BY <2>3, <2>4, <2>5 DEF IInv
<1>7. ASSUME Empty
      PROVE  IInv'
  <2>1. /\ push_index' = 0 /\ pop_index' = 0 /\ 0 \in Index
        /\ pushing' = {} /\ popping' = {}
    BY <1>7 DEF Empty, Index
  <2>2. Count' = 0
    BY <2>1, UsedValue DEF Count
  <2>3. TypeOK'
    BY <1>7, <2>1, <2>2 DEF IInv, TypeOK, Empty, Count
  <2>4. InOrder' /\ PushHolds' /\ PopHolds' /\ LiveSlots'
    BY <2>1, <2>2 DEF InOrder, PushHolds, PopHolds, LiveSlots
  <2>5. QED
    BY <2>3, <2>4 DEF IInv
<1>8. CASE UNCHANGED vars
  BY <1>8 DEF vars, IInv, TypeOK, InOrder, PushHolds, PopHolds, LiveSlots, Count
<1>9. QED
  BY <1>1, <1>2, <1>3, <1>4, <1>5, <1>6, <1>7, <1>8 DEF Next, Producer, Consumer

\* In a build that keeps program order the invariant always holds.
THEOREM InvariantHolds ==
  ASSUME ProgramOrder
  PROVE  Spec => []IInv
<1>1. Init => IInv
  BY InitIInv
<1>2. IInv /\ [Next]_vars => IInv'
  BY StepIInv
<1>3. QED
  BY <1>1, <1>2, PTL DEF Spec

\* Types hold, and the unsigned difference of the indices stays a count in
\* 0 .. n however often they wrap.
THEOREM TypeCorrect ==
  ASSUME ProgramOrder
  PROVE  Spec => []TypeOK
<1>1. IInv => TypeOK
  BY DEF IInv
<1>2. QED
  BY <1>1, InvariantHolds, PTL

\* pop_front never reads a slot that push_back has not filled.
THEOREM NoPhantomHolds ==
  ASSUME ProgramOrder
  PROVE  Spec => []NoPhantom
<1>1. IInv => NoPhantom
  <2> SUFFICES ASSUME IInv, popping # {}, "slot" \notin popping
               PROVE  out \in Entries
    BY DEF NoPhantom
  <2>1. popping = {"index"} /\ Count > 0 /\ out = queue[SlotOf(pop_index)]
    BY AccessSets DEF IInv, InOrder, PopHolds
  <2>2. 0 \in 0 .. N - 1 /\ pop_index + 0 = pop_index
    BY QueueAssumption DEF IInv, TypeOK, Index
  <2>3. queue[SlotOf(pop_index)] \in Entries
    BY <2>1, <2>2 DEF IInv, LiveSlots
  <2>4. QED
    BY <2>1, <2>3
<1>2. QED
  BY <1>1, InvariantHolds, PTL

\* The two threads never have the same slot in hand.
THEOREM NoSlotRaceHolds ==
  ASSUME ProgramOrder
  PROVE  Spec => []NoSlotRace
<1>1. IInv => NoSlotRace
  <2> SUFFICES ASSUME IInv, "slot" \in pushing, "slot" \in popping
               PROVE  SlotOf(push_index) # SlotOf(pop_index)
    BY DEF NoSlotRace
  <2>1. pushing # {} /\ popping # {}
    OBVIOUS
  <2>2. Count > 0 /\ Count < N
    BY <2>1 DEF IInv, PushHolds, PopHolds
  <2>3. /\ Count \in 0 .. N - 1 /\ 0 \in 0 .. N - 1 /\ Count # 0
        /\ pop_index \in Int /\ pop_index + 0 = pop_index
    BY <2>2, QueueAssumption DEF IInv, TypeOK, Count, Index
  <2>4. SlotOf(pop_index + Count) # SlotOf(pop_index + 0)
    BY <2>3, SlotsDistinct
  <2>5. SlotOf(push_index) = SlotOf(pop_index + Count)
    BY PushSlot DEF Count, IInv, TypeOK
  <2>6. QED
    BY <2>3, <2>4, <2>5
<1>2. QED
  BY <1>1, InvariantHolds, PTL

-----------------------------------------------------------------------------
(***************************************************************************)
(* LockFreeQueue implements BoundedQueue.                                  *)
(***************************************************************************)
\* The slots between the indices, read from pop_index on, form a sequence.
LEMMA ItemsType ==
  ASSUME IInv
  PROVE  /\ items \in Seq(Entries \union {Nothing})
         /\ Len(items) = Count
         /\ \A i \in 1 .. Count : items[i] = queue[SlotOf(pop_index + i - 1)]
<1>1. Count \in Nat /\ pop_index \in Int
  BY QueueAssumption DEF IInv, TypeOK, Count, Index
<1>2. \A i \in 1 .. Count : queue[SlotOf(pop_index + i - 1)] \in Entries \union {Nothing}
  <2> SUFFICES ASSUME NEW i \in 1 .. Count
               PROVE  queue[SlotOf(pop_index + i - 1)] \in Entries \union {Nothing}
    OBVIOUS
  <2>1. SlotOf(pop_index + i - 1) \in Slots
    BY <1>1, SlotType
  <2>2. QED
    BY <2>1 DEF IInv, TypeOK
<1>3. items = [i \in 1 .. Count |-> queue[SlotOf(pop_index + i - 1)]]
  BY DEF items, Count
<1>4. QED
  BY <1>1, <1>2, <1>3

\* The store that publishes an entry is the abstract push.
LEMMA PublishIsPush ==
  ASSUME ProgramOrder, IInv, IInv', StorePushIndex
  PROVE  Abstract!Push(arg) /\ arg \in Entries
<1> USE QueueAssumption
<1>1. /\ pushing = {"index"} /\ Count < N
      /\ arg \in Entries /\ queue[SlotOf(push_index)] = arg
  BY AccessSets DEF StorePushIndex, MayAccess, IInv, InOrder, PushHolds
<1>2. push_index \in Index /\ pop_index \in Index /\ Count \in Nat /\ pop_index \in Int
  BY DEF IInv, TypeOK, Count, Index
<1>3. Count' = Count + 1
  BY <1>1, <1>2, UsedAfterPush DEF StorePushIndex, Count
<1>4. queue[SlotOf(pop_index + Count)] = arg
  BY <1>1, <1>2, PushSlot DEF Count
<1>5. /\ items \in Seq(Entries \union {Nothing}) /\ Len(items) = Count
      /\ \A i \in 1 .. Count : items[i] = queue[SlotOf(pop_index + i - 1)]
  BY ItemsType
<1>6. items' = [i \in 1 .. Count + 1 |-> queue[SlotOf(pop_index + i - 1)]]
  BY <1>3 DEF items, StorePushIndex, Count
<1>7. items' = Append(items, arg)
  <2> DEFINE S == Entries \union {Nothing}
             e(i) == queue[SlotOf(pop_index + i - 1)]
  <2>1. \A i \in 1 .. Count + 1 : e(i) = IF i = Count + 1 THEN arg ELSE items[i]
    <3> SUFFICES ASSUME NEW i \in 1 .. Count + 1
                 PROVE  e(i) = IF i = Count + 1 THEN arg ELSE items[i]
      OBVIOUS
    <3>1. CASE i = Count + 1
      <4>1. pop_index + i - 1 = pop_index + Count
        BY <1>2, <3>1
      <4>2. QED
        BY <1>4, <3>1, <4>1
    <3>2. CASE i # Count + 1
      BY <1>2, <1>5, <3>2
    <3>3. QED
      BY <3>1, <3>2
  <2>2. \A i \in 1 .. Count + 1 : e(i) \in S
    <3> SUFFICES ASSUME NEW i \in 1 .. Count + 1 PROVE e(i) \in S
      OBVIOUS
    <3>1. CASE i = Count + 1
      BY <1>1, <2>1, <3>1
    <3>2. CASE i \in 1 .. Count
      <4>1. items[i] \in S
        BY <1>5, <3>2, ElementOfSeq
      <4>2. QED
        BY <2>1, <3>2, <4>1, <1>2
    <3>3. QED
      BY <1>2, <3>1, <3>2
  <2>3. items' \in Seq(S) /\ Len(items') = Count + 1
    BY <1>2, <1>6, <2>2
  <2>4. /\ Append(items, arg) \in Seq(S) /\ Len(Append(items, arg)) = Count + 1
        /\ \A i \in 1 .. Count : Append(items, arg)[i] = items[i]
        /\ Append(items, arg)[Count + 1] = arg
    BY <1>1, <1>5, AppendProperties
  <2>5. \A i \in 1 .. Count + 1 : items'[i] = Append(items, arg)[i]
    BY <1>2, <1>6, <2>1, <2>4
  <2>6. QED
    BY <2>3, <2>4, <2>5, SeqEqual
<1>8. got' = got
  BY DEF StorePushIndex
<1>9. QED
  BY <1>1, <1>5, <1>7, <1>8 DEF Abstract!Push

\* The store that gives a slot back is the abstract pop.
LEMMA ReleaseIsPop ==
  ASSUME ProgramOrder, IInv, IInv', StorePopIndex
  PROVE  Abstract!Pop
<1> USE QueueAssumption
<1>1. /\ popping = {"index"} /\ popping' = {} /\ Count > 0
      /\ out = queue[SlotOf(pop_index)]
  BY AccessSets DEF StorePopIndex, MayAccess, IInv, InOrder, PopHolds
<1>2. /\ push_index \in Index /\ pop_index \in Index
      /\ Count \in Nat /\ pop_index \in Int
  BY DEF IInv, TypeOK, Count, Index
<1>3. Count' = Count - 1
  BY <1>1, <1>2, UsedAfterPop DEF StorePopIndex, Count
<1>4. /\ items \in Seq(Entries \union {Nothing}) /\ Len(items) = Count
      /\ \A i \in 1 .. Count : items[i] = queue[SlotOf(pop_index + i - 1)]
  BY ItemsType
<1>5. items # <<>> /\ Head(items) = out
  <2>1. 1 \in 1 .. Count /\ pop_index + 1 - 1 = pop_index
    BY <1>1, <1>2
  <2>2. items[1] = out
    BY <1>1, <1>4, <2>1
  <2>3. QED
    BY <1>1, <1>4, <2>2
<1>6. items' = Tail(items)
  <2> DEFINE S == Entries \union {Nothing}
  <2>1. items' = [i \in 1 .. Count - 1 |-> queue[SlotOf(Succ(pop_index) + i - 1)]]
    BY <1>3 DEF items, StorePopIndex, Count
  <2>2. /\ Tail(items) \in Seq(S) /\ Len(Tail(items)) = Count - 1
        /\ \A i \in 1 .. Count - 1 : Tail(items)[i] = items[i + 1]
    BY <1>4, <1>5, HeadTailProperties
  <2>3. \A i \in 1 .. Count - 1 : queue[SlotOf(Succ(pop_index) + i - 1)] = items[i + 1]
    <3> SUFFICES ASSUME NEW i \in 1 .. Count - 1
                 PROVE  queue[SlotOf(Succ(pop_index) + i - 1)] = items[i + 1]
      OBVIOUS
    <3>1. SlotOf(Succ(pop_index) + (i - 1)) = SlotOf(pop_index + 1 + (i - 1))
      BY <1>2, SlotOfSucc
    <3>2. /\ Succ(pop_index) + (i - 1) = Succ(pop_index) + i - 1
          /\ pop_index + 1 + (i - 1) = pop_index + (i + 1) - 1
          /\ i + 1 \in 1 .. Count
      BY <1>2, SuccValue DEF Index
    <3>3. QED
      BY <1>4, <3>1, <3>2
  <2>4. \A i \in 1 .. Count - 1 : items[i + 1] \in S
    BY <1>2, <1>4, ElementOfSeq
  <2>5. items' \in Seq(S) /\ Len(items') = Count - 1
    BY <1>1, <1>2, <2>1, <2>3, <2>4
  <2>6. \A i \in 1 .. Count - 1 : items'[i] = Tail(items)[i]
    BY <2>1, <2>2, <2>3
  <2>7. QED
    BY <2>2, <2>5, <2>6, SeqEqual
<1>7. got' = out
  BY <1>1 DEF StorePopIndex
<1>8. QED
  BY <1>5, <1>6, <1>7 DEF Abstract!Pop

\* Every other step leaves the abstract queue alone or empties it.
LEMMA StepImplements ==
  ASSUME ProgramOrder, IInv, IInv', [Next]_vars
  PROVE  [Abstract!Next]_(Abstract!absvars)
<1> USE QueueAssumption, AccessSets DEF Abstract!absvars
<1>1. ASSUME NEW v \in Entries, BeginPush(v) PROVE UNCHANGED <<items, got>>
  BY <1>1 DEF BeginPush, items
<1>2. ASSUME StoreSlot PROVE UNCHANGED <<items, got>>
  <2>1. /\ Count' = Count /\ Count \in 0 .. N - 1
        /\ pop_index' = pop_index /\ pop_index \in Int
        /\ push_index \in Index /\ pop_index \in Index
    BY <1>2 DEF StoreSlot, MayAccess, Count, IInv, InOrder, PushHolds, TypeOK, Index
  <2>2. SlotOf(push_index) = SlotOf(pop_index + Count)
    BY <2>1, PushSlot DEF Count
  <2>3. \A i \in 1 .. Count :
          queue'[SlotOf(pop_index + i - 1)] = queue[SlotOf(pop_index + i - 1)]
    <3> SUFFICES ASSUME NEW i \in 1 .. Count
                 PROVE  queue'[SlotOf(pop_index + i - 1)] = queue[SlotOf(pop_index + i - 1)]
      OBVIOUS
    <3>1. i - 1 \in 0 .. N - 1 /\ i - 1 # Count /\ pop_index + i - 1 = pop_index + (i - 1)
      BY <2>1
    <3>2. SlotOf(pop_index + (i - 1)) # SlotOf(pop_index + Count)
      BY <2>1, <3>1, SlotsDistinct
    <3>3. SlotOf(pop_index + (i - 1)) \in Slots
      BY <2>1, <3>1, SlotType
    <3>4. QED
      BY <1>2, <2>2, <3>1, <3>2, <3>3 DEF StoreSlot, IInv, TypeOK
  <2>4. items' = [i \in 1 .. Count |-> queue'[SlotOf(pop_index + i - 1)]]
    BY <2>1 DEF items, Count
  <2>5. items = [i \in 1 .. Count |-> queue[SlotOf(pop_index + i - 1)]]
    BY DEF items, Count
  <2>6. QED
    BY <1>2, <2>3, <2>4, <2>5 DEF StoreSlot
<1>3. ASSUME StorePushIndex PROVE Abstract!Next
  BY <1>3, PublishIsPush DEF Abstract!Next
<1>4. ASSUME BeginPop PROVE UNCHANGED <<items, got>>
  BY <1>4 DEF BeginPop, HasEntry, items
<1>5. ASSUME LoadSlot PROVE UNCHANGED <<items, got>>
  <2>1. popping' = {"index"}
    BY <1>5 DEF LoadSlot, MayAccess, IInv, InOrder
  <2>2. QED
    BY <1>5, <2>1 DEF LoadSlot, items
<1>6. ASSUME StorePopIndex PROVE Abstract!Next
  BY <1>6, ReleaseIsPop DEF Abstract!Next
<1>7. ASSUME Empty PROVE Abstract!Next
  <2>1. 0 \in Index /\ push_index' = 0 /\ pop_index' = 0
    BY <1>7 DEF Empty, Index
  <2>2. Used(push_index, pop_index)' = 0
    BY <2>1, UsedValue
  <2>3. items' = <<>> /\ got' = Nothing
    BY <1>7, <2>2 DEF items, Empty
  <2>4. QED
    BY <2>3 DEF Abstract!Next, Abstract!Discard
<1>8. ASSUME UNCHANGED vars PROVE UNCHANGED <<items, got>>
  BY <1>8 DEF vars, items
<1>9. QED
  BY <1>1, <1>2, <1>3, <1>4, <1>5, <1>6, <1>7, <1>8 DEF Next, Producer, Consumer

\* Two threads calling push_back and pop_front without a lock are, to each
\* other, users of one FIFO queue of n entries.
THEOREM QueueImplements ==
  ASSUME ProgramOrder
  PROVE  Spec => ImplementsQueue
<1>1. Init => Abstract!Init
  <2> SUFFICES ASSUME Init PROVE Abstract!Init
    OBVIOUS
  <2>1. 0 \in Index
    BY QueueAssumption DEF Index
  <2>2. Used(push_index, pop_index) = 0
    BY <2>1, UsedValue DEF Init
  <2>3. items = <<>>
    BY <2>2 DEF items
  <2>4. QED
    BY <2>3 DEF Init, Idle, Abstract!Init
<1>2. IInv /\ IInv' /\ [Next]_vars => [Abstract!Next]_(Abstract!absvars)
  BY StepImplements
<1>3. QED
  BY <1>1, <1>2, InvariantHolds, PTL DEF Spec, ImplementsQueue, Abstract!Spec
=============================================================================
