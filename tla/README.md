# LeoNet in TLA+

Specifications of the LeoNet game server (`src/src/`): a Windows program in C
and C++ that accepts TCP connections with libevent, cuts their bytes into
messages, and hands the messages to a logic thread through lock-free queues.
The repository has no tests and no documents; the specifications are written
from the code, and what it promises is taken from its comments and from
libevent's headers under `src/include/`.

## The system

| Part | Code | State it keeps | Operations |
|---|---|---|---|
| lock-free queue | `leo_lock_free_queue.h` | array of n slots, push and pop index | `init_queue`, `push_back`, `pop_front`, `empty`, `is_empty`, `is_full` |
| ring buffer | `ring_buffer.h/.cpp` | array of bytes, write and read index | `kfifo_put`, `kfifo_get`, `peek_*`, `seek_*`, `clear`, raw pointers |
| session | `leo_net_session.h/.cpp` | socket, keys and sequence number, two rings, two queues | push to and fetch from the queues, add and delete the write event |
| session manager | `leo_net_session.h/.cpp` | pool of free sessions, map from socket to session | `init_sessions`, claim, reclaim, insert, remove, get |
| net service | `leo_net_service.c` | `net_events[fd]`: a read and a write event per socket | accept a connection, call the user's callbacks, wrap libevent |
| server | `main.c` | — | `on_accept`, `on_read`, `on_write`, `main` |
| game protocol | `leo_tcp_game_protocol.c` | sequence number, session key | `send_key`, message to bytes, bytes to message |
| dof crypto | `leo_dof_crypto.c` | table of xor keys, crc32 table | xor, crc32 |
| DES | `leo_des_crypto.c` | key schedule | block, ECB and CBC encryption |
| standard DES | `leo_standard_des_crypto.c` | — | DES and triple DES; in no project file |
| net message | `leo_net_message.h` | id, size, 1024 bytes | set and get, `pop_ptr`, `pop_ref` |
| singleton | `leo_singleton.h` | one pointer per class | create, release, instance |

`main` runs one net thread: libevent's loop calls `net_event_accept`,
`net_event_read` and `net_event_write`, which call `on_accept`, `on_read` and
`on_write`. `on_accept` claims a session and puts it on the map; the other two
find it there by socket. The comments at `leo_net_session.h:100` name a second
thread, the logic thread, which is not in the repository: it takes messages
with `fetch_from_readqueue` and sends them with `push_to_writequeue`. So each
queue has one producer and one consumer in different threads, the rings are
used by the net thread alone except for `__write_buffer.empty()` in
`push_to_writequeue`, and `event_add` is called from both threads.

What is hard, and what makes each part correct:

* **Queue.** Two threads, no lock, no barrier, indices that are never reduced.
  It must be a FIFO of n entries whatever the interleaving and however often
  the indices wrap.
* **Ring.** The same, with copies of many bytes that split at the end of the
  array, and with bytes staged by `peek_write` before they are published.
* **Session manager.** A session is in the pool, with its claimer, or on the
  map, never in two of these, and serves one socket. The class checks none of
  this: it holds as long as its callers hand back only what they hold.
* **Sending.** Test, `event_add` and push against drain, send and `event_del`:
  no message may wait with nobody told of it.
* **Receiving.** TCP cuts the stream anywhere and `on_read` works in place in
  the ring: the loop must stay on frame boundaries, inside the array, leave
  room for the next bytes, and end. The length is any 16 bits, and nothing
  compares it with the ring's size.
* **Protocol.** What passes `check_crc32` and the sequence number must be the
  peer's frames, in order and undamaged, and the next one must pass; the crc32
  is a variant of its own, which misses some damage a crc32 detects, and its
  table is written one entry past its end.
  What is put into a message must be what the peer reads, in any number of
  values and up to the last byte of the buffer.
* **DES tables.** The tables of `leo_des_crypto.c` were derived by hand from
  those of the standard, which the repository also has.
* **DES.** One global key schedule serves every caller, lengths are rounded up
  to blocks, and CBC hands its vector from call to call while decrypting in
  place: what one end encrypts the other must get back, however each cuts the
  buffer into calls.
* **Server.** Sockets nobody reads any more are ready in every iteration of a
  level-triggered loop and must not starve the others; nor must `on_write`,
  whose loop runs as long as the logic thread sends. A pool that runs empty
  must lose no session. When one of the two `event_new` calls for a socket
  fails, `net_event_accept` adds the event all the same, and `on_accept` binds
  a session.

## Modules

| Module | Models |
|---|---|
| `BoundedQueue` | abstract: a FIFO of at most `Capacity` entries |
| `LockFreeQueue` | `static_lock_free_queue`, one step per access to shared memory |
| `ModArithmetic` | lemmas about `%` |
| `LockFreeQueueProofs` | the inductive invariant of the queue and its refinement |
| `ByteFifo` | abstract: a FIFO of bytes that come and go in chunks |
| `RingIndex` | the index arithmetic of `ring_buffer` |
| `RingBuffer` | `ring_buffer`, one step per byte |
| `RingBufferProofs` | the inductive invariant of the ring and its refinement |
| `SessionManager` | `session_manager` and the callers that own a session |
| `SessionQueue` | a session's two queues as the two paths see them |
| `WritePath` | `push_to_writequeue` against `on_write` and the loop |
| `ReadPath` | `on_read` and `transform_buffer_to_message` against peer and logic thread |
| `NetSession` | both directions of one session in the two threads they share |
| `NetSessionProofs` | the inductive invariants of both directions, and what of them the session keeps |
| `NetServer` | the net thread: accept, read, write, the pool, the loop, the logic thread, the peers |
| `ServerRun` | `NetServer` with descriptors taken in ascending order, for TLC |
| `NetServerProofs` | the inductive invariants of pool and map, and of the server |
| `BitWords` | words and bytes as sets of bits |
| `DofCrypto` | the xor cipher, the crc32 table and a turn of `generate_crc32` |
| `NetMessage` | `net_message`: the cursor and the buffer |
| `GameProtocol` | `send_key` and both directions of the protocol, byte by byte, with a lossy network |
| `ProtocolRun` | values for the constants of `GameProtocol` |
| `GameProtocolProofs` | the inductive invariants of checksum, sequence number and messages |
| `DesCrypto` | `ecb_crypt`, `cbc_crypt` and `des_crypt`, one step per round |
| `DesCryptoProofs` | the inductive invariant of the ciphers |
| `LeoDes` | key schedule, tables and transpositions of `leo_des_crypto.c`, bit by bit |
| `StandardDes` | all of `leo_standard_des_crypto.c`, bit by bit |
| `DesAgreement` | the two side by side, round by round, there and back |
| `DesAgreementRun` | the keys and blocks they are compared on |
| `DesAgreementProofs` | that they agree, and undo themselves, for every key and block |

They compose from the bottom up. `LockFreeQueue` implements `BoundedQueue`; so
`WritePath` and `ReadPath` use the push and the pop of a queue as one step each
(`SessionQueue`) and show nothing about queues themselves. `NetSession` composes
the two paths: it adds nothing to what either does, only who does it when.
`RingBuffer` implements `ByteFifo` and shares `RingIndex` with `ReadPath`, which
goes below the FIFO because `on_read` works on raw pointers into the array.
`NetServer` extends `SessionManager` and performs its operations inside
`on_accept`, so that no session stays in a caller's hands (`held`) from one step
to the next. What `on_read` and `on_write` do with bytes it leaves to `ReadPath`
and `WritePath`, and keeps what matters to the loop: a read that has room takes
something and returns (`OnReadReturns`), may be the last to have room
(`StoppedByLength`), and may use memory it must not use; a call of `on_write`
ends where it finds the queue empty.

`GameProtocol` extends `DofCrypto` and `NetMessage` and has the bytes that
`ReadPath` and `WritePath` abstract from: they follow where bytes lie in the
rings, it follows what they are. `DesCrypto` and `DesAgreement` split DES: the
first has the calls, chaining and rounds over any round functions, the second
the functions themselves. The server calls DES from `send_key` only, with a
buffer of 32 bytes that `on_accept` throws away, so `GameProtocol` does not use
it.

### How state and actions correspond to the code

**LockFreeQueue.** A call opens with a test of both indices (`BeginPush`,
`BeginPop`; it fails without effect, so a failing call is no step) and has two
accesses left, to the slot and to its own index: the sets `pushing` and
`popping`. `ProgramOrder` says whether the two happen in source order. They do
in the unoptimised Debug build on x86, and nothing obliges the optimised
Release build. `W` stands for 2^32. `Init` is what `init_queue` leaves,
`RawInit` what a session really has, since nothing calls `init_queue`.

**RingBuffer.** A call samples the other index, copies its bytes one by one in
any order (`memcpy`), and moves its own index. The barriers in the code keep
these stages apart, so there is no `ProgramOrder` here. `Place` is the split
of a copy into two `memcpy`s. `staged` holds what `peek_write` has stored and
`seek_write` may publish; `SeekWrite` is only taken over such bytes, which is
what its callers must know. `clear` requires both sides to be idle.

**SessionManager.** The pool is a sequence, the map a function, and the calls
of the class are operators on them, which check as little as the code does:
`reclaim_one_session` appends to the pool whatever it is given. `held` is the
set of sessions in a caller's hands. `Claim`, `Insert`, `Remove` and `Reclaim`
are not the class's but its callers', who insert and reclaim only what they
hold; `ManagerSpec` is this rule. The program's one caller is `on_accept`, and
of the actions `Insert` is its `set_socket` and `insert_session`.

**WritePath.** The logic thread's test, `event_add` and push are three steps.
The loop calls select with the events added so far (`watched`), and `on_write`
is a step per message and one for the send. `fetch_from_writequeue` takes its
argument by value, so the pointer `on_write` goes on with is uninitialised:
the size it reads is any size in `Sizes`, or the process ends (`Crash`).

**ReadPath.** A byte is a frame, a position in it, and whether it is turned
over by `xor_decrypt`. `Recv` stores from the write pointer on without
wrapping, as `recv` does; each turn of the loop (`TakeMessage`) decrypts in
place, checks, seeks, and pushes. Lengths are any: one that exceeds the ring
never becomes a frame, and the ring fills up in front of it. Frames that reach
past the array, frames of length 0 or 1, for which `check_crc32` takes four from
an unsigned two or three and reads through memory, and lengths no peer sent end
what is followed (`StaysInside`, `outside`, `misread`). `waits` is
chosen once and says whether the peer sends a frame only after the one before
has been taken. What the length field counts is not written anywhere, and the
code reads it in two ways; `LenCovers` chooses one.

**NetSession.** The variables are those of both paths. The net thread runs
one callback at a time: `on_read` (`EnterOnRead`, `TurnOfOnRead`) may start
when select has returned, before `on_write` (`EnterOnWrite`, `TurnOfOnWrite`)
if both are due, as libevent calls the read event's callback first.
`ReturnFromOnRead` is the return to the loop, or straight on to `on_write` if
the running select was asked about writing too. The logic thread fetches and
sends, one call after the other.

**GameProtocol.** The actions are `main` before its loop (`Prepare`, in the
order of its two calls), `send_key`, and then one of two ways, `follows`: they
share the keys only, which `send_key` chooses once. On the way in a peer
makes frames, running `generate_crc32` turn by turn; the network delivers any
frame of the last lap of the sequence number, again or out of order, and damages
up to four neighbouring bytes anywhere behind the length field, in the body, the
crc32 or both; `transform_buffer_to_message` decrypts, runs its checksum
turn by turn (`generate_crc32_turn`), and compares (`Finish`). `accepted` keeps
for each frame that passed what the network did to it: whether its sequence
number was left alone, and whether damage was `Mirrored` where the crc32 begins. `adjoining` says
whether the linker put `xor_keys` right behind `crc32_table`, so that entry 255
is a part of the first key. On the way out the logic thread fills a message
with `set_id`, `pop_ptr` and `set_real_size`, and
`transform_message_to_buffer` writes it. Words are sets of bits (`BitWords`),
and `Number` gives the bits of a number.

**LeoDes, StandardDes, DesAgreement.** A step is a stage of both programs:
`SetKey`, `Transpose`, sixteen `Round`s, `Store`; then the same with
decryption. `LeoDes` counts bits from the right, as shifts do, `StandardDes`
from the left, as its macros do. Tables that hold, for each value of a byte,
the union of what they hold for its bits are given by bit. `Psboxes` is the
table of the build itself, its 512 words in the source's order, each written as
two halves because TLC's numbers have 31 bits. `Sboxes`, `Ptbl` and `ps_small`
are the other branch, which `SMALL` selects: no run uses them, the proofs do.
`SetTripleKey` and `Pass` are triple DES.

**DesCrypto.** A half of a block is a set of bits. What the expansion, the
subkey, the S boxes and the permutation make of a half is any function per
round and key, chosen in `Init`; the transpositions of `des_crypt` are left
out, because they only move bits; what they and the tables hold is in
`DesAgreement`.
`Begin` is the call with `des_setkey`, then `NextBlock`, the `Round`s and
`EndBlock` for each block. The decrypting end works on the buffer the
encrypting end has filled, which stands for its peer's copy, and `OtherCall`
leaves another key's schedule in the global `keys`. Lengths are in bytes; a
caller keeps them within the buffer, as `send_key` does with 30 bytes in 32.

**NetServer.** `active` is the batch of ready events that one loop iteration
runs, one callback after the other. Accepting is the whole of
`net_event_accept` with `on_accept`. No socket is closed and no session
reclaimed, because the program never does. A read takes some of what has
arrived, or nothing where the socket has no session or is `wedged`: its ring is
full in front of a length that exceeds it, which may be after any read.
`on_write` is a step per message (`BeginWrite`, `FetchMessage`, `EndWrite`), and
`push_to_writequeue` may come between any two. When an `event_new` fails, the
code adds a freed or a null event and binds a session; it also may use memory
it must not use in a read (`InsideArray` of `ReadPath`) and with the wild
pointer of `on_write`. Then the server is `broken`: the step itself is taken
whole, and nothing after it is followed.

## Checks

All run in seconds to two minutes with two workers.

| Run | Bounds | Shows |
|---|---|---|
| `queue` | 4 slots, `W` = 8, 2 entries | FIFO refinement with and without fairness, `NoPhantom`, `NoSlotRace` |
| `queue_raw` | the same | **violated**: pop from indices never initialised |
| `ring` | 4 bytes, `W` = 8, 2 values, calls of 1 or 2 bytes | FIFO refinement, `NoByteRace`, `StagedStays` |
| `server` | 2 sessions, 3 sockets, 2 pieces of data, write queues of 1, `event_new` may fail | `OnePlace`, `OneSocket`, `OnWriteReturns`, `ConnectionsAccepted`, `DataReceived` |
| `half_accept` | the same | **violated**: `event_add` of an event that was never made or is freed |
| `write_quiet` | `WritePath` alone, 2 messages, queue of 2 | **violated**: a quiet server never serves a message |
| `read` | ring of 16, lengths 1, 3, 5, 16 and 17, 4 frames | `Aligned`, `StoppedByLength`, `OnReadReturns` for back-to-back frames, `LengthsIntact` for a peer that waits |
| `session` | ring of 4, lengths 1, 3, 4 and 5, 3 frames, 2 messages, queues of 2 | `SessionTypeOK` with `OneCallback`, `NoLostWakeup`, and on a busy server `SendServed`, `ReadsServed` |
| `read_wrap` | as `read`, with the lengths 3, 5 and 16 | **violated**: memory behind the array is used |
| `des` | 2 rounds, halves of 1 bit, 2 keys, 2 blocks, calls of 5 to 16 bytes | `RoundTrip`, `InStep`, `WithinBuffer` under every pair of round functions |
| `protocol` | message buffer of 8, `W` = 2, a table of 2 xor keys, 2 payloads, 3 frames, damage over four bytes, rooms of 6, 9, 12 and 13 bytes | `InOrder`, `NextPasses` with entry 255 in both places, `PeerReadsMessage`, `WithinRoom` |
| `des_bits` | a block of every single bit under the server's key, a key of every single bit, 4 cases of triple DES | `RoundsAgree`, `BlocksAgree`, `ComesBack` |

The bounds are enough for the cases that matter. The queue and the ring make
two laps of the array for one of the unsigned indices, so full, empty, a split
copy and a wrapped index meet in every combination; what is read back depends
on bytes and entries only by equality, and two values tell a lost, repeated or
swapped one in the refinement, since every sequence of them is tried. The pool
of `server` is smaller than the number of sockets, so it runs empty. A queue of
one message is enough for `on_write` never to find it empty, and two pieces of
data for a socket that stops after the first. `ServerRun` takes the descriptors
in ascending order: nothing distinguishes one from another before it is used,
and none is used twice, so any other behaviour is one of these with descriptors
renamed, and the properties name none. In `read` one length fills the ring to
its last byte, one exceeds it, one is too short for a crc32, and four frames go
past its end. In `session` a frame as long as the ring, a longer one and a
shorter one, and one frame
more than the read queue takes, meet messages of which two fill the other. Two rounds with different functions tell the order of the subkeys, and
two blocks have one chained to the other, in one call or in two; the proofs
lift these bounds.

In `protocol` the sequence number wraps after two frames, so the third frame
has the number of the first. The first byte of the frames with the shorter
payload makes the checksum read entry 255. The damage, a pattern that reads the
same backwards, is laid over every place behind the length field: where it lies
half over the end of the body and half over the crc32, it passes. A message of at most eight bytes is
filled to the last byte `pop_ptr` grants by several choices of values of one,
two and four bytes, leaves
the cipher every remainder of less than four, and just fits, just does not fit,
or never fits the rooms. The single bits of `des_bits` reach every entry of
the permutations in both directions and of the key schedule; what the S boxes
see after some rounds is as good as random, 16 rounds of 8 boxes in each of
over a hundred encryptions, and a wrong entry that any of them meets is seen in the round
where it is met.

`server`, `session`, `des_bits` and the `read` runs do not check for deadlock: a
server whose peers are silent rests in select, a process that crashed has
ended, a block that came back is done with, and states the model does not
follow further have no successor.

### Fairness

* Queue: a call that has begun ends, and the consumer polls. Nobody pushes.
* Server: weak fairness of the net thread as a whole, for the steps that do not
  break it (`Turn`): nothing obliges the code to use memory it must not use, and
  nothing obliges the logic thread or a peer to anything. That no event starves
  is a consequence of libevent running every ready event of an iteration before
  it asks select again, not an assumption. One thing the code does not
  guarantee is stated in front of the property instead: `ConnectionsAccepted`
  and `DataReceived` claim their conclusion of behaviours in which the loop gets
  out of `on_write` again and again (`LoopTurns`). Without that, TLC finds a
  connection that waits for ever while the logic thread sends. When the code
  gives `LoopTurns` is `OnWriteReturns`: when the logic thread pauses for good.
* Sending: both threads run (`FairWriteSpec`). Nobody owes a server with idle
  connections another event, and so `write_quiet` fails.
* Receiving: `on_read`, once called, runs. Neither peer nor logic thread is
  obliged to anything.
* Session: both threads run, and `FairSessionSpec` adds that other sockets keep
  the loop turning, without which `SendServed` fails as in `write_quiet`. Strong fairness of `EnterOnRead` says that TCP delivers: a
  loop that asks select again and again is told at some time of bytes under
  way. `ReadsServed` claims this only of a logic thread that stops sending some
  day: the loop of `on_write` (`main.c:99`) ends where it finds the queue empty,
  and with a logic thread that always pushes again TLC finds a run that never
  leaves it.

## What the violations say, and other disagreements

1. `net_session` never initialises its queues (`leo_net_session.cpp:4`). In
   Debug the heap is filled with one pattern, both indices are equal and the
   queue works; in Release it hands out pointers nobody pushed.
2. The queue has no barrier and no `volatile` (`leo_lock_free_queue.h:23`). No
   run of its own shows this: with `ProgramOrder = FALSE` in `Queue.cfg`, TLC
   finds `NoPhantom` violated.
3. The write event is added behind the back of a blocked loop
   (`leo_net_session.h:43`).
4. `on_write` passes the size of the message as that of the buffer, so every
   message is dropped (`main.c:103`); no run of its own shows this. As nothing
   is ever written or sent, `del_write_event` is never reached and
   `NoLostWakeup` holds; a change that makes sending work has to look at it
   again, because `on_write` also never moves the read index after a send.
5. `on_read` and `transform_buffer_to_message` disagree by two bytes on the
   frame (`main.c:73`, `leo_tcp_game_protocol.c:59`). If the length counts the
   whole frame, no frame passes the crc32 check, and decrypting a frame turns
   over the length field of the next if that has arrived: `LengthsIntact`
   claims it only of a peer that waits, and without `waits` TLC finds it
   violated. If the length counts the body
   (`LenCovers = "body"` in `Read.cfg`), one frame passes and the loop is out of
   step: TLC finds `Aligned` violated. No peer can get two frames accepted.
6. `recv` and the decryption ignore the end of the ring (`main.c:50`,
   `main.c:72`).
7. A length above the ring's size stops its connection for good, and no check
   refuses it (`main.c:62`). `StoppedByLength` says that nothing else does;
   `DataReceived` and `ReadsServed` make the exception.
8. `check_crc32` misses a change that lies mirrored over the end of the body
   and the crc32, such as the same change of the last body byte and the first
   byte of the crc32 (`leo_dof_crypto.c:97-128`): `generate_crc32` appends
   nothing to the body, so its last bytes are in the crc as they are. `InOrder`
   says that of damage to up to four neighbouring bytes nothing else passes.
   In a frame so short that the sequence number lies within two bytes of the
   crc32, such a change may reach the number too.
9. After a half-failed allocation `net_event_accept` goes on as if nothing had
   happened (`leo_net_service.c:109-117`; run `half_accept`): it adds an event
   that is null or freed, and `on_accept` binds a session that has no events.

## Proofs

`ModArithmetic` proves the facts about `%` that unsigned, masked indices rest
on: a multiple of the modulus does not matter, reducing modulo a multiple
first does not either, close numbers with the same remainder are equal, sums
and differences of reduced numbers are what they look like, and the distance
of two counters grows and shrinks by what either moves.

`LockFreeQueueProofs` assumes `QueueAssumption` (n divides the number of index
values and is smaller) and `ProgramOrder`. The properties are not inductive:
that the slot a consumer is about to read is filled depends on what a producer
half way through a call has done. `IInv` adds that accesses are made in order
(`InOrder`), that what a call tested still holds and the slot it stored or
read is untouched (`PushHolds`, `PopHolds`), and that every slot between the
indices holds an entry (`LiveSlots`). `InitIInv` and `StepIInv`, with one step
per action, make it an invariant; `TypeCorrect`, `NoPhantomHolds` and
`NoSlotRaceHolds` follow. `QueueImplements` maps the array between the indices
to a sequence and shows that the store of an index is the abstract push or pop
and every other access a stutter.

`RingBufferProofs` does the same for `RingBuffer` from `IndexAssumption` and
`RingAssumption`, with no bound on the length of a call. `PlaceIsSlot` first
shows that the two `memcpy`s of a split copy are one copy around the array.
`IInv` adds that a call's room or bytes are still there and that what it has
copied so far lies, or is read, where its index points (`WriteHolds`,
`ReadHolds`), and that every byte between the indices was written
(`LiveBytes`). There is one lemma per action; `WriterMoves` and `ReaderMoves`
carry the moves of an index, `StoreTouchesOne` the only step that changes the
array. `TypeCorrect`, `NoByteRaceHolds`, `StagedStaysHolds` and
`NoGarbageHolds` follow. `RingImplements` maps the bytes between the indices to
the sequence of `ByteFifo`: `kfifo_put` and `seek_write` are its put at the
store of the write index, `kfifo_get`, `peek_read` and `seek_read` its get, peek
and skip at their end.

`NetServerProofs` begins with the session manager, which needs only that the
pool is finite and that no session is the null pointer. In `ManagerInv` the two
properties together with the types are inductive, and neither is alone: that a
session taken off the map is nowhere else on it needs `OneSocket`, and that
setting the socket of a claimed session leaves mapped ones alone needs
`OnePlace`. The initial state uses a counting argument: a pool as long as there
are sessions that holds them all holds each once. There is one lemma per
operation. `RuleSuffices` is what follows for callers that keep the rule. The
steps of the server, which assumes that its sockets are finite and not 0, use
two of the lemmas, `ClaimManager` and `InsertManager`, for the claim and the
insertion in `on_accept`. That `on_accept` inserts under a socket nobody has
needs that only accepted sockets are on the map (`BoundAccepted`), and the types
that no more connections come than there are sockets (`Backlog`). `OnePlaceHolds`,
`OneSocketHolds` and `TypeCorrect` are about the server, and hold in the step
that breaks it too.

`DesCryptoProofs` needs `DesAssumption` alone. `Passes` writes down the halves
a block goes through when it is encrypted. `IInv` says that a block between
the two ends is the last pair of such halves (`Encrypted`), for the input that
chaining gives it (`Given`, `Before`), and that a running `des_crypt` stands
at one of the pairs (`Forward`, `Backward`): encryption adds a half per round,
decryption goes back by one because the same xor undoes itself. `Chained` ties
the vector to the last block encrypted. `RoundTripHolds`, `InStepHolds`,
`WithinBufferHolds` and `TypeCorrect` follow, for all round functions, so for
those of DES.

`NetSessionProofs` first takes each path by itself. For `ReadPath`, `IInv`, for either reading of the length field,
adds to the types that every byte is of a frame that was sent (`Known`), so that
any length read is one of `Lengths`, and that the loop is left only where the
code leaves it (`Room`), which in front of a full ring is a length above its
size: `TypeCorrect` and `StoppedByLengthHolds` follow. For `LenCovers = "frame"`,
`Layout` says where everything lies: there are places, one per frame not yet
taken, each the sum of the lengths before it, the first at the read index and
the last at the end of what is under way, and the bytes from each on are its
frame's in their order, whether in the ring or on the wire (`Ahead`).
`RecvBytes` shows that `recv` writes behind what waits and over none of it,
`TakeAhead` that decrypting in place and `seek_read` bring every byte closer
by one length. `AlignedHolds` is the first byte of the layout. `OneFrame` adds
that of a peer that waits there is one frame at a time, none of it turned
over, from which `LengthsIntactHolds`. Both hold as long as the run is followed
(`Followed`): what happens behind the array's end is out of reach, and
`InsideArray` does not hold (`read_wrap`).

For `WritePath` that no message waits without its event is not inductive: a
push that is yet to come must find the event added. `WriteInv` says that a
logic thread about to push has it added, which holds only because the write
buffer stays empty, so that `push_to_writequeue` always adds the event and
`on_write` never deletes it. `WriteTypeCorrect` and `NoLostWakeupHolds` follow,
for every length of the queue and every size the wild pointer may yield. `SessionImplementsPaths` then shows that a step of
`NetSession` is a step of `ReadPath` or none, and a step of `WritePath` or
none, so that all of this holds of the session (`SessionSafe`); `SessionTypeCorrect`
is its own, with the order of the callbacks.

`GameProtocolProofs` needs `ProtocolAssumption`, chiefly that different
sequence numbers have different bytes and that damage covers at most four
bytes and changes the first of them, and `TableAssumption`, a fact about the
crc32 table that TLC evaluates: entries with the same low byte are the same.
The proof compares the server's crc with the peer's, turn by turn. They agree
up to the damage. Then `Differ` holds: for the next turns each of their lower
bytes differs by the damage to one byte of the body, the last in the lowest
(`FirstDifference`, `LaterDifference`), and the bytes shifted out are the same;
after four they may differ, and then so do the low bytes mixed in. So damage
that ends before the crc32 never gives the peer's crc, and damage that begins
in it never the body's. Damage over both gives the same crc only if what it
does to the last bytes of the body it does, in the opposite order, to the first
of the crc32 (`IntactIsMirrored`). `InOrder` then needs only that within a lap a
number
names one frame. For `NextPasses` the table must be whole: `IInv` has that
from the second step of `main` on entry 255 holds what it should, wherever it
lies, because nothing draws keys after it. `PassedInOrder`,
`NextAlwaysPasses` and `TypeCorrect` follow, for frames and messages of any
length. The way out has an invariant of its own, `OutInv`: the buffer begins
with the values put into it, over whatever was there (`Holds`), and what is
stored is the message it still is, byte for byte under the key (`Written`).
`PeerReadsHolds` and `WithinRoomHolds` follow.

`DesAgreementProofs` needs only that keys and blocks are bytes
(`DesAgreementAssumption`), and proves for all of them what `des_bits` checks on
some hundred and thirty. One program counts bits from the right, the other from the left,
so each table has to be the other's seen in a mirror. `TransposeAgrees` and
`StoreAgrees` show that of the transpositions, bit by bit;
`InvIPOfIP` and `IPOfInvIP` that they undo each other. `Box0` to `Box7` go through
the 512 words of `Psboxes`, so that by `EntryIs` each is the word that `Ptbl` and
`Sboxes` give. `AllBoxesAgree` compares these eight S boxes with the standard's
entry by entry, `PlacesAgree` the places their bits go to, and `SixAgrees` what
the rotated words of one and the expansion of the other show each box; together
they are `RoundFunctionAgrees`. For the key schedule
`ChoicesAgree` and `PackedAgrees` are its two choices and `TurnedMirrors` the
sixteen turns between them, from which `KeysAgree`. `RoundAgrees`, the induction
step, puts subkeys and round function together.

That halves agree before a round is enough for `RoundsAgree`, but not for
`ComesBack`, where the second call must find what the first has done. `IInv`
therefore has the values of the history: decryption is given what encryption
stores (`InputOK`), the subkeys are those of the key in the direction of the
call (`KeysSet`), and the halves are those `des_crypt` has `After` so many
rounds, or `Passed` so many passes of triple DES (`Progress`). `DecryptsBack`
sets the rounds of a call with the subkeys backwards against those of the first:
after n rounds it has the halves of round 16 - n, swapped. `TripleComesBack`
applies it three times. The sixteen turns and rounds are recursive functions;
that they have the values their definitions give needs a function with these
values to exist, and `ChainExists` builds one in sixteen steps, with no
induction. `RoundsAgreeHolds`, `BlocksAgreeHolds`, `ComesBackHolds` and
`TypeCorrect` follow. With `DesCryptoProofs`, which holds for any round
functions, this covers DES from the tables to the calls.

Only model-checked is liveness (`ImplementsFairQueue`, `OnWriteReturns`,
`ConnectionsAccepted`, `DataReceived`, `OnReadReturns`, `SendServed`,
`ReadsServed`), which is out of reach of the provers used. Every
invariant of a passing run is proved.

## Not modelled

* The headers of libevent under `src/include/`. They make up most of the
  repository by lines, but declare what binary libraries do; the two structures
  the program reads are used as `NetServer` and `WritePath` say. `tree.h`, which
  no source file includes, and the build files are left out too. The program's
  own code is some 2500 lines, most of which the modules cover.
* The race inside libevent's data structures when two threads call
  `event_add`: the call is one step.
* `leo_singleton`: one instance, made before the loop starts and never
  released.
* Functions nobody calls: `generate_session_id`, `des_setparity`, `pop_ref`,
  `net_socket_close`, `net_event_release`, `net_service_release`. Nobody calls
  `remove_session` and `reclaim_one_session` either; they are modelled with the
  callers the class needs, and proved about (`RuleSuffices`), but not run.
* What the code does after it has used memory it must not use: behind the end
  of a ring, through the wild pointer of `on_write`, in `check_crc32` of fewer
  than four bytes, whose length wraps, or in an event that is null or freed.
* The buffer `send_key` fills, since `on_accept` throws it away.
* Memory: the messages that `on_read` allocates are never freed, and one that a
  full read queue refuses is lost.
* What a message holds after `transform_buffer_to_message`: it returns 0 in
  every case and never fills the message.
* Running out of descriptors, sockets of 65535 and more, which index past
  `net_events`, and negative results of `bind` and `listen`, after which `main`
  returns.

## Plan

Queue, ring, sessions, both paths and server; DES, its tables against the
standard's; cipher, checksum, messages and protocol; the proofs about queue,
ring, session manager, server, both paths and the session they make, protocol,
DES and its tables: all done. What can be added are properties of steps, such
as that the server never takes a session from a socket it serves, and that the
ring of the receiving path is a `ByteFifo` as long as it does not wrap.
