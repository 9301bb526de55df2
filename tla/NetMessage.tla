----------------------------- MODULE NetMessage -----------------------------
(***************************************************************************)
(* leo_net_message.h: a message is an id and a buffer, with one cursor,    *)
(* real_size, for what is written to it and what is read from it.          *)
(* pop_ptr hands out the place of the next value and moves on; whoever     *)
(* writes stores the value there.                                          *)
(***************************************************************************)
EXTENDS Integers, Sequences

CONSTANT BUFFER_SIZE   \* 1024 in the code

ASSUME MessageAssumption == BUFFER_SIZE \in Nat \ {0}

\* The constructor: a buffer of zero bytes, which have no bits.
net_message ==
  [id |-> <<{}, {}>>, real_size |-> 0, buffer |-> [i \in 1 .. BUFFER_SIZE |-> {}]]

set_id(nm, id) == [nm EXCEPT !.id = id]
set_real_size(nm, size) == [nm EXCEPT !.real_size = size]
get_data(nm, size) == SubSeq(nm.buffer, 1, size)

\* Whether pop_ptr has room for a value of n bytes; it returns 0 otherwise.
\* pop_ref makes the same test, and returns nothing at all otherwise.
Faulty_HasRoom(nm, n) == nm.real_size < BUFFER_SIZE
HasRoom(nm, n) == nm.real_size + n < BUFFER_SIZE

Stored(nm, at, v) ==
  [i \in 1 .. BUFFER_SIZE |->
     IF i - at \in 1 .. Len(v) THEN v[i - at] ELSE nm.buffer[i]]

Faulty_pop_ptr(nm, v) ==
  [nm EXCEPT !.buffer = Stored(nm, nm.real_size + Len(v), v), !.real_size = @ + Len(v)]
pop_ptr(nm, v) ==
  [nm EXCEPT !.buffer = Stored(nm, nm.real_size, v), !.real_size = @ + Len(v)]
=============================================================================
