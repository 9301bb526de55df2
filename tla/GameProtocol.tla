---------------------------- MODULE GameProtocol ----------------------------
(***************************************************************************)
(* leo_tcp_game_protocol.c: what a session does to messages on their way   *)
(* out (transform_message_to_buffer) and to frames on their way in         *)
(* (transform_buffer_to_message), after main has prepared the cipher and   *)
(* the checksum and send_key has chosen the keys.                          *)
(*                                                                         *)
(* On the way in, the network damages, repeats, loses and reorders frames: *)
(* this is what the checksum and the sequence number are there for.  The   *)
(* loops of generate_crc32 are followed turn by turn, in the peer and in   *)
(* the server.                                                             *)
(*                                                                         *)
(* The two ways share the keys only, which stay as they are, so a          *)
(* behaviour follows one of them.  on_accept never sends what send_key     *)
(* returns; here the peer knows the keys.                                  *)
(***************************************************************************)
EXTENDS DofCrypto, NetMessage

CONSTANTS
  W,             \* 2^32: the values of sequence_id
  XorKeys,       \* what initial_xor_keys may draw
  MAX_XOR_NUM,
  SessionKeys,   \* what rand() may return
  Payloads,      \* what a peer's frame carries: id, size and data
  Damages,       \* what the network does to neighbouring bytes of a frame
  MaxFrames,     \* bound: the frames a peer sends
  Ids,           \* the ids of messages sent
  Values,        \* the values put into them
  Rooms          \* the lengths of the buffers they are written to

LenField == 2    \* sizeof(unsigned short)
CrcField == 4    \* sizeof(unsigned int)
HeaderLen == 6   \* 3 * sizeof(unsigned short)

ASSUME ProtocolAssumption ==
  /\ W \in Nat \ {0}
  /\ \A m, n \in 0 .. W - 1 : Bytes(Number(m), 4) = Bytes(Number(n), 4) => m = n
  /\ XorKeys \subseteq Key
  /\ MAX_XOR_NUM \in Nat \ {0}
  /\ SessionKeys \subseteq Word
  /\ Payloads \subseteq Seq(Byte)
  /\ MaxFrames \in Nat
  /\ Rooms \subseteq Nat
  /\ \A id \in Ids : id \in [1 .. 2 -> Byte]
  /\ \A v \in Values : v \in Seq(Byte) /\ v # <<>>
  /\ \A e \in Damages : /\ e \in Seq(Byte) /\ Len(e) \in 1 .. 4
                        /\ e[1] # {}

VARIABLES
  follows,     \* the way that is followed: "in" or "out"
  stage,       \* of main: "keys", "table", "accept", then "session"
  adjoining,   \* whether xor_keys lies right behind crc32_table
  xor_keys,
  entry255,    \* the four bytes behind crc32_table
  ac,          \* the session's struct about_crypt
  peer,        \* the keys the peer has
  \* In.
  making,      \* the frame the peer is at, up to the crc32
  sums,        \* old_crc32 of the peer's generate_crc32, turn by turn
  sent,        \* the frames sent
  got,         \* the frame received last
  pc,          \* of transform_buffer_to_message: "idle" or "crc"
  counts,      \* of generate_crc32
  crc,
  accepted,    \* the frames that passed
  verdict,     \* of the frame received last: "none", "passed" or "refused"
  \* Out.
  nm,          \* the message the logic thread is making
  put,         \* the bytes of the values it has put into it
  out          \* what is written of the message, and the room it had

memory == <<adjoining, xor_keys, entry255>>
incoming == <<making, sums, sent, got, pc, counts, crc, accepted, verdict>>
outgoing == <<nm, put, out>>
vars == <<follows, stage, memory, ac, peer, incoming, outgoing>>

-----------------------------------------------------------------------------

(***************************************************************************)
(* main before its loop.  initial_crc32_table stores entry 255 of an array *)
(* that ends with entry 254: into padding, or into the first key.          *)
(***************************************************************************)
Last == 0 .. 7

\* The table as generate_crc32 finds it.
Table == [i \in Byte |-> IF i = Last THEN entry255 ELSE crc32_table[i]]

initial_xor_keys ==
  /\ xor_keys' \in [0 .. MAX_XOR_NUM - 1 -> XorKeys]
  /\ entry255' = IF adjoining THEN WordOf(xor_keys'[0]) ELSE entry255
  /\ UNCHANGED <<follows, adjoining, ac, peer, incoming, outgoing>>

initial_crc32_table ==
  /\ entry255' = crc32_table[Last]
  /\ xor_keys' = IF adjoining
                 THEN [xor_keys EXCEPT ![0] =
                         [i \in 1 .. XOR_KEY_LEN |->
                            IF i <= 4 THEN ByteAt(entry255', i - 1) ELSE @[i]]]
                 ELSE xor_keys
  /\ UNCHANGED <<follows, adjoining, ac, peer, incoming, outgoing>>

Faulty_Prepare ==
  \/ stage = "keys" /\ initial_crc32_table /\ stage' = "table"
  \/ stage = "table" /\ initial_xor_keys /\ stage' = "accept"
Prepare ==
  \/ stage = "keys" /\ initial_xor_keys /\ stage' = "table"
  \/ stage = "table" /\ initial_crc32_table /\ stage' = "accept"

\* on_accept calls send_key.
send_key ==
  /\ stage = "accept"
  /\ stage' = "session"
  /\ \E key \in SessionKeys, n \in 0 .. MAX_XOR_NUM - 1 :
       ac' = [sequence_id |-> 0, session_key |-> key, xor_key |-> xor_keys[n]]
  /\ peer' = [session_key |-> ac'.session_key, xor_key |-> ac'.xor_key]
  /\ UNCHANGED <<follows, memory, incoming, outgoing>>

-----------------------------------------------------------------------------

(***************************************************************************)
(* The peer (external).  It makes the frames the server takes apart:       *)
(*   len : sequence : id : size : data : crc32                             *)
(* with the crc32 of all before it, and everything behind the length       *)
(* encrypted.                                                              *)
(***************************************************************************)
SequenceBytes(n, key) == Bytes(Xor(Number(n), key), 4)

Body(n, payload) ==
  Bytes(Xor(Number(4 + Len(payload) + CrcField), peer.session_key), LenField)
    \o SequenceBytes(n, peer.session_key) \o payload

BeginFrame(payload) ==
  /\ making = <<>>
  /\ Len(sent) < MaxFrames
  /\ making' = Body(Len(sent) % W, payload)
  /\ sums' = <<{}>>
  /\ UNCHANGED <<sent, got, pc, counts, crc, accepted, verdict>>

PeerCrcTurn ==
  /\ making # <<>>
  /\ Len(sums) <= Len(making)
  /\ sums' = Append(sums, CrcTurn(crc32_table, sums[Len(sums)], making[Len(sums)]))
  /\ UNCHANGED <<making, sent, got, pc, counts, crc, accepted, verdict>>

SendFrame ==
  /\ making # <<>>
  /\ Len(sums) = Len(making) + 1
  /\ LET plain == making \o Bytes(sums[Len(sums)], CrcField)
     IN sent' = Append(sent, [body |-> making, sums |-> sums,
                              wire |-> xor_crypt(plain, LenField, peer.xor_key)])
  /\ making' = <<>>
  /\ UNCHANGED <<sums, got, pc, counts, crc, accepted, verdict>>

Peer == (\E payload \in Payloads : BeginFrame(payload)) \/ PeerCrcTurn \/ SendFrame

(***************************************************************************)
(* The network.  It damages neighbouring bytes of the frame, of its crc32  *)
(* or of both.  The length field is on_read's.                             *)
(***************************************************************************)
DamageAt(e, i) == IF i \in 1 .. Len(e) THEN e[i] ELSE {}

Damaged(s, at, e) ==
  [i \in 1 .. Len(s) |-> IF i - at \in 0 .. Len(e) - 1 THEN Xor(s[i], e[i - at + 1]) ELSE s[i]]

DamageSpot(at, e, len) == LenField < at /\ at + Len(e) - 1 <= len

\* The same damage on both sides of where the crc32 begins, as in a mirror.
Mirrored(at, e, len) ==
  \A i \in 1 .. Len(e) : e[i] = DamageAt(e, 2 * (len - CrcField - at) + 3 - i)

DamageKind(at, e, len) ==
  IF e = <<>> THEN "none" ELSE IF Mirrored(at, e, len) THEN "mirrored" ELSE "other"

\* The sequence number is as the peer wrote it.
NumberIntact(at, e) == e = <<>> \/ at > LenField + 4

\* Frames at most a lap of the sequence number old or new.
Near(f) == LET next == Len(accepted) + 1 IN next - W < f /\ f < next + W

(***************************************************************************)
(* transform_buffer_to_message: xor_decrypt, check_crc32, the sequence.    *)
(***************************************************************************)
Receive(f, at, e) ==
  /\ pc = "idle"
  /\ Near(f)
  /\ got' = [frame |-> f, next |-> Len(accepted) + 1, at |-> at, damage |-> e,
             bytes |-> xor_decrypt(Damaged(sent[f].wire, at, e), LenField, ac.xor_key)]
  /\ pc' = "crc"
  /\ counts' = 0
  /\ crc' = {}
  /\ verdict' = "none"
  /\ UNCHANGED <<making, sums, sent, accepted>>

ReceiveFrame ==
  \E f \in 1 .. Len(sent) :
    \/ Receive(f, 0, <<>>)
    \/ \E e \in Damages, at \in 1 .. Len(sent[f].wire) :
         DamageSpot(at, e, Len(sent[f].wire)) /\ Receive(f, at, e)

generate_crc32_turn ==
  /\ pc = "crc"
  /\ counts < Len(got.bytes) - CrcField
  /\ crc' = CrcTurn(Table, crc, got.bytes[counts + 1])
  /\ counts' = counts + 1
  /\ UNCHANGED <<making, sums, sent, got, pc, accepted, verdict>>

Intact == \A i \in 1 .. CrcField : got.bytes[counts + i] = Bytes(crc, CrcField)[i]

Faulty_Expected == TRUE
Expected == \A i \in 1 .. 4 :
  got.bytes[LenField + i] = SequenceBytes(ac.sequence_id, ac.session_key)[i]

Finish ==
  /\ pc = "crc"
  /\ counts = Len(got.bytes) - CrcField
  /\ pc' = "idle"
  /\ IF Intact /\ Expected
     THEN /\ ac' = [ac EXCEPT !.sequence_id = (@ + 1) % W]
          /\ accepted' = Append(accepted,
               [frame |-> got.frame, number |-> NumberIntact(got.at, got.damage),
                damage |-> DamageKind(got.at, got.damage, Len(got.bytes))])
          /\ verdict' = "passed"
     ELSE /\ verdict' = "refused"
          /\ UNCHANGED <<ac, accepted>>
  /\ UNCHANGED <<making, sums, sent, got, counts, crc>>

In == \/ (Peer \/ ReceiveFrame \/ generate_crc32_turn) /\ UNCHANGED ac
      \/ Finish

-----------------------------------------------------------------------------

(***************************************************************************)
(* The logic thread makes a message, and transform_message_to_buffer       *)
(* writes it to a buffer:                                                  *)
(*   len : id : size : data                                                *)
(* where the two bytes of len are never stored.                            *)
(***************************************************************************)
NotWritten == [room |-> 0, stored |-> <<>>]

SetId(id) == /\ nm' = set_id(nm, id)
             /\ UNCHANGED put

\* pop_ptr; a caller that gets 0 stores nothing.
Put(v) == IF HasRoom(nm, Len(v))
          THEN nm' = pop_ptr(nm, v) /\ put' = put \o v
          ELSE UNCHANGED <<nm, put>>

\* set_real_size, to begin again.
BeginAgain == /\ nm' = set_real_size(nm, 0)
              /\ put' = <<>>

MakeMessage == /\ out = NotWritten
               /\ \/ \E id \in Ids : SetId(id)
                  \/ \E v \in Values : Put(v)
                  \/ BeginAgain
               /\ UNCHANGED out

Faulty_Fits(size, buf_len) == HeaderLen - LenField + size <= buf_len
Fits(size, buf_len) == HeaderLen + size <= buf_len

transform_message_to_buffer(buf_len) ==
  LET size == nm.real_size
      plain == Bytes({}, LenField) \o nm.id \o Bytes(Number(size), 2) \o get_data(nm, size)
      crypted == xor_crypt(plain, LenField, ac.xor_key)
  IN /\ out = NotWritten
     /\ out' = [room |-> buf_len,
                stored |-> IF Fits(size, buf_len)
                           THEN [i \in LenField + 1 .. Len(crypted) |-> crypted[i]]
                           ELSE <<>>]
     /\ UNCHANGED <<nm, put>>

\* on_write is through with the message, and the logic thread makes another.
NewMessage == /\ out # NotWritten
              /\ nm' = net_message
              /\ put' = <<>>
              /\ out' = NotWritten

Out == \/ MakeMessage
       \/ \E buf_len \in Rooms : transform_message_to_buffer(buf_len)
       \/ NewMessage

\* What a peer makes of the bytes stored (external).
PeerReads(stored) ==
  LET len == CHOOSE n \in 0 .. HeaderLen + BUFFER_SIZE : DOMAIN stored = LenField + 1 .. n
      plain == xor_decrypt([i \in 1 .. len |-> IF i <= LenField THEN {} ELSE stored[i]],
                           LenField, peer.xor_key)
  IN [id |-> SubSeq(plain, 3, 4), size |-> SubSeq(plain, 5, 6), data |-> SubSeq(plain, 7, len)]

-----------------------------------------------------------------------------

Zero == [i \in 1 .. XOR_KEY_LEN |-> {}]
NoFrame == [frame |-> 0, next |-> 0, at |-> 0, damage |-> <<>>, bytes |-> <<>>]

Init == /\ follows \in {"in", "out"}
        /\ stage = "keys"
        /\ adjoining \in BOOLEAN
        /\ xor_keys = [n \in 0 .. MAX_XOR_NUM - 1 |-> Zero]
        /\ entry255 = {}
        /\ ac = [sequence_id |-> 0, session_key |-> {}, xor_key |-> Zero]
        /\ peer = [session_key |-> {}, xor_key |-> Zero]
        /\ making = <<>> /\ sums = <<>> /\ sent = <<>>
        /\ got = NoFrame
        /\ pc = "idle"
        /\ counts = 0 /\ crc = {}
        /\ accepted = <<>>
        /\ verdict = "none"
        /\ nm = net_message
        /\ put = <<>>
        /\ out = NotWritten

Session ==
  /\ stage = "session"
  /\ \/ follows = "in" /\ In /\ UNCHANGED outgoing
     \/ follows = "out" /\ Out /\ UNCHANGED <<ac, incoming>>
  /\ UNCHANGED <<follows, stage, memory, peer>>

Next == Prepare \/ send_key \/ Session

Spec == Init /\ [][Next]_vars

-----------------------------------------------------------------------------

Frame == [body : Seq(Byte), sums : Seq(Word), wire : Seq(Byte)]

(* Types: messages, frames and what is followed of them are of their kind; *)
(* the cursor of leo_net_message.h:44 stays inside its buffer.             *)
TypeOK ==
  /\ follows \in {"in", "out"}
  /\ stage \in {"keys", "table", "accept", "session"}
  /\ adjoining \in BOOLEAN
  /\ xor_keys \in [0 .. MAX_XOR_NUM - 1 -> Key]
  /\ entry255 \in Word
  /\ ac \in [sequence_id : 0 .. W - 1, session_key : Word, xor_key : Key]
  /\ peer \in [session_key : Word, xor_key : Key]
  /\ making \in Seq(Byte)
  /\ sums \in Seq(Word)
  /\ sent \in Seq(Frame)
  /\ got \in [frame : Nat, next : Nat, at : Nat, damage : Seq(Byte), bytes : Seq(Byte)]
  /\ pc \in {"idle", "crc"}
  /\ counts \in Nat
  /\ crc \in Word
  /\ accepted \in Seq([frame : Nat, number : BOOLEAN,
                    damage : {"none", "mirrored", "other"}])
  /\ verdict \in {"none", "passed", "refused"}
  /\ nm \in [id : [1 .. 2 -> Byte], real_size : 0 .. BUFFER_SIZE,
            buffer : [1 .. BUFFER_SIZE -> Byte]]
  /\ put \in Seq(Byte)

(* The frames transform_buffer_to_message lets pass are those the peer     *)
(* sent, each once and in the order it sent them: a repeated or overtaken  *)
(* frame never passes the comparison of the sequence number, although that *)
(* number wraps.  Damage to up to four neighbouring bytes passes only if   *)
(* it is mirrored where the crc32 begins.  That kind check_crc32 misses    *)
(* (leo_dof_crypto.c:97-128): the crc of generate_crc32, which appends     *)
(* nothing to the body, ends with the body's last bytes, in the order of   *)
(* the crc32 field backwards.  All other kinds it detects, although it is  *)
(* not the crc32 its table is made for.  If the sequence number lies       *)
(* within two bytes of the crc32, mirrored damage may change it.           *)
InOrder ==
  \A i \in 1 .. Len(accepted) :
    /\ accepted[i].number => accepted[i].frame = i
    /\ accepted[i].damage \in {"none", "mirrored"}

(* The next frame is never refused when it comes undamaged: the two ends   *)
(* agree on cipher, checksum and numbers, although entry 255 of the table  *)
(* (leo_dof_crypto.c:83) lies where the keys may be.                       *)
NextPasses == verdict = "refused" => got.damage # <<>> \/ got.frame # got.next

(* Whatever values the logic thread puts into a message with pop_ptr, of   *)
(* any sizes, up to the last byte pop_ptr grants, and over the remains of  *)
(* what it put there before, the peer reads the id and these values: the   *)
(* cipher's remainder of less than four bytes comes back like the bulk.    *)
PeerReadsMessage ==
  out.stored # <<>> =>
    PeerReads(out.stored) =
      [id |-> nm.id, size |-> Bytes(Number(Len(put)), 2), data |-> put]

(* transform_message_to_buffer stores nothing outside the buffer.          *)
WithinRoom == DOMAIN out.stored \subseteq 1 .. out.room
=============================================================================
