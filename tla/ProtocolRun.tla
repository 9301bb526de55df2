---------------------------- MODULE ProtocolRun -----------------------------
(***************************************************************************)
(* Values for the constants of GameProtocol.  The first byte of the frames *)
(* that carry the shorter payload is all ones, so the checksum reads entry *)
(* 255 of its table.                                                       *)
(***************************************************************************)
EXTENDS GameProtocol

RunXorKeys == {[i \in 1 .. XOR_KEY_LEN |-> Number(i + 3)]}
RunSessionKeys == {{0, 1, 4, 5, 6, 7, 9, 14}}
RunPayloads == {<<{0}, {}, {}, {}>>, <<{1, 7}, {}, {1}, {}, {2}, {6}, {}, {3}, {0}>>}
RunDamages == {<<{3}, {}, {}, {3}>>}
RunIds == {<<{0, 1}, {7}>>}
RunValues == {<<{0}>>, <<{1}, {2}>>, <<{3}, {4}, {5}, {6}>>}
=============================================================================
