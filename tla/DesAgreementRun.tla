-------------------------- MODULE DesAgreementRun --------------------------
(***************************************************************************)
(* Values for the constants of DesAgreement: a block of every single bit,  *)
(* under the key of send_key; a key of every single bit; and, for triple   *)
(* DES, keys with three different parts.                                   *)
(***************************************************************************)
EXTENDS DesAgreement

\* DEFAULT_ECB: "1Z2X3C0" and the zero byte behind it.
DEFAULT_ECB == [n \in 1 .. 8 |-> ByteAt(Number(<<49, 90, 50, 88, 51, 67, 48, 0>>[n]), 0)]

OneBit == {[n \in 1 .. 8 |-> IF n = k THEN {b} ELSE {}] : k \in 1 .. 8, b \in 0 .. 7}

Two(n, a, b) == [k \in 1 .. 8 |-> IF k = n THEN {a, b} ELSE {a}]

RunCases == ({DEFAULT_ECB} \X OneBit) \union (OneBit \X {Two(3, 1, 6)})
RunTripleCases ==
  {DEFAULT_ECB \o Two(n, 2, 7) \o Two(1, n, 5) : n \in 3 .. 4} \X {DEFAULT_ECB, Two(2, 0, 3)}
=============================================================================
