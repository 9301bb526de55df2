------------------------------ MODULE ServerRun ------------------------------
(***************************************************************************)
(* An instance of NetServer for TLC.  Nothing tells one descriptor from    *)
(* another but that it is in use, and none is used twice, so the ones that *)
(* accept returns may be taken in ascending order: every other behaviour   *)
(* is one of these with the descriptors renamed.                           *)
(***************************************************************************)
EXTENDS NetServer

Ascending ==
  \A fd \in Accepted' \ Accepted, f \in Sockets : f < fd => f \in Accepted

RunNext == (NetThread /\ Ascending) \/ LogicThread \/ Peers

RunSpec == Init /\ [][RunNext]_vars /\ WF_vars(Turn)
=============================================================================
