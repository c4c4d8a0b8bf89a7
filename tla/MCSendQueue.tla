---------------------------- MODULE MCSendQueue ----------------------------
(***************************************************************************)
(* Instances of SendQueue: three messages, one of which may be an edited   *)
(* version of another, and two runs inside each other.                     *)
(***************************************************************************)
EXTENDS SendQueue, TLC

CONSTANTS m1, m2, m3

MCMsgs == {m1, m2, m3}
Symmetry == Permutations(MCMsgs)
=============================================================================
