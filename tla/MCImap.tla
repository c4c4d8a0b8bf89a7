------------------------------- MODULE MCImap -------------------------------
(***************************************************************************)
(* Instances of Imap.                                                      *)
(***************************************************************************)
EXTENDS Imap, TLC

Symmetry == Permutations(Msgs)
=============================================================================
