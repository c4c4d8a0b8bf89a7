----------------------------- MODULE MCMhFolder -----------------------------
(***************************************************************************)
(* Instances of MhFolder: messages that can be told apart only by name.    *)
(***************************************************************************)
EXTENDS MhFolder, TLC

MCKinds == {<<"F_NORMAL", FALSE>>, <<"F_TRASH", TRUE>>, <<"F_DRAFT", FALSE>>}
Symmetry == Permutations(Msgs)
=============================================================================
