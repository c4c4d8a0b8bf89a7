------------------------------- MODULE MCUndo -------------------------------
(***************************************************************************)
(* An instance of Undo: a letter and a blank typed one by one, and two     *)
(* letters that are pasted.                                                *)
(***************************************************************************)
EXTENDS Undo

MCChars == {"a", " "}
MCTyped == {<<"a">>, <<" ">>}
MCPasted == {<<"a", "a">>}
=============================================================================
