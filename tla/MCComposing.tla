---------------------------- MODULE MCComposing ----------------------------
(***************************************************************************)
(* Two windows, two messages and two edits.  Windows and what names      *)
(* messages are interchangeable.                                           *)
(***************************************************************************)
EXTENDS Composing, TLC

Interchangeable == Permutations(Windows) \cup Permutations(Ids)
=============================================================================
