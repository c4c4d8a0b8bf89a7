------------------------------ MODULE History ------------------------------
(***************************************************************************)
(* What Undo and Redo promise: Undo brings back the text before the last   *)
(* change, or before the last group of typed or deleted characters; Redo   *)
(* the text that was undone last.  The oldest changes may be forgotten.    *)
(***************************************************************************)
EXTENDS Integers, Sequences

CONSTANTS Chars,
          Levels   \* how many changes are kept at least, a replaced
                   \* selection counting as two

VARIABLES text,
          past,    \* the texts that Undo brings back, the latest first
          future   \* those that Redo brings back

vars == <<text, past, future>>

Init == text \in Seq(Chars) /\ past = <<>> /\ future = <<>>

\* A character that is typed or deleted may join the group before it.
Group ==
    /\ past # <<>> /\ Len(text') - Len(text) \in {-1, 1}
    /\ past' = past

NewChange ==
    \E n \in 1..Len(past) + 1 :
        /\ n = Len(past) + 1 \/ 2 * n >= Levels
        /\ past' = SubSeq(<<text>> \o past, 1, n)

Change == text' \in Seq(Chars) /\ (Group \/ NewChange) /\ future' = <<>>

Undo ==
    /\ past # <<>>
    /\ text' = Head(past) /\ past' = Tail(past) /\ future' = <<text>> \o future

Redo ==
    /\ future # <<>>
    /\ text' = Head(future) /\ future' = Tail(future) /\ past' = <<text>> \o past

Next == Change \/ Undo \/ Redo

Spec == Init /\ [][Next]_vars
=============================================================================
