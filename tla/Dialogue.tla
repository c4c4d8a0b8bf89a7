------------------------------ MODULE Dialogue ------------------------------
(***************************************************************************)
(* What a session promises to the protocol above it: the server takes the  *)
(* bytes the program has asked it to take, in their order, and what the    *)
(* server answers is heard piece by piece, each piece whole, once and in   *)
(* its order, until the session is over.                                   *)
(***************************************************************************)
EXTENDS Sequences, Naturals

VARIABLES asked,     \* the bytes the program wants to send
          taken,     \* the bytes the server has got
          answered,  \* the pieces the server has answered
          heard,     \* the pieces the program has got
          over       \* the session has ended

IsPrefixOf(s, t) == Len(s) <= Len(t) /\ s = SubSeq(t, 1, Len(s))

Init == asked = <<>> /\ taken = <<>> /\ answered = <<>> /\ heard = <<>> /\ over = FALSE

Hear ==
    /\ Len(heard) < Len(answered)
    /\ heard' = Append(heard, answered[Len(heard) + 1])

\* The program hears at most one piece and goes on to send.
Talk ==
    /\ ~over
    /\ Hear \/ UNCHANGED heard
    /\ IsPrefixOf(asked, asked') /\ IsPrefixOf(taken, taken') /\ IsPrefixOf(taken', asked')
    /\ UNCHANGED answered

Answer ==
    /\ taken = asked
    /\ Len(answered') > Len(answered) /\ IsPrefixOf(answered, answered')
    /\ UNCHANGED <<asked, taken, heard, over>>

End == ~over /\ over' = TRUE /\ UNCHANGED <<asked, taken, answered, heard>>

Next == (Talk /\ over' \in BOOLEAN) \/ Answer \/ End

Spec == Init /\ [][Next]_<<asked, taken, answered, heard, over>>
=============================================================================
