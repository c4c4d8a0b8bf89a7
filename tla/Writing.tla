------------------------------ MODULE Writing ------------------------------
(***************************************************************************)
(* What the author of a message may rely on: whatever has been written is  *)
(* in a window or in a saved message, until it was sent or given up.  A    *)
(* text is the set of the edits that made it.                              *)
(***************************************************************************)
CONSTANTS Windows, NoText

VARIABLES open,    \* the text of each window
          saved,   \* the texts of the saved messages
          given    \* the edits that were sent or given up

vars == <<open, saved, given>>

Init == open = [w \in Windows |-> NoText] /\ saved = {} /\ given = {}

Opened == {open[w] : w \in Windows} \ {NoText}

\* A message, or the lack of one, holds all of a text that is to be kept.
Kept(text, messages, done) ==
    \E m \in messages \cup {{}} : text \subseteq m \cup done

Open(w) ==
    /\ open[w] = NoText
    /\ \E text \in saved \cup SUBSET given : open' = [open EXCEPT ![w] = text]
    /\ UNCHANGED <<saved, given>>

Write(w) ==
    /\ open[w] # NoText /\ open'[w] # NoText
    /\ open' = [open EXCEPT ![w] = open'[w]]
    /\ open[w] \subseteq open'[w]
    /\ (open'[w] \ open[w]) \cap UNION (Opened \cup saved \cup {given}) = {}
    /\ UNCHANGED <<saved, given>>

Save(w) ==
    /\ open[w] # NoText
    /\ \E text \in SUBSET open[w] : saved' = saved \cup {text}
    /\ UNCHANGED <<open, given>>

\* Messages go when a newer one has their text, or there is no more need for
\* it, as it was sent or given up.
Finish ==
    /\ given \subseteq given' /\ saved' \subseteq saved
    /\ \A text \in saved : Kept(text, saved', given')
    /\ UNCHANGED open

\* So does the text of a window, or a part of it.
Leave(w) ==
    /\ open[w] # NoText /\ given \subseteq given'
    /\ \/ open' = [open EXCEPT ![w] = NoText] /\ Kept(open[w], saved, given')
       \/ /\ open'[w] # NoText /\ open' = [open EXCEPT ![w] = open'[w]]
          /\ open'[w] \subseteq open[w] /\ Kept(open[w], {open'[w]}, given')
    /\ UNCHANGED saved

\* Windows do not outlive the program, messages do.
Crash == open' = [w \in Windows |-> NoText] /\ UNCHANGED <<saved, given>>

Next ==
    \/ \E w \in Windows : Open(w) \/ Write(w) \/ Save(w) \/ Leave(w)
    \/ Finish \/ Crash

Spec == Init /\ [][Next]_vars
=============================================================================
