------------------------------ MODULE Mailbox -------------------------------
(***************************************************************************)
(* What a folder promises its user: a message stays, with the flags it was *)
(* given last, until the user moves it away or discards it; a message that *)
(* is moved is never in neither place; and when the program dies, flags    *)
(* may be forgotten, but no message is.                                    *)
(***************************************************************************)
EXTENDS Integers

CONSTANTS Msgs, None, UserFlags

VARIABLES kind,    \* of drafts what comes counts as read; only from a trash
                   \* are messages discarded
          here,    \* flags of the messages in the folder
          there,   \* flags of the messages in other folders
          editing  \* the message whose new version is being written, unless
                   \* it was moved away since

Flags == SUBSET ({"UNREAD"} \cup UserFlags)

Over(f, g) == [m \in DOMAIN f \cup DOMAIN g |-> IF m \in DOMAIN f THEN f[m] ELSE g[m]]
Only(f, S) == [m \in DOMAIN f \cap S |-> f[m]]
Less(f, S) == [m \in DOMAIN f \ S |-> f[m]]

Kept(f) == [m \in DOMAIN f |-> IF kind = "F_DRAFT" THEN f[m] \ {"UNREAD"} ELSE f[m]]

Init ==
    /\ kind \in {"F_NORMAL", "F_TRASH", "F_DRAFT"}
    /\ here = <<>> /\ editing = None
    /\ \E S \in SUBSET Msgs : there \in [S -> Flags]

Arrive(m) ==
    /\ m \notin DOMAIN here \cup DOMAIN there
    /\ \E flags \in Flags : here' = Over([x \in {m} |-> flags], here)
    /\ UNCHANGED <<there, editing>>

\* Some of the messages come, or their copies do; a message that cannot be
\* moved stays where it is.  The one that is edited may come back.
Bring(S) ==
    /\ S \subseteq DOMAIN there \ DOMAIN here
    /\ here' = Over(here, Kept(Only(there, S)))
    /\ there' \in {there, Less(there, S)}
    /\ editing' \in IF editing = None THEN S \cup {None} ELSE {editing}

MoveAway(S) ==
    /\ S \subseteq DOMAIN here \ DOMAIN there
    /\ there' = Over(there, Only(here, S)) /\ here' = Less(here, S)
    /\ editing' = IF editing \in S THEN None ELSE editing

\* One flag at a time.
Mark(m) ==
    /\ m \in DOMAIN here
    /\ \E flag \in {"UNREAD"} \cup UserFlags :
          here' \in {[here EXCEPT ![m] = @ \cup {flag}], [here EXCEPT ![m] = @ \ {flag}]}
    /\ UNCHANGED <<there, editing>>

\* A reply to the message is sent.
Answer(m) ==
    /\ m \in DOMAIN here
    /\ here' = [here EXCEPT ![m] = @ \cup UserFlags]
    /\ UNCHANGED <<there, editing>>

Discard(S) ==
    /\ kind = "F_TRASH" /\ S \subseteq DOMAIN here
    /\ here' = Less(here, S)
    /\ UNCHANGED <<there, editing>>

Edit(m) == editing' = m /\ UNCHANGED <<here, there>>

\* A version is written; the one it was made from goes.
Save(m) ==
    /\ m \notin DOMAIN here \cup DOMAIN there
    /\ \E flags \in Flags :
          here' = Over([x \in {m} |-> flags], Less(here, {editing}))
    /\ editing' \in {m, None}
    /\ UNCHANGED there

\* The program dies: the flags are as they were when the file was written last.
Crash(S) ==
    /\ S \subseteq DOMAIN there \ DOMAIN here
    /\ here' \in [DOMAIN here \cup S -> Flags]
    /\ there' \in {there, Less(there, S)}
    /\ editing' = None

Living ==
    \/ \E m \in Msgs : Arrive(m) \/ Mark(m) \/ Answer(m) \/ Save(m)
    \/ \E m \in Msgs \cup {None} : Edit(m)
    \/ \E S \in SUBSET Msgs : Bring(S) \/ MoveAway(S) \/ Discard(S)

Dying == \E S \in SUBSET Msgs : Crash(S)

vars == <<kind, here, there, editing>>

Spec == Init /\ [][(Living \/ Dying) /\ UNCHANGED kind]_vars

=============================================================================
