--------------------------- MODULE MailRetrieval ---------------------------
(***************************************************************************)
(* What the retrieval of mail from a server that also serves other clients *)
(* promises: a message leaves the server only when it has been handled,    *)
(* that is, stored in a local folder or dropped because a filter says so.  *)
(***************************************************************************)
CONSTANT Uids

VARIABLES onServer, handled

TypeOK == onServer \subseteq Uids /\ handled \subseteq Uids

Init == onServer = {} /\ handled = {}

Arrive(u) ==
    /\ u \notin onServer \cup handled
    /\ onServer' = onServer \cup {u}
    /\ UNCHANGED handled

Handle(u) ==
    /\ u \in onServer
    /\ handled' = handled \cup {u}
    /\ UNCHANGED onServer

Remove(S) ==
    /\ S \subseteq onServer \cap handled
    /\ onServer' = onServer \ S
    /\ UNCHANGED handled

Next ==
    \/ \E u \in Uids : Arrive(u) \/ Handle(u)
    \/ \E S \in SUBSET Uids : Remove(S)

Spec == Init /\ [][Next]_<<onServer, handled>>
=============================================================================
