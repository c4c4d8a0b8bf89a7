------------------------------ MODULE Outgoing ------------------------------
(***************************************************************************)
(* What the queue of outgoing mail promises: a message that has been put   *)
(* into it leaves it only when a server has taken it, or when the user     *)
(* throws it away or replaces it.                                          *)
(***************************************************************************)
CONSTANT Msgs

VARIABLES waiting,    \* the messages in the queue
          delivered,  \* those that a server has taken
          dropped     \* those that the user has thrown away or replaced

TypeOK == waiting \subseteq Msgs /\ delivered \subseteq Msgs /\ dropped \subseteq Msgs

Init == waiting = {} /\ delivered = {} /\ dropped = {}

\* The new message may be the edited version of old ones.
Submit(m, old) ==
    /\ m \notin waiting
    /\ waiting' = (waiting \cup {m}) \ old
    /\ dropped' = dropped \cup old
    /\ UNCHANGED delivered

Deliver(m) ==
    /\ delivered' = delivered \cup {m}
    /\ UNCHANGED <<waiting, dropped>>

Leave(m) ==
    /\ m \in waiting \cap delivered
    /\ waiting' = waiting \ {m}
    /\ UNCHANGED <<delivered, dropped>>

Drop(m) ==
    /\ m \in waiting
    /\ waiting' = waiting \ {m} /\ dropped' = dropped \cup {m}
    /\ UNCHANGED delivered

Next ==
    \E m \in Msgs :
        \/ \E old \in SUBSET waiting : Submit(m, old)
        \/ Deliver(m) \/ Leave(m) \/ Drop(m)

Spec == Init /\ [][Next]_<<waiting, delivered, dropped>>
=============================================================================
