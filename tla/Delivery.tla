------------------------------ MODULE Delivery ------------------------------
(***************************************************************************)
(* What sending one message after the other promises: the server takes a   *)
(* message at most once per attempt, an attempt is reported as sent only   *)
(* when the server has taken the message for every recipient, and one that *)
(* is reported as failed may all the same have been taken.  If answers     *)
(* come before the questions, success means nothing.                       *)
(***************************************************************************)
CONSTANT Recipients

VARIABLES outcome,   \* "none": not attempted yet
          taken,     \* the recipients for whom the server took the message
          early      \* there were answers before the questions

TypeOK ==
    /\ outcome \in {"none", "pending", "sent", "failed"}
    /\ taken \subseteq Recipients
    /\ early \in BOOLEAN

Init == outcome = "none" /\ taken = {} /\ early = FALSE

Attempt ==
    /\ outcome # "pending"
    /\ outcome' = "pending" /\ taken' = {} /\ early' = FALSE

Hurry ==
    /\ outcome = "pending" /\ taken = {}
    /\ early' = TRUE
    /\ UNCHANGED <<outcome, taken>>

Take ==
    /\ taken = {}
    /\ \/ outcome \in {"pending", "failed"} /\ taken' = Recipients
       \/ early /\ outcome # "none" /\ taken' \subseteq Recipients
    /\ UNCHANGED <<outcome, early>>

Succeed ==
    /\ outcome = "pending" /\ (taken = Recipients \/ early)
    /\ outcome' = "sent"
    /\ UNCHANGED <<taken, early>>

Fail ==
    /\ outcome = "pending"
    /\ outcome' = "failed"
    /\ UNCHANGED <<taken, early>>

Next == Attempt \/ Hurry \/ Take \/ Succeed \/ Fail

Spec == Init /\ [][Next]_<<outcome, taken, early>>
=============================================================================
