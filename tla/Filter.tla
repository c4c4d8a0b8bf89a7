------------------------------- MODULE Filter -------------------------------
(***************************************************************************)
(* Filter rules on a message that comes in.  A rule is enabled or not,     *)
(* matches some messages and has a list of actions; an action that stores  *)
(* the message names a folder.                                             *)
(***************************************************************************)
EXTENDS Integers, Sequences, FiniteSets, SequencesExt

Stores == {"move", "copy"}
Ends == {"not_receive", "delete", "stop"}

\* What the rules have done: FilterInfo, the folders the message went into,
\* and whether an action failed or the evaluation was stopped.
NoFilterInfo == [actions |-> {}, drop_done |-> FALSE, dest_list |-> <<>>, over |-> FALSE]

TypesOf(actions) == {actions[i].type : i \in DOMAIN actions}

\* filter_action_exec, when the folders (and perhaps "exec") of broken fail:
\* commands first, then all moves and copies, then the first action that ends it.
Stored(actions, broken) ==
    LET stores == SelectSeq(actions, LAMBDA a : a.type \in Stores)
        bad == {i \in DOMAIN stores : stores[i].dest \in broken}
    IN IF bad = {} THEN stores
       ELSE SubSeq(stores, 1, (CHOOSE i \in bad : \A j \in bad : i <= j) - 1)

Failed(actions, broken) ==
    \/ "exec" \in TypesOf(actions) /\ "exec" \in broken
    \/ \E i \in DOMAIN actions : actions[i].type \in Stores /\ actions[i].dest \in broken

filter_action_exec(info, actions, broken) ==
    LET fails == Failed(actions, broken)
        stored == IF "exec" \in TypesOf(actions) /\ "exec" \in broken THEN <<>>
                  ELSE Stored(actions, broken)
        moved == "move" \in TypesOf(stored)
        ends == SelectSeq(actions, LAMBDA a : a.type \in Ends)
        last == IF fails \/ moved \/ ends = <<>> THEN {} ELSE {Head(ends).type}
        dropped == info.drop_done \/ moved \/ last \cap {"not_receive", "delete"} # {}
    IN [actions |-> info.actions \cup TypesOf(stored) \cup last,
        drop_done |-> dropped,
        dest_list |-> info.dest_list \o [i \in DOMAIN stored |-> stored[i].dest],
        over |-> fails \/ dropped \/ "stop" \in last]

\* filter_apply_msginfo
filter_apply(info, rules, m, broken) ==
    FoldLeft(LAMBDA i, r : IF i.over \/ ~r.enabled \/ m \notin r.matches THEN i
                           ELSE filter_action_exec(i, r.actions, broken),
             [info EXCEPT !.over = FALSE], rules)
=============================================================================
