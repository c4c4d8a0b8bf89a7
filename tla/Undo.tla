-------------------------------- MODULE Undo --------------------------------
(***************************************************************************)
(* Undo and redo in the compose window: two lists of records of what was   *)
(* inserted and deleted where, characters that are typed or deleted one    *)
(* after the other joined into one record, and a selection that is pasted  *)
(* over kept as a pair of records.                                         *)
(***************************************************************************)
EXTENDS SequencesExt, Integers

CONSTANTS Chars,
          Typed, Pasted,  \* the strings that are typed or pasted
          Levels,   \* prefs_common.undolevels
          MaxLen    \* bound: the length of the text

ASSUME CharsAssumption == Typed \cup Pasted \subseteq Seq(Chars) \ {<<>>}
ASSUME LevelsAssumption == Levels \in Nat /\ MaxLen \in Nat

VARIABLES
    text,     \* the text buffer
    main,     \* UndoMain
    alive,
    spoiled   \* observer: a replaced selection has got the text and the lists out
              \* of step.  It was undone, and the new text has stayed; or one of
              \* its two records is missing, as nothing was pasted or the older
              \* one has been forgotten.  Bound: no changes after that.

vars == <<text, main, alive, spoiled>>

UndoActions == {"INSERT", "DELETE", "REPLACE_INSERT", "REPLACE_DELETE"}
Replacing == [INSERT |-> "REPLACE_INSERT", DELETE |-> "REPLACE_DELETE"]

Texts == UNION {[1..n -> Chars] : n \in 0..MaxLen}

\* Positions are between characters; one behind the end is the end.
Upto(t, p) == IF p < Len(t) THEN SubSeq(t, 1, p) ELSE t
From(t, p) == SubSeq(t, p + 1, Len(t))
Inserted(t, p, s) == Upto(t, p) \o s \o From(t, p)
Deleted(t, a, b) == Upto(t, a) \o From(t, b)

Info(action, s, p) ==
    [action |-> action, text |-> s, start_pos |-> p, end_pos |-> p + Len(s),
     mergeable |-> Len(s) = 1 /\ s # <<"\n">>]

Init ==
    /\ text \in Texts
    /\ main = [undo |-> <<>>, redo |-> <<>>, undo_state |-> FALSE,
               redo_state |-> FALSE, paste |-> 0]
    /\ alive = TRUE /\ spoiled = FALSE

-----------------------------------------------------------------------------
\* undo_merge

Blank(c) == c \in {" ", "\t"}

\* Mutant of Follows: what is typed in front is taken for typed behind.
Follows_Anywhere(last, new) ==
    last.end_pos = new.start_pos \/ last.start_pos = new.start_pos
Follows(last, new) == last.end_pos = new.start_pos

\* A new word, or blanks that end one, are kept apart when they are deleted.
SameWord(c, neighbour) == Blank(c) \/ ~Blank(neighbour)

WithDeleteKey(last, new) ==
    last.start_pos = new.start_pos /\ SameWord(new.text[1], Last(last.text))
WithBackspace(last, new) ==
    /\ last.start_pos # new.start_pos
    /\ last.start_pos = new.end_pos /\ SameWord(new.text[1], Head(last.text))

Joins(list, new) ==
    /\ list # <<>> /\ Head(list).mergeable
    /\ new.mergeable /\ new.action = Head(list).action
    /\ \/ new.action = "INSERT" /\ Follows(Head(list), new)
       \/ /\ new.action = "DELETE"
          /\ WithDeleteKey(Head(list), new) \/ WithBackspace(Head(list), new)

\* Mutant of Merged: the end of what was deleted does not move on.
Merged_KeepsEnd(last, new) ==
    IF new.action = "DELETE" /\ last.start_pos # new.start_pos
    THEN [last EXCEPT !.text = new.text \o @, !.start_pos = new.start_pos]
    ELSE [last EXCEPT !.text = @ \o new.text]
Merged(last, new) ==
    IF new.action = "DELETE" /\ last.start_pos # new.start_pos
    THEN [last EXCEPT !.text = new.text \o @, !.start_pos = new.start_pos]
    ELSE [last EXCEPT !.text = @ \o new.text, !.end_pos = @ + 1]

\* A record that was not joined with the next one will not be any more.
Closed(list) ==
    IF list = <<>> THEN list
    ELSE <<[Head(list) EXCEPT !.mergeable = FALSE]>> \o Tail(list)

undo_check_size(list) == IF Len(list) >= Levels THEN Front(list) ELSE list

\* While a selection is pasted over, paste counts its two records.
undo_add(u, info) ==
    LET new == IF u.paste = 0 THEN info ELSE [info EXCEPT !.action = Replacing[@]]
        counted == [u EXCEPT !.redo = <<>>, !.redo_state = FALSE,
                             !.paste = IF @ = 1 THEN 2 ELSE 0]
    IN  IF Joins(u.undo, new)
        THEN [counted EXCEPT !.undo = <<Merged(Head(@), new)>> \o Tail(@)]
        ELSE [counted EXCEPT !.undo = <<new>> \o undo_check_size(Closed(@)),
                             !.undo_state = TRUE]

-----------------------------------------------------------------------------
\* Changes of the text, and the handlers of its signals.

Heard(u, info) == IF Levels = 0 THEN u ELSE undo_add(u, info)

\* Of the two records of a pair the later one comes first.
Paired(list) ==
    \A k \in 1..Len(list) :
        /\ list[k].action = "REPLACE_INSERT"
              => k < Len(list) /\ list[k + 1].action = "REPLACE_DELETE"
        /\ list[k].action = "REPLACE_DELETE"
              => k > 1 /\ list[k - 1].action = "REPLACE_INSERT"

Hear(u) == main' = u /\ spoiled' = ~Paired(u.undo) /\ UNCHANGED alive

Changing == alive /\ ~spoiled

\* undo_insert_text_cb
Insert(p, s) ==
    /\ Changing /\ p \in 0..Len(text) /\ Len(text) + Len(s) <= MaxLen
    /\ text' = Inserted(text, p, s)
    /\ Hear(Heard(main, Info("INSERT", s, p)))

\* undo_delete_text_cb
Delete(a, b) ==
    /\ Changing /\ a \in 0..Len(text) /\ b \in a + 1..Len(text)
    /\ text' = Deleted(text, a, b)
    /\ Hear(Heard(main, Info("DELETE", SubSeq(text, a + 1, b), a)))

\* undo_paste_clipboard_cb with a selection, and what GTK then does with the
\* buffer: nothing if there is no text to paste.
PasteOver(a, b) ==
    /\ Changing /\ a \in 0..Len(text) /\ b \in a + 1..Len(text)
    /\ LET pasting == IF Levels = 0 THEN main ELSE [main EXCEPT !.paste = 1]
           deleted == Heard(pasting, Info("DELETE", SubSeq(text, a + 1, b), a))
       IN  \/ text' = text /\ Hear(pasting)
           \/ \E s \in Pasted :
                 /\ Len(text) - (b - a) + Len(s) <= MaxLen
                 /\ text' = Inserted(Deleted(text, a, b), a, s)
                 /\ Hear(Heard(deleted, Info("INSERT", s, a)))

-----------------------------------------------------------------------------
\* undo_undo, undo_redo: the handlers are blocked meanwhile, and there is no
\* wrapping of lines (compose_undo_cb, compose_redo_cb).

Inserting == {"INSERT", "REPLACE_INSERT"}

\* What it means to take a record back, or to follow it once more.
Reverted(t, info) ==
    IF info.action \in Inserting THEN Deleted(t, info.start_pos, info.end_pos)
    ELSE Inserted(t, info.start_pos, info.text)
Reapplied(t, info) ==
    IF info.action \in Inserting THEN Inserted(t, info.start_pos, info.text)
    ELSE Deleted(t, info.start_pos, info.end_pos)

\* The n records at hand go from one list to the other; those of a pair that
\* come second stay as they are.
Undone(n) ==
    [main EXCEPT !.undo = SubSeq(@, n + 1, Len(@)),
                 !.redo = Reverse(SubSeq(Closed(main.undo), 1, n)) \o @,
                 !.redo_state = TRUE, !.undo_state = @ /\ Len(main.undo) > n]
Redone(n) ==
    [main EXCEPT !.redo = SubSeq(@, n + 1, Len(@)),
                 !.undo = Reverse(SubSeq(main.redo, 1, n)) \o @,
                 !.undo_state = TRUE, !.redo_state = @ /\ Len(main.redo) > n]

\* The record that comes next is not the other half: both are moved, the menus
\* are not changed, and the handlers stay blocked.
Stuck(u) ==
    /\ main' = [u EXCEPT !.undo_state = main.undo_state, !.redo_state = main.redo_state]
    /\ UNCHANGED <<text, alive, spoiled>>

\* The other half is looked for in an empty list.
Dies == alive' = FALSE /\ UNCHANGED <<text, main, spoiled>>

undo_undo ==
    /\ alive /\ Len(text) <= MaxLen /\ main.undo_state /\ main.undo # <<>>
    /\ LET info == Head(main.undo) IN
       CASE info.action \in {"INSERT", "DELETE"} ->
              /\ text' = Reverted(text, info) /\ main' = Undone(1)
              /\ UNCHANGED <<alive, spoiled>>
         [] info.action = "REPLACE_INSERT" /\ Len(main.undo) = 1 -> Dies
         [] info.action = "REPLACE_INSERT" /\ Len(main.undo) > 1 ->
              IF main.undo[2].action # "REPLACE_DELETE" THEN Stuck(Undone(2))
              ELSE /\ text' = Inserted(text, info.start_pos, main.undo[2].text)
                   /\ main' = Undone(2) /\ spoiled' = TRUE
                   /\ UNCHANGED alive
         [] info.action = "REPLACE_DELETE" ->
              main' = Undone(1) /\ UNCHANGED <<text, alive, spoiled>>

undo_redo ==
    /\ alive /\ Len(text) <= MaxLen /\ main.redo_state /\ main.redo # <<>>
    /\ LET info == Head(main.redo) IN
       CASE info.action \in {"INSERT", "DELETE"} ->
              /\ text' = Reapplied(text, info) /\ main' = Redone(1)
              /\ UNCHANGED <<alive, spoiled>>
         [] info.action = "REPLACE_DELETE" /\ Len(main.redo) = 1 -> Dies
         [] info.action = "REPLACE_DELETE" /\ Len(main.redo) > 1 ->
              IF main.redo[2].action # "REPLACE_INSERT" THEN Stuck(Redone(2))
              ELSE /\ text' = Reapplied(Reapplied(text, info), main.redo[2])
                   /\ main' = Redone(2) /\ UNCHANGED <<alive, spoiled>>
         [] info.action = "REPLACE_INSERT" ->
              main' = Redone(1) /\ UNCHANGED <<text, alive, spoiled>>

Next ==
    \/ \E p \in 0..MaxLen, s \in Typed \cup Pasted : Insert(p, s)
    \/ \E a, b \in 0..MaxLen : Delete(a, b) \/ PasteOver(a, b)
    \/ undo_undo \/ undo_redo

Spec == Init /\ [][Next]_vars

-----------------------------------------------------------------------------
InfoOK(info) ==
    /\ info.action \in UndoActions /\ info.mergeable \in BOOLEAN
    /\ info.text \in Seq(Chars) \ {<<>>} /\ info.start_pos \in Nat
    /\ info.end_pos = info.start_pos + Len(info.text)

\* The menus know whether there is something to undo or redo.
TypeOK ==
    /\ text \in Seq(Chars)
    /\ \A info \in ToSet(main.undo) \cup ToSet(main.redo) : InfoOK(info)
    /\ Len(main.undo) <= Levels
    /\ main.undo_state \in BOOLEAN /\ main.redo_state \in BOOLEAN
    /\ ~spoiled => /\ main.undo_state <=> main.undo # <<>>
                   /\ main.redo_state <=> main.redo # <<>>
    /\ main.paste \in 0..2
    /\ alive \in BOOLEAN /\ spoiled \in BOOLEAN

\* The texts that the records of a list lead to, but for those between the two
\* records of a pair.
Stages(list, Follow(_, _), between) ==
    LET reached[k \in 0..Len(list)] ==
            IF k = 0 THEN text ELSE Follow(reached[k - 1], list[k])
        whole == SelectSeq([k \in 1..Len(list) |-> k],
                           LAMBDA k : list[k].action # between)
    IN  [i \in 1..Len(whole) |-> reached[whole[i]]]

Versions ==
    INSTANCE History WITH past <- Stages(main.undo, Reverted, "REPLACE_INSERT"),
                          future <- Stages(main.redo, Reapplied, "REPLACE_DELETE")

\* Whatever was typed, deleted, pasted, joined and forgotten, Undo and Redo lead
\* back and forth through texts the window has had, as long as no replaced
\* selection got in the way.
Restores ==
    [][~spoiled' => [Versions!Next]_(Versions!vars)]_vars
=============================================================================
