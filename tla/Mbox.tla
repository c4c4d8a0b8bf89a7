-------------------------------- MODULE Mbox --------------------------------
(***************************************************************************)
(* A file of messages in the mbox format, as mbox.c writes and reads it.   *)
(* A line is a pair of what it begins with and whose it is.                *)
(***************************************************************************)
EXTENDS Integers, Sequences, SequencesExt

Separator == <<"From ", "">>
Blank == <<"", "">>

Escaped(line) == IF line[1] = "From " THEN <<">From ", line[2]>> ELSE line
Unescaped(line) == IF line[1] = ">From " THEN <<"From ", line[2]>> ELSE line

\* export_msgs_to_mbox, and what delivers into a spool
Written(text) == <<Separator>> \o [i \in DOMAIN text |-> Escaped(text[i])] \o <<Blank>>

Blanks(n) == [i \in 1..n |-> Blank]

\* The loop of proc_mbox_full over the lines after the first one of a message:
\* what went into the file, the empty lines and the From_ line that wait, and
\* what is left once the next message has begun.
Put(st, line) ==
    [st EXCEPT !.file = @ \o Blanks(st.empty) \o st.from \o <<Unescaped(line)>>,
               !.empty = 0, !.from = <<>>]

AfterFrom(st, line) ==
    CASE line[1] \in {"header", ">From "} -> [st EXCEPT !.next = TRUE, !.rest = <<Unescaped(line)>>]
      [] line[1] = "From " -> [st EXCEPT !.from = <<line>>]
      [] OTHER -> Put(st, line)

ReadLine(st, line) ==
    CASE st.next -> [st EXCEPT !.rest = Append(@, line)]
      [] ~st.next /\ st.from # <<>> -> AfterFrom(st, line)
      [] ~st.next /\ st.from = <<>> /\ line = Blank -> [st EXCEPT !.empty = @ + 1]
      [] ~st.next /\ st.from = <<>> /\ line[1] = "From " -> [st EXCEPT !.from = <<line>>]
      [] OTHER -> Put(st, line)

\* One empty line before the separator, or at the end, is not the message's.
Ending(st) ==
    IF ~st.next /\ st.from # <<>> THEN Blanks(st.empty) \o st.from
    ELSE Blanks(IF st.empty > 0 THEN st.empty - 1 ELSE 0)

\* The first message of lines, which begin after its separator, and the others
FirstMessage(lines) ==
    LET st == FoldLeft(ReadLine, [file |-> <<Head(lines)>>, empty |-> 0, from |-> <<>>,
                                  next |-> FALSE, rest |-> <<>>], Tail(lines))
    IN [file |-> st.file \o Ending(st), rest |-> st.rest]

\* The lines after the first separator, or <<>> if this is no mbox
Begun(lines) ==
    LET head == {i \in DOMAIN lines : lines[i] # Blank}
        first == CHOOSE i \in head : \A j \in head : i <= j
    IN IF head = {} \/ lines[first][1] # "From " THEN <<>>
       ELSE SubSeq(lines, first + 1, Len(lines))

\* All messages
Messages[lines \in Seq(Seq(STRING))] ==
    IF lines = <<>> THEN <<>>
    ELSE LET m == FirstMessage(lines) IN <<m.file>> \o Messages[m.rest]
=============================================================================
