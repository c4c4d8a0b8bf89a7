----------------------------- MODULE ImapServer -----------------------------
(***************************************************************************)
(* An IMAP4 server and one connection to it, as far as imap.c relies on    *)
(* them: commands are answered in order, unique ids are never given out    *)
(* twice, and a command works on the mailbox that is selected.             *)
(***************************************************************************)
EXTENDS Integers, Sequences, FiniteSets, SequencesExt

CONSTANTS Boxes, INBOX, Msgs, None

ASSUME BoxesAssumption == INBOX \in Boxes /\ None \notin Boxes \cup Msgs
ASSUME MsgsFinite == IsFiniteSet(Msgs)

\* The message with unique id u in b is or was mail[b][u].
EmptyServer ==
    [boxes |-> Boxes, mail |-> [b \in Boxes |-> <<>>],
     present |-> [b \in Boxes |-> {}], deleted |-> [b \in Boxes |-> {}]]

MsgsIn(srv, b) == {srv.mail[b][u] : u \in srv.present[b]}

Add(srv, b, ms) ==
    [srv EXCEPT !.mail[b] = @ \o ms,
                !.present[b] = @ \cup (Len(srv.mail[b]) + 1)..(Len(srv.mail[b]) + Len(ms))]

Expunge(srv, b) ==
    [srv EXCEPT !.present[b] = @ \ srv.deleted[b], !.deleted[b] = {}]

\* A connection: the mailbox that is selected, perhaps for reading only, and
\* the replies that the client has not read.
NoConnection == [up |-> FALSE, box |-> None, ro |-> FALSE, replies |-> <<>>]
Connected == [NoConnection EXCEPT !.up = TRUE]

\* Whether the server can do what command cmd of handler f asks on connection c.
Possible(srv, c, cmd, f) ==
    /\ cmd \in {"fetch", "flags", "headers", "copy", "store", "setflags", "expunge", "close"} =>
          c.box \in srv.boxes
    /\ cmd \in {"store", "setflags", "expunge"} => ~c.ro
    /\ cmd = "fetch" => f.uids \subseteq srv.present[c.box]
    /\ cmd \in {"copy", "append", "status"} => f.dest \in srv.boxes
    /\ cmd \in {"select", "delete"} => f.box \in srv.boxes

\* What it does then.
Done(srv, c, cmd, f) ==
    CASE cmd = "store" -> [srv EXCEPT !.deleted[c.box] = @ \cup (f.uids \cap srv.present[c.box])]
      [] cmd = "expunge" \/ (cmd = "close" /\ ~c.ro) -> Expunge(srv, c.box)
      [] cmd = "copy" ->
            Add(srv, f.dest, [i \in DOMAIN SetToSeq(f.uids \cap srv.present[c.box]) |->
                                srv.mail[c.box][SetToSeq(f.uids \cap srv.present[c.box])[i]]])
      [] cmd = "append" -> Add(srv, f.dest, <<f.msg>>)
      [] cmd = "delete" -> [srv EXCEPT !.boxes = @ \ {f.box}, !.present[f.box] = {},
                                       !.deleted[f.box] = {}]
      [] OTHER -> srv

Reply(srv, c, cmd, f, ok) ==
    [ok |-> ok, body |-> IF cmd = "fetch" /\ ok THEN srv.mail[c.box][CHOOSE u \in f.uids : TRUE] ELSE None]

\* The connection afterwards; a SELECT that is refused leaves nothing selected.
Answered(srv, c, cmd, f, ok) ==
    [up |-> TRUE,
     box |-> IF cmd = "select" THEN IF ok THEN f.box ELSE None
             ELSE IF cmd = "examine" /\ ok THEN INBOX
             ELSE IF cmd = "close" /\ ok THEN None ELSE c.box,
     ro |-> IF cmd = "examine" /\ ok THEN TRUE ELSE IF cmd = "select" THEN FALSE ELSE c.ro,
     replies |-> Append(c.replies, Reply(srv, c, cmd, f, ok))]
=============================================================================
