# Verification of Sylpheed

TLA+ specifications of the parts of Sylpheed (a GTK+ mail client in C) whose
correctness depends on the order of things: what a POP3 session records, fetches
and deletes; how a message is sent and what the queue of outgoing mail keeps; who
may look for new mail while the main loop is entered again and again; how bytes
become lines and messages; what MH folders, their marks and caches, the IMAP4
client and the mail spool do to messages that must not get lost; how compose
windows save, send and undo.  TLC checks them on small instances; for POP3
retrieval, for sending one message, for the queue of outgoing mail, for the
nesting of checks, for compose windows and for the IMAP4 client TLAPS proves safety
properties for every value of the constants.

Paths and line numbers are those of the repository.  `PROJECT.json` lists under
`map` the lines each definition stands for, and under `hazards` what is hard to
test, at its line, with the properties that cover it.

To run something, in this directory:

    tlc -config Pop3Records.cfg MCPop3.tla
    tlapm Pop3Proofs.tla

## 1. The system

Sylpheed is one process with one main loop.  There are two sources of
concurrency: callbacks of the main loop, and the *nesting* of main loops.  A
function that waits (for a mail server, for a filter command, for the answer to
a question) runs `gtk_main_iteration` or `g_main_context_iteration` itself, so
that anything else may start in the meantime, and whatever starts there has to
return before its caller goes on.  Much of the state is held over such a wait: a
message number, a flag, a pointer.  The partners of the program fail on their
own: servers answer anything or nothing, connections break, other programs share
the folders, and the program may die with files half written.

### Components

For each component: its state, its operations, what is hard, what makes it
correct.  The components are listed with their files in `PROJECT.json`.

**POP3 retrieval** (`libsylph/pop.c`, `src/inc.c`, modelled).  State: the
dialogue state (`Pop3State`), the table of messages (`msg[]` with `recv_time`,
`received`, `deleted`), the number at hand (`cur_msg`), and the list of unique
ids on disk.  Operations: a handler per reply, the choice of the next message
(`pop3_lookup_next`), the end of a session (`inc_pop3_session_do`) and the
writing of the list.  Hard: the list on disk says what may be *deleted*, and it
is written after a session that may have ended anywhere; messages are deleted by
the server only at `QUIT`.  Correct: no message is deleted that has not been
stored (or thrown away by a filter); none is fetched twice without need; success
means that everything was done; sessions end.

**SMTP sending** (`libsylph/smtp.c`, `src/send_message.c`, modelled).  State: the
dialogue state, what the server offers, the walk along the recipients, the
result.  Hard: the server takes the message with the end of the data, and its
answer may be lost; TLS and authentication depend on what the server offers.
Correct: success only if the message was taken for every recipient; nothing in
the clear if STARTTLS is asked for; no refused password is used again; attempts
end.  Two of these have an exception in the code: what came before TLS and was not
read is read after it, see 5.

**Queue of outgoing mail** (`send_message_queue_all`, `compose_send_real`,
`compose_queue`, modelled).  State: a folder of numbered files, compose windows,
runs over the queue with their snapshot of message numbers.  Hard: a run waits in
the main loop for each message, while the user composes, edits, deletes and sends.
Correct: a queued message stays until a server has taken it or the user discards
it; nothing is sent twice unless the program could not know, or could not remove
it; one failure does not stop the others.

**Checks for new mail** (`src/inc.c`, modelled).  State: `inc_is_running`,
`inc_lock_count`, the list of progress dialogs with their queues, the autocheck
timer, the lock of the main window.  Operations: checks from the menu, the timer
and other processes, logins before sending, the remote mailbox, dialogs.  Hard:
all of these nest.  Correct: one retrieval at a time, locks balanced and the
automatic check never lost, on every path but one (`inc.c:661-662`, see 5).

**Session input and output** (`libsylph/session.c`, modelled).  State: the read
buffer, the kept bytes (`preread`), the write buffer, the watch or idle source
that is installed, the timeout.  Operations: one callback for lines, listings and
message files, two for writing; the conversion of messages at both ends
(`pop3_write_msg_to_file`, `get_outgoing_rfc2822_file`).  Hard: lines and the end
of a message arrive in any pieces, and a TLS layer may hold bytes that no `poll`
reports.  Correct: what is handed on does not depend on the pieces; a read never
has length zero; nothing waits in a buffer for other bytes.

**MH folders, marks and caches** (`libsylph/mh.c`, `procmsg.c`, the writing part of
`summaryview.c`, modelled).  State: numbered files, `last_num`, the mark and cache
files, the queues of marks and cache entries in memory, the counts, the list of
the summary.  Operations: add, copy, move, remove, scan, sort, mark, flush, empty.
Hard: numbers are used again, other programs deliver into the same folder, a move
is a copy followed by a removal, the program may die with half a record written.
Correct: no message is lost, and no flag but in a crash; the summary shows what is
there; a mark belongs to the message it was made for.

**IMAP4** (`libsylph/imap.c`, modelled).  State: one session per account with its
selected mailbox, a worker thread with `is_running`, files of bodies by unique id.
Hard: the main loop runs while the thread reads and wherever `ui_update` is called;
a file is written while a reply is read, and either may fail.
Correct: one command at a time, for the mailbox it is meant for; a refused command
is not taken for an answer; a moved message is never in neither place.

**Filter rules** (`libsylph/filter.c`, modelled with the spool).  State: the result
of the actions so far.  Correct: a message is never thrown away because an action
failed.

**mbox spool** (`libsylph/mbox.c`, `get_spool`, modelled): lock, copy, incorporate,
empty, unlock.  Hard: the mail system delivers meanwhile, and any step may fail.
Correct: nothing is emptied that was not incorporated.

**Composing** (`src/compose.c`, `src/undo.c`, modelled without the editor's widgets).
State: the windows with `modified`, `lock_count`, the message that is edited again
and the external editor; two lists of undo records.  Hard: saving writes the new
message before the old one is removed; closing asks questions in nested main
loops, sending waits in one, and the autosave timer fires in all of them.
Correct: no text is lost that was neither sent nor given up.

**News** (`news.c`, `nntp.c`), **remote mailbox** (`rpop3.c`): blocking dialogues.
News comes late in the plan; of the remote mailbox Inc has what it locks.

The other components keep no state whose order is delicate, or keep it in
widgets: folder tree and dispatch, preferences and accounts, sockets and SSL,
the summary and message views, MIME and character sets, the address book,
encryption, dialogs, start and end, plug-ins, and the general library.
`PROJECT.json` gives the reason for each.

### How they interact

Inc starts Pop3 sessions, one after the other, and SMTP logins start one through
`inc_pop_before_smtp`.  A run of the queue and a compose window use one SMTP
session per message.  Pop3 calls the filters, which may run a command and with it
the main loop.  Everything that files a message calls MH or IMAP4.  Locks: `inc_lock`
keeps checks from starting; the lock of the main window makes its buttons dead;
`inc_is_active` is asked before sending.

## 2. The modules

| module | what it is |
|---|---|
| `Pop3` | one account's sessions over time, the server's maildrop, the list on disk |
| `MailRetrieval` | what retrieval promises; refined by `Pop3` |
| `Pop3Proofs` | theorems about `Pop3` |
| `Smtp` | attempts to send one message |
| `Delivery` | what an attempt promises; refined by `Smtp` |
| `SmtpProofs` | theorems about `Smtp` |
| `SendQueue` | the queue folder, compose windows, nested runs |
| `Outgoing` | what the queue promises; refined by `SendQueue` |
| `SendQueueProofs` | theorems about `SendQueue` |
| `Inc` | nested checks, logins, sending, dialogs; locks and timer |
| `IncProofs` | theorems about `Inc` |
| `SessionIO` | one connection: reads, writes, buffers, TLS records |
| `Dialogue` | what a connection promises; refined by `SessionIO` |
| `MhItem` | the operators of a folder: files, marks, cache, queues, counts |
| `MhFolder` | one folder over time: checks, summary, composing, other programs |
| `Mailbox` | what a folder promises; refined by `MhFolder` |
| `MhFolderProofs` | theorems about `MhFolder`: its files and its rows |
| `MailboxProofs` | theorems about `MhFolder`: its marks, and that it is a `Mailbox` |
| `ImapServer` | the mailboxes of the server, and a connection to it |
| `Imap` | handlers of the main loop over one session, files of bodies |
| `ImapProofs` | theorems about `Imap` |
| `Mbox` | the mbox format, as `mbox.c` writes and reads it |
| `Filter` | what the rules do to a message |
| `Spool` | `get_spool` and a mail system that delivers meanwhile |
| `Composing` | compose windows and the messages they are saved in |
| `Writing` | what the author may rely on; refined by `Composing` |
| `ComposingProofs` | theorems about `Composing` |
| `Undo` | the undo and redo lists of a compose window |
| `History` | what Undo promises; refined by `Undo` |
| `MCPop3`, `MCSmtp`, ... | instances for TLC |

The modules meet at their abstract specifications rather than in one product,
which would be too large to check.  `SendQueue` uses for each message what
`Delivery` promises: the server takes it once at most per attempt, success means
taken, failure means nothing (`ServerTakes`, `QueueSent`, `QueueFailed`).  `Inc`
sees a POP3 session only as an element of a queue, and a message only as a call
that holds a lock.  A mutant (`X_Name`, next to the definition `X`) is a plausible
bug of that definition; it is not part of the specification, and each property is
violated by the one that `PROJECT.json` names for it.

### Pop3

`state`, `sess`, `error_val` and `inc_state` are the code's; `timer` says whether
the timeout source is installed (`session_timeout_cb` removes it); `msg`, `cur_msg`
and the flags are those of `Pop3Session`, with `list` for the numbers the server
has given its messages in this session.  `maildrop`, `marked` and `srv` are the
server: a set of messages, those that DELE has marked, and whether QUIT has been
obeyed.  There is one action per state of `pop3_session_recv_msg`, one per way a
connection ends, and one per step of the end of a session: `EndRecorded` and
`Replace` are the two renames of `prefs_file_close_with_perm`, between which the
program may die.  A message is a unique id; of its size, LIST tells whether there
is one and whether it exceeds the limit; of the time, the day.  The server follows
RFC 1939 but may answer anything at any time, malformed lines included, or
nothing.  The observers are `handled` (stored or filtered away, ever), `fetched`
(in this session) and `lapsed` (handled messages whose record has been lost for a
reason named where the variable changes: crash, failed write, no UIDL).

Abstract data: days instead of seconds, three classes of size, the listing as a
bijection, in the order of the numbers (RFC 1939): the first new line of a listing
(`pop.c:337-343`) is that of the smallest new number.  Left out: progress figures, the writing of the message to a file.

### Smtp

Variables as in `SMTPSession` and `Session`; `watch` is the I/O watch, because a
reply that nobody waits for stays unread: that is how a refused XOAUTH2 ends only
by the timeout.  `lines` counts continued replies.  `ahead`: `session_start_tls`
(`session.c:505-523`) leaves in `read_buf` what came before TLS and was not read, and
`session_recv_msg` (`session.c:558`) takes it for the answers to what is sent next;
from then on the client may read any replies, and those of the server one or more
questions late (`TlsStarted`, `Offer`, `RcptOk`, `ServerTakes`, `EomOk`).  That replies
are left is always possible in the model.  `offered`, `rcpt`, `asked`
and `taken` are the server's.  `Start` and `Finish` are `send_message_smtp` before
and after its event loop; `Sent` is the condition at its end.  `tmp_pass` is the
password the user has typed, kept over attempts.

### SendQueue

`file` is the queue folder, from numbers to messages.  `runs` is the stack of
calls in progress; only the innermost one takes steps of its own, but all their
sessions live (`ServerTakes`), as the main loop serves them.  `NextMsg` is the
head of the loop in `send_message_queue_all` over its snapshot; `QueueDone` is
`send_save_queued_message`, whose result is ignored, followed by the removal *by
number*, which may fail and whose result is ignored as well (`send_message.c:407`); so
may that of the version that a window edited.  `SendLater`, `Send`, `ComposeSent` and `ComposeDone` are the two
buttons of the compose window.  `IsNext` is the number `mh.c` gives.  `excused`
counts the times the program could not know that a message was taken, or could not
remove it, `discarded` is what the user deleted or replaced.

### Inc

`stack` holds the calls that have not returned.  A call has a kind (check, login,
run of the queue, compose window, remote mailbox, dialog), a phase and the queue
of its progress dialog.  As in the code nothing but the top of the stack moves,
and a new call is pushed only where the main loop runs (`MainLoop`) and the
windows get events (`Modal`, `Idle`).  `settings` is the preferences window: it
locks and is modal, but its function returns at once.  The question whether to go
online is folded into `MayGoOnline`.  `LoginGivesUp` is the login for an account
without a server or a user id, which returns with all it has set (`inc.c:657-662`);
`leaked` counts these.  Left out: an external program for
retrieval, progress windows, the end of the program.

### SessionIO

Bytes are symbols, an exchange is a command with its answer, a listing, a message,
or a message sent.  The buffer is kept as its two parts in use (`preread`,
`read_buf`) and `read_buf_p`.  There is one action per callback, each with the
whole of `session_recv_msg` and its kin that it calls before it returns; `Again`
is the choice between an idle source and a watch.  `Arrive` moves bytes from the
network to the socket, `SockRead` takes them from it: over TLS as records, of
which a read may leave a rest that only `SSL_pending` tells of.  Lines fit into
the line buffers (`LinesAssumption`): longer ones are cut in two, and a dot that
was stuffed may stay, or a line end appear (`pop3_write_msg_to_file`,
`get_outgoing_rfc2822_file`).  Left out: closing, the variants for Windows, the
notices of progress.

### MhItem, MhFolder

`MhItem` is pure: an operator per function, from folder to folder (a record of the
directory, the two files, and what `FolderItem` and the summary hold).
`MhFolder` has an action per handler of the main loop.  A mark or cache file is
absent, torn (without its version), a list of records, or, of a cache file, broken: one
in which `procmsg_read_cache` finds a string or number cut and of which it takes
nothing (`procmsg.c:185-205`).  A crash in the middle of writing leaves any number of
the records and, as far as `Halves` allows, a piece of the next one.  A cache that ends
within a record is broken; one that ends in a few bytes of a number is read, but what
is appended to it makes it broken (`half`).  Appended bytes that happen to make sense
out of place are left out.  A mark file with a piece of a record is read without it,
and what is appended to it is read shifted; `AppendMarks` has it that these marks are
lost, which is the least that happens.  `"marks"` is not in `Halves` of the run, see 5.
  `receiving` says where a check is with the
folder; between its start and its end marks and headers wait in queues.
`foreign` observes that something outside has changed the directory since it was
counted.  `strict` is whether the cache is checked message by message.  Left out:
the one-second steps of mtimes (every change is seen), NEW, folders made of
searches, drafts' unread count; a message number is looked up and used in one
step; a crash does not fall between the removal of files and the lists in memory;
`last_num` of a folder without a marks file is known.  `Patient` and `CacheFirst`
keep two known disagreements out, see 5.

`Mailbox` is the same folder without numbers, files and queues: which messages it has
and with which flags, and which message is edited.  A handler of `MhFolder` is a step
of it (a message comes or goes, gets a flag, is answered, is saved anew) or, as most
of the writing and reading of files, none.  `Dying` is the only step of it that may
forget flags, and `KeepsMessages` allows it only where the program dies (`Dies`): what
was left of the files then costs no message its flags later.

### ImapServer, Imap

The server has mailboxes, from unique ids to messages with a deleted mark, and
answers, refuses or breaks.  A handler (`view`, `remove`, `copy`, `move`, ...) is
a list of steps, `Plan`, as the function and those it calls make them; the stack
of handlers is that of the nested main loops, which run while a command waits for
its reply and at every `ui_update`.  `session` is `rfolder->session` with `mbox`,
the mailbox the program believes to be selected.  `Received` is what
`recv_bytes_write_to_file` leaves of a body: the body, nothing if `fclose` says that a
write failed, and a piece if only `fwrite` knew it, as its result is compared with
`EOF` (`recv.c:212`, `recv.c:227`).  `asked` and `doomed` observe
what shall leave which mailbox and what somebody discards.  Left out: UIDVALIDITY,
CREATE and RENAME, lists of headers, connecting and authenticating (one step),
builds without threads, more than one set of numbers per command, values of flags.
`Hazards` names what is kept out, see 5.  The constants assume names that do not
clash (`NamesAssumption`) and finitely many different messages (`MsgsFinite`).

### Mbox, Filter, Spool

A line is a pair of its beginning and its owner: enough to tell the separator,
escaped and unescaped `From ` and blank lines apart.  `Filter` runs the rules with
the results of copy, move, delete and commands, which may fail.  `Spool` is
`get_spool` statement by statement; `mda` is a mail system that takes both locks,
the lock on the file and the lock file.  Left out: conditions of rules (a rule
matches a set of messages), the junk rules (a list like the other), filtering of
folders on demand, importing by hand, lines longer than the buffer, an unescaped
`From ` line before anything but text.

### Undo

`main` is `UndoMain` with its two lists; a text is a sequence of characters and an
`Info` a record of `struct _UndoInfo`.  Typing, pasting, with or without a
selection, deleting, undoing and redoing are actions.  `spoiled` observes that a
pair of records of a replaced selection has come apart; after that only the text
is watched, see 5.  Left out: wrapping, and the difference between bytes and
characters in the test for the start of a word.

### Composing

A text is the set of the edits it contains, a message what `targetinfo` names, in
drafts or queue.  `calls` is the stack of calls that have not returned: saving
asks no question, closing asks up to two, sending runs the main loop.  One action
per button, timer and answer; `FinishKeep`, `FinishQuit` and their kin are the
ends of `compose_draft_cb` for its four callers.  What a window reads of a file it may
not get (`Read`): of a message that is edited again, or of the editor's file, for which
the buffer has been emptied before.  Left out: headers, attachments,
news, redirecting; the copy in the outbox counts as the text sent.

## 3. What is checked

| run | states | shows |
|---|---|---|
| `pop3_records` | 2,048,000 | types, records, deletions, no loss, no needless fetch |
| `pop3_session` | 45,000 | success is complete, sessions end |
| `smtp_session` | 129,000 | all properties of `Smtp` |
| `send_queue` | 304,000 | all properties of `SendQueue` but one |
| `inc_nesting` | 147,000 | all properties of `Inc` |
| `session_io` | 124,000 | all properties of `SessionIO` |
| `mh_folder` | 251,000 | all properties of `MhFolder` |
| `imap` | 1,270,000 | all properties of `Imap` |
| `spool` | 78,000 | all properties of `Spool` |
| `undo` | 174,000 | all properties of `Undo` |
| `composing` | 788,000 | all properties of `Composing` |
| `send_queue_nested` | | a violation: a disagreement, see 5 |

### Properties

*Pop3.*  `RecordsSound`: the list on disk claims only what was handled.
`DeleteIsSafe`: DELE is only sent for a message that was handled and whose time
has come.  `NoMailLost`: the implementation of `MailRetrieval`.  `RetrievedOnce`:
a handled message is not fetched again, but for the ways in `lapsed`.
`DeletionCompleted`: what a session that broke off was to delete is deleted by the
next one that succeeds, with the exceptions it names.  `SuccessMeansComplete`: an
action property over the end of a session.  `SessionEnds`: liveness.

*Smtp.*  `Protected`: with STARTTLS asked for nothing but EHLO, HELO and STARTTLS goes out in the
clear, and only mechanisms that the server has offered since are tried, unless what was
read came before TLS (`ahead`).
`RefusedIsForgotten`, `Delivers` (implementation of `Delivery`, which promises nothing for
an attempt whose answers came early), `AttemptEnds`.

*SendQueue.*  `SentOnce`: a message is taken once more than the program was told
otherwise, could not remove it or died (`excused`), and no more.  `Tried`, `KeepsMail`
(implementation of `Outgoing`).

*Inc.*  `Exclusive`.  `LocksBalanced`: the locks are those of the calls on the stack and
of the logins in `leaked`.  `AutocheckArmed`: with nobody at work the timer is set,
unless such a login has left `inc_is_running` set.

*SessionIO.*  `TypeOK` has the arithmetic of the buffer and that a read is never
asked for no bytes.  `KeepsPromise`: the implementation of `Dialogue`.  `HeardOut`:
liveness, what was answered is heard or the session ends.

*MhFolder.*  `ListTrue`: what the summary lists is there, under its number, and nothing
is missing unless another program was at work.  `CountsRight`: total and unread, unless the directory was changed from
outside.  `KeepsMessages`: the implementation of `Mailbox`, in which only a crash may
forget flags, and that at once.

*Imap.*  `RightMailbox`: each command reaches the mailbox its handler means.
`CacheTrue`: a cached body is that of the message with its unique id.  `KeepsMail`: an
action property, a message leaves a mailbox only if it was asked to, and is then
somewhere else unless it was discarded.

*Spool.*  `Kept`: a delivered message is whole in the spool or a folder.
`Incorporated`: folders have whole messages only, and one twice only if something
failed between its storing and the emptying of the spool.

*Undo.*  `Restores`: the implementation of `History`.

*Composing.*  `Tidy`: saving again and again leaves one message, unless a step
failed.
`KeepsText`: the implementation of `Writing`.  `TypeOK` has it that `lock_count` is
the number of calls that lock the window.

### Bounds, and why they are enough

* `Pop3`: two messages, two days, one malformed line at most, two to three kinds
  of account per run.  Every decision is about one message, its record and its
  neighbour in the walk (the first, the next one, the last); two messages give
  every order of fetched, skipped, marked and unlisted, and the two days a message
  that has to stay and one whose time is up.  The number of sessions, crashes and
  arrivals is not bounded.  In `pop3_records` messages are symmetric; there is no
  liveness property in that run.
* `Smtp`: two recipients (first, last), seven kinds of account that reach every
  branch of the choice of TLS and of the mechanism, one continued line.  The number
  of attempts is not bounded.
* `SendQueue`: three messages and numbers, two runs inside each other, each message
  taken twice at most.  A number can be given away and used again, an edited
  version can replace its original, a window can send inside a run.  `Careful` says
  that the user does not touch the message that is being sent and does not start
  the queue a second time; without it see 5.
* `Inc`: two accounts, one of them with POP before SMTP, and a third with it that
  lacks its server, which at most one login meets; calls four deep: a check, a run of
  the queue in its main loop, the login of that one, and one more.  The theorems
  need no bound.
* `SessionIO`: buffers of 10, 5 and 6 bytes for 8192, 8 and 8192: more than the
  terminator and what may stand before it, so that the end of a message falls on
  every side of the end of a buffer.  Messages have stuffed dots, lines of one dot
  and of nothing.  Two exchanges, as nothing but what is left in the buffers
  connects one with the next.
* `MhFolder`: two messages with the flag `UNREAD` only, three numbers (a gap, a reused number, a number above
  all), two records in a file, so that an outdated record can precede a current one.  Calls, crashes and what other programs do are not bounded.
* `Imap`: two mailboxes, one of them INBOX, two messages, two unique ids in each,
  two handlers, one possibly inside the other, and two of everything that goes
  wrong.
* `Spool`: three messages, one with blank lines at its end, one with `From ` lines
  the mail system escapes, one with such a line before text that it does not; two
  failures or crashes; four lists of rules with every kind of action.
* `Undo`: three records, three characters, a blank among them for the start of a word,
  one pasted text; a line break, which starts a record as other characters do not
  (`undo.c`), is not among the characters of the run.
* `Composing`: two windows, two messages and two edits; with three messages (not
  among the runs for its 3.7 million states) the properties hold as well.

Deadlock is checked where the program goes on for ever.  Four runs have
`CHECK_DEADLOCK FALSE`: `session_io` and `imap`, in which sessions and the bounded
number of handlers end; `spool`, in which the mail is delivered once and then at
rest; `undo`, in which the program may have crashed and a spoiled history takes
no more changes.

### Fairness

`Pop3`: `WF(Progress)` with `Progress == (timer /\ Reply) \/ Timeout`, and `WF(End)`.
The server owes no answer, but while the timeout source is installed GLib calls
it when nothing else comes; and after the loop of `inc_pop3_session_do` the code
runs straight to the end of the session.  With no timer nothing is promised.
`Smtp`: `WF(Reply \/ Timeout)` and `WF(Finish)` for the same reason.  `SessionIO`:
`WF(ReadCb)` and `WF(Arrive)`, as the main loop calls a source that is ready and
the network delivers what was sent or breaks; a server that reads nothing may
refuse a write for ever, so writing has none.  The others have no fairness and no
liveness property: that a run over the queue ends rests on `AttemptEnds` and on
the user, who closes dialogs when it pleases.

## 4. What is proved

No theorem bounds messages, days, accounts, windows, mailboxes or the depth of
checks; the bounds that `Imap` puts on handlers and troubles are constants, of any
size.  The assumptions are the `ASSUME`s of the modules: finitely many unique ids
and messages, account settings and sizes of the right type, days after the four
special values of `RecvTime`, names that stand for nothing (`None`, `NoWindow`, the
stamp of a torn file) that are not names of something.  TLC evaluates them on every
run.  A theorem that needs more says so in its statement: `Careful`, `Undisturbed`,
`FoldersStay`, `Patient`, `CacheFirst` and `"marks" \notin Halves` keep out disagreements
of chapter 5.  Where an exception is part of the property instead (`ahead`, `excused`,
`leaked`, `lapsed`), the theorem holds with it and assumes nothing.

**`Pop3Proofs`.**  The inductive invariant is `TypeOK /\ CurOK /\ Sound`.
`TypeOK` needs `CurOK` (`cur_msg` is a message's number while messages are listed or
fetched, and 0 before): without it the walk in `pop3_lookup_next` could start
anywhere.  `Sound` is a chain from the disk to the server: `RecordsSound` (the list),
`TableSound` (what was read from it), `MsgSound` (a message whose time says it was
received, was handled), `MsgKnown` (what counts as received has a time, so that the
list has one to write), `MarkedSound` (what is marked, was handled),
`DeleteSound` (what DELE is sent for) and `Listed` (what is listed stays on the
server until QUIT).  None of them is inductive alone: a mark is safe because of
the message table, which is safe because of the table read at the start, which is
safe because of the list an earlier session left.

The other way round, that nothing is fetched again, is `Known`: what an earlier
session handled, and what is still on the server, has a record on disk
(`RecordKnown`), in the table that was read (`TableKnown`) and in the message table
(`ListKnown`, `ReceivedKnown`), unless the record lapsed or was lost; a message whose
record is left out because it was deleted is gone once QUIT was answered
(`QuitKnown`).  `WalkOK` is about the end of a session: no number is passed by
`pop3_lookup_next` that should have been fetched or deleted, and the walk begins at
the first number, whether or not sizes and unique ids were asked for.

* `TypeCorrect`: `Spec => []TypeOK`.
* `RecordsAreSound`: `Spec => []RecordsSound`.
* `DeletionIsSafe`: `Spec => []DeleteIsSafe`.
* `MailIsNeverLost`: `Spec => NoMailLost`, step simulation of `MailRetrieval`:
  `RetrRecv` is `Handle` or stutters, `ServerUpdate` is `Remove`, `Arrive` is `Arrive`, and
  everything else stutters.
* `NothingIsFetchedTwice` (`RetrievedOnce`), from `Known`.
* `SuccessIsComplete` (`SuccessMeansComplete`) and `DeletionIsCompleted`
  (`DeletionCompleted`), from `WalkOK`.

**`SmtpProofs`.**  The inductive invariant is `TypeOK /\ Inv`.  `WalkOK`: while the
recipients are named, every one of them is accepted, asked about or still to do,
so that DATA finds them all accepted; this is what makes "the message is taken
whole" true, and it needs that the opening of a session starts the walk anew.  It
ends where replies are read ahead of their questions (`ahead`, which needs TLS:
`SecureOK`), and so do the parts below that rest on it.
`TakenOK`: the server has taken nothing or everything, and has taken it only after
the end of the text.  `EndOK`: there is a session as long as an attempt is pending,
and one that the client has closed was cancelled or had sent QUIT, so that a
connection that breaks is never mistaken for a success.  `SecureOK`: HELO is tried
only without TLS, and what may be used was offered.  `RefusedOK`: a typed password
is refused at the end of an attempt.

* `TypeCorrect`, `AttemptIsProtected` (`Protected`), `RefusedPasswordIsForgotten`
  (`RefusedIsForgotten`).
* `MessageIsDelivered`: `Spec => Delivers`, step simulation of `Delivery`: `Start` is
  `Attempt`, `ServerTakes` is `Take`, the end of a session is `Succeed` or `Fail`, and
  everything else stutters.

**`SendQueueProofs`.**  `Inv` holds for any user.  `FileOK`: a message is in the queue
once.  `WindowOK`: the window of a queued message is closed, the window that a
message is being sent from is not, so that no message is both.  `OwedOK`: a run
still has the numbers of the messages that it has found and not tried.  `TookOK`:
what is filed as sent has been taken.  `CarefulInv` needs `Careful`, that is a user
who leaves the message being sent alone, and is what the violation in 5 shows to be
lost without it.  `AloneOK`: there is one run over the queue, and its number still
has the message it had.  `EditedOK`: no compose window that is sending on top of a run
replaces the message of that run, which is why `AloneOK` survives
`compose_remove_reedit_target`.  `SpentOK`: a message that was taken once more than the
program was told otherwise is at hand in a run, or has left queue and window.

* `TypeCorrect`, `EverythingIsTried` (`Tried`), for any user.
* `MessageIsSentOnce` (`SentOnce`) and `QueueKeepsMail` (`KeepsMail`, step simulation of
  `Outgoing`: `SendLater` is `Submit`, `ServerTakes` is `Deliver`, `QueueDone` is `Leave`,
  `Delete` is `Drop`, `ComposeSent` is `Drop` or stutters, the rest stutters), with
  `Careful` as an assumption.

**`IncProofs`.**  The inductive invariant is `IInv`, the conjunction of `TypeOK`,
`FramesOK`, `Exclusive`, `LocksBalanced` and `AutocheckArmed`.  `FramesOK` is why
`Exclusive` survives: only checks, logins and the remote mailbox have a queue, and
below a check that has not begun its sessions (which is when `inc_is_running` may
have been reset by an inner login) nobody has one.  The lemmas `PushCounts`,
`ReplaceCounts` and `ReturnCounts` say how the sets of holders change with the
stack; the steps are then grouped by what they do to it (`QuietStep`, `PushStep`,
`ReplaceStep`, `ReturnStep`).  `AutocheckArmed` needs the third part of
`LocksBalanced`: a check that is refused because another is active need not set
the timer, as there is a call on the stack that will.

* `TypeCorrect`, `OneRetrieval` (`Exclusive`), `LocksArePaired` (`LocksBalanced`),
  `AutocheckIsArmed` (`AutocheckArmed`).

**`ComposingProofs`.**  Three invariants, each on top of the one before.  `Inv` is
about calls and locks: a call that does not run the main loop is on top, only the
saving of the timer comes above another call of the same window (`CallsOK`), and a
window's lock is held exactly while a call that holds it has not returned (`LockOK`);
without both, the `lock_count` of a window could leave its range.  `KeepInv` is
about texts: a window that is not `modified` has its text in a message, sent or
given up (`ModifiedOK`), and the message that a window edits again has nothing the
window lacks (`TargetOK`), which is why removing it loses nothing.  `TidyInv` is
about traces: unless a removal failed, a text is in at most one message besides
the one being replaced, and no window holds what another message has.  `Tidy` and
`TypeOK` hold with typing meanwhile; `KeepsText` and `Writing` need `Careful`.

* `TypeCorrect` and `TidyHolds` (`Tidy`), for any `Hazards`.
* `TextKept` (`KeepsText`) and `WritingImplemented` (`Spec => Written!Spec`, step
  simulation of `Writing`), with `Careful` as an assumption.

**`ImapProofs`.**  The invariant is built in stages, as each part needs the earlier
ones.  `Inv1`: types, one waiting handler at most, and no more replies than the
commands that await one.  `Inv2` adds `Nested`, what may run on top of what: under
a second handler is one that has called `ui_update` or moves messages out of
another mailbox, and the session that it relies on is open and fresh.  `Inv3` adds
which mailbox is selected: a handler between its SELECT and its last command
(`Needs`) has its own, and `session->mbox` names a mailbox only if the server has
it selected.  `Inv4` adds the replies: the one being read belongs to the
command that waits (`InTurn`), and a reply to a command that was given up waits at
most for the NOOP of the next handler (`Stale`).  `Inv5` adds the files: each is
that of the message with its number, or the one being written.  `Inv6` adds where
the messages are: what is marked was asked to leave and is discarded or somewhere
else (`MarksSafe`), a handler has done what its place in its plan says for the
messages that it is about to mark or to unlink (`Cares`), and one on top of another
does not rely on what that one is about to mark (`Spares`).  Marking and unlinking
are then the only steps to argue about; all others are `Gentle`, that is they take
only what is marked or discarded.

* `TypeCorrect`, with `Undisturbed` as an assumption: neither "other mailbox meanwhile"
  nor "offline meanwhile".  Both are needed: with either TLC finds a handler that waits
  on a session which was lost above it, for the former with three handlers and three
  troubles.  The run of `Imap` keeps them out.
* `MailboxIsRight` (`RightMailbox`), with `Undisturbed` and `FoldersStay`, that is with
  late replies, torn files and failed writes as well.
* `CacheIsTrue` (`CacheTrue`) and `MailIsKept` (`KeepsMail`), with `Careful`.

**`MhFolderProofs`.**  Most of the module is about operators of `MhItem`: what `Ordered`
and `Picked` return, which records the mark table and the list hold after a fold over
a file (by induction on the length of a prefix, as a theorem on sets of numbers:
`SetInduction`), and what adding, moving, removing, flushing, writing and scanning do
to a folder (`MoveMsgs`, `WriteCache`, `Refresh`, ...).  The inductive invariant is
`Inv`; TLC checks it on the instance of the run before the proof.  A folder is
`Good` in every state:

* `CacheSound`: the cache file and its queue have at most one record for a number, and
  each is of the message that its number has in the directory; only the drafts, whose
  cache is read strictly, may have a stale one, and that below their last file, as
  numbers there are not given again;
* `Numbered`: no number of a draft is given again, `last_num` is not below its last file;
* `Waiting`: a folder that is shown has its cache file, and a header that waits for it
  has a mark that waits as well, so that both are written together;
* a folder that is not shown has no rows, and one that is shown has the right ones,
  which no waiting header repeats (`RowsSound`).

`Trusted` is what a folder that is not scanned again relies on: nothing waits, and the
cache file has the messages of the directory and no others.  It holds when the folder
is `fresh`, or when the list of folders on disk says so (`saved`), which the next
process will believe.  `Covered` says that what is shown is complete, unless another
program was at work (`foreign`).  `Known`: the message of a compose window is a draft,
and is in the folder or elsewhere.

A cache file that a crash left broken or with a piece of a record satisfies `CacheSound`
like any other, as what is read of it are whole records or none.

* `Types` (`TypeOK`) and `ListIsTrue` (`ListTrue`), with `Patient`, `CacheFirst` and
  `"marks" \notin Halves`, that is without the disagreements of chapter 5.

**`MailboxProofs`.**  The flags of a message can be in four places: its row, the queue
of headers, the queue of marks, the marks file, and of the last two a number may have
several records.  `Shown` is the one that counts, the row first; `MarkFor` is what the
table of `procmsg_read_mark_file` has.  Most lemmas say what an operator of `MhItem`
does to `Shown`, to the marks and to the counts (`WriteCacheMarks`, `ReopenedMarks`,
`AddMsgsMarks`, `MoveMsgsMarks`, `LeftMarks`, ...).  What they need of a folder, in
addition to `Inv`, is `Marked`:

* `Filed`: a mark is of a file, or of a draft whose number is not given again, so that no
  message inherits the flags of another; a number waits at most once in the queue of
  marks, and not for a record that the file has; records of a number in the file differ
  in nothing but what a reply adds, so that it does not matter which of them is read;
* `Ready`: whoever has marks waiting, or is shown, has a marks file that can be read;
* `Unique`: no message has two files;
* `OpenMarks`, of a folder that is shown: the queues of headers and of marks go together
  (`Echo`), so that `summary_show_queued_msgs` can drop the second; a file with a mark has
  a row; and if the rows need not be written, the marks file has their flags already.

The second half of the invariant, `Tidy`, adds the counts (`Counted`) and why they stay
right: in a folder that is closed and was not touched from outside every file has a
mark (`AllMarked`), unless it keeps drafts, so that `procmsg_flush_folder` may count the
marks instead of the files; a folder that is shown has been scanned; and marks wait in
a closed folder only while a check brings mail, never in the drafts.  TLC checked `Inv`
and `Tidy` on the instance of the run first.  Each lemma about a handler (`ShowTidy`,
`SaveDraftTidy`, ...) proves that it keeps `Tidy` and is a step of `Mailbox` or none.

* `CountsAreRight` (`CountsRight`): a bijection takes the numbers that are shown unread to
  the messages that are.
* `MessagesAreKept` (`KeepsMessages`): every step is one of `Mailbox`, and one that forgets
  flags only where the program dies (`MailStep`, `DeathStep`).  Its hardest cases are messages that come (they get numbers that have no mark yet, and
  the message that is edited may come back under the number it had), a draft that is
  saved (the old version goes, and its rows are loose until the folder is read again),
  and a crash that leaves a part of the marks.

Both are proved for any flags that a user sets, where the run has none but `UNREAD`, to
stay small.  A reply sets them all at once, which is the action `Answer` of `Mailbox`.

The attempt showed that the bound of `MoveIn`, `AddIn` and `CrashMoving` looked at
`last_num` before the scan, so that with three messages a number could pass `MaxNum`;
the two of the run are too few for it.  It now looks at the folder that the messages
are added to.

Only model-checked: everything about `SessionIO`, `Spool` and `Undo`, each for the types
of its state and what it promises.  `SessionIO` and `Spool` rest on folds over data (the
chunks of a text, the lines of a mailbox, the rules of a list), whose values for every
input need induction over data, out of the prover's reach.  The proof for `Undo` has
not been done; it comes first in the plan.  The liveness properties `SessionEnds`,
`AttemptEnds` and `HeardOut` stay with TLC: TLAPS handles neither `ENABLED` nor
fairness here.

## 5. Where the code and its documents disagree

One has a run of its own in which TLC finds the behaviour, `send_queue_nested`: a
run over the queue removes the message it has sent by its number; if that number
was given to another message meanwhile, that one is removed, unsent
(`send_message.c:407`).

The others were found while modelling; the properties say what they except, or a
constant keeps them out, and setting it lets TLC find them:

* Pop3.  A session timeout that fires while a filter command runs the main loop is
  lost (`session.c:379`), the session goes on without one, and a silent server keeps
  it waiting for ever (NEWS-1.0:67): `SlowFilter = TRUE` violates `SessionEnds`.  A
  message with neither `rmmail` nor `getall` that a filter deletes stays on the
  server if the session breaks before QUIT (`pop.c:333-337`, documented at
  `inc.c:1466`): the exception in `DeletionCompleted`.
* Smtp.  Starting TLS keeps `read_buf` (`session.c:505-523`), so that what came in the
  clear together with the reply to STARTTLS is read as answers to what is sent in TLS
  (`session.c:558`), offers of mechanisms among it, and every answer after it may be that
  to an earlier command: the exception `ahead` in `Protected`, and `Hurry` in `Delivery`.
  Without the exceptions TLC finds both violated.
* Smtp.  "ignore errors right after QUIT" (`send_message.c:794`) holds for a broken
  connection, not for a refused QUIT nor for a timeout: a message that was sent is
  reported as failed and stays in the queue.  `Delivery` allows for it.
* SendQueue.  A message that was sent and cannot be removed from the queue stays there
  (`send_message.c:407`; `mh.c:884`) and is sent again by the next run: counted in
  `excused`.
* Inc.  A login before sending for an account without a server or a user id returns
  from `inc_pop_before_smtp` with `inc_is_running` set, the timer removed and the main
  window locked (`inc.c:657-662`).  The lock stays for good, the rest until another call
  resets it: the exceptions in `LocksBalanced` and `AutocheckArmed`.
* Inc.  A login before sending resets `inc_is_running` while a check is running
  below it (`inc.c:643`, `inc.c:679`), after which a compose window is no longer
  refused (`compose.c:3476`).
* MhFolder, `Patient = FALSE`.  A trash that is emptied while marks wait for it
  counts them afterwards (`procmsg.c:1618`, ChangeLog:9894); the summary overwrites
  marks that wait.  `CacheFirst = FALSE`: a header gets into the cache twice.
* MhFolder, `Halves`.  A crash may leave half of an 8-byte mark at the end of the mark
  file (`procmsg.c:599-655`); it is opened to append all the same
  (`procmsg.c:1080-1092`), and all marks that come after are read shifted: with
  `Halves = {"marks"}` TLC finds `KeepsMessages` violated by a message that is moved in
  after the restart and loses its flags when the folder is closed.
* Imap, `Hazards`.  "folder removed": the session still believes in a mailbox it has
  removed (`imap.c:2686`; ChangeLog-1.0:4102-4104 says otherwise).  "other mailbox
  meanwhile": the main loop runs between SELECT and STORE (`imap.c:1705`), and
  another handler selects a different mailbox.  "torn file": a crash leaves half a
  body in the cache, which is later taken for the message.  "failed write": a write
  that fails while a body is received is not noticed, unless `fclose` notices
  (`recv.c:212-213`, `recv.c:227-228`), and the piece that is kept is taken for the message
  (`imap.c:1287`), which a move may then leave alone in the world.  "offline meanwhile": a
  handler calls `ui_update` (`imap.c:1386`, 1431, 1528, 1565, 1702) and the user goes
  offline, for which only `is_running` is asked (`mainwindow.c:3105-3121`,
  `folder.c:169-216`, `imap.c:5244`); the handler goes on with a session that is gone.
  "late reply": with
  `io_timeout` below `SESSION_TIMEOUT_INTERVAL` the reply to a command that was given up
  is taken for the next one's.
* Spool, `Hazards`.  "lockf": the lock is lost when `copy_file` closes the spool
  (`mbox.c:392`, ChangeLog:640-642).  "read error": one while copying is taken for the
  end of the file (`utils.c:3017`), and what follows is emptied away.
* Undo, `spoiled`.  Undoing a paste over a selection never deletes the pasted text
  (`undo.c:421-437`).  Pasting an empty clipboard leaves `paste` set
  (ChangeLog-1.0:5240), so that "this should not happen" (`undo.c:439`) can happen.
  `undo_check_size` may drop one record of a pair; the other one is then looked for
  in an empty list.
* Composing, `Hazards`.  "unreadable file": a window for a message whose text cannot be
  read opens without it (`compose.c:1190-1191`, `compose.c:1203-1204`), and one whose
  editor's file cannot has lost its text (`compose.c:7198-7199`); the next save removes the
  message that had it.  "typing meanwhile": with drafts on a server the main loop
  runs inside `compose_draft_cb`, and what is typed then is taken for saved
  (`compose.c:7776`).  Also, saving a queued message that is edited again moves it to
  the drafts, so that closing the window leaves it unsent; and a window stays open
  after its message was sent if the copy in the outbox failed.

Known and in no model: a list forgotten when every message is fetched
(`pop.c:609`), a refused OAuth2 token (`smtp.c:236`), the copy in the outbox whose
failure a run over the queue ignores (`send_message.c:402`), dots of lines that are cut (see SessionIO).

## 6. The plan

Done: the modules above with their abstract specifications and runs; the proofs of
Pop3, Smtp, SendQueue, Inc, Composing, Imap and MhFolder.  Next, in this order:

1. Proofs: `TypeOK` and `Restores` for `Undo` (invariant: the
   records of a replaced selection come in pairs, unless spoiled).
2. Conditions of filter rules; the folder tree (renaming and removing folders while
   they are open); the dialogue of News with its cache of article numbers.
3. `SendQueue`'s `file` as an instance of `MhFolder`.

The map will stay a small part of the repository: most of its 151,741 lines are
widgets, dialogs, preferences, conversions of character sets and MIME parts, and
vendored code.

## 7. What is not modelled

Widgets, views, address book, MIME and character sets, encryption, sockets,
preferences and plug-ins: conversions without state, calls of libraries, or state
whose order is the user's.  Within the modelled components chapter 2 names what is
left out under each module.  Outside the models of this project are also the
contents of messages and the formats of files, with the exception of what the
properties tell apart: whether a record can be read back, whether a reply is
well-formed.  The rest of the reasons is with each component in `PROJECT.json`.
