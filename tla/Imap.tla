-------------------------------- MODULE Imap --------------------------------
(***************************************************************************)
(* The IMAP4 client: handlers of the main loop that work on the mailboxes  *)
(* of one account through one session.  A command is sent by the main      *)
(* thread; a thread reads the reply while the main loop goes on and may    *)
(* start another handler, as it may wherever a handler calls ui_update.    *)
(***************************************************************************)
EXTENDS ImapServer

CONSTANTS MaxUid,      \* bound: unique ids given out in a mailbox
          MaxStarted,  \* bound: handlers
          MaxTrouble,  \* bound: refusals, lost connections, timeouts, crashes, and
                       \* what other clients do
          Hazards      \* what is not kept out of the model; see README

ASSUME HazardsAssumption ==
    Hazards \subseteq {"late reply", "torn file", "failed write", "folder removed",
                       "other mailbox meanwhile", "offline meanwhile"}
ASSUME BoundsAssumption == {MaxUid, MaxStarted, MaxTrouble} \subseteq Nat

Torn == "torn"

ASSUME NamesAssumption == "local" \notin Boxes \cup {None} /\ Torn \notin Msgs \cup {None}

VARIABLES
    server, conn,
    session,  \* rfolder->session: [open, mbox, fresh]; fresh: used within
              \* SESSION_TIMEOUT_INTERVAL
    cache,    \* files of bodies, by mailbox and unique id
    local,    \* messages in a local folder
    stack,    \* handlers, each started by the main loop of the one before
    asked,    \* observer: pairs of a message and a mailbox it shall leave
    doomed,   \* observer: messages that somebody discards
    started, trouble

vars == <<server, conn, session, cache, local, stack, asked, doomed, started, trouble>>

Uids == 1..MaxUid
NoSession == [open |-> FALSE, mbox |-> None, fresh |-> FALSE]
Opened == [open |-> TRUE, mbox |-> None, fresh |-> TRUE]

\* imap_fetch_msg, imap_remove_msgs with imap_remove_msgs_by_seq_set,
\* imap_do_copy_msgs, imap_add_msgs, imap_msg_list_change_perm_flags,
\* imap_get_msg_list_full, imap_remove_folder, imap_close
Fetching == <<"session", "trySelect", "fetch">>
Removing == <<"session", "trySelect", "session", "ui", "store", "expunge", "noop", "forget">>
Copying == <<"session", "ui", "trySelect", "ui", "copy">>
Adding == <<"session", "ui", "status", "append">>
Changing == <<"session", "trySelect", "setflags">>
Listing == <<"session", "select", "flags", "headers">>
RemovingFolder == <<"session", "examine", "delete">>
Closing == <<"session", "close">>

Plan == [view |-> Fetching, remove |-> Removing, copy |-> Copying,
         move |-> Copying \o Removing,
         moveOut |-> Fetching \o <<"copyFile">> \o Removing,
         moveIn |-> Adding \o <<"unlink">>,
         mark |-> Changing, list |-> Listing, removeFolder |-> RemovingFolder, close |-> Closing]

UidCommands == {"fetch", "flags", "headers", "copy", "store", "setflags", "expunge"}
Commands == UidCommands \cup {"select", "noop", "status", "append", "examine", "delete", "close"}

Top == Last(stack)
Todo == Head(Top.todo)
\* is_running
Running == \E i \in DOMAIN stack : stack[i].waits
\* the handler at the top can do its next step s
At(s) == stack # <<>> /\ ~Top.waits /\ Top.todo # <<>> /\ Todo = s

Continue ==
    stack' = Front(stack) \o (IF Len(Top.todo) = 1 THEN <<>>
                              ELSE <<[Top EXCEPT !.todo = Tail(@), !.waits = FALSE]>>)
Fail == stack' = Front(stack)

-----------------------------------------------------------------------------
\* The main loop.

File(b, u) == cache[b][u]

\* The body is fetched only if there is no file.
PlanOf(f) ==
    IF f.op \in {"view", "moveOut"} /\ File(f.box, CHOOSE u \in f.uids : TRUE) # None
    THEN SubSeq(Plan[f.op], 4, Len(Plan[f.op])) ELSE Plan[f.op]

\* A handler that is started from a ui_update leaves the mailbox selected that
\* the outer one works on.
Harmless(f) == f.op = "moveIn" \/ (f.box = Top.box /\ f.op # "removeFolder")

MayStart(f) ==
    \/ stack = <<>>
    \/ /\ Len(stack) = 1 /\ Top.waits /\ Todo # "flags"
    \/ /\ Len(stack) = 1 /\ At("ui")
       /\ "other mailbox meanwhile" \in Hazards \/ (Harmless(f) /\ session.fresh)

Start(f) ==
    /\ MayStart(f) /\ started' = started + 1
    /\ f.op = "removeFolder" /\ "folder removed" \notin Hazards => session.mbox \in {None, INBOX}
    /\ f.op = "close" => session.mbox = f.box
    /\ f.op = "moveIn" => f.msg \in local
    /\ f.op = "moveOut" /\ Running /\ "torn file" \notin Hazards =>
          \A u \in f.uids : File(f.box, u) # Torn
    /\ stack' = IF PlanOf(f) = <<>> THEN stack ELSE Append(stack, [f EXCEPT !.todo = PlanOf(f)])
    /\ LET ms == {server.mail[f.box][u] : u \in f.uids}
       IN /\ asked' = IF f.op \in {"remove", "move", "moveOut"} THEN asked \cup (ms \X {f.box}) ELSE asked
          /\ doomed' = IF f.op = "remove" THEN doomed \cup ms ELSE doomed
    /\ UNCHANGED <<server, conn, session, cache, local, trouble>>

PassUi == At("ui") /\ Continue /\ UNCHANGED <<server, conn, session, cache, local, asked, doomed, started, trouble>>

\* Mutant of Offline: nobody asks whether the thread is at work.
Offline_Unasked ==
    /\ session.open
    /\ stack = <<>> \/ Running
    /\ session' = NoSession /\ conn' = NoConnection
    /\ UNCHANGED <<server, cache, local, stack, asked, doomed, started, trouble>>

\* Going offline and online again: all that is asked is whether the thread is
\* at work, so a handler may be in ui_update and go on with the old session.
Offline ==
    /\ session.open /\ ~Running
    /\ stack # <<>> => At("ui") /\ "offline meanwhile" \in Hazards
    /\ session' = NoSession /\ conn' = NoConnection
    /\ UNCHANGED <<server, cache, local, stack, asked, doomed, started, trouble>>

Time ==
    /\ stack = <<>> /\ session.fresh /\ session' = [session EXCEPT !.fresh = FALSE]
    /\ UNCHANGED <<server, conn, cache, local, stack, asked, doomed, started, trouble>>

-----------------------------------------------------------------------------
\* The session.

\* imap_session_new, imap_session_reconnect
Connect ==
    \/ session' = Opened /\ conn' = Connected /\ Continue /\ UNCHANGED trouble
    \/ session' = NoSession /\ conn' = NoConnection /\ Fail
       /\ trouble < MaxTrouble /\ trouble' = trouble + 1

\* imap_session_get, up to its NOOP
GetSession ==
    /\ At("session")
    /\ \/ /\ ~session.open /\ Connect
       \/ /\ session.open /\ Running
          /\ Fail /\ UNCHANGED <<session, conn, trouble>>
       \/ /\ session.open /\ ~Running /\ session.fresh
          /\ Continue /\ UNCHANGED <<session, conn, trouble>>
    /\ UNCHANGED <<server, cache, local, asked, doomed, started>>

\* imap_cmd_gen_send: what is sent in step s.
CommandOf(s) == IF s = "session" THEN "noop" ELSE IF s = "trySelect" THEN "select" ELSE s

\* imap_select forgets the mailbox before it asks for another one.
MboxWhileAsking(s) == IF s \in {"select", "trySelect"} THEN None ELSE session.mbox

\* Mutant of Selected: some mailbox is.
Selected_Any == session.mbox # None

\* imap_select has nothing to do.
Selected == session.mbox = Top.box

NeedsCommand(s) ==
    /\ s \in Commands \cup {"session", "trySelect"}
    /\ s = "session" => session.open /\ ~Running /\ ~session.fresh
    /\ s = "trySelect" => ~Selected

Send ==
    /\ stack # <<>> /\ ~Top.waits /\ Top.todo # <<>> /\ NeedsCommand(Todo) /\ ~Running
    /\ session' = [session EXCEPT !.mbox = MboxWhileAsking(Todo)]
    /\ stack' = Front(stack) \o <<[Top EXCEPT !.waits = TRUE]>>
    /\ LET cmd == CommandOf(Todo)
           able == Possible(server, conn, cmd, Top)
       IN IF ~conn.up THEN UNCHANGED <<server, conn, doomed, asked, trouble>>
          ELSE \E ok \in {able} \cup (IF trouble < MaxTrouble THEN {FALSE} ELSE {}) :
                  /\ server' = IF ok THEN Done(server, conn, cmd, Top) ELSE server
                  /\ conn' = Answered(server, conn, cmd, Top, ok)
                  /\ trouble' = IF ok = able THEN trouble ELSE trouble + 1
                  /\ LET gone == IF ok /\ cmd = "delete" THEN MsgsIn(server, Top.box) ELSE {}
                     IN doomed' = doomed \cup gone /\ asked' = asked \cup (gone \X {Top.box})
    /\ UNCHANGED <<cache, local, started>>

SelectAgain ==
    /\ At("trySelect") /\ Selected
    /\ Continue
    /\ UNCHANGED <<server, conn, session, cache, local, asked, doomed, started, trouble>>

-----------------------------------------------------------------------------
\* The thread that reads the reply, and what the handler does with it.

\* Mutant of Accepted: the result is not looked at.
Accepted_Anyhow == Len(conn.replies) = 1

\* imap_cmd_ok_real: the tag is that of the last command.
Accepted == Head(conn.replies).ok /\ Len(conn.replies) = 1

\* A reply has come for the handler at the top.
Heard(s) == stack # <<>> /\ Top.waits /\ Todo = s /\ conn.up
Read == conn' = [conn EXCEPT !.replies = Tail(@)]
Used(mbox) == session' = [session EXCEPT !.fresh = TRUE, !.mbox = mbox]

\* imap_cmd_ok and what depends on it
Receive(s) ==
    /\ s \in Commands \cup {"trySelect"} /\ s \notin {"select", "fetch", "flags", "headers"}
    /\ Heard(s) /\ Read
    /\ Used(IF s = "trySelect" /\ Accepted THEN Top.box
            ELSE IF s = "close" THEN None ELSE session.mbox)
    /\ IF Accepted THEN Continue ELSE Fail
    /\ UNCHANGED <<server, cache, local, asked, doomed, started, trouble>>

\* the NOOP of imap_session_get
ReceiveNoop ==
    /\ Heard("session")
    /\ IF Accepted THEN Read /\ Used(session.mbox) /\ Continue /\ UNCHANGED trouble ELSE Connect
    /\ UNCHANGED <<server, cache, local, asked, doomed, started>>

\* Which files stay when a mailbox is listed
Keeping(b, S) == cache' = [cache EXCEPT ![b] = [u \in Uids |-> IF u \in S THEN @[u] ELSE None]]

\* imap_get_msg_list_full: an empty mailbox, and a cache that is not to be used
ReceiveExists ==
    /\ Heard("select") /\ Read
    /\ Used(IF Accepted THEN Top.box ELSE None)
    /\ \/ /\ ~Accepted /\ Fail /\ UNCHANGED cache
       \/ /\ Accepted /\ server.present[Top.box] = {} /\ Fail /\ Keeping(Top.box, {})
       \/ /\ Accepted /\ server.present[Top.box] # {}
          /\ \/ Continue /\ UNCHANGED cache
             \/ /\ stack' = Front(stack) \o <<[Top EXCEPT !.todo = <<"headers">>, !.waits = FALSE]>>
                /\ Keeping(Top.box, {})
    /\ UNCHANGED <<server, local, asked, doomed, started, trouble>>

\* imap_fetch_flags, which looks at neither the tag nor the result; then the
\* files of messages that are gone, or that come after the first one without a
\* header, go.  It does not run the main loop.
ReceiveFlags ==
    /\ Heard("flags") /\ Read /\ Used(session.mbox)
    /\ IF Accepted /\ server.present[Top.box] # {}
       THEN Continue /\ \E begin \in Uids \cup {MaxUid + 1} :
                          Keeping(Top.box, server.present[Top.box] \cap 1..(begin - 1))
       ELSE Fail /\ UNCHANGED cache
    /\ UNCHANGED <<server, local, asked, doomed, started, trouble>>

\* imap_get_uncached_messages_func
ReceiveHeaders ==
    /\ Heard("headers") /\ Read /\ Used(session.mbox) /\ Continue
    /\ UNCHANGED <<server, cache, local, asked, doomed, started, trouble>>

SetFile(f, x) == cache' = [cache EXCEPT ![f.box] = [u \in Uids |-> IF u \in f.uids THEN x ELSE @[u]]]

\* imap_cmd_fetch_func opens the file for the first body that comes; the thread
\* does so whatever the main loop is at.
BodyBegins(i) ==
    /\ stack[i].waits /\ conn.up /\ Head(stack[i].todo) = "fetch"
    /\ Head(conn.replies).body # None
    /\ SetFile(stack[i], Torn)
    /\ stack' = [stack EXCEPT ![i].todo = <<"body">> \o Tail(@)]
    /\ UNCHANGED <<server, conn, session, local, asked, doomed, started, trouble>>

\* What recv_bytes_write_to_file leaves.  A write may fail, and the file goes if
\* fclose says so, but fwrite never returns EOF.
Received ==
    {Head(conn.replies).body}
    \cup (IF trouble = MaxTrouble THEN {} ELSE {None} \cup {file \in {Torn} : "failed write" \in Hazards})

ReceiveBody ==
    /\ Heard("body") /\ Read /\ Used(session.mbox)
    /\ \E file \in Received :
          /\ SetFile(Top, file)
          /\ IF Accepted /\ file # None THEN Continue ELSE Fail
          /\ trouble' = IF file = Head(conn.replies).body THEN trouble ELSE trouble + 1
    /\ UNCHANGED <<server, local, asked, doomed, started>>

\* another reply than a body
ReceiveNoBody ==
    /\ Heard("fetch") /\ Head(conn.replies).body = None
    /\ Read /\ Used(session.mbox) /\ Fail
    /\ UNCHANGED <<server, cache, local, asked, doomed, started, trouble>>

\* Mutant of Abandon: the file stays.
Abandon_Nothing == UNCHANGED cache

\* recv_bytes_write_to_file removes what it could not finish.
Abandon == IF Todo = "body" THEN SetFile(Top, None) ELSE UNCHANGED cache

\* The handler hears nothing: the connection is closed, or io_timeout is over.
\* Then the reply, or what is left of it, is still to come, and the session is
\* not fresh any more, unless the user made io_timeout shorter than that.  A
\* handler inside of another one waits too long only with "late reply".
HearNothing ==
    /\ stack # <<>> /\ Top.waits
    /\ \/ ~conn.up
       \/ trouble < MaxTrouble /\ (Len(stack) = 1 \/ "late reply" \in Hazards)
    /\ Abandon
    /\ IF Todo = "session" THEN Connect
       ELSE /\ Fail
            /\ conn' = IF Todo = "body" /\ conn.up
                       THEN [conn EXCEPT !.replies = <<[ok |-> FALSE, body |-> None]>> \o Tail(@)] ELSE conn
            /\ \E fresh \in {FALSE, session.fresh} :
                  /\ fresh /\ conn.up => "late reply" \in Hazards
                  /\ session' = [session EXCEPT !.fresh = fresh,
                                                !.mbox = IF Todo = "close" THEN None ELSE @]
            /\ trouble' = IF conn.up THEN trouble + 1 ELSE trouble
    /\ UNCHANGED <<server, local, asked, doomed, started>>

-----------------------------------------------------------------------------
\* Files.

\* mh_add_msgs_msginfo, or it fails
CopyFile ==
    /\ At("copyFile")
    /\ \/ local' = local \cup {File(Top.box, CHOOSE u \in Top.uids : TRUE)} /\ Continue /\ UNCHANGED trouble
       \/ trouble < MaxTrouble /\ trouble' = trouble + 1 /\ Fail /\ UNCHANGED local
    /\ UNCHANGED <<server, conn, session, cache, asked, doomed, started>>

\* the end of imap_remove_msgs
Forget ==
    /\ At("forget") /\ Continue /\ SetFile(Top, None)
    /\ UNCHANGED <<server, conn, session, local, asked, doomed, started, trouble>>

\* folder_item_remove_msgs of the local folder, after imap_add_msgs
Unlink ==
    /\ At("unlink") /\ Continue /\ local' = local \ {Top.msg}
    /\ UNCHANGED <<server, conn, session, cache, asked, doomed, started, trouble>>

-----------------------------------------------------------------------------
\* The network, other clients of the server, and the end of the program.

Break ==
    /\ conn.up /\ trouble < MaxTrouble /\ trouble' = trouble + 1
    /\ conn' = NoConnection
    /\ UNCHANGED <<server, session, cache, local, stack, asked, doomed, started>>

Deliver(m, b) ==
    /\ trouble < MaxTrouble /\ trouble' = trouble + 1
    /\ b \in server.boxes /\ \A c \in Boxes : m \notin ToSet(server.mail[c])
    /\ m \notin local \cup doomed
    /\ server' = Add(server, b, <<m>>)
    /\ UNCHANGED <<conn, session, cache, local, stack, asked, doomed, started>>

\* Another client marks a message as deleted, and perhaps expunges.
Discard(b, u) ==
    /\ trouble < MaxTrouble /\ trouble' = trouble + 1
    /\ u \in server.present[b]
    /\ LET srv == [server EXCEPT !.deleted[b] = @ \cup {u}]
       IN server' \in {srv, Expunge(srv, b)}
    /\ doomed' = doomed \cup {server.mail[b][u]}
    /\ asked' = asked \cup ({server.mail[b][u]} \X {b})
    /\ UNCHANGED <<conn, session, cache, local, stack, started>>

Crash ==
    /\ trouble < MaxTrouble /\ trouble' = trouble + 1
    /\ "torn file" \in Hazards \/ \A b \in Boxes, u \in Uids : File(b, u) # Torn
    /\ stack' = <<>> /\ session' = NoSession /\ conn' = NoConnection
    /\ UNCHANGED <<server, cache, local, asked, doomed, started>>

-----------------------------------------------------------------------------
Handler(op, b, S, d, m) ==
    [op |-> op, box |-> b, uids |-> S, dest |-> d, msg |-> m, todo |-> <<>>, waits |-> FALSE]

\* What the user or a filter rule may ask for: messages that were listed, which
\* may be gone by now.
Requests ==
    {Handler(op, b, S, b, None) : op \in {"view", "moveOut"}, b \in Boxes, S \in {{u} : u \in Uids}}
    \cup {Handler(op, b, S, b, None) : op \in {"remove", "mark"}, b \in Boxes, S \in (SUBSET Uids) \ {{}}}
    \cup {Handler(op, b, S, d, None) : op \in {"move", "copy"}, b \in Boxes, d \in Boxes, S \in (SUBSET Uids) \ {{}}}
    \cup {Handler("moveIn", d, {}, d, m) : d \in Boxes, m \in Msgs}
    \cup {Handler(op, b, {}, b, None) : op \in {"list", "close"}, b \in Boxes}
    \cup {Handler("removeFolder", b, {}, b, None) : b \in Boxes \ {INBOX}}

Sensible(f) ==
    /\ f.box \in server.boxes
    /\ f.uids \subseteq DOMAIN server.mail[f.box]
    /\ f.op \in {"move", "copy"} => f.box # f.dest
    /\ f.op \in {"move", "copy", "moveIn"} =>
          Len(server.mail[f.dest]) + Cardinality(f.uids) <= MaxUid

Init ==
    /\ \E at \in [Msgs -> Boxes \cup {"local", None}] :
          LET In(p) == SetToSeq({m \in Msgs : at[m] = p})
          IN /\ server = [EmptyServer EXCEPT !.mail = [b \in Boxes |-> In(b)],
                                             !.present = [b \in Boxes |-> DOMAIN In(b)]]
             /\ local = {m \in Msgs : at[m] = "local"}
    /\ \/ conn = NoConnection /\ session = NoSession
       \/ \E b \in Boxes : /\ conn = [Connected EXCEPT !.box = b]
                            /\ session = [Opened EXCEPT !.mbox = b]
    /\ cache = [b \in Boxes |-> [u \in Uids |-> None]]
    /\ stack = <<>> /\ asked = {} /\ doomed = {} /\ started = 0 /\ trouble = 0

Next ==
    \/ PassUi \/ Offline \/ Time \/ GetSession \/ Send \/ SelectAgain
    \/ ReceiveNoop \/ ReceiveExists \/ ReceiveFlags \/ ReceiveHeaders \/ ReceiveBody \/ ReceiveNoBody
    \/ HearNothing \/ CopyFile \/ Forget \/ Unlink \/ Break \/ Crash
    \/ started < MaxStarted /\ \E f \in Requests : Sensible(f) /\ Start(f)
    \/ \E s \in Commands \cup {"trySelect"} : Receive(s)
    \/ \E i \in DOMAIN stack : BodyBegins(i)
    \/ \E b \in Boxes : \/ \E m \in Msgs : Deliver(m, b)
                        \/ \E u \in Uids : Discard(b, u)

Spec == Init /\ [][Next]_vars

-----------------------------------------------------------------------------
TypeOK ==
    /\ Len(conn.replies) <= MaxTrouble + 1 /\ (conn.replies # <<>> => conn.up)
    /\ session.mbox \in Boxes \cup {None} /\ (session.mbox # None => session.open)
    /\ cache \in [Boxes -> [Uids -> Msgs \cup {None, Torn}]]
    /\ \A i \in DOMAIN stack : stack[i].waits => session.open

\* A command that names messages by their unique ids, or removes what was marked,
\* is only sent when the server has their mailbox selected, or none (the mailbox
\* that session->mbox remembers over reconnections, refused and unanswered
\* commands, and other handlers).
RightMailbox ==
    stack # <<>> /\ Top.todo # <<>> /\ Todo \in UidCommands /\ ~Top.waits /\ conn.up =>
        conn.box \in {None, Top.box}

\* A file of the cache that imap_fetch_msg would take for the message is the
\* message, and all of it; none other gets into a local folder.
CacheTrue ==
    /\ \A b \in Boxes, u \in Uids :
          \/ File(b, u) = None
          \/ u \in DOMAIN server.mail[b] /\ File(b, u) = server.mail[b][u]
          \/ \E i \in DOMAIN stack : stack[i].waits /\ Head(stack[i].todo) = "body"
                                     /\ stack[i].box = b /\ u \in stack[i].uids
    /\ local \subseteq Msgs

Places(m) == {b \in Boxes : m \in MsgsIn(server, b)} \cup {p \in {"local"} : m \in local}

\* A message leaves a mailbox only if it was asked to, and is then somewhere
\* else, unless it was discarded.
KeepsMail ==
    [][\A m \in Msgs :
          /\ \A b \in Boxes : b \in Places(m) \ Places(m)' => <<m, b>> \in asked'
          /\ m \notin doomed' /\ Places(m) # {} => Places(m)' # {}]_vars
=============================================================================
