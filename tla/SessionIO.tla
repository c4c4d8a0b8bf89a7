----------------------------- MODULE SessionIO -----------------------------
(***************************************************************************)
(* Input and output of a session (libsylph/session.c over socket.c): the   *)
(* byte stream of a connection, which arrives and leaves in any pieces, is *)
(* cut into reply lines, listings that are kept in memory and messages     *)
(* that are written to a temporary file, and commands and a message file   *)
(* are written to it.  What the POP3 and SMTP sessions do above it is a    *)
(* sequence of exchanges; each callback asks for what comes next before it *)
(* returns.  The conversion of a message that has been received (pop.c)    *)
(* and of one that is to be sent (utils.c) are at both ends.               *)
(*                                                                         *)
(* Bytes are one-character strings.  The read buffer is kept as its two    *)
(* parts in use: the bytes that were looked at and kept (preread), which   *)
(* end at read_buf_p, and those not yet looked at, which begin there.      *)
(***************************************************************************)
EXTENDS Integers, Sequences, SequencesExt

CONSTANTS BUFFSIZE,       \* SESSION_BUFFSIZE and WRITE_DATA_BUFFSIZE
          PREREAD_SIZE,
          LINE_BUFFSIZE,  \* size of the line buffers of pop.c and utils.c
          Replies,        \* reply lines of the server
          Listings,       \* answers to UIDL and LIST, as lines
          Messages,       \* messages on the server, as lines
          Drafts,         \* messages to send: [header |-> lines, body |-> lines]
          MaxExchanges    \* bound on the commands of one session

CRLF == <<"\r", "\n">>
Terminator == <<".">> \o CRLF
Command == <<"c">> \o CRLF

ASSUME SizesAssumption ==
    /\ BUFFSIZE \in Nat /\ PREREAD_SIZE \in Nat /\ LINE_BUFFSIZE \in Nat
    /\ PREREAD_SIZE >= Len(Terminator) + 2
    /\ BUFFSIZE >= 2 * PREREAD_SIZE
    /\ LINE_BUFFSIZE > 2 /\ MaxExchanges \in Nat

\* Longer lines are cut by the line buffers: a stuffed dot may stay, or a
\* line end appear, in the message (pop3_write_msg_to_file,
\* get_outgoing_rfc2822_file).
ASSUME LinesAssumption ==
    LET short(lines) == \A i \in DOMAIN lines : Len(lines[i]) + 4 <= LINE_BUFFSIZE
    IN /\ \A m \in Messages : short(m)
       /\ \A d \in Drafts : short(d.header) /\ short(d.body)

VARIABLES
    state,         \* Session.state
    wait,          \* the callback that is installed
    idle,          \* it is an idle source, not a watch of the socket
    read_buf,      \* bytes in the buffer that no callback has looked at
    read_buf_p,    \* where they begin
    preread,       \* bytes before them that were looked at and kept
    read_msg_buf, read_data_buf,
    read_data_fp,  \* the temporary file, as the bytes written to it
    write_buf,     \* rest of the command
    write_data,    \* the file to send: its bytes, write_data_pos, file position
    todo,          \* what the protocol still does in this exchange
    \* the connection
    tls, conn,
    pending,       \* the rest of a TLS record, decrypted and not read
    wire,          \* bytes that have arrived in the socket
    net,           \* bytes on their way
    owed,          \* what the server answers to what it has been asked
    exchanges,
    \* history
    asked, taken, answered, heard

input == <<read_buf, read_buf_p, preread, read_msg_buf, read_data_buf, read_data_fp>>
output == <<write_buf, write_data>>
socket == <<conn, pending, wire, net>>
history == <<asked, taken, answered, heard>>
vars == <<state, wait, idle, input, output, todo, tls, socket, owed, exchanges, history>>

Take(s, n) == SubSeq(s, 1, n)
Skip(s, n) == SubSeq(s, n + 1, Len(s))
Least(a, b) == IF a < b THEN a ELSE b

(***************************************************************************)
(* Messages on the wire and in files.                                      *)
(***************************************************************************)
\* fgets: up to the end of the line, never more than the buffer takes.
FGets(text) ==
    LET ends == {i \in 1..Len(text) : text[i] = "\n" \/ i = LINE_BUFFSIZE - 1} \cup {Len(text)}
    IN Take(text, CHOOSE i \in ends : \A j \in ends : i <= j)

Chunks(text) ==
    LET f[p \in 0..Len(text)] ==
            IF p = Len(text) THEN <<>>
            ELSE LET c == FGets(Skip(text, p)) IN <<c>> \o f[p + Len(c)]
    IN f[0]

\* One buffer of a message that has been received.
StoredChunk(c) ==
    LET last == c[Len(c)]
        line == IF last = "\n" /\ Len(c) > 1 /\ c[Len(c) - 1] = "\r"
                THEN Take(c, Len(c) - 2) \o <<"\n">>
                ELSE IF last = "\r" THEN Take(c, Len(c) - 1) ELSE c
    IN IF last = "\n" /\ Len(line) > 1 /\ line[1] = "." /\ line[2] = "."
       THEN Skip(line, 1) ELSE line

WriteMsgToFile(data) ==
    LET chunks == Chunks(data)
    IN FlattenSeq([i \in DOMAIN chunks |-> StoredChunk(chunks[i])])

Chomp(c) == SelectSeq(c, LAMBDA b : b \notin {"\r", "\n"})
Begins(c, b) == c # <<>> /\ c[1] = b

\* One buffer of a message that is to be sent; "B" begins a Bcc line.
SendChunk(acc, c) ==
    LET line == Chomp(c)
        put(part, text) == [part |-> part, out |-> acc.out \o text \o CRLF]
    IN CASE acc.part = "body" -> put("body", IF Begins(line, ".") THEN <<".">> \o line ELSE line)
         [] acc.part = "bcc" /\ Begins(c, " ") -> acc
         [] acc.part # "body" /\ Begins(line, "B") -> [acc EXCEPT !.part = "bcc"]
         [] OTHER -> put(IF line = <<>> THEN "body" ELSE "header", line)

OutgoingFile(text) ==
    FoldLeft(SendChunk, [part |-> "header", out |-> <<>>], Chunks(text)).out

\* A message in the mailbox of this program and on the wire (RFC 1939, 2821).
Stored(lines) == FlattenSeq([i \in DOMAIN lines |-> lines[i] \o <<"\n">>])
Raw(lines) == FlattenSeq([i \in DOMAIN lines |-> lines[i] \o CRLF])
Stuffed(lines) ==
    Raw([i \in DOMAIN lines |-> IF Begins(lines[i], ".") THEN <<".">> \o lines[i] ELSE lines[i]])

\* What others get of a message: all of it but its Bcc lines.
Visible(header) ==
    LET hidden == {i \in DOMAIN header :
                      \E j \in 1..i : /\ Begins(header[j], "B")
                                      /\ \A k \in (j + 1)..i : Begins(header[k], " ")}
        shown == {i \in DOMAIN header : i \notin hidden}
    IN [n \in 1..Cardinality(shown) |->
           header[CHOOSE i \in shown : Cardinality({j \in shown : j < i}) = n - 1]]

DraftText(d) == Stored(d.header \o <<<<>>>> \o d.body)
DraftOnWire(d) == Raw(Visible(d.header) \o <<<<>>>>) \o Stuffed(d.body)

(***************************************************************************)
(* The pieces of an answer: what the server sends for them, and what the   *)
(* program has in the end.                                                 *)
(***************************************************************************)
Piece(kind, lines) == [kind |-> kind, lines |-> lines]

OnWire(piece) ==
    CASE piece.kind = "msg" -> Raw(piece.lines)
      [] piece.kind = "data" -> Raw(piece.lines) \o Terminator
      [] piece.kind = "file" -> Stuffed(piece.lines) \o Terminator

InProgram(piece) ==
    [kind |-> piece.kind,
     text |-> CASE piece.kind = "msg" -> piece.lines[1]
                [] piece.kind = "data" -> Raw(piece.lines)
                [] piece.kind = "file" -> Stored(piece.lines)]

\* The exchanges: a command, and what the server answers to it.
Exchanges ==
    LET lines == {Piece("msg", <<r>>) : r \in Replies}
        listings == {Piece("data", l) : l \in Listings}
        files == {Piece("file", m) : m \in Messages}
    IN {<<l>> : l \in lines} \cup {<<l, k>> : l \in lines, k \in lines}
       \cup {<<l, d>> : l \in lines, d \in listings} \cup {<<l, f>> : l \in lines, f \in files}

\* The files to send (get_outgoing_rfc2822_file), and what the server should
\* get of each.
SendFiles == [d \in Drafts |->
                 [text |-> OutgoingFile(DraftText(d)), meant |-> DraftOnWire(d), pos |-> 0, fpos |-> 0]]

NoFile == [text |-> <<>>, meant |-> <<>>, pos |-> 0, fpos |-> 0]

Init ==
    /\ state = "ready" /\ wait = "none" /\ idle = FALSE
    /\ read_buf = <<>> /\ read_buf_p = 0 /\ preread = <<>>
    /\ read_msg_buf = <<>> /\ read_data_buf = <<>> /\ read_data_fp = <<>>
    /\ write_buf = <<>> /\ write_data = NoFile
    /\ todo = <<>> /\ tls \in BOOLEAN /\ conn = TRUE
    /\ pending = <<>> /\ wire = <<>> /\ net = <<>>
    /\ owed = <<>> /\ exchanges = 0
    /\ asked = <<>> /\ taken = <<>> /\ answered = <<>> /\ heard = <<>>

Over == state \in {"error", "eof", "timeout"}

(***************************************************************************)
(* Writing.  The socket takes any part of what is offered to it.           *)
(***************************************************************************)
RecvMsg == wait' = "msg" /\ idle' = (read_buf' # <<>>) /\ state' = "recv"

\* session_write_buf; "before" is what the socket took earlier in the call.
WriteMsg(buf, before) ==
    \E n \in 0..Least(Len(buf), BUFFSIZE) :
        /\ taken' = IF conn THEN taken \o before \o Take(buf, n) ELSE taken
        /\ write_buf' = Skip(buf, n)
        /\ \/ n = Len(buf) /\ RecvMsg
           \/ n < Len(buf) /\ wait' = "write_msg" /\ idle' = FALSE /\ state' = "send"

Ask(steps, answer, file) ==
    /\ exchanges < MaxExchanges /\ exchanges' = exchanges + 1
    /\ todo' = steps /\ owed' = answer /\ write_data' = file
    /\ asked' = asked \o Command
    /\ WriteMsg(Command, <<>>)

NextExchange ==
    \/ \E e \in Exchanges : Ask([i \in DOMAIN e |-> e[i].kind], e, NoFile)
    \/ \E r \in Replies, d \in Drafts :
          Ask(<<"msg", "send", "msg">>, <<Piece("msg", <<r>>)>>, SendFiles[d])

\* session_write_data, and after the last of it smtp_eom.
WriteFile(f, steps, want) ==
    LET offer == SubSeq(f.text, f.fpos + 1, f.fpos + Least(Len(f.text) - f.pos, BUFFSIZE))
    IN \E n \in 0..Len(offer) :
         \/ /\ f.pos + n < Len(f.text)
            /\ write_data' = [f EXCEPT !.pos = f.pos + n,
                                       !.fpos = IF n < Len(offer) THEN f.pos + n ELSE f.fpos + n]
            /\ taken' = IF conn THEN taken \o Take(offer, n) ELSE taken
            /\ wait' = "write_data" /\ idle' = FALSE /\ state' = "send"
            /\ todo' = steps /\ asked' = want
            /\ UNCHANGED <<write_buf, owed>>
         \/ /\ f.pos + n = Len(f.text)
            /\ write_data' = NoFile
            /\ todo' = Tail(steps) /\ asked' = want \o Terminator
            /\ owed' \in {<<Piece("msg", <<r>>)>> : r \in Replies}
            /\ WriteMsg(Terminator, Take(offer, n))

\* What the protocol asks for at the end of its callback.
Continue ==
    LET rest == Tail(todo)
    IN \/ /\ rest = <<>>
          /\ \/ NextExchange
             \/ /\ wait' = "none" /\ idle' = FALSE /\ state' = "ready" /\ todo' = <<>>
                /\ UNCHANGED <<output, owed, exchanges, asked, taken>>
       \/ /\ rest # <<>> /\ Head(rest) = "send"
          /\ WriteFile(write_data, rest, asked \o write_data.meant)
          /\ UNCHANGED exchanges
       \/ /\ rest # <<>> /\ Head(rest) # "send"
          /\ todo' = rest
          /\ wait' = Head(rest) /\ idle' = (read_buf' # <<>>) /\ state' = "recv"
          /\ UNCHANGED <<output, owed, exchanges, asked, taken>>

\* A callback that reads again when there is more, or that gives up.
Again ==
    /\ idle' = FALSE
    /\ UNCHANGED <<state, wait, output, todo, owed, exchanges, history>>

Stop(why) ==
    /\ state' = why /\ wait' = "none" /\ idle' = FALSE
    /\ UNCHANGED <<output, todo, owed, exchanges, history>>

Begin ==
    /\ state = "ready" /\ exchanges = 0
    /\ UNCHANGED <<input, tls, socket, answered, heard>>
    /\ NextExchange

WriteMsgCb ==
    /\ wait = "write_msg"
    /\ UNCHANGED <<input, tls, socket, answered, heard>>
    /\ \/ WriteMsg(write_buf, <<>>) /\ UNCHANGED <<write_data, todo, owed, exchanges, asked>>
       \/ ~conn /\ Stop("error")

WriteDataCb ==
    /\ wait = "write_data"
    /\ UNCHANGED <<input, tls, socket, answered, heard>>
    /\ \/ WriteFile(write_data, todo, asked) /\ UNCHANGED exchanges
       \/ ~conn /\ Stop("error")

(***************************************************************************)
(* Reading.  Over TLS a read gets what is left of a record or the next     *)
(* record; the watch of a TLS socket looks at the former too.              *)
(***************************************************************************)
Readable_NoPending == wire # <<>> \/ ~conn
Readable == pending # <<>> \/ wire # <<>> \/ ~conn

Got(bytes, rest, more) == [bytes |-> bytes, pending |-> rest, wire |-> more]

SockRead(len) ==
    LET record(k) == Got(Take(wire, Least(len, k)), SubSeq(wire, len + 1, k), Skip(wire, k))
        n == Least(len, Len(wire))
    IN IF pending # <<>>
       THEN {Got(Take(pending, Least(len, Len(pending))), Skip(pending, len), wire)}
       ELSE IF tls /\ wire # <<>> THEN {record(k) : k \in 1..Len(wire)}
       ELSE {Got(Take(wire, n), <<>>, Skip(wire, n))}

\* The bytes for a callback: those in the buffer, or else a read.
Input(len) ==
    IF read_buf # <<>> THEN {Got(read_buf, pending, wire)} ELSE SockRead(len)

Called(callback) == wait = callback /\ (idle \/ Readable)

ReadMsg_NoReset(bytes) ==
    LET n == IF \E i \in DOMAIN bytes : bytes[i] = "\n"
             THEN SelectInSeq(bytes, LAMBDA b : b = "\n") ELSE Len(bytes)
        text == read_msg_buf \o Take(bytes, n)
    IN /\ read_buf' = Skip(bytes, n)
       /\ read_buf_p' = read_buf_p + n
       /\ \/ bytes[n] # "\n" /\ read_msg_buf' = text /\ Again
          \/ /\ bytes[n] = "\n" /\ read_msg_buf' = <<>>
             /\ heard' = Append(heard, [kind |-> "msg", text |-> Chomp(text)])
             /\ Continue /\ UNCHANGED answered
       /\ UNCHANGED <<preread, read_data_buf, read_data_fp>>

ReadMsg(bytes) ==
    LET n == IF \E i \in DOMAIN bytes : bytes[i] = "\n"
             THEN SelectInSeq(bytes, LAMBDA b : b = "\n") ELSE Len(bytes)
        text == read_msg_buf \o Take(bytes, n)
    IN /\ read_buf' = Skip(bytes, n)
       /\ read_buf_p' = IF n = Len(bytes) THEN 0 ELSE read_buf_p + n
       /\ \/ bytes[n] # "\n" /\ read_msg_buf' = text /\ Again
          \/ /\ bytes[n] = "\n" /\ read_msg_buf' = <<>>
             /\ heard' = Append(heard, [kind |-> "msg", text |-> Chomp(text)])
             /\ Continue /\ UNCHANGED answered
       /\ UNCHANGED <<preread, read_data_buf, read_data_fp>>

ReadData(bytes) ==
    LET data == read_data_buf \o bytes
        complete == IsPrefix(Terminator, data) \/ IsSuffix(CRLF \o Terminator, data)
    IN /\ read_buf' = <<>> /\ read_buf_p' = 0
       /\ \/ ~complete /\ read_data_buf' = data /\ Again
          \/ /\ complete /\ read_data_buf' = <<>>
             /\ heard' = Append(heard, [kind |-> "data",
                                       text |-> Take(data, Len(data) - Len(Terminator))])
             /\ Continue /\ UNCHANGED answered
       /\ UNCHANGED <<preread, read_msg_buf, read_data_fp>>

ReadBufLeft == BUFFSIZE - read_buf_p - Len(read_buf)

\* The temporary file cannot be written.
WriteFails ==
    /\ Stop("error")
    /\ UNCHANGED <<read_buf, read_buf_p, preread, read_data_fp>>

\* How many bytes are written to make room: all but the last ones, if the
\* buffer has less than half of its space left.
WriteLen(all, left) ==
    IF Len(all) <= PREREAD_SIZE \/ left >= BUFFSIZE \div 2 THEN 0 ELSE Len(all) - PREREAD_SIZE

KeepBytes(bytes) ==
    LET all == preread \o bytes
        n == WriteLen(all, BUFFSIZE - read_buf_p - Len(bytes))
    IN \/ /\ preread' = Skip(all, n)
          /\ read_buf_p' = IF n > 0 \/ Len(all) <= PREREAD_SIZE THEN Len(preread')
                           ELSE read_buf_p + Len(bytes)
          /\ read_buf' = <<>>
          /\ read_data_fp' = read_data_fp \o Take(all, n)
          /\ Again
       \/ n > 0 /\ WriteFails

\* session_read_data_as_file_cb: is this the end of the message?
Complete_NoLineBreak(all) == (read_data_fp = <<>> /\ all = Terminator) \/ IsSuffix(Terminator, all)
Complete(all) ==
    (read_data_fp = <<>> /\ all = Terminator) \/ IsSuffix(CRLF \o Terminator, all)

ReadDataAsFile(bytes) ==
    LET all == preread \o bytes
        file == read_data_fp \o Take(all, Len(all) - Len(Terminator))
    IN \/ /\ ~Complete(all) /\ KeepBytes(bytes)
          /\ UNCHANGED <<read_msg_buf, read_data_buf>>
       \/ /\ Complete(all)
          /\ read_buf' = <<>> /\ read_buf_p' = 0 /\ preread' = <<>> /\ read_data_fp' = <<>>
          /\ heard' = Append(heard, [kind |-> "file", text |-> WriteMsgToFile(file)])
          /\ Continue
          /\ UNCHANGED <<answered, read_msg_buf, read_data_buf>>
       \/ Complete(all) /\ WriteFails /\ UNCHANGED <<read_msg_buf, read_data_buf>>

Read(callback, r) ==
    /\ Called(callback)
    /\ pending' = r.pending /\ wire' = r.wire
    /\ UNCHANGED <<tls, conn, net>>

EndOfFile(r) == r.bytes = <<>> /\ Stop("eof") /\ UNCHANGED input

ReadMsgCb ==
    \E r \in Input(BUFFSIZE - 1) :
        Read("msg", r) /\ (EndOfFile(r) \/ (r.bytes # <<>> /\ ReadMsg(r.bytes)))

ReadDataCb ==
    \E r \in Input(BUFFSIZE) :
        Read("data", r) /\ (EndOfFile(r) \/ (r.bytes # <<>> /\ ReadData(r.bytes)))

ReadDataAsFileCb ==
    \E r \in Input(ReadBufLeft) :
        Read("file", r) /\ (EndOfFile(r) \/ (r.bytes # <<>> /\ ReadDataAsFile(r.bytes)))

\* The timer has the lowest priority: it fires when nothing else is ready.
TimeoutCb ==
    /\ wait # "none" /\ ~idle
    /\ wait \in {"msg", "data", "file"} => ~Readable
    /\ Stop("timeout")
    /\ UNCHANGED <<input, tls, socket>>

(***************************************************************************)
(* The server and the network.                                             *)
(***************************************************************************)
Answer ==
    /\ conn /\ owed # <<>> /\ taken = asked
    /\ net' = net \o FlattenSeq([i \in DOMAIN owed |-> OnWire(owed[i])])
    /\ answered' = answered \o [i \in DOMAIN owed |-> InProgram(owed[i])]
    /\ owed' = <<>>
    /\ UNCHANGED <<state, wait, idle, input, output, todo, tls, conn, pending, wire,
                   exchanges, asked, taken, heard>>

Arrive ==
    /\ conn /\ net # <<>>
    /\ \E n \in 1..Len(net) : wire' = wire \o Take(net, n) /\ net' = Skip(net, n)
    /\ UNCHANGED <<state, wait, idle, input, output, todo, tls, conn, pending, owed,
                   exchanges, history>>

Break ==
    /\ conn /\ ~Over
    /\ conn' = FALSE /\ net' = <<>>
    /\ UNCHANGED <<state, wait, idle, input, output, todo, tls, pending, wire, owed,
                   exchanges, history>>

WriteCb == WriteMsgCb \/ WriteDataCb
ReadCb == ReadMsgCb \/ ReadDataCb \/ ReadDataAsFileCb

Next == Begin \/ WriteCb \/ ReadCb \/ TimeoutCb \/ Answer \/ Arrive \/ Break

Spec == Init /\ [][Next]_vars

\* The main loop runs and the network delivers.  (A write may be refused for
\* ever.)
FairSpec == Spec /\ WF_vars(ReadCb) /\ WF_vars(Arrive)

(***************************************************************************)
(* Properties.                                                             *)
(***************************************************************************)
\* The bytes in use lie inside the read buffer, and what one callback has
\* kept is gone before another one reads.  A message is read into a buffer with
\* room, for a read of no bytes would be taken for the end of the connection
\* (READ_BUF_LEFT, session_read_data_as_file_cb).
TypeOK ==
    /\ state \in {"ready", "send", "recv", "error", "eof", "timeout"}
    /\ wait \in {"none", "write_msg", "write_data", "msg", "data", "file"}
    /\ Len(preread) <= read_buf_p /\ read_buf_p + Len(read_buf) <= BUFFSIZE
    /\ wait \in {"msg", "data"} => preread = <<>>
    /\ wait \in {"msg", "data"} /\ read_buf = <<>> => read_buf_p = 0
    /\ wait = "file" /\ read_buf = <<>> => ReadBufLeft >= BUFFSIZE \div 2

\* In whatever pieces the bytes travel: the server gets the commands and the
\* messages as they are meant, the program hears each line, listing and
\* message of an answer whole and once, a message file is the message.
Promise == INSTANCE Dialogue WITH over <- Over
KeepsPromise == Promise!Spec

\* What the server has answered is heard, unless the session ends: no bytes
\* wait in the buffer, or decrypted in the TLS layer, for others to come.
HeardOut == heard # answered ~> heard = answered \/ Over
=============================================================================
