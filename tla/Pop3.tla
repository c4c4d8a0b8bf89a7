-------------------------------- MODULE Pop3 --------------------------------
(***************************************************************************)
(* The retrieval of one POP3 account: the client's session state machine   *)
(* (libsylph/pop.c), the part of src/inc.c that runs one session and turns *)
(* its end into a result, and the UIDL list the client keeps on disk       *)
(* between sessions (pop3_get_uidl_table, pop3_write_uidl_list, and the    *)
(* file replacement of libsylph/prefs.c).  The POP3 server and the local   *)
(* folders are the environment: the server follows RFC 1939 (deletions are *)
(* committed by QUIT, a broken connection forgets them) and may answer     *)
(* anything, or nothing.                                                   *)
(*                                                                         *)
(* The program may crash at any moment; the UIDL list, the server's        *)
(* maildrop and the local folders survive.                                 *)
(***************************************************************************)
EXTENDS Integers, Sequences, FiniteSets

CONSTANTS
    Uids,      \* unique ids the server gives to messages
    Size,      \* what LIST says: 0 no size, 1 under the size limit, 2 over it
    Prefs,     \* account settings a session may run under
    Days,      \* the values of the clock, a set of day numbers
    MaxBad,    \* bound: malformed lines in one UIDL listing
    SlowFilter \* may a filter command outlast the I/O timeout?

\* RecvTime (pop.h); every other value is the day a message was received.
RECV_TIME_NONE == 0
RECV_TIME_RECEIVED == 1
RECV_TIME_KEEP == 2
RECV_TIME_DELETE == 3

PrefsRecord ==
    [rmmail : BOOLEAN, getall : BOOLEAN, enable_size_limit : BOOLEAN,
     msg_leave_time : Nat, starttls : BOOLEAN,
     auth : {"user", "apop", "oauth2"}, auth_only : BOOLEAN]

ASSUME UidsFinite == IsFiniteSet(Uids)
ASSUME SizeAssumption == Size \in [Uids -> 0..2]
ASSUME PrefsAssumption == Prefs \subseteq PrefsRecord
ASSUME DaysAssumption == Days \subseteq {d \in Nat : d > RECV_TIME_DELETE}
ASSUME MaxBadAssumption == MaxBad \in Nat
ASSUME SlowFilterAssumption == SlowFilter \in BOOLEAN

VARIABLES
    \* survives a crash
    uidl_file,      \* recorded uid -> recv_time, RECV_TIME_NONE when absent
    maildrop,       \* the messages on the server
    now,            \* today
    \* the session (Pop3Session, Session, IncSession)
    sess,           \* "IDLE": no session; "REPLACING": the list is half written
    timer,          \* the session's timeout source is installed
    state,          \* Pop3State
    error_val,      \* Pop3ErrorValue
    inc_state,      \* IncState, as far as it is set while the session runs
    prefs,          \* the account settings this session runs under
    uidl_table,     \* the UIDL list as it was read at the start
    msg,            \* Pop3MsgInfo of messages 1 .. count
    cur_msg,
    new_msg_exist,
    uidl_is_valid,
    \* the server's side of the session
    list,           \* the messages the session knows by number
    marked,         \* messages with the deleted mark
    srv,            \* "open", "committed" or "refused" (the answer to QUIT)
    \* observers
    handled,        \* messages stored in a local folder or dropped by a filter
    fetched,        \* those of this session
    lapsed          \* messages whose record was lost, and is known to be lost

persistent == <<uidl_file, maildrop, now>>
server == <<list, marked, srv>>
observers == <<handled, fetched, lapsed>>
dialogue == <<state, error_val, inc_state, prefs, uidl_table, msg, cur_msg,
              new_msg_exist, uidl_is_valid>>
session == <<sess, timer, dialogue>>
vars == <<persistent, session, server, observers>>

-----------------------------------------------------------------------------
\* State of the session.

Pop3States ==
    {"READY", "STLS", "GETAUTH_USER", "GETAUTH_PASS",
     "GETAUTH_APOP", "GETAUTH_AUTH", "GETAUTH_AUTH_DATA", "GETRANGE_STAT",
     "GETRANGE_LAST", "GETRANGE_UIDL", "GETRANGE_UIDL_RECV", "GETSIZE_LIST",
     "GETSIZE_LIST_RECV", "RETR", "RETR_RECV", "DELETE", "LOGOUT", "DONE",
     "ERROR"}

SessStates == {"IDLE", "READY", "RECV", "DISCONNECTED", "ERROR", "EOF",
               "TIMEOUT", "REPLACING"}

\* session_is_connected
Connected == sess \in {"READY", "RECV"}
Running == sess # "IDLE"

count == Len(list)
Members(s) == {s[i] : i \in DOMAIN s}

MsgInfo == [uidl : BOOLEAN, size : 0..2, recv_time : Nat,
            received : BOOLEAN, deleted : BOOLEAN]
NewMsg == [uidl |-> FALSE, size |-> 0, recv_time |-> RECV_TIME_NONE,
           received |-> FALSE, deleted |-> FALSE]

\* The ways a server may number the messages of a set.
Listings(S) ==
    {l \in [1..Cardinality(S) -> S] :
        \A i, j \in DOMAIN l : l[i] = l[j] => i = j}

NoRecords == [u \in Uids |-> RECV_TIME_NONE]

Init ==
    /\ uidl_file = NoRecords
    /\ maildrop = {}
    /\ now \in Days
    /\ sess = "IDLE" /\ timer = FALSE /\ state = "READY"
    /\ error_val = "SUCCESS" /\ inc_state = "SUCCESS"
    /\ prefs \in Prefs
    /\ uidl_table = NoRecords
    /\ msg = << >>
    /\ cur_msg = 0
    /\ new_msg_exist = FALSE /\ uidl_is_valid = FALSE
    /\ list = << >> /\ marked = {} /\ srv = "open"
    /\ handled = {} /\ fetched = {} /\ lapsed = {}

-----------------------------------------------------------------------------
\* Starting a session, and what the lower layers do to it.

\* inc_session_new, pop3_session_new and the connect of inc_pop3_session_do.
\* The clock and the account settings may have changed since the last one.
Start ==
    /\ sess = "IDLE"
    /\ prefs' \in Prefs
    /\ now' \in {d \in Days : d >= now}
    /\ sess' = "READY" /\ timer' = TRUE /\ state' = "READY"
    /\ error_val' = "SUCCESS" /\ inc_state' = "SUCCESS"
    /\ uidl_table' = uidl_file
    /\ msg' = << >> /\ cur_msg' = 0
    /\ new_msg_exist' = FALSE /\ uidl_is_valid' = FALSE
    /\ list' = << >> /\ marked' = {} /\ srv' = "open"
    /\ fetched' = {}
    /\ UNCHANGED <<uidl_file, maildrop, handled, lapsed>>

\* session_connect_cb: the greeting can be read (or it never will be).
Connect ==
    /\ sess = "READY"
    /\ sess' \in {"RECV", "ERROR"}
    /\ UNCHANGED <<timer, persistent, dialogue, server, observers>>

\* EOF or a socket error, found by session_read_msg_cb, session_read_data_cb,
\* session_read_data_as_file_cb or session_write_buf.
Broken ==
    /\ sess = "RECV"
    /\ sess' \in {"EOF", "ERROR"}
    /\ UNCHANGED <<timer, persistent, dialogue, server, observers>>

\* session_timeout_cb.
Timeout ==
    /\ Connected /\ timer
    /\ sess' = "TIMEOUT" /\ timer' = FALSE
    /\ UNCHANGED <<persistent, dialogue, server, observers>>

\* inc_cancel: the user presses Cancel.
Cancel ==
    /\ Connected
    /\ inc_state' = "CANCEL"
    /\ sess' = "DISCONNECTED" /\ timer' = FALSE
    /\ UNCHANGED <<persistent, state, error_val, prefs, uidl_table, msg,
                   cur_msg, new_msg_exist, uidl_is_valid, server, observers>>

-----------------------------------------------------------------------------
\* pop3_session_recv_msg: status lines.

Lines == {"+OK", "-ERR", "-ERR lock", "-ERR timeout", "junk"}

AuthStates == {"GETAUTH_USER", "GETAUTH_PASS", "GETAUTH_APOP",
               "GETAUTH_AUTH_DATA"}

\* pop3_ok
PopOk(line) ==
    CASE line = "+OK" -> "SUCCESS"
      [] line = "-ERR lock" -> "LOCKBUSY"
      [] line = "-ERR timeout" -> "ERROR"
      [] line = "junk" -> "PROTOCOL"
      [] line = "-ERR" ->
            IF state \in AuthStates THEN "AUTHFAIL"
            ELSE IF state \in {"GETRANGE_LAST", "GETRANGE_UIDL"}
                 THEN "NOTSUPPORTED"
            ELSE "ERROR"

\* The states in which a line goes through pop3_ok.
LineStates == {"READY", "STLS", "GETAUTH_USER", "GETAUTH_PASS",
               "GETAUTH_APOP", "GETAUTH_AUTH_DATA", "GETRANGE_STAT",
               "GETRANGE_LAST", "GETRANGE_UIDL", "GETSIZE_LIST", "RETR",
               "DELETE", "LOGOUT"}

\* A line that lets the dialogue go on, in state s.
Good(s) ==
    /\ sess = "RECV" /\ state = s
    /\ error_val' = "SUCCESS"

\* A step of the dialogue that sends the command of state s.
Send(s) == state' = s /\ UNCHANGED sess

\* A handler that returns -1: session_read_*_cb sets SESSION_ERROR.
Fail == UNCHANGED state /\ sess' = "ERROR"

\* Mutant of Read: the timeout is removed and not set again.
Read_Removed == timer' = FALSE

\* Reading from the socket puts the timeout off.
Read == timer' = TRUE

\* Nothing changes but the state machine itself.
Dialogue ==
    /\ Read
    /\ UNCHANGED <<persistent, inc_state, prefs, uidl_table, msg, cur_msg,
                   new_msg_exist, uidl_is_valid, server, observers>>

\* Any reply but +OK ends the dialogue with QUIT; "not supported" is no error.
CommandFailed ==
    /\ sess = "RECV" /\ state \in LineStates \ {"LOGOUT"}
    /\ \E line \in Lines :
          /\ PopOk(line) \notin {"SUCCESS", "NOTSUPPORTED"}
          /\ error_val' = PopOk(line)
    /\ Send("LOGOUT")
    /\ Dialogue

\* Log in: which command follows depends on the account.  pop3_getauth_apop_send
\* fails when the greeting has no usable timestamp.
Authenticate ==
    \/ prefs.auth = "oauth2" /\ Send("GETAUTH_AUTH") /\ error_val' = "SUCCESS"
    \/ prefs.auth = "apop" /\ Send("GETAUTH_APOP") /\ error_val' = "SUCCESS"
    \/ /\ prefs.auth = "apop"
       /\ state' = "GETAUTH_APOP" /\ sess' = "ERROR" /\ error_val' = "PROTOCOL"
    \/ prefs.auth = "user" /\ Send("GETAUTH_USER") /\ error_val' = "SUCCESS"

Greeting ==
    /\ sess = "RECV" /\ state = "READY"
    /\ \/ prefs.starttls /\ Send("STLS") /\ error_val' = "SUCCESS"
       \/ ~prefs.starttls /\ Authenticate
    /\ Dialogue

StlsOk ==
    /\ sess = "RECV" /\ state = "STLS"
    /\ \/ Authenticate
       \/ Fail /\ error_val' = "SOCKET"      \* session_start_tls
    /\ Dialogue

UserOk == Good("GETAUTH_USER") /\ Send("GETAUTH_PASS") /\ Dialogue

\* AUTH XOAUTH2 is answered by a line pop3_ok does not see.
AuthReply ==
    /\ sess = "RECV" /\ state = "GETAUTH_AUTH"
    /\ \/ Send("GETAUTH_AUTH_DATA") /\ UNCHANGED error_val
       \/ Fail /\ error_val' = "PROTOCOL"
       \/ /\ state' = "GETAUTH_AUTH_DATA" /\ sess' = "ERROR"   \* no token
          /\ error_val' = "AUTHFAIL"
    /\ Dialogue

\* The server opens the maildrop when it accepts the login.
LoggedIn ==
    /\ \E s \in {"GETAUTH_PASS", "GETAUTH_APOP", "GETAUTH_AUTH_DATA"} : Good(s)
    /\ Send(IF prefs.auth_only THEN "LOGOUT" ELSE "GETRANGE_STAT")
    /\ Dialogue

\* pop3_getrange_stat_recv
StatOk ==
    /\ Good("GETRANGE_STAT") /\ Read
    /\ list' \in Listings(maildrop)
    /\ msg' = [n \in 1..Len(list') |-> NewMsg]
    /\ IF maildrop = {}
       THEN /\ uidl_is_valid' = TRUE
            /\ Send("LOGOUT")
            /\ UNCHANGED cur_msg
       ELSE /\ cur_msg' = 1
            /\ Send("GETRANGE_UIDL")
            /\ UNCHANGED uidl_is_valid
    /\ UNCHANGED <<persistent, inc_state, prefs, uidl_table, new_msg_exist,
                   marked, srv, observers>>

\* A STAT or LAST reply without numbers.
RangeMalformed ==
    /\ sess = "RECV" /\ state \in {"GETRANGE_STAT", "GETRANGE_LAST"}
    /\ Fail /\ error_val' = "PROTOCOL"
    /\ Dialogue

UidlOk == Good("GETRANGE_UIDL") /\ Send("GETRANGE_UIDL_RECV") /\ Dialogue

UidlNotSupported ==
    /\ Good("GETRANGE_UIDL") /\ Send("GETRANGE_LAST") /\ Dialogue

\* pop3_getrange_last_recv: any number the server cares to name.
LastOk ==
    /\ Good("GETRANGE_LAST") /\ Read
    /\ \E last \in 0..count :
          IF count > last
          THEN /\ new_msg_exist' = TRUE /\ cur_msg' = last + 1
               /\ Send("GETSIZE_LIST")
          ELSE /\ cur_msg' = 0 /\ UNCHANGED new_msg_exist
               /\ Send("LOGOUT")
    /\ UNCHANGED <<persistent, inc_state, prefs, uidl_table, msg,
                   uidl_is_valid, server, observers>>

\* Neither UIDL nor LAST: everything is taken from message 1 on.
LastNotSupported ==
    /\ Good("GETRANGE_LAST") /\ Send("GETSIZE_LIST") /\ Dialogue

-----------------------------------------------------------------------------
\* The message list: UIDL, LIST and the next message to look at.

IsFirst(n, S) == n \in S /\ \A k \in S : n <= k

\* pop3_getrange_uidl_recv.  A malformed line is skipped.
UidlRecv ==
    /\ sess = "RECV" /\ state = "GETRANGE_UIDL_RECV" /\ Read
    /\ \E bad \in SUBSET (1..count) :
          LET good == (1..count) \ bad
              recorded(n) == uidl_table[list[n]]
              new == {n \in good : prefs.getall \/ prefs.rmmail
                                      \/ recorded(n) = RECV_TIME_NONE}
          IN /\ Cardinality(bad) <= MaxBad
             /\ msg' = [n \in 1..count |->
                          IF n \in bad THEN msg[n]
                          ELSE [msg[n] EXCEPT
                                  !.uidl = TRUE,
                                  !.recv_time = recorded(n),
                                  !.received = ~prefs.getall /\
                                     recorded(n) # RECV_TIME_NONE]]
             /\ new_msg_exist' = (new # {})
             /\ \/ new = {} /\ Send("LOGOUT") /\ UNCHANGED cur_msg
                \/ Send("GETSIZE_LIST") /\ IsFirst(cur_msg', new)
    /\ uidl_is_valid' = TRUE
    /\ UNCHANGED <<persistent, error_val, inc_state, prefs, uidl_table, server,
                   observers>>

\* A listing whose last line is cut off; LIST also sets the error.
ListingMalformed ==
    /\ sess = "RECV" /\ Fail
    /\ \/ /\ state \in {"GETRANGE_UIDL_RECV", "GETSIZE_LIST_RECV"}
          /\ UNCHANGED error_val
       \/ state = "GETSIZE_LIST_RECV" /\ error_val' = "PROTOCOL"
    /\ Dialogue

ListOk == Good("GETSIZE_LIST") /\ Send("GETSIZE_LIST_RECV") /\ Dialogue

\* Mutants of Expired: the "don't receive" mark forgotten; a mark of an earlier
\* session forgotten; a day too early.
Expired_KeepForgotten(info) ==
    \/ info.recv_time = RECV_TIME_DELETE
    \/ /\ prefs.rmmail /\ info.recv_time # RECV_TIME_NONE
       /\ now - info.recv_time >= prefs.msg_leave_time
Expired_MarkForgotten(info) ==
    /\ prefs.rmmail
    /\ info.recv_time \notin {RECV_TIME_NONE, RECV_TIME_KEEP}
    /\ now - info.recv_time >= prefs.msg_leave_time
Expired_DayEarly(info) ==
    \/ info.recv_time = RECV_TIME_DELETE
    \/ /\ prefs.rmmail
       /\ info.recv_time \notin {RECV_TIME_NONE, RECV_TIME_KEEP}
       /\ now - info.recv_time + 1 >= prefs.msg_leave_time

\* pop3_lookup_next, on the messages m from message c on.
Expired(info) ==
    \/ info.recv_time = RECV_TIME_DELETE
    \/ /\ prefs.rmmail
       /\ info.recv_time \notin {RECV_TIME_NONE, RECV_TIME_KEEP}
       /\ now - info.recv_time >= prefs.msg_leave_time

\* Mutant of Skipped: what was received is not looked at.
Skipped_SizeOnly(info) ==
    info.size = 0 \/ (prefs.enable_size_limit /\ info.size = 2)

Skipped(info) ==
    \/ info.size = 0
    \/ info.received
    \/ prefs.enable_size_limit /\ info.size = 2

\* Mutant of LookupNext: the number is advanced before it is compared.
LookupNext_PastEnd(m, c) ==
    LET stops == {n \in c..count : Expired(m[n]) \/ ~Skipped(m[n])}
    IN \/ stops = {} /\ cur_msg' = count + 1 /\ Send("LOGOUT")
       \/ /\ IsFirst(cur_msg', stops)
          /\ Send(IF Expired(m[cur_msg']) THEN "DELETE" ELSE "RETR")

LookupNext(m, c) ==
    LET stops == {n \in c..count : Expired(m[n]) \/ ~Skipped(m[n])}
    IN \/ stops = {} /\ cur_msg' = count /\ Send("LOGOUT")
       \/ /\ IsFirst(cur_msg', stops)
          /\ Send(IF Expired(m[cur_msg']) THEN "DELETE" ELSE "RETR")

\* The next message, when there is one.
Advance(m) ==
    IF cur_msg = count THEN Send("LOGOUT") /\ UNCHANGED cur_msg
    ELSE LookupNext(m, cur_msg + 1)

\* pop3_getsize_list_recv
ListRecv ==
    /\ sess = "RECV" /\ state = "GETSIZE_LIST_RECV" /\ Read
    /\ msg' = [n \in 1..count |-> [msg[n] EXCEPT !.size = Size[list[n]]]]
    /\ LookupNext(msg', cur_msg)
    /\ UNCHANGED <<persistent, error_val, inc_state, prefs, uidl_table,
                   new_msg_exist, uidl_is_valid, server, observers>>

-----------------------------------------------------------------------------
\* Retrieving and deleting.

RetrOk ==
    /\ Good("RETR") /\ Dialogue
    /\ state' = "RETR_RECV"
    /\ sess' \in {"RECV", "ERROR"}     \* "ERROR": no temporary file for it

\* pop3_retr_recv fails: the temporary file cannot be written, or
\* inc_drop_message returns DROP_ERROR, perhaps after a filter has put a copy
\* into a folder; a junk filter that cannot be run also sets inc_state.
DropFailed ==
    /\ sess = "RECV" /\ state = "RETR_RECV" /\ Fail /\ Read
    /\ error_val' = "IOERR"
    /\ inc_state' \in {inc_state, "ERROR", "CANCEL"}
    /\ \/ UNCHANGED <<handled, lapsed>>
       \/ /\ handled' = handled \cup {list[cur_msg]}
          /\ lapsed' = lapsed \cup {list[cur_msg]}
    /\ UNCHANGED <<persistent, prefs, uidl_table, msg, cur_msg, new_msg_exist,
                   uidl_is_valid, server, fetched>>

\* What inc_drop_message may answer, and the recv_time it leads to.
Drops == {"DROP_OK", "DROP_DELETE", "DROP_DONT_RECEIVE"}

\* Mutant of ReceivedMsg: whatever the filters say, the message was received.
ReceivedMsg_Always(drop) ==
    [msg EXCEPT ![cur_msg] = [@ EXCEPT !.received = TRUE, !.recv_time = now]]

ReceivedMsg(drop) ==
    LET time == CASE drop = "DROP_DONT_RECEIVE" -> RECV_TIME_KEEP
                  [] drop = "DROP_DELETE" -> RECV_TIME_DELETE
                  [] drop = "DROP_OK" -> now
    IN [msg EXCEPT ![cur_msg] = [@ EXCEPT !.received = TRUE,
                                          !.recv_time = time]]

\* pop3_session_recv_data_as_file_finished, after pop3_retr_recv.
AfterRetr(info) ==
    IF \/ info.recv_time = RECV_TIME_DELETE
       \/ /\ prefs.rmmail /\ prefs.msg_leave_time = 0
          /\ info.recv_time # RECV_TIME_KEEP
    THEN Send("DELETE") /\ UNCHANGED cur_msg
    ELSE Advance(msg')

\* The message is dropped into a folder.  A filter command runs the main loop:
\* the user may cancel, and the timeout may fire, while it runs.  The next
\* command is sent all the same after a timeout, and nothing starts it again.
RetrRecv ==
    /\ sess = "RECV" /\ state = "RETR_RECV"
    /\ \E drop \in Drops :
          /\ msg' = ReceivedMsg(drop)
          /\ IF drop = "DROP_DONT_RECEIVE"
             THEN UNCHANGED <<handled, fetched>>
             ELSE /\ handled' = handled \cup {list[cur_msg]}
                  /\ fetched' = fetched \cup {list[cur_msg]}
    /\ \/ AfterRetr(msg'[cur_msg]) /\ Read /\ UNCHANGED inc_state
       \/ SlowFilter /\ AfterRetr(msg'[cur_msg]) /\ timer' = FALSE
          /\ UNCHANGED inc_state
       \/ /\ inc_state' = "CANCEL" /\ Fail /\ timer' = FALSE
          /\ UNCHANGED cur_msg
    /\ UNCHANGED <<persistent, error_val, prefs, uidl_table, new_msg_exist,
                   uidl_is_valid, server, lapsed>>

\* pop3_delete_recv; the server has marked the message.
DeleOk ==
    /\ Good("DELETE") /\ Read
    /\ msg' = [msg EXCEPT ![cur_msg] = [@ EXCEPT !.recv_time = RECV_TIME_DELETE,
                                                 !.deleted = TRUE]]
    /\ marked' = marked \cup {list[cur_msg]}
    /\ Advance(msg')
    /\ UNCHANGED <<persistent, inc_state, prefs, uidl_table, new_msg_exist,
                   uidl_is_valid, list, srv, observers>>

-----------------------------------------------------------------------------
\* QUIT.

\* The server reaches its UPDATE state: it removes what is marked, or part of
\* it, and answers accordingly.  It may get QUIT when the client is gone.
ServerUpdate ==
    /\ state = "LOGOUT" /\ srv = "open"
    /\ \/ srv' = "committed" /\ maildrop' = maildrop \ marked
       \/ /\ srv' = "refused"
          /\ \E gone \in SUBSET marked : maildrop' = maildrop \ gone
    /\ marked' = {}
    /\ UNCHANGED <<uidl_file, now, session, list, observers>>

QuitReply ==
    /\ sess = "RECV" /\ state = "LOGOUT" /\ timer' = FALSE
    /\ \/ srv = "committed" /\ state' = "DONE" /\ sess' = "DISCONNECTED"
       \/ state' = "ERROR" /\ sess' = "ERROR"
    /\ UNCHANGED <<persistent, error_val, inc_state, prefs, uidl_table, msg,
                   cur_msg, new_msg_exist, uidl_is_valid, server, observers>>

-----------------------------------------------------------------------------
\* The end of a session, and its record on disk.

\* Mutant of Result: how the connection ended is not looked at.
Result_ErrorValOnly == IF inc_state # "SUCCESS" THEN inc_state ELSE error_val

\* What inc_pop3_session_do returns.
Result ==
    IF inc_state # "SUCCESS" THEN inc_state
    ELSE CASE error_val = "SUCCESS" ->
                 (CASE sess = "ERROR" ->
                          IF state = "READY" THEN "CONNECT_ERROR" ELSE "ERROR"
                    [] sess = "EOF" -> "EOF"
                    [] sess = "TIMEOUT" -> "TIMEOUT"
                    [] OTHER -> "SUCCESS")
           [] error_val = "AUTHFAIL" -> "AUTH_FAILED"
           [] error_val = "IOERR" -> "IO_ERROR"
           [] error_val = "SOCKET" -> "SOCKET_ERROR"
           [] error_val = "LOCKBUSY" -> "LOCKED"
           [] OTHER -> "ERROR"

\* The lines pop3_write_uidl_list writes; pop3_get_uidl_table reads them back,
\* a missing time as RECV_TIME_RECEIVED.
Written ==
    {n \in 1..count : /\ msg[n].uidl /\ msg[n].received
                      /\ ~(state = "DONE" /\ msg[n].deleted)}

\* A record is lost when the list gives no UIDL for its message, or when the
\* session was to get all messages and did not get that far.
Unwritten ==
    {n \in 1..count : ~msg[n].uidl \/ (prefs.getall /\ ~msg[n].received)}

NewList ==
    [u \in Uids |->
        IF \E n \in Written : list[n] = u
        THEN LET n == CHOOSE i \in Written : list[i] = u
             IN IF msg[n].recv_time = RECV_TIME_NONE THEN RECV_TIME_RECEIVED
                ELSE msg[n].recv_time
        ELSE RECV_TIME_NONE]

\* inc_session_destroy.  A QUIT may still be on its way to the server, any
\* other end of the connection makes it forget the marks.
Destroy ==
    /\ sess' = "IDLE" /\ timer' = FALSE
    /\ error_val' = "SUCCESS" /\ inc_state' = "SUCCESS"
    /\ uidl_table' = NoRecords /\ msg' = << >> /\ cur_msg' = 0
    /\ new_msg_exist' = FALSE /\ uidl_is_valid' = FALSE
    /\ list' = << >> /\ srv' = "open" /\ fetched' = {}
    /\ IF state = "LOGOUT" /\ marked # {}
       THEN UNCHANGED <<state, marked>>
       ELSE state' = "READY" /\ marked' = {}
    /\ UNCHANGED <<prefs, maildrop, now, handled>>

Over == Running /\ ~Connected /\ sess # "REPLACING"

\* The session is over and no list is written: there was no valid UIDL, or
\* prefs_file_open or prefs_file_close failed before the first rename.
EndUnrecorded ==
    /\ Over
    /\ lapsed' = lapsed \cup fetched
    /\ Destroy
    /\ UNCHANGED uidl_file

\* prefs_file_close moves the old list away ...
EndRecorded ==
    /\ Over /\ uidl_is_valid
    /\ sess' = "REPLACING" /\ uidl_file' = NoRecords
    /\ UNCHANGED <<maildrop, now, timer, dialogue, server, observers>>

\* ... and the new one into its place, or removes it when that fails.
Replace ==
    /\ sess = "REPLACING"
    /\ \/ /\ uidl_file' = NewList
          /\ lapsed' = (lapsed \cup (handled \cap {list[n] : n \in Unwritten}))
                       \ {list[n] : n \in Written}
       \/ /\ uidl_file' = uidl_file
          /\ lapsed' = lapsed \cup handled
    /\ Destroy

Crash ==
    /\ Running
    /\ lapsed' = lapsed \cup (IF sess = "REPLACING" THEN handled ELSE fetched)
    /\ Destroy
    /\ UNCHANGED uidl_file

\* A message nobody has sent before reaches the server.
Arrive(u) ==
    /\ u \notin maildrop \cup Members(list) \cup handled
    /\ maildrop' = maildrop \cup {u}
    /\ UNCHANGED <<uidl_file, now, session, server, observers>>

-----------------------------------------------------------------------------
\* A line or a block of data from the server, handled.
Reply ==
    \/ Connect \/ CommandFailed \/ Greeting \/ StlsOk \/ UserOk \/ AuthReply
    \/ LoggedIn \/ StatOk \/ RangeMalformed \/ UidlOk \/ UidlNotSupported
    \/ LastOk \/ LastNotSupported \/ UidlRecv \/ ListingMalformed \/ ListOk
    \/ ListRecv \/ RetrOk \/ DropFailed \/ RetrRecv \/ DeleOk \/ QuitReply

End == EndUnrecorded \/ EndRecorded \/ Replace

Environment == ServerUpdate \/ Crash \/ \E u \in Uids : Arrive(u)

Next == Start \/ Reply \/ Broken \/ Timeout \/ Cancel \/ End \/ Environment

\* While the timeout is installed something happens sooner or later, if only
\* the timeout; a session that is over is wound up.  The server owes nothing.
Progress == (timer /\ Reply) \/ Timeout

Spec == Init /\ [][Next]_vars /\ WF_vars(Progress) /\ WF_vars(End)

-----------------------------------------------------------------------------
\* Properties.

\* Every variable of the session, the server and the record keeps its type;
\* cur_msg never leaves the messages there are.
PersistentOK ==
    uidl_file \in [Uids -> Nat] /\ maildrop \subseteq Uids /\ now \in Days

StateOK ==
    /\ sess \in SessStates /\ timer \in BOOLEAN /\ state \in Pop3States
    /\ error_val \in {"SUCCESS", "AUTHFAIL", "LOCKBUSY", "ERROR", "PROTOCOL",
                      "SOCKET", "IOERR"}
    /\ inc_state \in {"SUCCESS", "CANCEL", "ERROR"}

MsgOK ==
    /\ prefs \in Prefs /\ uidl_table \in [Uids -> Nat]
    /\ list \in Seq(Uids) /\ msg \in [1..count -> MsgInfo]
    /\ cur_msg \in 0..count
    /\ new_msg_exist \in BOOLEAN /\ uidl_is_valid \in BOOLEAN

ServerOK == marked \subseteq Uids /\ srv \in {"open", "committed", "refused"}

ObserversOK ==
    handled \subseteq Uids /\ fetched \subseteq handled /\ lapsed \subseteq handled

TypeOK == PersistentOK /\ StateOK /\ MsgOK /\ ServerOK /\ ObserversOK

\* A recv_time that says the message is in a local folder, or was dropped.
Received(time) == time \notin {RECV_TIME_NONE, RECV_TIME_KEEP}

\* The UIDL list never claims a message that was not received: whatever it
\* says may later be deleted from the server (pop3_lookup_next).
RecordsSound ==
    \A u \in Uids : Received(uidl_file[u]) => u \in handled

\* DELE is only sent for a message that is in a local folder or was dropped
\* by a filter, and whose time on the server is up.
DeleteIsSafe ==
    sess = "RECV" /\ state = "DELETE" =>
        LET time == msg[cur_msg].recv_time
        IN /\ list[cur_msg] \in handled
           /\ \/ time = RECV_TIME_DELETE
              \/ prefs.rmmail /\ now - time >= prefs.msg_leave_time

\* A message is not fetched twice, unless the user asks for all of them, the
\* server gives no UIDL for it, or its record was lost in a way listed at
\* "lapsed".
RetrievedOnce ==
    sess = "RECV" /\ state \in {"RETR", "RETR_RECV"} =>
        \/ list[cur_msg] \notin handled
        \/ prefs.getall \/ ~msg[cur_msg].uidl
        \/ list[cur_msg] \in lapsed

\* A session reported as successful has taken every message it listed, but
\* for those over the size limit or without one, and what it deleted is gone.
\* (A message whose UIDL line was malformed, or which LAST said was seen, is
\* not listed.)
SuccessMeansComplete ==
    [][Over /\ End /\ Result = "SUCCESS" /\ ~prefs.auth_only
       => \A n \in 1..count :
             /\ msg[n].uidl \/ (~uidl_is_valid /\ n >= cur_msg) =>
                   msg[n].received \/ msg[n].deleted \/ Skipped(msg[n])
             /\ msg[n].deleted => list[n] \notin maildrop]_vars

\* A message that was to be deleted when an earlier session broke off ("DROP_DELETE
\* if the message should be deleted", inc_drop_message) is gone after the next
\* session that succeeds, of an account that removes or fetches all mail.  (With
\* any other account pop3_getrange_uidl_recv does not start at such a message,
\* and it stays on the server until one before it is new.)
DeletionCompleted ==
    [][Over /\ End /\ Result = "SUCCESS" /\ ~prefs.auth_only
          /\ (prefs.rmmail \/ prefs.getall)
       => \A n \in 1..count :
             msg[n].uidl /\ uidl_table[list[n]] = RECV_TIME_DELETE =>
                list[n] \notin maildrop]_vars

\* Mail is never lost: a message leaves the server only when it is handled.
Retrieval == INSTANCE MailRetrieval WITH onServer <- maildrop
NoMailLost == Retrieval!Spec

\* Every session ends, whatever the server does or fails to do: "A session
\* timeout for POP3/SMTP has been implemented" (NEWS-1.0:67).
SessionEnds == Running ~> sess = "IDLE"
=============================================================================
