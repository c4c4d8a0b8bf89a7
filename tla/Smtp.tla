-------------------------------- MODULE Smtp --------------------------------
(***************************************************************************)
(* Sending a message by SMTP: the client's state machine (libsylph/smtp.c) *)
(* and send_message_smtp (src/send_message.c), which runs one session and  *)
(* turns its end into success or failure.  The server may answer anything, *)
(* or nothing; what it takes, it takes when it has read the end of the     *)
(* message, and its answer may be lost.                                    *)
(***************************************************************************)
EXTENDS Integers, FiniteSets

CONSTANTS
    Recipients,  \* to_list
    Accounts,    \* account settings a message may be sent with
    MaxLines     \* bound: lines of one multiline reply

AuthTypes == {"OAUTH2", "CRAM_MD5", "PLAIN", "LOGIN", "DIGEST_MD5"}

AccountRecord ==
    [use_smtp_auth : BOOLEAN, ssl_smtp : {"NONE", "TUNNEL", "STARTTLS"},
     forced : AuthTypes \cup {"ANY"}, passwd : BOOLEAN]

ASSUME RecipientsAssumption == IsFiniteSet(Recipients) /\ Recipients # {}
ASSUME AccountsAssumption == Accounts \subseteq AccountRecord
ASSUME MaxLinesAssumption == MaxLines \in Nat

VARIABLES
    ac_prefs,       \* the account
    tmp_pass,       \* a password the user has typed is kept for it
    \* the session (SMTPSession, Session)
    sess, state, error_val,
    watch,          \* the session waits for the socket
    tls_init_done,
    avail_auth_type, auth_type,
    to_do,          \* recipients from cur_to on
    lines,          \* lines of the reply read so far
    cancelled,
    ahead,          \* replies that came before TLS are left in read_buf: the
                    \* client takes them for the answers to what it sends next
    outcome,        \* of send_message_smtp
    \* the server
    offered,        \* what it has offered in reply to the last EHLO
    rcpt,           \* the recipients it has accepted
    asked,          \* the recipient it is asked about
    taken,          \* the recipients it has taken the message for
    \* observer
    refused         \* the typed password that is kept was refused

server == <<offered, rcpt, asked, taken>>
auth == <<avail_auth_type, auth_type>>
vars == <<ac_prefs, tmp_pass, sess, state, error_val, watch, tls_init_done,
          auth, to_do, lines, cancelled, ahead, outcome, server, refused>>

AuthStates == {"AUTH", "AUTH_PLAIN", "AUTH_LOGIN_USER", "AUTH_LOGIN_PASS",
               "AUTH_CRAM_MD5", "AUTH_OAUTH2"}
MailStates == {"FROM", "RCPT", "DATA", "SEND_DATA", "EOM", "QUIT"}
States == {"READY", "HELO", "EHLO", "STARTTLS", "ERROR"}
             \cup AuthStates \cup MailStates

Init ==
    /\ ac_prefs \in Accounts
    /\ tmp_pass = FALSE
    /\ sess = "NONE" /\ state = "READY" /\ error_val = "OK" /\ watch = FALSE
    /\ tls_init_done = FALSE /\ avail_auth_type = {} /\ auth_type = "ANY"
    /\ to_do = Recipients /\ lines = 0 /\ cancelled = FALSE /\ ahead = FALSE
    /\ outcome = "none"
    /\ offered = {} /\ rcpt = {} /\ asked = {} /\ taken = {}
    /\ refused = FALSE

\* session_is_connected; the client reads a line only when it waits for one.
Connected == sess \in {"READY", "SEND", "RECV"}
Waiting(s) == sess = "RECV" /\ watch /\ state = s

-----------------------------------------------------------------------------
\* send_message_smtp, up to its event loop.  The account may have a password,
\* or the user has typed one before, or types one now.  Without a copy of the
\* message, or a POP3 login that is asked for first, nothing is connected.
Start ==
    /\ outcome # "pending"
    /\ outcome' = "pending"
    /\ IF /\ ac_prefs.use_smtp_auth /\ ~ac_prefs.passwd /\ ~tmp_pass
          /\ ac_prefs.forced # "OAUTH2"
       THEN tmp_pass' = TRUE /\ refused' = FALSE
       ELSE UNCHANGED <<tmp_pass, refused>>
    /\ sess' \in {"READY", "ERROR"} /\ state' = "READY" /\ error_val' = "OK"
    /\ watch' = FALSE
    /\ tls_init_done' = FALSE /\ avail_auth_type' = {} /\ auth_type' = "ANY"
    /\ to_do' = Recipients /\ lines' = 0 /\ cancelled' = FALSE /\ ahead' = FALSE
    /\ offered' = {} /\ rcpt' = {} /\ asked' = {} /\ taken' = {}
    /\ UNCHANGED ac_prefs

\* What the state machine and its observers have in common: nothing else moves.
Still == UNCHANGED <<ac_prefs, tmp_pass, cancelled, outcome, taken, refused>>
Aside == Still /\ UNCHANGED ahead

\* session_connect_cb
Connect ==
    /\ sess = "READY"
    /\ \/ sess' = "RECV" /\ watch' = TRUE
       \/ sess' = "ERROR" /\ UNCHANGED watch
    /\ UNCHANGED <<state, error_val, tls_init_done, auth, to_do, lines, offered,
                   rcpt, asked>>
    /\ Aside

\* EOF or an error of the socket, or of the file while data is sent.
Broken ==
    /\ \/ sess = "RECV" /\ watch /\ sess' \in {"EOF", "ERROR"}
       \/ sess = "SEND" /\ sess' = "ERROR"
    /\ watch' = FALSE
    /\ UNCHANGED <<state, error_val, tls_init_done, auth, to_do, lines, offered,
                   rcpt, asked>>
    /\ Aside

\* Mutant of Timeout: it runs only while the session waits for the socket.
Timeout_WhileWatching ==
    /\ Connected /\ watch
    /\ sess' = "TIMEOUT" /\ watch' = FALSE
    /\ UNCHANGED <<state, error_val, tls_init_done, auth, to_do, lines, offered,
                   rcpt, asked>>
    /\ Aside

\* session_timeout_cb
Timeout ==
    /\ Connected
    /\ sess' = "TIMEOUT" /\ watch' = FALSE
    /\ UNCHANGED <<state, error_val, tls_init_done, auth, to_do, lines, offered,
                   rcpt, asked>>
    /\ Aside

\* send_cancel_button_cb
Cancel ==
    /\ Connected
    /\ cancelled' = TRUE /\ sess' = "DISCONNECTED" /\ watch' = FALSE
    /\ UNCHANGED <<ac_prefs, tmp_pass, state, error_val, tls_init_done, auth,
                   to_do, lines, ahead, outcome, server, refused>>

-----------------------------------------------------------------------------
\* smtp_session_recv_msg: lines that end the session.  A server that has taken
\* the message does not answer that it has not; but the client may still read
\* its answer to something else.
Refused ==
    /\ sess = "RECV" /\ watch
    /\ \/ /\ state = "EOM" => taken = {} \/ ahead
          /\ error_val' \in {"ERROR", "AUTHFAIL"}
          /\ refused' = (refused \/ (error_val' = "AUTHFAIL" /\ tmp_pass))
          /\ state' = "ERROR"
       \/ error_val' = "UNRECOVERABLE" /\ state' = "ERROR" /\ UNCHANGED refused
       \/ UNCHANGED <<error_val, state, refused>>      \* less than 4 characters
    /\ sess' = "ERROR" /\ watch' = FALSE
    /\ UNCHANGED <<ac_prefs, tmp_pass, tls_init_done, auth, to_do, lines,
                   cancelled, ahead, outcome, server>>

\* What a line of the reply to EHLO says of authentication, or one that came
\* before TLS.
Offer(types) ==
    /\ offered' = IF ahead THEN offered ELSE offered \cup types
    /\ avail_auth_type' = avail_auth_type \cup types

\* A line that is not the last of its reply is only looked at after EHLO.
Continued ==
    /\ sess = "RECV" /\ watch /\ lines < MaxLines
    /\ lines' = lines + 1
    /\ IF state = "EHLO" THEN \E types \in SUBSET AuthTypes : Offer(types)
       ELSE UNCHANGED <<offered, avail_auth_type>>
    /\ UNCHANGED <<sess, state, error_val, watch, tls_init_done, auth_type,
                   to_do, rcpt, asked>>
    /\ Aside

\* The last line of a positive reply; the commands that answer it set what
\* follows.
Answered(s) == Waiting(s) /\ lines' = 0 /\ Still
Ok(s) == Answered(s) /\ UNCHANGED ahead

Send(s) == state' = s /\ UNCHANGED <<sess, watch, error_val>>

\* Mutant of smtp_ehlo: what was offered before TLS still counts.
smtp_ehlo_KeepOffer ==
    Send("EHLO") /\ offered' = {} /\ UNCHANGED avail_auth_type

smtp_ehlo ==
    Send("EHLO") /\ avail_auth_type' = {} /\ offered' = {}

smtp_from ==
    /\ Send("FROM")
    /\ UNCHANGED <<auth_type, to_do, rcpt, asked>>

\* Mutant of AuthOrder: a mechanism that the client does not implement.
AuthOrder_Digest == <<"OAUTH2", "CRAM_MD5", "DIGEST_MD5", "PLAIN", "LOGIN">>

\* The first of the known types that is forced, or that may be used.
AuthOrder == <<"OAUTH2", "CRAM_MD5", "PLAIN", "LOGIN">>

Usable(t, avail) ==
    \/ ac_prefs.forced = t
    \/ ac_prefs.forced = "ANY" /\ t \in avail

\* smtp_auth; without a usable type the message is sent all the same.
smtp_auth(avail) ==
    \/ /\ \A i \in DOMAIN AuthOrder : ~Usable(AuthOrder[i], avail)
       /\ smtp_from
    \/ \E i \in DOMAIN AuthOrder :
          /\ Usable(AuthOrder[i], avail)
          /\ \A j \in 1..(i - 1) : ~Usable(AuthOrder[j], avail)
          /\ auth_type' = AuthOrder[i]
          /\ Send(IF AuthOrder[i] = "PLAIN" THEN "AUTH_PLAIN" ELSE "AUTH")
          /\ UNCHANGED <<to_do, rcpt, asked>>

Greeting ==
    /\ Ok("READY")
    /\ IF ac_prefs.use_smtp_auth \/ ac_prefs.ssl_smtp # "NONE"
       THEN smtp_ehlo
       ELSE Send("HELO") /\ UNCHANGED <<avail_auth_type, offered>>
    /\ UNCHANGED <<tls_init_done, auth_type, to_do, rcpt, asked>>

HeloOk ==
    /\ Ok("HELO") /\ smtp_from
    /\ UNCHANGED <<tls_init_done, avail_auth_type, offered>>

NeedsTls == ac_prefs.ssl_smtp = "STARTTLS" /\ ~tls_init_done

EhloOk ==
    /\ Ok("EHLO")
    /\ \E types \in SUBSET AuthTypes :
          /\ Offer(types)
          /\ CASE NeedsTls ->
                    Send("STARTTLS") /\ UNCHANGED <<auth_type, to_do, rcpt, asked>>
               [] ~NeedsTls /\ ac_prefs.use_smtp_auth ->
                    smtp_auth(avail_auth_type \cup types)
               [] OTHER -> smtp_from
    /\ UNCHANGED tls_init_done

\* session_start_tls leaves read_buf as it is, and session_recv_msg looks there
\* before it waits for the socket.
TlsStarted == tls_init_done' = TRUE /\ ahead' \in BOOLEAN

StarttlsOk ==
    /\ Answered("STARTTLS")
    /\ \/ TlsStarted /\ smtp_ehlo
       \/ /\ state' = "ERROR" /\ error_val' = "ERROR"        \* session_start_tls
          /\ sess' = "ERROR" /\ watch' = FALSE
          /\ UNCHANGED <<tls_init_done, avail_auth_type, offered, ahead>>
    /\ UNCHANGED <<auth_type, to_do, rcpt, asked>>

\* smtp_auth_recv and smtp_auth_login_user_recv: a step of the mechanism, or
\* "*" to give up.  A reply to AUTH XOAUTH2 other than 334 is not answered.
AuthStep ==
    /\ \/ /\ Ok("AUTH")
          /\ \/ auth_type = "LOGIN" /\ Send("AUTH_LOGIN_USER")
             \/ auth_type = "CRAM_MD5" /\ Send("AUTH_CRAM_MD5")
             \/ auth_type = "OAUTH2" /\ Send("AUTH_OAUTH2")
             \/ /\ auth_type = "OAUTH2"
                /\ state' = "AUTH_OAUTH2" /\ watch' = FALSE
                /\ UNCHANGED <<sess, error_val>>
       \/ Ok("AUTH_LOGIN_USER") /\ Send("AUTH_LOGIN_PASS")
    /\ UNCHANGED <<tls_init_done, auth, to_do, offered, rcpt, asked>>

Authenticated ==
    /\ \E s \in AuthStates \ {"AUTH", "AUTH_LOGIN_USER"} : Ok(s)
    /\ smtp_from
    /\ UNCHANGED <<tls_init_done, avail_auth_type, offered>>

-----------------------------------------------------------------------------
\* The message.

smtp_rcpt(todo) ==
    /\ \E r \in todo : to_do' = todo \ {r} /\ asked' = {r}
    /\ Send("RCPT")

FromOk ==
    /\ Ok("FROM")
    /\ smtp_rcpt(to_do)
    /\ UNCHANGED <<tls_init_done, auth, offered, rcpt>>

\* The reply that is read may be that to an earlier command.
RcptOk ==
    /\ Ok("RCPT")
    /\ rcpt' \in IF ahead THEN {rcpt, rcpt \cup asked} ELSE {rcpt \cup asked}
    /\ IF to_do # {} THEN smtp_rcpt(to_do)
       ELSE Send("DATA") /\ asked' = {} /\ UNCHANGED to_do
    /\ UNCHANGED <<tls_init_done, auth, offered>>

DataOk ==
    /\ Ok("DATA")
    /\ state' = "SEND_DATA" /\ sess' = "SEND"
    /\ UNCHANGED <<error_val, watch, tls_init_done, auth, to_do, offered, rcpt,
                   asked>>

\* session_write_data_cb is done: smtp_session_send_data_finished, smtp_eom.
DataSent ==
    /\ sess = "SEND" /\ state = "SEND_DATA"
    /\ state' = "EOM" /\ sess' = "RECV"
    /\ UNCHANGED <<error_val, watch, tls_init_done, auth, to_do, lines, offered,
                   rcpt, asked>>
    /\ Aside

\* The server has read the end of the message, perhaps after the client has
\* given the session up, or has gone on to QUIT.
ServerTakes ==
    /\ taken = {}
    /\ state = "EOM" \/ (ahead /\ state = "QUIT")
    /\ taken' = rcpt
    /\ UNCHANGED <<ac_prefs, tmp_pass, sess, state, error_val, watch,
                   tls_init_done, auth, to_do, lines, cancelled, ahead, outcome,
                   offered, rcpt, asked, refused>>

EomOk ==
    /\ Ok("EOM") /\ (taken # {} \/ ahead)
    /\ Send("QUIT")
    /\ UNCHANGED <<tls_init_done, auth, to_do, offered, rcpt, asked>>

QuitOk ==
    /\ Ok("QUIT")
    /\ sess' = "DISCONNECTED" /\ watch' = FALSE
    /\ UNCHANGED <<state, error_val, tls_init_done, auth, to_do, offered, rcpt,
                   asked>>

-----------------------------------------------------------------------------
\* The end of send_message_smtp.

\* Mutant of Sent: EOF is a success wherever it comes.
Sent_AnyEof ==
    /\ error_val # "AUTHFAIL"
    /\ \/ sess = "EOF"
       \/ sess = "ERROR" /\ state = "QUIT"
       \/ /\ sess \notin {"ERROR", "EOF", "TIMEOUT"}
          /\ state # "ERROR" /\ error_val = "OK" /\ ~cancelled

\* EOF and errors right after QUIT count as success.
Sent ==
    /\ error_val # "AUTHFAIL"
    /\ \/ sess \in {"EOF", "ERROR"} /\ state = "QUIT"
       \/ /\ sess \notin {"ERROR", "EOF", "TIMEOUT"}
          /\ state # "ERROR" /\ error_val = "OK" /\ ~cancelled

\* Mutant of Forgotten: a refused password is kept.
Forgotten_Never == FALSE

\* The typed password is forgotten when it was refused.
Forgotten == error_val = "AUTHFAIL"

Finish ==
    /\ outcome = "pending" /\ ~Connected
    /\ outcome' = (IF Sent THEN "sent" ELSE "failed")
    /\ tmp_pass' = (tmp_pass /\ ~Forgotten)
    /\ sess' = "NONE" /\ watch' = FALSE
    /\ UNCHANGED <<ac_prefs, state, error_val, tls_init_done, auth, to_do,
                   lines, cancelled, ahead, server, refused>>

-----------------------------------------------------------------------------
Reply ==
    \/ Connect \/ Refused \/ Continued \/ Greeting \/ HeloOk \/ EhloOk
    \/ StarttlsOk \/ AuthStep \/ Authenticated \/ FromOk \/ RcptOk \/ DataOk
    \/ DataSent \/ EomOk \/ QuitOk

Next == Start \/ Reply \/ Broken \/ Timeout \/ Cancel \/ ServerTakes \/ Finish

\* The timeout is installed until the session is closed, and the event loop
\* ends with the session.
Spec == Init /\ [][Next]_vars /\ WF_vars(Reply \/ Timeout) /\ WF_vars(Finish)

-----------------------------------------------------------------------------
\* Every variable of the session and of the server has a value that the code
\* can give it (SMTPSession, smtp.h); DIGEST-MD5 is known but never used.
TypeOK ==
    /\ ac_prefs \in Accounts /\ tmp_pass \in BOOLEAN
    /\ sess \in {"NONE", "READY", "SEND", "RECV", "EOF", "ERROR", "TIMEOUT",
                 "DISCONNECTED"}
    /\ state \in States
    /\ error_val \in {"OK", "ERROR", "AUTHFAIL", "UNRECOVERABLE"}
    /\ watch \in BOOLEAN /\ tls_init_done \in BOOLEAN
    /\ avail_auth_type \subseteq AuthTypes
    /\ auth_type \in (AuthTypes \ {"DIGEST_MD5"}) \cup {"ANY"}
    /\ to_do \subseteq Recipients /\ lines \in 0..MaxLines
    /\ cancelled \in BOOLEAN /\ ahead \in BOOLEAN
    /\ outcome \in {"none", "pending", "sent", "failed"}
    /\ offered \subseteq AuthTypes
    /\ rcpt \subseteq Recipients /\ asked \subseteq Recipients
    /\ taken \subseteq Recipients
    /\ refused \in BOOLEAN

\* An account that asks for STARTTLS neither authenticates nor names the sender
\* before TLS has been started, whatever the server offers in the clear.
TlsFirst ==
    ac_prefs.ssl_smtp = "STARTTLS" /\ state \in AuthStates \cup MailStates
       => tls_init_done

\* A mechanism is used only if the account forces it or the server has offered
\* it in reply to the last EHLO: what was offered before TLS does not count,
\* unless it was left in the read buffer when TLS was started.
AuthOffered ==
    state \in AuthStates
       => auth_type \in offered \/ auth_type = ac_prefs.forced \/ ahead

Protected == TlsFirst /\ AuthOffered

\* A typed password that the server has refused is not used for a next attempt.
RefusedIsForgotten == outcome # "pending" /\ refused => ~tmp_pass

\* What a caller may rely on: "sent" means that the server took the message for
\* every recipient, unless the client has read replies of before TLS.
Deliveries == INSTANCE Delivery WITH early <- ahead
Delivers == Deliveries!Spec

\* Whatever the server and the user do, an attempt ends and the sender goes on.
AttemptEnds == outcome = "pending" ~> outcome # "pending"

=============================================================================
