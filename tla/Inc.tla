-------------------------------- MODULE Inc --------------------------------
(***************************************************************************)
(* Who may look for new mail, and when.  Checking for mail, POP before     *)
(* SMTP, sending, the remote mailbox window and every modal dialog run the *)
(* main loop, so they nest: whatever the main loop starts returns before   *)
(* the caller goes on.  inc_is_running, inc_lock_count, the lock of the    *)
(* main window and the autocheck timer keep them apart.                    *)
(***************************************************************************)
EXTENDS Integers, Sequences, FiniteSets

CONSTANTS
    Accounts,   \* the POP3 accounts with a server and a user id, in the order of
                \* account_get_list
    PopFirst,   \* the accounts, complete or not, that log in before they send
    MaxDepth,   \* bound: calls inside each other
    MaxLeaks    \* bound: logins for an account without a server or a user id

ASSUME AccountsAssumption == Accounts \in Seq(Nat) /\ Accounts # <<>>
ASSUME PopFirstAssumption == PopFirst \subseteq Nat
ASSUME DepthAssumption == MaxDepth \in Nat /\ MaxLeaks \in Nat

VARIABLES
    stack,            \* the calls that have not returned, innermost last
    inc_is_running,
    inc_lock_count,
    ui_lock,          \* lock_count of the main window
    timer,            \* autocheck_timer: off, or with which interval
    autochk_newmail,  \* the preference
    online_mode,
    settings,         \* the preferences are open: modal, but not a call
    \* observer
    leaked            \* logins that have left the main window locked

vars == <<stack, inc_is_running, inc_lock_count, ui_lock, timer,
          autochk_newmail, online_mode, settings, leaked>>

AccountSet == {Accounts[i] : i \in 1..Len(Accounts)}

\* What a check retrieves: one account that is not POP3, one that is, or all.
Jobs == {<<>>, Accounts} \cup {<<a>> : a \in AccountSet}

\* A call.  queue: the sessions in the queue_list of its progress dialog, the
\* first of them at work; pending: what comes into it after IMAP4 and spool.
Call ==
    [kind : {"inc", "auth", "queue", "compose", "rpop3", "dialog"},
     phase : {"begin", "remote", "sessions", "connect", "sending", "saving", "open"},
     queue : Seq(AccountSet), pending : Seq(AccountSet)]

Frame(kind, phase, queue, pending) ==
    [kind |-> kind, phase |-> phase, queue |-> queue, pending |-> pending]

\* inc_autocheck_timer_set_interval
TimerFor(wanted, interval) == IF wanted THEN interval ELSE "off"

Init ==
    /\ stack = <<>>
    /\ inc_is_running = FALSE /\ inc_lock_count = 0 /\ ui_lock = 0
    /\ settings = FALSE /\ leaked = 0
    /\ autochk_newmail \in BOOLEAN /\ online_mode \in BOOLEAN
    /\ timer = TimerFor(autochk_newmail, "interval")

Depth == Len(stack)
Top == stack[Depth]
AtTop(kinds, phase) == stack # <<>> /\ Top.kind \in kinds /\ Top.phase = phase
Push(f) == Depth < MaxDepth /\ stack' = Append(stack, f)
Replace(f) == stack' = [stack EXCEPT ![Depth] = f]
Return == stack' = SubSeq(stack, 1, Depth - 1)

\* Between login and connection send_message_smtp does not come back to it.
MainLoop == stack # <<>> => Top.phase \notin {"begin", "connect"}

\* gtkut_window_modal_exist: other windows get no events.
Modal == settings \/ \E i \in 1..Depth : stack[i].kind = "dialog"
Idle == MainLoop /\ ~Modal

-----------------------------------------------------------------------------
\* Mutant of inc_is_active: the queues of the dialogs are not looked at.
inc_is_active_Flag == inc_is_running

inc_is_active ==
    \/ inc_is_running
    \/ \E i \in 1..Depth : stack[i].kind \in {"inc", "auth"} /\ stack[i].queue # <<>>

inc_lock == inc_lock_count' = inc_lock_count + 1
inc_unlock == inc_lock_count' = IF inc_lock_count > 0 THEN inc_lock_count - 1 ELSE 0

\* main_window_toggle_online_if_offline: a question, which the user may refuse.
MayGoOnline == online_mode' \in {online_mode, TRUE}

-----------------------------------------------------------------------------
\* Checking for mail.

\* inc_mail, inc_account_mail, inc_all_account_mail after their early returns.
StartInc(job) ==
    /\ inc_lock_count = 0 /\ ~inc_is_active
    /\ MayGoOnline /\ online_mode'
    /\ inc_is_running' = TRUE
    /\ timer' = "off"
    /\ ui_lock' = ui_lock + 1
    /\ Push(Frame("inc", "remote", <<>>, job))

\* From the menu, the tray icon or another sylpheed process (receive).
Receive(job) ==
    /\ Idle
    /\ StartInc(job)
    /\ UNCHANGED <<inc_lock_count, leaked, autochk_newmail, settings>>

\* Mutant of AutocheckLocked: the check is given up.
AutocheckLocked_Drop ==
    /\ timer # "off" /\ MainLoop /\ inc_lock_count > 0
    /\ timer' = "off"
    /\ UNCHANGED <<stack, inc_is_running, inc_lock_count, ui_lock, leaked,
                   autochk_newmail, online_mode, settings>>

\* inc_autocheck_func: try again in a second.
AutocheckLocked ==
    /\ timer # "off" /\ MainLoop /\ inc_lock_count > 0
    /\ timer' = TimerFor(autochk_newmail, "second")
    /\ UNCHANGED <<stack, inc_is_running, inc_lock_count, ui_lock, leaked,
                   autochk_newmail, online_mode, settings>>

\* inc_all_account_mail returns early, and the source is gone.
AutocheckInVain ==
    /\ timer # "off" /\ MainLoop /\ inc_lock_count = 0
    /\ inc_is_active \/ ~online_mode
    /\ timer' = "off"
    /\ UNCHANGED <<stack, inc_is_running, inc_lock_count, ui_lock, leaked,
                   autochk_newmail, online_mode, settings>>

AutocheckStarts ==
    /\ timer # "off" /\ MainLoop
    /\ StartInc(Accounts)
    /\ UNCHANGED <<inc_lock_count, leaked, autochk_newmail, settings>>

\* The IMAP4 accounts, the spool and its filters are done; inc_start begins.
RemoteDone ==
    /\ AtTop({"inc"}, "remote")
    /\ Replace(Frame("inc", "sessions", Top.pending, <<>>))
    /\ UNCHANGED <<inc_is_running, inc_lock_count, ui_lock, leaked, timer,
                   autochk_newmail, online_mode, settings>>

\* One session has ended.  After an I/O error the others are not begun.
SessionDone ==
    /\ AtTop({"inc", "auth"}, "sessions") /\ Top.queue # <<>>
    /\ \E rest \in {Tail(Top.queue), <<>>} :
          Replace([Top EXCEPT !.queue = rest])
    /\ UNCHANGED <<inc_is_running, inc_lock_count, ui_lock, leaked, timer,
                   autochk_newmail, online_mode, settings>>

\* The end of a check, and of inc_pop_before_smtp: inc_is_running is reset, even
\* if the call was made inside another check.
IncDone ==
    /\ AtTop({"inc", "auth"}, "sessions") /\ Top.queue = <<>>
    /\ Return
    /\ inc_is_running' = FALSE
    /\ ui_lock' = IF ui_lock > 0 THEN ui_lock - 1 ELSE 0
    /\ UNCHANGED <<inc_lock_count, leaked, autochk_newmail, online_mode, settings>>
    /\ timer' = TimerFor(autochk_newmail, "interval")

-----------------------------------------------------------------------------
\* Sending.

\* compose_send_real; its own lock is given back while the message is sent.
Send ==
    /\ Idle /\ ~inc_is_active
    /\ MayGoOnline /\ online_mode'
    /\ timer' = IF online_mode THEN timer ELSE TimerFor(autochk_newmail, "interval")
    /\ Push(Frame("compose", "begin", <<>>, <<>>))
    /\ UNCHANGED <<inc_is_running, inc_lock_count, ui_lock, leaked, autochk_newmail,
                   settings>>

\* send_queue on behalf of another sylpheed process: no look at inc_is_active.
SendQueue ==
    /\ Idle
    /\ MayGoOnline /\ online_mode'
    /\ timer' = IF online_mode THEN timer ELSE TimerFor(autochk_newmail, "interval")
    /\ Push(Frame("queue", "begin", <<>>, <<>>))
    /\ UNCHANGED <<inc_is_running, inc_lock_count, ui_lock, leaked, autochk_newmail,
                   settings>>

\* The next message, or the only one, is sent without POP3.
NoLogin ==
    /\ AtTop({"queue", "compose"}, "begin")
    /\ Replace([Top EXCEPT !.phase = "connect"])
    /\ UNCHANGED <<inc_is_running, inc_lock_count, ui_lock, leaked, timer,
                   autochk_newmail, online_mode, settings>>

\* inc_pop_before_smtp, without a look at inc_is_active.
Login(a) ==
    /\ AtTop({"queue", "compose"}, "begin") /\ a \in PopFirst
    /\ inc_lock_count = 0
    /\ MayGoOnline /\ online_mode'
    /\ inc_is_running' = TRUE
    /\ timer' = "off"
    /\ ui_lock' = ui_lock + 1
    /\ Depth < MaxDepth
    /\ stack' = Append([stack EXCEPT ![Depth].phase = "connect"],
                       Frame("auth", "sessions", <<a>>, <<>>))
    /\ UNCHANGED <<inc_lock_count, leaked, autochk_newmail, settings>>

\* What follows a message: the next one of the queue, or the end of it, or the
\* end of compose_send_real.
Leave ==
    \/ Top.kind = "queue" /\ Replace([Top EXCEPT !.phase = "begin"])
    \/ Return

\* inc_pop_before_smtp gives up: the message is not sent.
LoginFailed ==
    /\ AtTop({"queue", "compose"}, "begin") /\ PopFirst # {}
    /\ inc_lock_count > 0 \/ ~online_mode
    /\ Leave
    /\ UNCHANGED <<inc_is_running, inc_lock_count, ui_lock, leaked, timer,
                   autochk_newmail, online_mode, settings>>

\* inc_session_new has no session for an account without a server or a user id:
\* inc_pop_before_smtp returns as it is, and the message is not sent.
LoginGivesUp ==
    /\ AtTop({"queue", "compose"}, "begin") /\ ~(PopFirst \subseteq AccountSet)
    /\ leaked < MaxLeaks /\ leaked' = leaked + 1
    /\ inc_lock_count = 0
    /\ MayGoOnline /\ online_mode'
    /\ inc_is_running' = TRUE
    /\ timer' = "off"
    /\ ui_lock' = ui_lock + 1
    /\ Leave
    /\ UNCHANGED <<inc_lock_count, autochk_newmail, settings>>

Connect ==
    /\ AtTop({"queue", "compose"}, "connect")
    /\ inc_lock
    /\ Replace([Top EXCEPT !.phase = "sending"])
    /\ UNCHANGED <<inc_is_running, ui_lock, leaked, timer, autochk_newmail,
                   online_mode, settings>>

\* Mutant of SendFailed: the lock is kept when there is no connection.
SendFailed_Locked ==
    /\ AtTop({"queue", "compose"}, "sending")
    /\ Leave
    /\ UNCHANGED <<inc_is_running, inc_lock_count, ui_lock, leaked, timer,
                   autochk_newmail, online_mode, settings>>

\* No connection, or the session failed or was cancelled.
SendFailed ==
    /\ AtTop({"queue", "compose"}, "sending")
    /\ inc_unlock
    /\ Leave
    /\ UNCHANGED <<inc_is_running, ui_lock, leaked, timer, autochk_newmail,
                   online_mode, settings>>

\* The copy is filtered and filed.  compose_send_real has its own lock again,
\* send_message_queue_all has none.
SendDone ==
    /\ AtTop({"queue", "compose"}, "sending")
    /\ Replace([Top EXCEPT !.phase = "saving"])
    /\ IF Top.kind = "queue" THEN inc_unlock ELSE UNCHANGED inc_lock_count
    /\ UNCHANGED <<inc_is_running, ui_lock, leaked, timer, autochk_newmail,
                   online_mode, settings>>

\* Mutant of Saved: whoever was sending gives the lock back.
Saved_Unlock ==
    /\ AtTop({"queue", "compose"}, "saving")
    /\ inc_lock_count' = inc_lock_count - 1
    /\ Leave
    /\ UNCHANGED <<inc_is_running, ui_lock, leaked, timer, autochk_newmail,
                   online_mode, settings>>

Saved ==
    /\ AtTop({"queue", "compose"}, "saving")
    /\ IF Top.kind = "compose" THEN inc_unlock ELSE UNCHANGED inc_lock_count
    /\ Leave
    /\ UNCHANGED <<inc_is_running, ui_lock, leaked, timer, autochk_newmail,
                   online_mode, settings>>

-----------------------------------------------------------------------------
\* The remote mailbox window; its button is dead while the main window is locked.
Rpop3(a) ==
    /\ Idle /\ ui_lock = 0
    /\ ~inc_is_active
    /\ \A i \in 1..Depth : stack[i].kind # "rpop3"
    /\ inc_lock
    /\ Push(Frame("rpop3", "open", <<a>>, <<>>))
    /\ UNCHANGED <<inc_is_running, ui_lock, leaked, timer, autochk_newmail,
                   online_mode, settings>>

Rpop3Done ==
    /\ AtTop({"rpop3"}, "open")
    /\ inc_unlock
    /\ Return
    /\ UNCHANGED <<inc_is_running, ui_lock, leaked, timer, autochk_newmail,
                   online_mode, settings>>

\* An alert or a question, from the user or from the program.
OpenDialog ==
    /\ MainLoop
    /\ inc_lock
    /\ Push(Frame("dialog", "open", <<>>, <<>>))
    /\ UNCHANGED <<inc_is_running, ui_lock, leaked, timer, autochk_newmail,
                   online_mode, settings>>

CloseDialog ==
    /\ AtTop({"dialog"}, "open")
    /\ inc_unlock
    /\ Return
    /\ UNCHANGED <<inc_is_running, ui_lock, leaked, timer, autochk_newmail,
                   online_mode, settings>>

\* prefs_common_open returns with the window open; what runs meanwhile goes on.
OpenSettings ==
    /\ Idle /\ ui_lock = 0
    /\ inc_lock
    /\ settings' = TRUE
    /\ UNCHANGED <<stack, inc_is_running, ui_lock, leaked, timer, autochk_newmail,
                   online_mode>>

\* prefs_common_ok with prefs_common_apply, online or not.
ApplySettings ==
    /\ settings /\ MainLoop
    /\ \A i \in 1..Depth : stack[i].kind # "dialog"
    /\ autochk_newmail' \in BOOLEAN
    /\ timer' = TimerFor(autochk_newmail', "interval")
    /\ inc_unlock
    /\ settings' = FALSE
    /\ UNCHANGED <<stack, inc_is_running, ui_lock, leaked, online_mode>>

CancelSettings ==
    /\ settings /\ MainLoop
    /\ \A i \in 1..Depth : stack[i].kind # "dialog"
    /\ inc_unlock
    /\ settings' = FALSE
    /\ UNCHANGED <<stack, inc_is_running, ui_lock, leaked, timer, autochk_newmail,
                   online_mode>>

\* online_switch_clicked
GoOffline ==
    /\ Idle /\ online_mode
    /\ online_mode' = FALSE
    /\ timer' = "off"
    /\ UNCHANGED <<stack, inc_is_running, inc_lock_count, ui_lock, leaked,
                   autochk_newmail, settings>>

GoOnline ==
    /\ Idle /\ ~online_mode
    /\ online_mode' = TRUE
    /\ UNCHANGED <<stack, inc_is_running, inc_lock_count, ui_lock, leaked,
                   autochk_newmail, settings>>
    /\ timer' = TimerFor(autochk_newmail, "interval")

Next ==
    \/ \E job \in Jobs : Receive(job)
    \/ AutocheckLocked \/ AutocheckInVain \/ AutocheckStarts
    \/ RemoteDone \/ SessionDone \/ IncDone
    \/ Send \/ SendQueue \/ NoLogin \/ LoginFailed \/ LoginGivesUp \/ Connect
    \/ \E a \in AccountSet : Login(a) \/ Rpop3(a)
    \/ SendFailed \/ SendDone \/ Saved
    \/ Rpop3Done \/ OpenDialog \/ CloseDialog
    \/ OpenSettings \/ ApplySettings \/ CancelSettings
    \/ GoOffline \/ GoOnline

Spec == Init /\ [][Next]_vars

-----------------------------------------------------------------------------
TypeOK ==
    /\ stack \in Seq(Call) /\ Depth <= MaxDepth
    /\ inc_is_running \in BOOLEAN
    /\ inc_lock_count \in Nat /\ ui_lock \in Nat
    /\ timer \in {"off", "interval", "second"}
    /\ autochk_newmail \in BOOLEAN /\ online_mode \in BOOLEAN
    /\ settings \in BOOLEAN /\ leaked \in Nat

\* Who has a POP3 session, or is about to have one.
Retrieving(i) == stack[i].queue # <<>>

\* However the calls nest, one of them at a time retrieves mail, although
\* inc_is_running is reset too early: two would work on the same maildrop and
\* overwrite each other's list of unique ids.  A login before sending, which
\* retrieves nothing, is the exception.
Exclusive ==
    \A i, j \in 1..Depth :
        i < j /\ Retrieving(i) /\ Retrieving(j) => stack[j].kind = "auth"

\* The calls that hold the lock, and those that lock the main window.
HoldsLock(f) ==
    \/ f.kind \in {"rpop3", "dialog"}
    \/ f.kind \in {"queue", "compose"} /\ f.phase = "sending"
    \/ f.kind = "compose" /\ f.phase = "saving"
Holders == {i \in 1..Depth : HoldsLock(stack[i])}
Lockers == {i \in 1..Depth : stack[i].kind \in {"inc", "auth"}}

\* Whatever fails on the way, every lock is given back and none is given back
\* twice: inc_unlock and main_window_unlock would not notice, and a lock that is
\* left over stops every later check for mail without a word.  The exception is
\* the login for an account without a server or a user id, which leaves the main
\* window locked and inc_is_running set.
LocksBalanced ==
    /\ inc_lock_count = Cardinality(Holders) + (IF settings THEN 1 ELSE 0)
    /\ ui_lock = Cardinality(Lockers) + leaked
    /\ Lockers = {} /\ inc_is_running => leaked > 0

\* Automatic checks do not die: whenever the user is online, wants them, and no
\* check is under way, the timer is set.  After that login it is not, until
\* another call resets inc_is_running.
AutocheckArmed ==
    online_mode /\ autochk_newmail /\ Lockers = {} /\ ~inc_is_running
       => timer # "off"
=============================================================================
