----------------------------- MODULE SendQueue -----------------------------
(***************************************************************************)
(* The queue of outgoing mail: compose windows put messages into it (Send  *)
(* later) or send them at once, send_message_queue_all sends what is in    *)
(* it.  While a message is being sent, and while a filter command runs on  *)
(* it, the main loop goes on: the user can do everything else meanwhile,   *)
(* start another run as well.  A run that is started inside another one    *)
(* ends before it.                                                         *)
(***************************************************************************)
EXTENDS Integers, Sequences, FiniteSets

CONSTANTS
    Msgs,      \* the messages that are written
    None,      \* no message
    MaxNum,    \* bound: message numbers
    MaxDepth,  \* bound: runs inside each other
    MaxTaken,  \* bound: how often a server takes the same message
    Careful    \* the user leaves the message that is being sent alone, and
               \* does not start to send the queue a second time meanwhile

ASSUME NoneAssumption == None \notin Msgs
ASSUME BoundsAssumption ==
    MaxNum \in Nat /\ MaxDepth \in Nat /\ MaxTaken \in Nat
ASSUME CarefulAssumption == Careful \in BOOLEAN

VARIABLES
    file,       \* the queue folder: the message that has a number
    runs,       \* send_message_queue_all and compose_send_real, innermost last
    window,     \* the compose window of a message
    target,     \* the queued message that it is an edited version of
    outbox,
    taken,      \* how often a server has taken the message
    \* observers
    excused,    \* how often the program was told otherwise, or could not act on it
    queued,     \* what has been in the queue
    discarded   \* what the user has thrown away or replaced

vars == <<file, runs, window, target, outbox, taken, excused, queued, discarded>>

Nums == 1..MaxNum

\* A run: what the sorted snapshot mlist holds from cur on, and the message at
\* hand.  took: the server has taken it.  owed: what it has not tried yet.
Run ==
    [kind : {"queue", "compose"}, todo : SUBSET Nums, num : Nums \cup {0},
     msg : Msgs \cup {None}, phase : {"next", "sending", "filtering"},
     took : BOOLEAN, owed : SUBSET Msgs]

Init ==
    /\ file = [n \in Nums |-> None]
    /\ runs = <<>>
    /\ window = [m \in Msgs |-> "none"]
    /\ target = [m \in Msgs |-> None]
    /\ outbox = {}
    /\ taken = [m \in Msgs |-> 0] /\ excused = [m \in Msgs |-> 0]
    /\ queued = {} /\ discarded = {}

Queue(f) == {f[n] : n \in Nums} \ {None}

\* mh_remove_msg of a message that is still where it was.
Without(f, ms) == [n \in Nums |-> IF f[n] \in ms THEN None ELSE f[n]]

Depth == Len(runs)
Top == runs[Depth]
Replace(r) == runs' = [runs EXCEPT ![Depth] = r]
Return == runs' = SubSeq(runs, 1, Depth - 1)

\* Handlers of the user interface run from the main loop only.
MainLoop == runs # <<>> => Top.phase # "next"

BeingSent ==
    {runs[i].msg : i \in {j \in 1..Depth : runs[j].kind = "queue"}} \ {None}

LeftAlone(m) == Careful => m \notin BeingSent

-----------------------------------------------------------------------------
\* Compose windows.

\* compose_new, or compose_reedit of a queued message: at most one window for it.
Compose(m) ==
    /\ MainLoop /\ window[m] = "none"
    /\ window' = [window EXCEPT ![m] = "open"]
    /\ \E old \in Queue(file) \cup {None} :
          /\ old # None => \A w \in Msgs : window[w] \in {"open", "sending"}
                                             => target[w] # old
          /\ target' = [target EXCEPT ![m] = old]
    /\ UNCHANGED <<file, runs, outbox, taken, excused, queued, discarded>>

\* compose_close_cb, without a draft.
Close(m) ==
    /\ MainLoop /\ window[m] = "open"
    /\ window' = [window EXCEPT ![m] = "closed"]
    /\ UNCHANGED <<file, runs, target, outbox, taken, excused, queued, discarded>>

\* Mutant of IsNext: the number of messages is taken for the last number.
IsNext_ByCount(n) == n = 1 + Cardinality(Queue(file))

\* compose_queue scans the folder before: the number after the last one.
IsNext(n) == \A k \in Nums : k < n <=> \E j \in Nums : k <= j /\ file[j] # None

\* compose_remove_reedit_target leaves what is not there any more.
Edited(m) == {target[m]} \cap Queue(file)

\* compose_send_later_cb, compose_queue; when it fails the window stays.  That the
\* old version may not be removed is not looked at.
SendLater(m) ==
    /\ MainLoop /\ window[m] = "open" /\ LeftAlone(target[m])
    /\ \E n \in Nums :
          /\ IsNext(n)
          /\ \E gone \in SUBSET Edited(m) :
                /\ file' = Without([file EXCEPT ![n] = m], gone)
                /\ discarded' = discarded \cup gone
    /\ queued' = queued \cup {m}
    /\ window' = [window EXCEPT ![m] = "closed"]
    /\ UNCHANGED <<runs, target, outbox, taken, excused>>

\* compose_send_real, up to the main loop in send_message_smtp.
Send(m) ==
    /\ MainLoop /\ window[m] = "open" /\ LeftAlone(target[m])
    /\ Depth < MaxDepth
    /\ window' = [window EXCEPT ![m] = "sending"]
    /\ runs' = Append(runs, [kind |-> "compose", todo |-> {}, num |-> 0, msg |-> m,
                             phase |-> "sending", took |-> FALSE, owed |-> {}])
    /\ UNCHANGED <<file, target, outbox, taken, excused, queued, discarded>>

-----------------------------------------------------------------------------
\* send_message_queue_all

\* Nothing looks whether the queue is being sent already.
StartQueue ==
    /\ MainLoop /\ Depth < MaxDepth
    /\ Careful => \A i \in 1..Depth : runs[i].kind # "queue"
    /\ Queue(file) # {}
    /\ runs' = Append(runs, [kind |-> "queue",
                             todo |-> {n \in Nums : file[n] # None}, num |-> 0,
                             msg |-> None, phase |-> "next", took |-> FALSE,
                             owed |-> Queue(file)])
    /\ UNCHANGED <<file, window, target, outbox, taken, excused, queued, discarded>>

AtTop(kinds, phase) == runs # <<>> /\ Top.kind \in kinds /\ Top.phase = phase

\* Mutant of NextMsg: it is not looked whether the message is still there.
NextMsg_Unchecked ==
    /\ AtTop({"queue"}, "next")
    /\ \E n \in Top.todo :
          /\ \A k \in Top.todo : n <= k
          /\ Replace([Top EXCEPT
                !.todo = @ \ {n}, !.num = n, !.msg = file[n],
                !.phase = "sending", !.took = FALSE, !.owed = @ \ {file[n]}])
    /\ UNCHANGED <<file, window, target, outbox, taken, excused, queued, discarded>>

\* The next message of the snapshot, by its number; one that is gone is passed
\* over, and if the number has been given away the new message is sent.
NextMsg ==
    /\ AtTop({"queue"}, "next")
    /\ \E n \in Top.todo :
          /\ \A k \in Top.todo : n <= k
          /\ Replace([Top EXCEPT
                !.todo = @ \ {n}, !.num = n, !.msg = file[n],
                !.phase = IF file[n] = None THEN "next" ELSE "sending",
                !.took = FALSE, !.owed = @ \ {file[n]}])
    /\ UNCHANGED <<file, window, target, outbox, taken, excused, queued, discarded>>

EndQueue ==
    /\ AtTop({"queue"}, "next") /\ Top.todo = {}
    /\ Return
    /\ UNCHANGED <<file, window, target, outbox, taken, excused, queued, discarded>>

-----------------------------------------------------------------------------
\* Sending one message, as Delivery promises: whoever sends waits in the main
\* loop, so the sessions of outer runs go on as well.
ServerTakes ==
    /\ \E i \in 1..Depth :
          /\ runs[i].phase = "sending" /\ ~runs[i].took
          /\ taken[runs[i].msg] < MaxTaken
          /\ runs' = [runs EXCEPT ![i].took = TRUE]
          /\ taken' = [taken EXCEPT ![runs[i].msg] = @ + 1]
    /\ UNCHANGED <<file, window, target, outbox, excused, queued, discarded>>

\* An attempt that is reported as failed may have been taken all the same.
Excuse(ms) ==
    excused' = [m \in Msgs |-> excused[m] + (IF m \in ms THEN 1 ELSE 0)]

\* Mutant of QueueFailed: a failure ends the run.
QueueFailed_Break ==
    /\ AtTop({"queue"}, "sending")
    /\ Replace([Top EXCEPT !.phase = "next", !.todo = {}, !.msg = None, !.took = FALSE])
    /\ Excuse(IF Top.took THEN {Top.msg} ELSE {})
    /\ UNCHANGED <<file, window, target, outbox, taken, queued, discarded>>

\* The message stays in the queue, the run goes on with the next one.
QueueFailed ==
    /\ AtTop({"queue"}, "sending")
    /\ Replace([Top EXCEPT !.phase = "next", !.msg = None, !.took = FALSE])
    /\ Excuse(IF Top.took THEN {Top.msg} ELSE {})
    /\ UNCHANGED <<file, window, target, outbox, taken, queued, discarded>>

QueueSent ==
    /\ AtTop({"queue"}, "sending") /\ Top.took
    /\ Replace([Top EXCEPT !.phase = "filtering"])
    /\ UNCHANGED <<file, window, target, outbox, taken, excused, queued, discarded>>

\* Mutant of QueueDone: a message that could not be saved stays in the queue.
QueueDone_IfSaved ==
    /\ AtTop({"queue"}, "filtering")
    /\ \/ outbox' = outbox \cup {Top.msg} /\ file' = [file EXCEPT ![Top.num] = None]
       \/ UNCHANGED <<outbox, file>>
    /\ Replace([Top EXCEPT !.phase = "next", !.msg = None, !.took = FALSE])
    /\ UNCHANGED <<window, target, taken, excused, queued, discarded>>

\* The copy in the outbox may fail, which is not looked at; then the message is
\* removed by its number, whatever has that number now.  That this may fail is not
\* looked at either.
QueueDone ==
    /\ AtTop({"queue"}, "filtering")
    /\ outbox' \in {outbox \cup {Top.msg}, outbox}
    /\ \/ file' = [file EXCEPT ![Top.num] = None] /\ UNCHANGED excused
       \/ Excuse({Top.msg}) /\ UNCHANGED file
    /\ Replace([Top EXCEPT !.phase = "next", !.msg = None, !.took = FALSE])
    /\ UNCHANGED <<window, target, taken, queued, discarded>>

-----------------------------------------------------------------------------
\* The end of compose_send_real.

ComposeFailed ==
    /\ AtTop({"compose"}, "sending")
    /\ Return
    /\ window' = [window EXCEPT ![Top.msg] = "open"]
    /\ Excuse(IF Top.took THEN {Top.msg} ELSE {})
    /\ UNCHANGED <<file, target, outbox, taken, queued, discarded>>

\* The version in the queue goes before the filters run, or cannot be removed.
ComposeSent ==
    /\ AtTop({"compose"}, "sending") /\ Top.took
    /\ \E gone \in SUBSET Edited(Top.msg) :
          /\ file' = Without(file, gone)
          /\ discarded' = discarded \cup gone
    /\ Replace([Top EXCEPT !.phase = "filtering"])
    /\ UNCHANGED <<window, target, outbox, taken, excused, queued>>

\* Without a copy in the outbox the window stays open, and the user is told that
\* the message has been sent.
ComposeDone ==
    /\ AtTop({"compose"}, "filtering")
    /\ Return
    /\ \/ /\ outbox' = outbox \cup {Top.msg}
          /\ window' = [window EXCEPT ![Top.msg] = "closed"]
          /\ UNCHANGED excused
       \/ /\ window' = [window EXCEPT ![Top.msg] = "open"]
          /\ Excuse({Top.msg})
          /\ UNCHANGED outbox
    /\ UNCHANGED <<file, target, taken, queued, discarded>>

-----------------------------------------------------------------------------
\* The user deletes a queued message from the summary, which is not locked.
Delete(n) ==
    /\ MainLoop /\ file[n] # None /\ LeftAlone(file[n])
    /\ file' = [file EXCEPT ![n] = None]
    /\ discarded' = discarded \cup {file[n]}
    /\ UNCHANGED <<runs, window, target, outbox, taken, excused, queued>>

\* The program dies, or the user leaves it; the folders are on disk.
Crash ==
    /\ runs' = <<>>
    /\ Excuse({runs[i].msg : i \in {j \in 1..Depth : runs[j].took}} \ {None})
    /\ window' = [m \in Msgs |-> IF window[m] = "none" THEN "none" ELSE "closed"]
    /\ UNCHANGED <<file, target, outbox, taken, queued, discarded>>

UserNext ==
    \/ \E m \in Msgs : Compose(m) \/ Close(m) \/ SendLater(m) \/ Send(m)
    \/ \E n \in Nums : Delete(n)
    \/ StartQueue

RunNext ==
    \/ NextMsg \/ EndQueue \/ QueueFailed \/ QueueSent \/ QueueDone
    \/ ComposeFailed \/ ComposeSent \/ ComposeDone

Next == UserNext \/ RunNext \/ ServerTakes \/ Crash

Spec == Init /\ [][Next]_vars

-----------------------------------------------------------------------------
\* A run that sends or files a message has one (send_message_queue_all skips
\* what procmsg_get_message_file does not find).
TypeOK ==
    /\ file \in [Nums -> Msgs \cup {None}]
    /\ runs \in Seq(Run) /\ Depth <= MaxDepth
    /\ \A i \in 1..Depth :
          /\ runs[i].phase # "next" <=> runs[i].msg # None
          /\ runs[i].kind = "queue" /\ runs[i].phase # "next" => runs[i].num \in Nums
    /\ window \in [Msgs -> {"none", "open", "sending", "closed"}]
    /\ target \in [Msgs -> Msgs \cup {None}]
    /\ outbox \subseteq Msgs
    /\ taken \in [Msgs -> 0..MaxTaken] /\ excused \in [Msgs -> Nat]
    /\ queued \subseteq Msgs /\ discarded \subseteq Msgs

\* A server takes a message a second time only if an earlier attempt was reported
\* as failed, the copy could not be saved, the message could not be removed from
\* the queue, or the program died in between: otherwise a finished run leaves
\* nothing in the queue that has been sent.
SentOnce == \A m \in Msgs : taken[m] <= 1 + excused[m]

\* A message that cannot be sent, or that has gone, does not keep the later ones
\* waiting: a run ends when everything it found and did not lose to the user has
\* been tried.
Tried ==
    \A i \in 1..Depth :
        runs[i].kind = "queue" /\ runs[i].todo = {}
           => runs[i].owed \cap Queue(file) = {}

\* Every message that has been put into the queue is still there, or a server has
\* taken it, or the user has discarded it.
QueuedIsKept ==
    \A m \in queued : m \in Queue(file) \/ taken[m] > 0 \/ m \in discarded

\* A message leaves the queue for no other reason, at any step.
Promise ==
    INSTANCE Outgoing WITH waiting <- Queue(file),
                           delivered <- {m \in Msgs : taken[m] > 0},
                           dropped <- discarded
KeepsMail == Promise!Spec
=============================================================================
