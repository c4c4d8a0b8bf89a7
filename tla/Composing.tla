----------------------------- MODULE Composing -----------------------------
(***************************************************************************)
(* Compose windows and the messages they are saved in: opening, saving by  *)
(* hand and by the timer, sending now or later, the external editor, and   *)
(* closing with its two questions.  Saving writes the new message before   *)
(* the one that is edited again is removed.                                *)
(***************************************************************************)
EXTENDS Integers, FiniteSets, Sequences

CONSTANTS Windows, Ids,
          NoWindow, NoFile, NoEditor, NoText,
          MaxEdits,   \* bound: edits in all
          Hazards     \* "typing meanwhile": the drafts are on a server, and the
                      \* windows can be used while one is saved; "unreadable
                      \* file": of a message or of the file of an editor

ASSUME HazardsAssumption == Hazards \subseteq {"typing meanwhile", "unreadable file"}
ASSUME MaxEditsAssumption == MaxEdits \in Nat

VARIABLES
    windows,   \* Compose; a text is the set of the edits it has, and target the
               \* message that is edited again (mode, targetinfo) while it is there
    files,     \* the messages by what targetinfo names: folder, number, time, size
    calls,     \* the calls that have not returned, the innermost last
    edits,
    given,     \* observer: edits sent, or given up by the user
    failed     \* observer: a step failed, so that a message may be there twice

vars == <<windows, files, calls, edits, given, failed>>

Folders == {"draft", "queue"}
NoTarget == NoFile
Questions == {"kill editor?", "save?"}

Texts == SUBSET (1..MaxEdits)
Compose == [target : Ids \cup {NoTarget}, text : Texts, modified : BOOLEAN,
            lock_count : 0..1, editor : {NoEditor} \cup Texts]
Message == [folder : Folders, text : Texts]
SendCall == [win : Windows, at : {"sending", "remove", "finish"}, action : {"send"}]
SaveCall == [win : Windows, at : {"remove", "finish"}, action : {"keep", "quit"}, id : Ids]
CloseCall == [win : Windows, at : Questions, action : {"close"}]
Call == SendCall \cup SaveCall \cup CloseCall

\* What stands for nothing is not a thing of its kind.
ASSUME NothingAssumption ==
    /\ NoWindow \notin Compose /\ NoFile \notin Message \cup Ids
    /\ \A text \in Texts : text # NoEditor /\ text # NoText

Init ==
    /\ windows = [w \in Windows |-> NoWindow]
    /\ files = [i \in Ids |-> NoFile]
    /\ calls = <<>> /\ edits = 0 /\ given = {} /\ failed = FALSE

Open == {w \in Windows : windows[w] # NoWindow}
Files == {i \in Ids : files[i] # NoFile}

FreeIds == Ids \ Files

\* Nothing gets the name of a message that is gone.
Without(i, ws) ==
    [w \in Windows |-> IF ws[w] # NoWindow /\ ws[w].target = i
                       THEN [ws[w] EXCEPT !.target = NoTarget] ELSE ws[w]]
Removed(i) == files' = [files EXCEPT ![i] = NoFile] /\ windows' = Without(i, windows)

Frame(w, at, action) == [win |-> w, at |-> at, action |-> action]
Top == calls[Len(calls)]
At(at) == calls # <<>> /\ Top.at = at
Returned == SubSeq(calls, 1, Len(calls) - 1)
Replaced(frame) == Append(Returned, frame)

\* The main loop runs: timers, processes that end, other programs' requests.
MainLoop == calls # <<>> => Top.at \in Questions \cup {"sending"}
\* The user can use the windows, but for those that are sending.
Input == \A k \in 1..Len(calls) : calls[k].at = "sending"
Busy(w) == \E k \in 1..Len(calls) : calls[k].win = w
Usable(w) == w \in Open /\ Input /\ ~Busy(w)

Edited(w, f) == windows' = [windows EXCEPT ![w] = f]
Locked(w) == [windows EXCEPT ![w].lock_count = @ + 1]
Unlocked(w) == [windows EXCEPT ![w].lock_count = IF @ > 0 THEN @ - 1 ELSE 0]

compose_create(target, text) ==
    [target |-> target, text |-> text, modified |-> FALSE,
     lock_count |-> 0, editor |-> NoEditor]

\* What a window gets of a text that is read from a file: that it cannot be
\* read, or not all of it, changes nothing else.
Read(text) == IF "unreadable file" \in Hazards THEN SUBSET text ELSE {text}

\* compose_new
New(w) ==
    /\ Input /\ w \notin Open
    /\ Edited(w, compose_create(NoTarget, {}))
    /\ UNCHANGED <<files, calls, edits, given, failed>>

\* compose_reedit: a draft or a queued message that a window has is not opened
\* again.  One of the outbox will not be replaced: its window is as a new one,
\* with a text that was sent.
Reedit(w, i) ==
    /\ Input /\ w \notin Open /\ i \in Files
    /\ \A v \in Open : windows[v].target # i
    /\ \E text \in Read(files[i].text) :
          /\ Edited(w, compose_create(i, text))
          /\ failed' = (failed \/ text # files[i].text)
    /\ UNCHANGED <<files, calls, edits, given>>

ReeditSent(w) ==
    /\ Input /\ w \notin Open
    /\ \E text \in SUBSET given : Edited(w, compose_create(NoTarget, text))
    /\ UNCHANGED <<files, calls, edits, given, failed>>

TypingMeanwhile(w) == w \in Open /\ At("finish") /\ "typing meanwhile" \in Hazards

\* compose_changed_cb, compose_buffer_changed_cb
Type(w) ==
    /\ edits < MaxEdits /\ edits' = edits + 1
    /\ Usable(w) \/ TypingMeanwhile(w)
    /\ Edited(w, [windows[w] EXCEPT !.text = @ \cup {edits + 1}, !.modified = TRUE])
    /\ UNCHANGED <<files, calls, given, failed>>

-----------------------------------------------------------------------------
\* compose_draft_cb, compose_queue and what follows a message that was sent

\* The new message is in its folder; adding it may fail, and nothing changes then.
Add(w, folder, action, under) ==
    \E i \in FreeIds :
        /\ files' = [files EXCEPT ![i] = [folder |-> folder, text |-> windows[w].text]]
        /\ windows' = Locked(w)
        /\ calls' = Append(under, [win |-> w, at |-> "remove", action |-> action, id |-> i])
        /\ UNCHANGED <<edits, given, failed>>

CanSave(w) == w \in Open /\ windows[w].lock_count = 0

SaveAndKeep(w) == Usable(w) /\ CanSave(w) /\ Add(w, "draft", "keep", calls)

SaveAndQuit(w) ==
    /\ Usable(w) /\ CanSave(w) /\ windows[w].editor = NoEditor
    /\ Add(w, "draft", "quit", calls)

\* autosave_timeout
Autosave(w) ==
    MainLoop /\ CanSave(w) /\ windows[w].modified /\ Add(w, "draft", "keep", calls)

\* compose_send_later_cb
SendLater(w) ==
    /\ Usable(w) /\ CanSave(w) /\ windows[w].editor = NoEditor
    /\ Add(w, "queue", "quit", calls)

\* compose_remove_reedit_target
RemoveTarget ==
    /\ At("remove")
    /\ calls' = Replaced([Top EXCEPT !.at = "finish"])
    /\ LET target == windows[Top.win].target IN
       IF target # NoTarget
       THEN \/ Removed(target) /\ UNCHANGED failed
            \/ failed' = TRUE /\ UNCHANGED <<windows, files>>
       ELSE UNCHANGED <<windows, files, failed>>
    /\ UNCHANGED <<edits, given>>

Destroyed(w) == [windows EXCEPT ![w] = NoWindow]

FinishQuit ==
    /\ At("finish") /\ Top.action = "quit"
    /\ windows' = Destroyed(Top.win) /\ calls' = Returned
    /\ UNCHANGED <<files, edits, given, failed>>

\* From now on the window edits the saved message, if its file can be found.
\* Mutant: it goes on with the message it had before.
FinishKeep_OldTarget ==
    /\ At("finish") /\ Top.action = "keep" /\ calls' = Returned
    /\ windows' = [Unlocked(Top.win) EXCEPT ![Top.win].modified = FALSE]
    /\ UNCHANGED <<files, edits, given, failed>>
FinishKeep ==
    /\ At("finish") /\ Top.action = "keep" /\ calls' = Returned
    /\ \/ /\ windows' = [Unlocked(Top.win) EXCEPT
                            ![Top.win].target = Top.id, ![Top.win].modified = FALSE]
          /\ UNCHANGED failed
       \/ windows' = Unlocked(Top.win) /\ failed' = TRUE
    /\ UNCHANGED <<files, edits, given>>

\* compose_send, compose_send_real: other windows can be used meanwhile.
Send(w) ==
    /\ Usable(w) /\ CanSave(w) /\ windows[w].editor = NoEditor
    /\ windows' = Locked(w) /\ calls' = Append(calls, Frame(w, "sending", "send"))
    /\ UNCHANGED <<files, edits, given, failed>>

\* Mutant: an early return without C_UNLOCK.
NotSent_Locked ==
    /\ At("sending") /\ calls' = Returned
    /\ UNCHANGED <<windows, files, edits, given, failed>>
NotSent ==
    /\ At("sending") /\ windows' = Unlocked(Top.win) /\ calls' = Returned
    /\ UNCHANGED <<files, edits, given, failed>>

Sent ==
    /\ At("sending")
    /\ given' = given \cup windows[Top.win].text
    /\ calls' = Replaced([Top EXCEPT !.at = "remove"])
    /\ UNCHANGED <<windows, files, edits, failed>>

\* After the copy in the outbox is made, or failed: the window stays then.
FinishSent ==
    /\ At("finish") /\ Top.action = "send" /\ calls' = Returned
    /\ windows' \in {Destroyed(Top.win), Unlocked(Top.win)}
    /\ UNCHANGED <<files, edits, given, failed>>

-----------------------------------------------------------------------------
\* The external editor: editor holds the edits it has made.

\* compose_exec_ext_editor
StartEditor(w) ==
    /\ Usable(w) /\ windows[w].editor = NoEditor
    /\ Edited(w, [windows[w] EXCEPT !.editor = {}])
    /\ UNCHANGED <<files, calls, edits, given, failed>>

EditorEdits(w) ==
    /\ w \in Open /\ windows[w].editor # NoEditor /\ edits < MaxEdits
    /\ edits' = edits + 1
    /\ Edited(w, [windows[w] EXCEPT !.editor = @ \cup {edits + 1}])
    /\ UNCHANGED <<files, calls, given, failed>>

\* What the window has when the editor is done, if its file can be read.
Whole(c) == c.text \cup c.editor

\* compose_ext_editor_child_exit.  Mutant: the window does not count as modified.
EditorExits_Quietly(w) ==
    /\ MainLoop /\ w \in Open /\ windows[w].editor # NoEditor
    /\ Edited(w, [windows[w] EXCEPT !.text = Whole(windows[w]), !.editor = NoEditor])
    /\ UNCHANGED <<files, calls, edits, given, failed>>

\* The buffer is emptied before the file is read.
EditorExits(w) ==
    /\ MainLoop /\ w \in Open /\ windows[w].editor # NoEditor
    /\ \E text \in Read(Whole(windows[w])) :
          /\ Edited(w, [windows[w] EXCEPT !.text = text, !.modified = TRUE,
                                          !.editor = NoEditor])
          /\ failed' = (failed \/ text # Whole(windows[w]))
    /\ UNCHANGED <<files, calls, edits, given>>

-----------------------------------------------------------------------------
\* compose_close_cb.  The window is not locked while a question waits.

\* The next question, or the window goes, without the calls that are left.
Ask(w, c, under) ==
    IF c.modified
    THEN Edited(w, c) /\ calls' = Append(under, Frame(w, "save?", "close"))
    ELSE windows' = Destroyed(w) /\ calls' = under

Close(w) ==
    /\ Usable(w) /\ windows[w].lock_count = 0
    /\ IF windows[w].editor # NoEditor
       THEN /\ calls' = Append(calls, Frame(w, "kill editor?", "close"))
            /\ UNCHANGED windows
       ELSE Ask(w, windows[w], calls)
    /\ UNCHANGED <<files, edits, given, failed>>

\* compose_ext_editor_kill; it may have come to its end before the answer.
KillEditor ==
    /\ At("kill editor?")
    /\ LET c == windows[Top.win] IN
       /\ given' = IF c.editor = NoEditor THEN given ELSE given \cup c.editor
       /\ Ask(Top.win, [c EXCEPT !.editor = NoEditor], Returned)
    /\ UNCHANGED <<files, edits, failed>>

Cancel ==
    /\ calls # <<>> /\ Top.at \in Questions /\ calls' = Returned
    /\ UNCHANGED <<windows, files, edits, given, failed>>

\* If it cannot be saved, the window stays: Cancel stands for that too.
SaveAndClose ==
    At("save?") /\ CanSave(Top.win) /\ Add(Top.win, "draft", "quit", Returned)

CloseWithoutSaving ==
    /\ At("save?")
    /\ given' = given \cup windows[Top.win].text
    /\ windows' = Destroyed(Top.win) /\ calls' = Returned
    /\ UNCHANGED <<files, edits, failed>>

-----------------------------------------------------------------------------
\* The user removes a message, or it is sent from the queue.
Gone(i) ==
    /\ MainLoop /\ i \in Files /\ (Input \/ files[i].folder = "queue")
    /\ Removed(i) /\ given' = given \cup files[i].text
    /\ UNCHANGED <<calls, edits, failed>>

Saving == calls # <<>> /\ Top.at \in {"remove", "finish"}

Crash ==
    /\ windows' = [w \in Windows |-> NoWindow] /\ calls' = <<>>
    /\ failed' = (failed \/ Saving)
    /\ UNCHANGED <<files, edits, given>>

Window(w) ==
    \/ New(w) \/ (\E i \in Ids : Reedit(w, i)) \/ ReeditSent(w) \/ Type(w)
    \/ SaveAndKeep(w) \/ SaveAndQuit(w) \/ Autosave(w) \/ SendLater(w) \/ Send(w)
    \/ StartEditor(w) \/ EditorEdits(w) \/ EditorExits(w) \/ Close(w)

Returning ==
    \/ RemoveTarget \/ FinishQuit \/ FinishKeep
    \/ NotSent \/ Sent \/ FinishSent
    \/ KillEditor \/ Cancel \/ SaveAndClose \/ CloseWithoutSaving

Next ==
    \/ \E w \in Windows : Window(w)
    \/ Returning
    \/ \E i \in Ids : Gone(i)
    \/ Crash

Spec == Init /\ [][Next]_vars

-----------------------------------------------------------------------------
\* Windows are locked by the calls that save or send them, once by each.
Locks(w) ==
    Cardinality({k \in 1..Len(calls) : calls[k].win = w /\ calls[k].at \notin Questions})

TypeOK ==
    /\ windows \in [Windows -> Compose \cup {NoWindow}]
    /\ files \in [Ids -> Message \cup {NoFile}]
    /\ calls \in Seq(Call)
    /\ edits \in 0..MaxEdits /\ given \subseteq 1..edits /\ failed \in BOOLEAN
    /\ \A i \in Files : files[i].text \subseteq 1..edits
    /\ \A w \in Open :
          LET c == windows[w] IN
          /\ c.target \in Files \cup {NoTarget} /\ c.text \subseteq 1..edits
          /\ c.editor = NoEditor \/ c.editor \subseteq 1..edits
          /\ c.lock_count = Locks(w)
    /\ \A k \in 1..Len(calls) : calls[k].win \in Open

WindowText(w) ==
    IF w \notin Open THEN NoText
    ELSE windows[w].text \cup (IF windows[w].editor = NoEditor THEN {} ELSE windows[w].editor)

Written ==
    INSTANCE Writing WITH open <- [w \in Windows |-> WindowText(w)],
                          saved <- {files[i].text : i \in Files}

\* Nothing that was written is lost: messages are only removed once a newer one
\* is there, and a window closes without asking only if its text is saved.  (A
\* file that cannot be read is lost with the next save: see Hazards.)
KeepsText == [][Written!Next]_(Written!vars)

\* As long as no step fails, saving again and again, by hand, by the timer and
\* when the window is closed, leaves one message, and queueing it no draft.
Tidy ==
    failed \/ Saving
    \/ \A i, j \in Files :
          i # j /\ files[i].text \subseteq files[j].text => files[i].text \subseteq given
=============================================================================
