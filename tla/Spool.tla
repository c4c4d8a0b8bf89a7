-------------------------------- MODULE Spool --------------------------------
(***************************************************************************)
(* Mail from the local spool: get_spool locks the file, copies it, drops   *)
(* the messages of the copy one by one through the filter rules, empties   *)
(* the file and unlocks it, while the mail system delivers into it.        *)
(***************************************************************************)
EXTENDS Mbox, Filter

CONSTANTS Msgs,
          Text,        \* the lines of each message
          Raw,         \* messages that were delivered with From_ lines as they are
          Folders, Inbox,
          RuleSets,    \* lists of rules a user may have
          MaxTrouble,  \* bound: failures and crashes
          Hazards      \* what is not kept out of the model; see README

ASSUME TextAssumption == Text \in [Msgs -> Seq(STRING \X STRING)] /\ Inbox \in Folders /\ Raw \subseteq Msgs
ASSUME SpoolHazardsAssumption == Hazards \subseteq {"lockf", "read error"} /\ MaxTrouble \in Nat

VARIABLES
    mbox,      \* lines of the spool file
    flock, dot,  \* who holds the lock on the file, and who made the lock file
    pc, copy,  \* what get_spool does next, and the lines of tmp_mbox still to read
    locktype,
    folders,   \* files of each folder
    rules,     \* prefs_common.fltlist
    mda,       \* what the mail system does
    handed,    \* observer: messages the mail system has delivered
    trouble

vars == <<mbox, flock, dot, pc, copy, locktype, folders, rules, mda, handed, trouble>>

Steps == {"idle", "lock", "lock file", "copy", "open", "drop", "empty", "unlock"}

Trouble == trouble < MaxTrouble /\ trouble' = trouble + 1

-----------------------------------------------------------------------------
\* get_spool

Begin ==
    /\ pc = "idle" /\ mbox # <<>> /\ pc' = "lock"
    /\ UNCHANGED <<mbox, flock, dot, copy, locktype, folders, rules, mda, handed, trouble>>

\* lock_mbox with LOCK_FLOCK; if it fails, with LOCK_FILE.
Lock ==
    /\ pc = "lock"
    /\ \/ /\ flock = "nobody" /\ flock' = "us" /\ locktype' = "flock" /\ pc' = "copy"
          /\ UNCHANGED trouble
       \/ /\ flock # "nobody" \/ trouble < MaxTrouble
          /\ pc' = "lock file" /\ UNCHANGED <<flock, locktype>>
          /\ trouble' = IF flock # "nobody" THEN trouble ELSE trouble + 1
    /\ UNCHANGED <<mbox, dot, copy, folders, rules, mda, handed>>

\* It tries again for some time, then gives up, as it does at once if no file
\* can be made beside the spool.
LockFile ==
    /\ pc = "lock file"
    /\ \/ dot = "nobody" /\ dot' = "us" /\ locktype' = "file" /\ pc' = "copy" /\ UNCHANGED trouble
       \/ dot # "nobody" /\ pc' = "idle" /\ UNCHANGED <<dot, locktype, trouble>>
       \/ Trouble /\ pc' = "idle" /\ UNCHANGED <<dot, locktype>>
    /\ UNCHANGED <<mbox, flock, copy, folders, rules, mda, handed>>

\* copy_file closes the spool file, which gives up a lock of lockf, and takes
\* a read error for the end of the file.
LockAfterCopy == IF locktype = "flock" /\ "lockf" \in Hazards THEN "nobody" ELSE flock
Readable == {mbox} \cup (IF "read error" \in Hazards
                         THEN {SubSeq(mbox, 1, n) : n \in 1..(Len(mbox) - 1)} ELSE {})

Copy ==
    /\ pc = "copy"
    /\ \/ copy' \in Readable /\ pc' = "open" /\ UNCHANGED trouble
       \/ Trouble /\ pc' = "unlock" /\ UNCHANGED copy
    /\ flock' = LockAfterCopy
    /\ UNCHANGED <<mbox, dot, locktype, folders, rules, mda, handed>>

\* proc_mbox_full, up to the first message
Open ==
    /\ pc = "open"
    /\ copy' = Begun(copy)
    /\ pc' = IF copy' = <<>> THEN "unlock" ELSE "drop"
    /\ UNCHANGED <<mbox, flock, dot, locktype, folders, rules, mda, handed, trouble>>

Owner(file) == {m \in Msgs : Text[m] = file}

\* What the rules do with a file, when the folders of broken fail; then whether
\* it goes into the inbox.
Filtered(file, broken) ==
    IF Owner(file) = {} THEN NoFilterInfo
    ELSE filter_apply(NoFilterInfo, rules, CHOOSE m \in Owner(file) : TRUE, broken)
ToInbox(info) == info.actions \cap {"move", "delete"} = {}

StoreIn(dests, file) ==
    folders' = [f \in Folders |->
                  folders[f] \o [i \in 1..Cardinality({k \in DOMAIN dests : dests[k] = f}) |-> file]]

\* Mutant of After: the spool is emptied after an error as well.
After_Errors(ok, rest) == IF ok /\ rest # <<>> THEN "drop" ELSE "empty"

\* One message; the last one ends the loop.  A message that cannot be stored in
\* the inbox, or written to the temporary file, ends it with an error.
After(ok, rest) == IF ~ok THEN "unlock" ELSE IF rest = <<>> THEN "empty" ELSE "drop"

Drop ==
    /\ pc = "drop"
    /\ \E broken \in SUBSET (Folders \cup {"exec"}) :
          /\ broken = {} \/ trouble < MaxTrouble
          /\ trouble' = IF broken = {} THEN trouble ELSE trouble + 1
          /\ LET one == FirstMessage(copy)
                 info == Filtered(one.file, broken)
                 ok == ~ToInbox(info) \/ Inbox \notin broken
             IN /\ StoreIn(info.dest_list \o (IF ToInbox(info) /\ ok THEN <<Inbox>> ELSE <<>>), one.file)
                /\ copy' = IF ok THEN one.rest ELSE <<>>
                /\ pc' = After(ok, one.rest)
    /\ UNCHANGED <<mbox, flock, dot, locktype, rules, mda, handed>>

TmpFails ==
    /\ pc = "drop" /\ Trouble /\ pc' = "unlock" /\ copy' = <<>>
    /\ UNCHANGED <<mbox, flock, dot, locktype, folders, rules, mda, handed>>

\* Mutant of Empty: the spool stays as it is.
Empty_Never ==
    /\ pc = "empty" /\ pc' = "unlock"
    /\ UNCHANGED <<mbox, flock, dot, copy, locktype, folders, rules, mda, handed, trouble>>

\* empty_mbox, which may fail
Empty ==
    /\ pc = "empty" /\ pc' = "unlock"
    /\ \/ mbox' = <<>> /\ UNCHANGED trouble
       \/ Trouble /\ UNCHANGED mbox
    /\ UNCHANGED <<flock, dot, copy, locktype, folders, rules, mda, handed>>

\* Mutant of unlock_mbox: the lock on the file is kept.
unlock_mbox_KeepFlock == dot' = (IF locktype = "flock" THEN dot ELSE "nobody") /\ UNCHANGED flock

unlock_mbox ==
    IF locktype = "flock" THEN flock' = (IF flock = "us" THEN "nobody" ELSE flock) /\ UNCHANGED dot
    ELSE dot' = "nobody" /\ UNCHANGED flock

Unlock ==
    /\ pc = "unlock" /\ pc' = "idle" /\ unlock_mbox /\ copy' = <<>>
    /\ UNCHANGED <<mbox, locktype, folders, rules, mda, handed, trouble>>

\* The lock on the file goes with the program, the lock file does not.
Crash ==
    /\ pc # "idle" /\ Trouble
    /\ pc' = "idle" /\ copy' = <<>>
    /\ flock' = IF flock = "us" THEN "nobody" ELSE flock
    /\ dot' = IF dot = "us" THEN "stale" ELSE dot
    /\ UNCHANGED <<mbox, locktype, folders, rules, mda, handed>>

-----------------------------------------------------------------------------
\* The mail system makes the lock file, locks the spool, and writes a message
\* in pieces.

Rest == [doing |-> "rest", msg |-> "", left |-> <<>>]

Delivered(m) ==
    IF m \in Raw THEN <<Separator>> \o Text[m] \o <<Blank>> ELSE Written(Text[m])

TakeLockFile(m) ==
    /\ mda = Rest /\ dot = "nobody" /\ m \notin handed
    /\ dot' = "mda" /\ mda' = [doing |-> "lock", msg |-> m, left |-> Delivered(m)]
    /\ UNCHANGED <<mbox, flock, pc, copy, locktype, folders, rules, handed, trouble>>

TakeLock ==
    /\ mda.doing = "lock" /\ flock = "nobody"
    /\ flock' = "mda" /\ mda' = [mda EXCEPT !.doing = "write"]
    /\ UNCHANGED <<mbox, dot, pc, copy, locktype, folders, rules, handed, trouble>>

Write ==
    /\ mda.doing = "write"
    /\ LET n == IF Len(mda.left) > 2 THEN 2 ELSE Len(mda.left)
           left == SubSeq(mda.left, n + 1, Len(mda.left))
       IN /\ mbox' = mbox \o SubSeq(mda.left, 1, n)
          /\ IF left # <<>>
             THEN mda' = [mda EXCEPT !.left = left] /\ UNCHANGED <<flock, dot, handed>>
             ELSE mda' = Rest /\ flock' = "nobody" /\ dot' = "nobody" /\ handed' = handed \cup {mda.msg}
    /\ UNCHANGED <<pc, copy, locktype, folders, rules, trouble>>

-----------------------------------------------------------------------------
Init ==
    /\ mbox = <<>> /\ flock = "nobody" /\ dot = "nobody"
    /\ pc = "idle" /\ copy = <<>> /\ locktype = "flock"
    /\ folders = [f \in Folders |-> <<>>]
    /\ rules \in RuleSets
    /\ mda = Rest /\ handed = {} /\ trouble = 0

Next ==
    \/ Begin \/ Lock \/ LockFile \/ Copy \/ Open \/ Drop \/ TmpFails \/ Empty \/ Unlock \/ Crash
    \/ TakeLock \/ Write \/ \E m \in Msgs : TakeLockFile(m)

Spec == Init /\ [][Next]_vars

-----------------------------------------------------------------------------
\* Types; outside of get_spool no lock is left, and inside one is held.
TypeOK ==
    /\ pc \in Steps /\ handed \subseteq Msgs /\ rules \in RuleSets
    /\ {flock, dot} \subseteq {"nobody", "us", "mda", "stale"} /\ flock # "stale"
    /\ folders \in [Folders -> Seq(Seq(STRING \X STRING))]
    /\ pc \in {"idle", "lock", "lock file"} => flock # "us" /\ dot # "us"
    /\ pc \in {"copy", "drop", "empty"} => flock = "us" \/ dot = "us"

\* What the rules throw away without a copy when nothing fails
Discarded(m) ==
    LET info == filter_apply(NoFilterInfo, rules, m, {})
    IN "delete" \in info.actions /\ info.dest_list = <<>>

\* A message that the mail system has delivered is, whole, in the spool or in a
\* folder, whatever fails, unless the rules, with nothing failing, throw it away (get_spool, proc_mbox_full,
\* filter_apply_msginfo).
Kept ==
    \A m \in handed :
       \/ \E f \in Folders : Text[m] \in ToSet(folders[f])
       \/ Text[m] \in ToSet(Messages[Begun(mbox)])
       \/ Discarded(m)

\* The folders have whole messages only, and one twice only if something failed
\* between its storing and the emptying of the spool.
Incorporated ==
    \A f \in Folders :
       /\ ToSet(folders[f]) \subseteq {Text[m] : m \in Msgs}
       /\ \A m \in Msgs : Cardinality({i \in DOMAIN folders[f] : folders[f][i] = Text[m]}) <= 1 + trouble
=============================================================================
