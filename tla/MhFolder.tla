------------------------------ MODULE MhFolder ------------------------------
(***************************************************************************)
(* One MH folder over time: a check for mail, the summary, a compose       *)
(* window, moves from and to other folders and other programs that deliver *)
(* into its directory, with crashes at any time.  Each action is a handler *)
(* of the main loop; module MhItem has the functions it calls.             *)
(***************************************************************************)
EXTENDS MhItem

CONSTANTS Kinds,       \* pairs of a stype and the preference strict_cache_check
          MaxRecords,  \* bound: records of the mark and cache files
          Patient,     \* nothing writes the marks of the folder that is shown,
                       \* or empties the trash, while messages of a check wait
          CacheFirst,  \* a folder without a cache file is shown only when no
                       \* header waits to be written to it
          Halves       \* "marks", "cache": the files that a crash may leave with
                       \* half a record at the end

ASSUME KindsAssumption == Kinds \subseteq {"F_NORMAL", "F_TRASH", "F_DRAFT"} \X BOOLEAN
ASSUME BoundAssumption == MaxRecords \in Nat
ASSUME PatientAssumption == Patient \in BOOLEAN /\ CacheFirst \in BOOLEAN
ASSUME HalvesAssumption == Halves \subseteq {"marks", "cache"}

VARIABLES
    folder,     \* the directory and the FolderItem
    strict,     \* strict_cache_check holds for it
    elsewhere,  \* flags of the messages in the other folders
    target,     \* targetinfo of the compose window
    receiving,  \* "no" check for new mail is running, or none "yet" brought a
                \* message here, or the folder is in folder_table ("done")
    saved,      \* the mtime in the saved list of folders is the directory's
    foreign     \* observer: another program changed the directory, or this one
                \* died, and the folder was not counted since

vars == <<folder, strict, elsewhere, target, receiving, saved, foreign>>

NoTarget == [num |-> 0, msg |-> None]
Files == [Nums -> Msgs \cup {None}]

Init ==
    /\ \E kind \in Kinds :
          /\ folder = Brand(kind[1])
          /\ strict = (kind[1] = "F_DRAFT" \/ kind[2])
    /\ \E S \in SUBSET Msgs : elsewhere \in [S -> {{}, Default}]
    /\ target = NoTarget /\ receiving = "no" /\ saved = FALSE /\ foreign = FALSE

Fresh == Msgs \ (Contents(folder) \cup DOMAIN elsewhere)
NumOf(m) == CHOOSE n \in FileNums(folder) : folder.file[n] = m

Changed(g) ==
    \/ g.file # folder.file
    \/ (folder.marks.state = "none") # (g.marks.state = "none")
    \/ (folder.cache.state = "none") # (g.cache.state = "none")

Becomes(g) ==
    /\ Len(g.marks.recs) <= MaxRecords /\ Len(g.cache.recs) <= MaxRecords
    /\ folder' = g
    /\ saved' = (saved /\ ~Changed(g))

NothingWaits == Patient /\ folder.opened => folder.cache_queue = <<>>

\* The flags with which a message is shown, or will be.
SeenFlags(n) ==
    IF ~folder.opened THEN FlagsIn(MarkedTable(folder), n)
    ELSE IF n \in NumsOf(folder.list) THEN FirstOf(folder.list, n).flags
    ELSE IF n \in NumsOf(folder.cache_queue) THEN FirstOf(folder.cache_queue, n).flags
    ELSE FlagsIn(MarkedTable(folder), n)

-----------------------------------------------------------------------------
\* A check for new mail.

\* inc_mail and its like
BeginCheck ==
    /\ receiving = "no" /\ receiving' = "yet"
    /\ NothingWaits
    /\ Becomes(IF folder.opened THEN WriteCache(folder) ELSE folder)
    /\ UNCHANGED <<strict, elsewhere, target, foreign>>

\* folder_item_add_msg of a message that was received, as the filter rules mark it
Incorporate(m) ==
    /\ receiving # "no" /\ receiving' = "done"
    /\ folder.stype # "F_DRAFT" /\ HasRoom(folder, 1)
    /\ \E flags \in {Default, UserFlags} :
          Becomes(AddMsgs(folder, <<[msg |-> m, flags |-> flags, received |-> TRUE]>>))
    /\ UNCHANGED <<strict, elsewhere, target, foreign>>

\* inc_update_folderview, now and then
ShowNew ==
    /\ receiving # "no" /\ folder.opened /\ folder.cache_queue # <<>>
    /\ Becomes(ShowQueued(folder))
    /\ UNCHANGED <<strict, elsewhere, target, receiving, foreign>>

\* inc_update_folder_foreach and, in it, summary_show of what is shown
EndCheck ==
    /\ receiving # "no" /\ receiving' = "no"
    /\ LET g == FlushFolder(folder)
       IN Becomes(IF receiving = "yet" THEN folder
                  ELSE IF folder.opened THEN Refresh(g, strict) ELSE g)
    /\ UNCHANGED <<strict, elsewhere, target, foreign>>

-----------------------------------------------------------------------------
\* The summary.

Show ==
    /\ CacheFirst /\ folder.cache.state # "ok" => folder.cache_queue = <<>>
    /\ Becomes(IF folder.opened THEN Refresh(folder, strict) ELSE Open(folder, strict))
    /\ foreign' = (folder'.last_num < 0)
    /\ UNCHANGED <<strict, elsewhere, target, receiving>>

\* summary_show of another folder
Leave ==
    /\ folder.opened
    /\ Becomes(Close(WriteCache(folder)))
    /\ UNCHANGED <<strict, elsewhere, target, receiving, foreign>>

\* The user marks a message, or reads it.
SetFlag(i, flag) ==
    /\ folder.opened
    /\ LET old == folder.list[i].flags
           new == IF flag \in old THEN old \ {flag} ELSE old \cup {flag}
       IN Becomes([folder EXCEPT !.list[i].flags = new, !.mark_dirty = TRUE,
                                 !.unread = @ - Unread(old) + Unread(new)])
    /\ UNCHANGED <<strict, elsewhere, target, receiving, foreign>>

Left(g, rs) ==
    [g EXCEPT !.list = Picked(@, {i \in DOMAIN @ : @[i] \notin ToSet(rs)}), !.cache_dirty = TRUE]

\* summary_execute: messages go to another folder of the mailbox, up to one
\* that cannot be moved; then the rows that are invalid go and the files are
\* written.
ExecuteMove(rs) ==
    /\ folder.opened /\ rs # <<>> /\ NothingWaits
    /\ \A i \in DOMAIN rs : rs[i].msg \notin DOMAIN elsewhere
    /\ Becomes(WriteCache(Left(FoldLeft(TakeAway, folder, rs), rs)))
    /\ elsewhere' = [m \in DOMAIN elsewhere \cup {rs[i].msg : i \in DOMAIN rs} |->
                        IF m \in DOMAIN elsewhere THEN elsewhere[m]
                        ELSE rs[CHOOSE i \in DOMAIN rs : rs[i].msg = m].flags]
    /\ UNCHANGED <<strict, target, receiving, foreign>>

\* the same in the trash
ExecuteRemove(r) ==
    /\ folder.opened /\ folder.stype = "F_TRASH" /\ NothingWaits
    /\ Becomes(WriteCache(Left(RemoveMsg(folder, r), <<r>>)))
    /\ UNCHANGED <<strict, elsewhere, target, receiving, foreign>>

\* procmsg_empty_trash, from the folder view: also while a check brings mail
EmptyTrash ==
    /\ folder.stype = "F_TRASH" /\ folder.total > 0
    /\ Patient => folder.cache_queue = <<>> /\ folder.mark_queue = <<>>
    /\ LET g == ClearMark(ClearCache(RemoveAllMsg(folder)))
       IN Becomes(IF folder.opened THEN Refresh(g, strict) ELSE g)
    /\ UNCHANGED <<strict, elsewhere, target, receiving, foreign>>

\* send_message_set_reply_flag, for a message of this folder that was seen
\* before; another folder is shown.
Reply(m) ==
    /\ ~folder.opened /\ NumOf(m) \notin NumsOf(folder.mark_queue)
    /\ Becomes(AddFlags(folder, NumOf(m), FirstFlags(folder, NumOf(m)) \cup UserFlags))
    /\ UNCHANGED <<strict, elsewhere, target, receiving, foreign>>

-----------------------------------------------------------------------------
\* Messages from other folders: rs are those before the one that fails.

Coming(ms) == [i \in DOMAIN ms |-> [msg |-> ms[i], flags |-> elsewhere[ms[i]], received |-> FALSE]]

\* procmsg_move_messages, procmsg_copy_messages from a folder of the mailbox
MoveIn(ms, kept) ==
    /\ ~folder.opened /\ HasRoom(Scan(folder), Len(ms))
    /\ Becomes(MoveMsgs(Scan(folder), Coming(ms)))
    /\ elsewhere' = [m \in DOMAIN elsewhere \ (IF kept THEN {} ELSE ToSet(ms)) |-> elsewhere[m]]
    /\ UNCHANGED <<strict, target, receiving, foreign>>

\* mh_move_msgs from a folder of a server, for the user, or for the rules of a
\* check: into the folder that is shown as well (none moves into drafts), and
\* without counting it first.  If one fails, none is removed from there.
AddIn(ms, failed) ==
    /\ folder.opened => receiving # "no" /\ folder.stype # "F_DRAFT"
    /\ \E f \in IF folder.opened THEN {folder} ELSE {folder, Scan(folder)} :
          HasRoom(f, Len(ms)) /\ Becomes(AddMsgs(f, Coming(ms)))
    /\ elsewhere' = [m \in DOMAIN elsewhere \ (IF failed THEN {} ELSE ToSet(ms)) |-> elsewhere[m]]
    /\ UNCHANGED <<strict, target, receiving, foreign>>

\* Another program.
Deliver(m) ==
    /\ folder.stype = "F_NORMAL" /\ LastFile(folder) < MaxNum
    /\ Becomes([folder EXCEPT !.file[LastFile(folder) + 1] = m, !.fresh = FALSE])
    /\ foreign' = TRUE
    /\ UNCHANGED <<strict, elsewhere, target, receiving>>

-----------------------------------------------------------------------------
\* The compose window.

\* compose_reedit
Reedit(r) ==
    /\ folder.stype = "F_DRAFT" /\ folder.opened /\ target = NoTarget
    /\ target' = HeaderOf(r)
    /\ UNCHANGED <<folder, strict, elsewhere, receiving, saved, foreign>>

CloseWindow ==
    /\ target # NoTarget /\ target' = NoTarget
    /\ UNCHANGED <<folder, strict, elsewhere, receiving, saved, foreign>>

\* compose_remove_reedit_target
RemoveTarget(f) ==
    IF target = NoTarget THEN f
    ELSE LET g == Scan(f)
         IN IF Exists(g, target) THEN RemoveMsg(g, [num |-> target.num, flags |-> {}]) ELSE g

\* compose_draft_cb; keep: the window stays open
SaveDraft(m, keep) ==
    /\ folder.stype = "F_DRAFT"
    /\ LET f == Scan(folder)
           g == AddMsgs(f, <<[msg |-> m, flags |-> {}, received |-> FALSE]>>)
           h == Scan(RemoveTarget(g))
       IN /\ HasRoom(f, 1)
          /\ Becomes(IF folder.opened THEN Refresh(h, strict) ELSE h)
          /\ target' = IF keep THEN [num |-> g.last_num, msg |-> m] ELSE NoTarget
    /\ foreign' = (foreign /\ ~folder.opened)
    /\ UNCHANGED <<strict, elsewhere, receiving>>

-----------------------------------------------------------------------------
\* The program ends.

\* What a new process knows: the directory, and the list of folders it saved.
Restarted(f) ==
    [f EXCEPT !.last_num = -1, !.opened = FALSE, !.list = <<>>,
              !.mark_queue = <<>>, !.cache_queue = <<>>,
              !.mark_dirty = FALSE, !.cache_dirty = FALSE, !.fresh = saved]

\* folder_write_list
SaveFolderList ==
    /\ saved' = folder.fresh
    /\ UNCHANGED <<folder, strict, elsewhere, target, receiving, foreign>>

\* app_will_exit, app_exit
Quit ==
    /\ receiving = "no" /\ NothingWaits /\ target = NoTarget
    /\ LET g == IF folder.opened THEN WriteCache(folder) ELSE folder
       IN /\ folder' = [Restarted(g) EXCEPT !.fresh = g.fresh]
          /\ saved' = g.fresh
    /\ UNCHANGED <<strict, elsewhere, target, receiving, foreign>>

Ended == target' = NoTarget /\ receiving' = "no" /\ foreign' = TRUE /\ UNCHANGED strict

Crash ==
    /\ folder' = Restarted(folder)
    /\ Ended /\ UNCHANGED <<elsewhere, saved>>

\* a prefix of a file that is being written, with or without its version
PartOf(recs) == {Torn} \cup {Data(SubSeq(recs, 1, n)) : n \in 0..Len(recs)}

\* The cache file, that the marks are written after: with all of a number or
\* a string missing at its end, it is broken.
CacheLeft ==
    LET recs == HeadersOf(folder.list \o folder.cache_queue)
    IN IF ~folder.cache_dirty THEN {folder.cache}
       ELSE PartOf(recs) \cup (IF "cache" \in Halves /\ recs # <<>> THEN {Broken} ELSE {})

\* Whether a piece of the next of recs may be at the end of a file of that name.
Halved(name, file, recs) ==
    IF name \in Halves /\ file.state = "ok" /\ Len(file.recs) < Len(recs) THEN {{}, {name}} ELSE {{}}

CrashWriting ==
    /\ folder.opened /\ MarksPending(folder)
    /\ \E cache \in CacheLeft, marks \in PartOf(MarksOf(folder.list) \o folder.mark_queue) :
       \E mh \in Halved("marks", marks, MarksOf(folder.list) \o folder.mark_queue),
          ch \in IF folder.cache_dirty THEN Halved("cache", cache, folder.list \o folder.cache_queue)
                 ELSE {folder.half \cap {"cache"}} :
          LET g == [folder EXCEPT !.cache = cache, !.marks = marks, !.half = mh \cup ch]
          IN /\ folder' = [Restarted(g) EXCEPT !.fresh = saved /\ ~Changed(g)]
             /\ saved' = (saved /\ ~Changed(g))
    /\ Ended /\ UNCHANGED elsewhere

\* between a message file and its mark.  (For AddIn and Incorporate this is
\* what Deliver and Crash leave.)
CrashMoving(m) ==
    /\ ~folder.opened /\ HasRoom(Scan(folder), 1)
    /\ folder' = [Restarted(Put(Scan(folder), m, {})) EXCEPT !.fresh = FALSE]
    /\ saved' = FALSE
    /\ elsewhere' = [x \in DOMAIN elsewhere \ {m} |-> elsewhere[x]]
    /\ Ended

-----------------------------------------------------------------------------
Batches == {<<m>> : m \in DOMAIN elsewhere \ Contents(folder)}
           \cup {p \in (DOMAIN elsewhere \ Contents(folder)) \X (DOMAIN elsewhere \ Contents(folder)) :
                    p[1] # p[2]}

Next ==
    \/ BeginCheck \/ ShowNew \/ EndCheck \/ Show \/ Leave \/ CloseWindow
    \/ EmptyTrash \/ SaveFolderList \/ Quit \/ Crash \/ CrashWriting
    \/ \E m \in Fresh : Incorporate(m) \/ Deliver(m) \/ \E keep \in BOOLEAN : SaveDraft(m, keep)
    \/ \E i \in DOMAIN folder.list :
          \/ \E flag \in {"UNREAD"} \cup UserFlags : SetFlag(i, flag)
          \/ ExecuteRemove(folder.list[i]) \/ Reedit(folder.list[i])
    \/ \E S \in SUBSET DOMAIN folder.list :
          ExecuteMove(Picked(folder.list, S))
    \/ \E m \in Contents(folder) : Reply(m)
    \/ \E ms \in Batches, b \in BOOLEAN : MoveIn(ms, b) \/ AddIn(ms, b)
    \/ \E m \in DOMAIN elsewhere \ Contents(folder) : CrashMoving(m)

Spec == Init /\ [][Next]_vars

-----------------------------------------------------------------------------
TypeOK ==
    /\ folder.file \in Files
    /\ folder.last_num \in -1..MaxNum
    /\ \A recs \in {folder.marks.recs, folder.mark_queue, folder.list} :
          \A i \in DOMAIN recs : recs[i].num \in Nums /\ recs[i].flags \in Flags
    /\ \A recs \in {folder.cache.recs, folder.cache_queue, folder.list} :
          \A i \in DOMAIN recs : recs[i].num \in Nums /\ recs[i].msg \in Msgs
    /\ ~folder.opened => folder.list = <<>>
    /\ target.msg \in Msgs \cup {None}

Seen == [m \in Contents(folder) |-> SeenFlags(NumOf(m))]

Rows == HeadersOf(folder.list) \o HeadersOf(folder.cache_queue)

\* No message has two rows in the summary, now or when those that wait are
\* shown, however its header came into the cache file and its queue.
OneRow == folder.opened => \A i, j \in DOMAIN Rows : Rows[i].num = Rows[j].num => i = j

\* Every row is the message that its number has in the directory, and no message
\* is without a row or has two, but for what other programs have done since
\* (mh_get_msg_list_full with its caches, the queue of headers, numbers that are
\* used again).
ListTrue ==
    folder.opened =>
       /\ OneRow
       /\ \A i \in DOMAIN Rows : folder.file[Rows[i].num] = Rows[i].msg
       /\ ~foreign => NumsOf(Rows) = FileNums(folder)

\* The numbers in the folder tree count the files, and those that are unread,
\* after any sequence of additions, moves and removals.  (Drafts count a message
\* that comes unread though its mark is cleared.)
CountsRight ==
    ~foreign =>
      /\ folder.total = Cardinality(FileNums(folder))
      /\ folder.stype # "F_DRAFT" => folder.unread = Cardinality({m \in Contents(folder) : "UNREAD" \in Seen[m]})

\* The folder is a mailbox in the sense of that module: no message is lost,
\* and none loses its flags, by moves that fail half way, by queues that are
\* written late or not at all, by numbers that are used again; when the program
\* dies no message is lost, and none loses its flags later because of what was
\* left of the files.
IsMailbox ==
    INSTANCE Mailbox WITH kind <- folder.stype, here <- Seen,
                          there <- elsewhere,
                          editing <- IF Exists(folder, target) THEN target.msg ELSE None

\* The steps that may forget flags.
Dies == Crash \/ CrashWriting \/ \E m \in DOMAIN elsewhere \ Contents(folder) : CrashMoving(m)
KeepsMessages == IsMailbox!Spec /\ [][~Dies => IsMailbox!Living]_IsMailbox!vars
=============================================================================
