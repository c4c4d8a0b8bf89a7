------------------------------- MODULE MhItem -------------------------------
(***************************************************************************)
(* A folder of an MH mailbox: the numbered message files and the mark and  *)
(* cache files in its directory, and struct _FolderItem in memory with its *)
(* queues of marks and of cached headers.  The operators are the functions *)
(* of mh.c, procmsg.c and of the writing part of summaryview.c: each maps  *)
(* a folder (a record f) to the folder after the call.                     *)
(***************************************************************************)
EXTENDS Integers, Sequences, FiniteSets, SequencesExt

CONSTANTS Msgs,    \* messages: as contents of a file, or as a parsed header
          None,
          UserFlags, \* flags that the user sets and a reply: MARKED, REPLIED
          MaxNum   \* bound: message numbers

ASSUME NoneAssumption == None \notin Msgs
ASSUME UserFlagsAssumption == "UNREAD" \notin UserFlags
ASSUME MaxNumAssumption == MaxNum \in Nat

Nums == 1..MaxNum

\* Permanent flags; NEW is left out.
Flags == SUBSET ({"UNREAD"} \cup UserFlags)
Default == {"UNREAD"}

\* A mark or cache file: absent, without a readable version, or its records.
\* Nothing is read of a cache file that is broken by a header that is not whole.
Data(recs) == [state |-> "ok", recs |-> recs]
NoFile == [state |-> "none", recs |-> <<>>]
Torn == [state |-> "torn", recs |-> <<>>]
Broken == [state |-> "broken", recs |-> <<>>]

Brand(stype) ==
    [stype |-> stype, file |-> [n \in Nums |-> None], marks |-> NoFile, cache |-> NoFile,
     last_num |-> 0, total |-> 0, unread |-> 0, opened |-> FALSE, fresh |-> FALSE,
     mark_dirty |-> FALSE, cache_dirty |-> FALSE, mark_queue |-> <<>>, cache_queue |-> <<>>,
     list |-> <<>>, half |-> {}]

FileNums(f) == {n \in Nums : f.file[n] # None}
Contents(f) == {f.file[n] : n \in FileNums(f)}
LastFile(f) == IF FileNums(f) = {} THEN 0 ELSE CHOOSE n \in FileNums(f) : \A k \in FileNums(f) : k <= n
NumsOf(recs) == {recs[i].num : i \in DOMAIN recs}
FirstOf(recs, n) == recs[Min({i \in DOMAIN recs : recs[i].num = n})]
LastOf(recs, n) == recs[Max({i \in DOMAIN recs : recs[i].num = n})]
Unread(flags) == IF "UNREAD" \in flags THEN 1 ELSE 0

\* The numbers in S from the least to the greatest, and the elements of a
\* sequence at the indices in S.
Ordered(S) ==
    [i \in 1..Cardinality(S) |-> CHOOSE n \in S : Cardinality({k \in S : k < n}) = i - 1]
Picked(seq, S) == LET is == Ordered(S) IN [i \in DOMAIN is |-> seq[is[i]]]

-----------------------------------------------------------------------------
\* Mark and cache files.  A new file changes the directory, and so its mtime.
\* half: the files with a piece of a record at their end, which is not read.
\* What is appended to it is not read as the marks that it is (here: is lost);
\* appended headers make it one that is not whole.

AppendMarks(f, recs) ==
    [f EXCEPT !.marks = Data(IF "marks" \in f.half THEN @.recs ELSE @.recs \o recs),
              !.fresh = @ /\ f.marks.state # "none"]
WriteMarks(f, recs) ==
    [f EXCEPT !.marks = Data(recs), !.half = @ \ {"marks"}, !.fresh = @ /\ f.marks.state # "none"]
AppendCache(f, recs) ==
    [f EXCEPT !.cache = IF @.state = "broken" \/ "cache" \in f.half THEN Broken
                        ELSE Data(@.recs \o recs),
              !.fresh = @ /\ f.cache.state # "none"]
WriteCacheData(f, recs) ==
    [f EXCEPT !.cache = Data(recs), !.half = @ \ {"cache"}, !.fresh = @ /\ f.cache.state # "none"]

MarkOf(r) == [num |-> r.num, flags |-> r.flags]
MarksOf(recs) == [i \in DOMAIN recs |-> MarkOf(recs[i])]
HeaderOf(r) == [num |-> r.num, msg |-> r.msg]
HeadersOf(recs) == [i \in DOMAIN recs |-> HeaderOf(recs[i])]

FlushMarkQueue(f) ==
    IF f.mark_queue = <<>> THEN f
    ELSE [AppendMarks(f, f.mark_queue) EXCEPT !.mark_queue = <<>>]
FlushCacheQueue(f) ==
    IF f.cache_queue = <<>> THEN f
    ELSE [AppendCache(f, HeadersOf(f.cache_queue)) EXCEPT !.cache_queue = <<>>]

\* The table of procmsg_read_mark_file: the last record of the file, but the
\* queue is walked from its newest entry, so that its oldest one stays.
Table(f) ==
    [n \in NumsOf(f.marks.recs) \cup NumsOf(f.mark_queue) |->
        IF n \in NumsOf(f.mark_queue) THEN FirstOf(f.mark_queue, n).flags
        ELSE LastOf(f.marks.recs, n).flags]

FlagsIn(table, n) == IF n \in DOMAIN table THEN table[n] ELSE Default

TableRecs(table) ==
    LET nums == Ordered(DOMAIN table)
    IN [i \in DOMAIN nums |-> [num |-> nums[i], flags |-> table[nums[i]]]]

\* What reading the marks does to the folder: a closed one gets its queue
\* written.
ReadMarks(f) ==
    IF f.marks.state # "ok" \/ f.mark_queue = <<>> THEN f
    ELSE IF f.opened THEN [f EXCEPT !.mark_dirty = TRUE]
    ELSE [f EXCEPT !.marks = Data(TableRecs(Table(f))), !.mark_queue = <<>>,
                   !.mark_dirty = FALSE, !.half = @ \ {"marks"}]

MarkedTable(f) == IF f.marks.state = "ok" THEN Table(f) ELSE <<>>
UnreadIn(table) == Cardinality({n \in DOMAIN table : "UNREAD" \in table[n]})

-----------------------------------------------------------------------------
\* Scanning, adding, removing (mh.c).

\* mh_scan_folder_full with count_sum
Scan(f) ==
    LET n_msg == Cardinality(FileNums(f))
        table == MarkedTable(f)
        unmarked == IF n_msg > Cardinality(DOMAIN table)
                    THEN n_msg - Cardinality(DOMAIN table) ELSE 0
        g == IF n_msg = 0 THEN [f EXCEPT !.unread = 0]
             ELSE [ReadMarks(f) EXCEPT !.unread = UnreadIn(table) + unmarked]
        h == IF g.opened \/ n_msg = 0 THEN g ELSE FlushCacheQueue(g)
    IN [h EXCEPT !.total = n_msg, !.last_num = LastFile(f), !.fresh = FALSE]

\* without it
Rescan(f) ==
    [f EXCEPT !.last_num = LastFile(f), !.fresh = FALSE,
              !.total = IF FileNums(f) = {} THEN 0 ELSE @,
              !.unread = IF FileNums(f) = {} THEN 0 ELSE @]

Scanned(f) == IF f.last_num < 0 THEN Scan(f) ELSE f

\* procmsg_flush_folder
FlushFolder(f) ==
    IF f.last_num < 0 THEN Scan(f)
    ELSE LET g == [ReadMarks(f) EXCEPT !.unread = UnreadIn(MarkedTable(f)),
                                       !.total = Cardinality(DOMAIN MarkedTable(f))]
         IN IF f.opened THEN g ELSE FlushCacheQueue(g)

\* Mutant of NewNum: existing files are not looked at.
NewNum_Unchecked(f) == f.last_num + 1

\* mh_get_new_msg_filename
NewNum(f) == CHOOSE n \in (f.last_num + 1)..(MaxNum + 1) :
                 /\ n > MaxNum \/ f.file[n] = None
                 /\ \A k \in (f.last_num + 1)..(n - 1) : f.file[k] # None

HasRoom(f, n) == Cardinality({k \in Nums : k > Scanned(f).last_num /\ f.file[k] = None}) >= n

ClearedFor(f, flags) == IF f.stype = "F_DRAFT" THEN flags \ {"UNREAD"} ELSE flags

\* The part of adding, moving and copying that is the same: one message file
\* and its place in the queue of headers.
Put(f, m, flags) ==
    [f EXCEPT !.file[NewNum(f)] = m, !.last_num = NewNum(f), !.total = @ + 1,
              !.unread = @ + Unread(flags), !.fresh = FALSE,
              !.cache_queue = Append(@, [num |-> NewNum(f), msg |-> m, flags |-> flags])]

\* One round of mh_add_msgs.  r: [msg, flags, received].  Marks of received
\* messages, and of a folder that is shown, are queued.
AddOne(f, r) ==
    LET g == Put(f, r.msg, r.flags)
        mark == [num |-> g.last_num,
                 flags |-> IF r.received THEN r.flags ELSE ClearedFor(f, r.flags)]
    IN IF r.received \/ f.opened THEN [g EXCEPT !.mark_queue = Append(@, mark)]
       ELSE AppendMarks(g, <<mark>>)

\* mh_add_msgs, mh_add_msgs_msginfo up to the message that cannot be copied
AddMsgs(f, rs) ==
    LET g == Scanned(f)
    IN FoldLeft(AddOne, IF g.opened THEN g ELSE AppendMarks(g, <<>>), rs)

\* One round of mh_do_move_msgs and mh_copy_msgs.
PutQueued(f, r) ==
    LET g == Put(f, r.msg, r.flags)
    IN [g EXCEPT !.mark_queue =
            Append(@, [num |-> g.last_num, flags |-> ClearedFor(f, r.flags)])]

\* mh_do_move_msgs and mh_copy_msgs at the destination
MoveMsgs(f, rs) ==
    LET g == FoldLeft(PutQueued, Scanned(f), rs)
    IN IF g.opened THEN g ELSE FlushCacheQueue(FlushMarkQueue(g))

\* Mutant of TakeAway: as if what is moved away were read.
TakeAway_Read(f, r) ==
    [f EXCEPT !.file[r.num] = None, !.total = @ - 1, !.fresh = FALSE]

\* mh_do_move_msgs at the source: one message leaves
TakeAway(f, r) ==
    [f EXCEPT !.file[r.num] = None, !.total = @ - 1, !.unread = @ - Unread(r.flags),
              !.fresh = FALSE]

\* mh_remove_msg
RemoveMsg(f, r) ==
    LET g == TakeAway(f, r) IN IF r.num = f.last_num THEN Rescan(g) ELSE g

\* mh_remove_all_msg; procmsg_clear_cache and procmsg_clear_mark with what
\* procmsg_empty_trash does after them
RemoveAllMsg(f) ==
    [f EXCEPT !.file = [n \in Nums |-> None], !.total = 0, !.unread = 0,
              !.last_num = 0, !.fresh = FALSE]
ClearCache(f) == [WriteCacheData(f, <<>>) EXCEPT !.cache_dirty = FALSE]
ClearMark(f) == [WriteMarks(f, <<>>) EXCEPT !.mark_dirty = FALSE]

\* procmsg_msg_exist: the file has the size and the time of the message
Exists(f, r) == r.num \in Nums /\ f.file[r.num] = r.msg

\* procmsg_add_flags of what procmsg_get_flags finds: the first record.
FirstFlags(f, n) ==
    IF f.marks.state # "ok" THEN Default
    ELSE IF n \in NumsOf(f.marks.recs) THEN FirstOf(f.marks.recs, n).flags
    ELSE IF n \in NumsOf(f.mark_queue) THEN LastOf(f.mark_queue, n).flags ELSE Default

AddFlags(f, n, flags) ==
    IF f.opened THEN [f EXCEPT !.mark_queue = Append(@, [num |-> n, flags |-> flags])]
    ELSE AppendMarks(f, <<[num |-> n, flags |-> flags]>>)

-----------------------------------------------------------------------------
\* The list of messages.

\* mh_get_uncached_msgs
Parsed(f, nums) ==
    LET seq == Ordered(nums) IN [i \in DOMAIN seq |-> [num |-> seq[i], msg |-> f.file[seq[i]]]]

\* mh_get_msg_list_full of a folder that is closed: the cached headers (all of
\* them if the directory has its mtime; if strict, those that are still right;
\* else the last one of each number that has a file), then the new files.
\* strict: strict_cache_check.
CachedHeaders(f) ==
    IF f.cache.state # "ok" THEN <<>> ELSE f.cache.recs \o HeadersOf(f.cache_queue)

ReadCached(f, strict) ==
    LET all == CachedHeaders(f)
    IN Picked(all, {i \in DOMAIN all : f.fresh \/ ~strict \/ Exists(f, all[i])})

LastWithFile(f, read) ==
    Picked(read, {i \in DOMAIN read :
                     /\ f.file[read[i].num] # None
                     /\ \A j \in DOMAIN read : read[j].num = read[i].num => j <= i})

CacheAndNew(f, read, cached, new) ==
    [f EXCEPT !.list = cached \o Parsed(f, new),
              !.cache_queue = IF f.cache.state = "ok" THEN <<>> ELSE @,
              !.cache_dirty = \/ @ \/ f.cache.state \in {"none", "torn"} \/ new # {}
                              \/ f.cache.state = "ok" /\ f.cache_queue # <<>>
                              \/ Len(cached) < Len(CachedHeaders(f)),
              !.mark_dirty = @ \/ Len(cached) < Len(read)]

ReadCache(f, strict, read) ==
    CacheAndNew(f, read, IF f.fresh \/ strict THEN read ELSE LastWithFile(f, read),
                IF f.fresh /\ read # <<>> THEN {} ELSE FileNums(f) \ NumsOf(read))

\* procmsg_set_flags
SetFlags(f, table) ==
    [ReadMarks(f) EXCEPT
        !.list = [i \in DOMAIN @ |-> [num |-> @[i].num, msg |-> @[i].msg,
                                     flags |-> FlagsIn(table, @[i].num)]],
        !.total = Len(f.list), !.fresh = TRUE,
        !.unread = Cardinality({i \in DOMAIN f.list : "UNREAD" \in FlagsIn(table, f.list[i].num)}),
        !.last_num = IF f.marks.state # "ok" THEN @
                     ELSE IF f.list = <<>> THEN 0
                     ELSE CHOOSE n \in NumsOf(f.list) : \A k \in NumsOf(f.list) : k <= n,
        !.mark_dirty = @ \/ f.marks.state # "ok" \/ ~(NumsOf(f.list) \subseteq DOMAIN table)]

\* procmsg_write_cache_list, procmsg_write_flags_list
WriteCacheList(f) ==
    IF ~f.cache_dirty THEN f
    ELSE [FlushCacheQueue(WriteCacheData(f, HeadersOf(f.list))) EXCEPT !.cache_dirty = FALSE]
WriteFlagsList(f) ==
    IF ~f.mark_dirty THEN f
    ELSE [FlushMarkQueue(WriteMarks(f, MarksOf(f.list))) EXCEPT !.mark_dirty = FALSE]

GetMsgList(f, strict) ==
    LET g == ReadCache(f, strict, ReadCached(f, strict))
    IN WriteFlagsList(WriteCacheList(SetFlags(g, MarkedTable(f))))

MarksPending(f) == f.mark_dirty \/ f.mark_queue # <<>> \/ f.cache_dirty

\* summary_write_cache
WriteCache(f) ==
    IF ~MarksPending(f) THEN f
    ELSE LET g == IF f.cache_dirty THEN WriteCacheData(f, HeadersOf(f.list)) ELSE f
         IN [FlushMarkQueue(WriteMarks(FlushCacheQueue(g), MarksOf(f.list)))
               EXCEPT !.cache_dirty = FALSE, !.mark_dirty = FALSE]

\* Mutant of Close: the rows are kept.
Close_KeepRows(f) == [f EXCEPT !.opened = FALSE]

\* summary_clear_list_full: folder_item_close
Close(f) == [f EXCEPT !.opened = FALSE, !.list = <<>>]

\* summary_show of a folder that is closed
Open(f, strict) == [WriteCache(GetMsgList(f, strict)) EXCEPT !.opened = TRUE]

\* summary_show of the folder that is shown
Refresh(f, strict) == Open(Close(WriteCache(f)), strict)

\* Mutant of ShowQueued: the marks that wait are kept.
ShowQueued_KeepHeaders(f) ==
    [f EXCEPT !.list = @ \o f.cache_queue, !.mark_queue = <<>>, !.cache_dirty = TRUE]

\* summary_show_queued_msgs
ShowQueued(f) ==
    IF f.cache_queue = <<>> THEN f
    ELSE [f EXCEPT !.list = @ \o f.cache_queue, !.mark_queue = <<>>, !.cache_queue = <<>>,
                   !.cache_dirty = TRUE]
=============================================================================
