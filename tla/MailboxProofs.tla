---------------------------- MODULE MailboxProofs ----------------------------
(***************************************************************************)
(* An MH folder is a mailbox, and the folder tree counts it: what its      *)
(* marks, its rows and its queues say of each message, whatever handler    *)
(* runs.  The invariant of MhFolderProofs, about the files and the rows,   *)
(* is what this one rests on.                                              *)
(***************************************************************************)
EXTENDS MhFolderProofs

-----------------------------------------------------------------------------
\* What the marks say.

HasMark(f, n) == n \in NumsOf(f.mark_queue) \/ n \in NumsOf(f.marks.recs)
MarkFor(f, n) ==
    IF n \in NumsOf(f.mark_queue) THEN FirstOf(f.mark_queue, n).flags
    ELSE IF n \in NumsOf(f.marks.recs) THEN LastOf(f.marks.recs, n).flags ELSE Default

\* A record that is the only one of its number is the first and the last.
LEMMA OnlyRecord ==
    ASSUME NEW R, NEW rs \in Seq(R), Distinct(rs), NEW i \in 1..Len(rs)
    PROVE  /\ rs[i].num \in NumsOf(rs)
           /\ FirstOf(rs, rs[i].num) = rs[i] /\ LastOf(rs, rs[i].num) = rs[i]
<1>1. PICK n : n = rs[i].num
  OBVIOUS
<1>2. n \in NumsOf(rs)
  BY <1>1, NumsOfIs
<1>3. PICK j \in 1..Len(rs) : FirstOf(rs, n) = rs[j] /\ rs[j].num = n
  BY <1>2, RecordOf
<1>4. PICK k \in 1..Len(rs) : LastOf(rs, n) = rs[k] /\ rs[k].num = n
  BY <1>2, RecordOf
<1>5. j = i /\ k = i
  BY <1>1, <1>3, <1>4 DEF Distinct
<1> QED
  BY <1>1, <1>2, <1>3, <1>4, <1>5

LEMMA TableIs ==
    ASSUME NEW f
    PROVE  /\ \A n : n \in DOMAIN Table(f) <=> HasMark(f, n)
           /\ \A n \in DOMAIN Table(f) : Table(f)[n] = MarkFor(f, n)
           /\ \A n : FlagsIn(Table(f), n) = MarkFor(f, n)
<1>1. \A n : n \in DOMAIN Table(f) <=> HasMark(f, n)
  BY DEF Table, HasMark
<1>2. \A n \in DOMAIN Table(f) : Table(f)[n] = MarkFor(f, n)
  BY <1>1 DEF Table, HasMark, MarkFor
<1>3. \A n : FlagsIn(Table(f), n) = MarkFor(f, n)
  BY <1>1, <1>2 DEF FlagsIn, HasMark, MarkFor
<1> QED
  BY <1>1, <1>2, <1>3

\* Only the summary, which writes them, and a folder with marks that wait need a
\* file that can be read.
ReadableMarks(f) == f.marks.state # "ok" => f.marks.recs = <<>>
Ready(f) == f.opened \/ f.mark_queue # <<>> => f.marks.state = "ok"

LEMMA MarkedTableIs ==
    ASSUME NEW f, ReadableMarks(f), Ready(f)
    PROVE  /\ \A n : n \in DOMAIN MarkedTable(f) <=> HasMark(f, n)
           /\ \A n \in DOMAIN MarkedTable(f) : MarkedTable(f)[n] = MarkFor(f, n)
           /\ \A n : FlagsIn(MarkedTable(f), n) = MarkFor(f, n)
<1>1. CASE f.marks.state = "ok"
  <2>1. MarkedTable(f) = Table(f)
    BY <1>1 DEF MarkedTable
  <2> QED
    BY <2>1, TableIs
<1>2. CASE f.marks.state # "ok"
  <2>1. f.marks.recs = <<>> /\ f.mark_queue = <<>>
    BY <1>2 DEF ReadableMarks, Ready
  <2>2. DOMAIN MarkedTable(f) = {}
    BY <1>2 DEF MarkedTable
  <2>3. \A n : ~HasMark(f, n) /\ MarkFor(f, n) = Default
    BY <2>1, EmptyIs DEF HasMark, MarkFor
  <2> QED
    BY <2>2, <2>3 DEF FlagsIn
<1> QED
  BY <1>1, <1>2

\* A mark is of a file, or of a draft whose number is not given again.  A number
\* is marked once in the queue, and not in the file then; the records that the
\* file has of it differ only in flags that a reply adds.
KnownMark(f, n) == n \in FileNums(f) \/ (f.stype = "F_DRAFT" /\ \E k \in FileNums(f) : n < k)
KnownMarks(f) == \A n : HasMark(f, n) => KnownMark(f, n)
Agree(rs) ==
    \A i, j \in 1..Len(rs) : rs[i].num = rs[j].num => rs[i].flags \ UserFlags = rs[j].flags \ UserFlags
Filed(f) ==
    /\ KnownMarks(f)
    /\ Distinct(f.mark_queue) /\ Apart(f.marks.recs, f.mark_queue)
    /\ Agree(f.marks.recs)
    /\ ReadableMarks(f)

SameTable(f, g) == \A n : (HasMark(g, n) <=> HasMark(f, n)) /\ MarkFor(g, n) = MarkFor(f, n)

LEMMA DistinctAgree ==
    ASSUME NEW rs, Distinct(rs)
    PROVE  Agree(rs)
BY DEF Distinct, Agree

\* What is known of the marks depends on the files.
LEMMA KnownAs ==
    ASSUME NEW f, NEW g, KnownMarks(f), g.file = f.file, g.stype = f.stype,
           \A n : HasMark(g, n) => HasMark(f, n)
    PROVE  KnownMarks(g)
<1>1. FileNums(g) = FileNums(f)
  BY SameFiles
<1> QED
  BY <1>1 DEF KnownMarks, KnownMark

\* The marks of a number, where one sequence holds each once.
LEMMA MarksAre ==
    ASSUME NEW g, NEW rs \in Seq(Marks), Distinct(rs), g.marks.recs = rs, g.mark_queue = <<>>
    PROVE  /\ \A n : HasMark(g, n) <=> n \in NumsOf(rs)
           /\ \A i \in 1..Len(rs) : MarkFor(g, rs[i].num) = rs[i].flags
           /\ \A n : ~HasMark(g, n) => MarkFor(g, n) = Default
           /\ Distinct(g.mark_queue) /\ Apart(g.marks.recs, g.mark_queue) /\ Agree(g.marks.recs)
<1>1. \A n : n \notin NumsOf(g.mark_queue)
  BY EmptyIs
<1>2. \A i \in 1..Len(rs) : rs[i].num \in NumsOf(rs) /\ LastOf(rs, rs[i].num) = rs[i]
  BY OnlyRecord
<1> QED
  BY <1>1, <1>2, EmptyIs, DistinctAgree DEF HasMark, MarkFor

LEMMA SettledTable ==
    ASSUME NEW f \in FolderItems, NEW g, g.file = f.file, g.stype = f.stype, Filed(f),
           \/ g.marks = f.marks /\ g.mark_queue = f.mark_queue
           \/ g.mark_queue = <<>> /\ g.marks.recs = TableRecs(Table(f)) /\ g.marks.state = "ok"
    PROVE  Filed(g) /\ SameTable(f, g)
<1>1. CASE g.marks = f.marks /\ g.mark_queue = f.mark_queue
  <2>1. SameTable(f, g)
    BY <1>1 DEF SameTable, HasMark, MarkFor
  <2>2. KnownMarks(g)
    BY <2>1, KnownAs DEF Filed, SameTable
  <2> QED
    BY <1>1, <2>1, <2>2 DEF Filed, ReadableMarks
<1>2. CASE g.mark_queue = <<>> /\ g.marks.recs = TableRecs(Table(f)) /\ g.marks.state = "ok"
  <2>1. PICK T : T = Table(f)
    OBVIOUS
  <2>2. DOMAIN T \in SUBSET Nums /\ \A n \in DOMAIN T : T[n] \in Flags
    BY <2>1, TableTypes
  <2>3. PICK rs : rs = TableRecs(T)
    OBVIOUS
  <2>4. rs \in Seq(Marks) /\ Len(rs) \in Nat
    BY <2>2, <2>3, TableRecsIs
  <2>5. \A i \in 1..Len(rs) : rs[i].num \in DOMAIN T /\ rs[i].flags = T[rs[i].num]
    BY <2>2, <2>3, TableRecsIs
  <2>6. \A n \in DOMAIN T : \E i \in 1..Len(rs) : rs[i].num = n
    BY <2>2, <2>3, TableRecsIs
  <2>7. Distinct(rs)
    <3>1. \A i, j \in 1..Len(rs) : rs[i].num = rs[j].num => i = j
      BY <2>2, <2>3, TableRecsIs
    <3> QED
      BY <3>1 DEF Distinct
  <2>8. \A n : n \in NumsOf(rs) <=> \E i \in 1..Len(rs) : rs[i].num = n
    BY <2>4, NumsOfIs
  <2>9. /\ \A n : HasMark(g, n) <=> n \in NumsOf(rs)
        /\ \A i \in 1..Len(rs) : MarkFor(g, rs[i].num) = rs[i].flags
        /\ \A n : ~HasMark(g, n) => MarkFor(g, n) = Default
        /\ Distinct(g.mark_queue) /\ Apart(g.marks.recs, g.mark_queue) /\ Agree(g.marks.recs)
    BY <1>2, <2>1, <2>3, <2>4, <2>7, MarksAre
  <2>10. /\ \A n : n \in DOMAIN T <=> HasMark(f, n)
         /\ \A n \in DOMAIN T : T[n] = MarkFor(f, n)
    BY <2>1, TableIs
  <2>11. \A n : HasMark(g, n) <=> HasMark(f, n)
    BY <2>5, <2>6, <2>8, <2>9, <2>10
  <2>12. ASSUME NEW n PROVE MarkFor(g, n) = MarkFor(f, n)
    <3>1. CASE HasMark(f, n)
      <4>1. PICK i \in 1..Len(rs) : rs[i].num = n
        BY <2>6, <2>10, <3>1
      <4> QED
        BY <2>5, <2>9, <2>10, <4>1
    <3>2. CASE ~HasMark(f, n)
      BY <2>9, <2>11, <3>2 DEF HasMark, MarkFor
    <3> QED
      BY <3>1, <3>2
  <2>13. KnownMarks(g)
    BY <2>11, KnownAs DEF Filed
  <2> QED
    BY <1>2, <2>9, <2>11, <2>12, <2>13 DEF Filed, ReadableMarks, SameTable
<1> QED
  BY <1>1, <1>2

-----------------------------------------------------------------------------
\* The flags that a folder shows, and the marks of a folder that is shown.

Shown(f, n) ==
    IF ~f.opened THEN MarkFor(f, n)
    ELSE IF n \in NumsOf(f.list) THEN FirstOf(f.list, n).flags
    ELSE IF n \in NumsOf(f.cache_queue) THEN FirstOf(f.cache_queue, n).flags
    ELSE MarkFor(f, n)

\* A mark waits for each header that does.
Echo(q, hs) ==
    Len(q) = Len(hs) /\ \A i \in 1..Len(hs) : q[i].num = hs[i].num /\ q[i].flags = hs[i].flags
\* A file with a mark has its row, and unless the rows are to be written, the
\* mark has the flags of the row.
RowsMarked(f) == \A n \in FileNums(f) : n \in NumsOf(f.marks.recs) => n \in NumsOf(f.list)
RowsWritten(f) ==
    ~f.mark_dirty /\ ~f.cache_dirty =>
        \A i \in 1..Len(f.list) : /\ f.list[i].num \in NumsOf(f.marks.recs)
                                  /\ LastOf(f.marks.recs, f.list[i].num).flags = f.list[i].flags
OpenMarks(f) == Echo(f.mark_queue, f.cache_queue) /\ RowsMarked(f) /\ RowsWritten(f)

\* No message is in two files.
Unique(f) == \A k, n \in FileNums(f) : f.file[k] = f.file[n] => k = n
Marked(f) == Filed(f) /\ Ready(f) /\ Unique(f) /\ (f.opened => OpenMarks(f))

SameShown(f, g) ==
    g.file = f.file /\ g.stype = f.stype /\ \A n \in FileNums(f) : Shown(g, n) = Shown(f, n)

LEMMA EchoNums ==
    ASSUME NEW q \in Seq(Marks), NEW hs \in Seq(MsgInfos), Echo(q, hs)
    PROVE  /\ \A n : n \in NumsOf(q) <=> n \in NumsOf(hs)
           /\ Distinct(hs) => Distinct(q)
           /\ q = <<>> <=> hs = <<>>
<1>1. \A n : n \in NumsOf(q) <=> \E i \in 1..Len(q) : q[i].num = n
  BY NumsOfIs
<1>2. \A n : n \in NumsOf(hs) <=> \E i \in 1..Len(hs) : hs[i].num = n
  BY NumsOfIs
<1>3. q = <<>> <=> Len(q) = 0
  OBVIOUS
<1>4. hs = <<>> <=> Len(hs) = 0
  OBVIOUS
<1> QED
  BY <1>1, <1>2, <1>3, <1>4 DEF Echo, Distinct

LEMMA ShownIs ==
    ASSUME NEW f \in FolderItems, f.opened, Distinct(f.list), Distinct(f.cache_queue),
           Apart(f.list, f.cache_queue)
    PROVE  /\ \A i \in 1..Len(f.list) : Shown(f, f.list[i].num) = f.list[i].flags
           /\ \A i \in 1..Len(f.cache_queue) : Shown(f, f.cache_queue[i].num) = f.cache_queue[i].flags
           /\ Echo(f.mark_queue, f.cache_queue) /\ RowsMarked(f) =>
                 \A n \in FileNums(f) :
                    n \notin NumsOf(f.list) /\ n \notin NumsOf(f.cache_queue) =>
                       ~HasMark(f, n) /\ Shown(f, n) = Default
<1>1. PICK l \in Seq(MsgInfos) : l = f.list
  BY DEF FolderItems
<1>2. PICK c \in Seq(MsgInfos) : c = f.cache_queue
  BY DEF FolderItems
<1>3. PICK q \in Seq(Marks) : q = f.mark_queue
  BY DEF FolderItems
<1>4. Distinct(l) /\ Distinct(c) /\ Apart(l, c)
  BY <1>1, <1>2
<1>5. \A i \in 1..Len(l) : l[i].num \in NumsOf(l) /\ FirstOf(l, l[i].num) = l[i]
  BY <1>4, OnlyRecord
<1>6. \A i \in 1..Len(c) : c[i].num \in NumsOf(c) /\ FirstOf(c, c[i].num) = c[i]
  BY <1>4, OnlyRecord
<1>7. \A i \in 1..Len(l) : Shown(f, l[i].num) = l[i].flags
  BY <1>1, <1>5 DEF Shown
<1>8. \A i \in 1..Len(c) : Shown(f, c[i].num) = c[i].flags
  <2>1. \A i \in 1..Len(c) : c[i].num \notin NumsOf(l)
    BY <1>4, <1>6 DEF Apart
  <2> QED
    BY <1>1, <1>2, <1>6, <2>1 DEF Shown
<1>9. ASSUME Echo(q, c), RowsMarked(f), NEW n \in FileNums(f), n \notin NumsOf(l), n \notin NumsOf(c)
      PROVE  ~HasMark(f, n) /\ Shown(f, n) = Default
  <2>1. n \notin NumsOf(q)
    BY <1>9, EchoNums
  <2>2. n \notin NumsOf(f.marks.recs)
    BY <1>1, <1>9 DEF RowsMarked
  <2> QED
    BY <1>1, <1>2, <1>3, <1>9, <2>1, <2>2 DEF Shown, HasMark, MarkFor
<1> QED
  BY <1>1, <1>2, <1>3, <1>7, <1>8, <1>9

LEMMA SoundKnown ==
    ASSUME NEW f \in FolderItems, NEW rs \in Seq(MsgInfos), AllSound(f, rs)
    PROVE  \A i \in 1..Len(rs) : KnownMark(f, rs[i].num)
<1> SUFFICES ASSUME NEW i \in 1..Len(rs) PROVE KnownMark(f, rs[i].num)
  OBVIOUS
<1>1. rs[i] \in MsgInfos
  OBVIOUS
<1>2. rs[i].num \in Nums /\ rs[i].msg \in Msgs
  BY <1>1 DEF MsgInfos
<1>3. Sound(f, rs[i])
  BY DEF AllSound
<1> QED
  BY <1>2, <1>3, NoneAssumption DEF Sound, KnownMark, FileNums

\* The marks file has what is shown, and nothing waits.
Wrote(f, g) ==
    /\ Filed(g) /\ g.marks.state = "ok" /\ g.mark_queue = <<>>
    /\ \A n \in FileNums(f) : MarkFor(g, n) = Shown(f, n)
    /\ \A n \in FileNums(f) : n \in NumsOf(f.list) \/ n \in NumsOf(f.cache_queue) => HasMark(g, n)

\* Rows that can be written.
Listable(f) ==
    /\ f.opened
    /\ Distinct(f.list) /\ Distinct(f.cache_queue) /\ Apart(f.list, f.cache_queue)
    /\ AllSound(f, f.list) /\ AllSound(f, f.cache_queue)

LEMMA WritePending ==
    ASSUME NEW f \in FolderItems, Listable(f), MarksPending(f),
           Echo(f.mark_queue, f.cache_queue), RowsMarked(f), NEW g, g = WriteCache(f)
    PROVE  Wrote(f, g) /\ \A n : HasMark(g, n) => n \in NumsOf(f.list) \/ n \in NumsOf(f.cache_queue)
<1>1. PICK l \in Seq(MsgInfos) : l = f.list
  BY DEF FolderItems
<1>2. PICK c \in Seq(MsgInfos) : c = f.cache_queue
  BY DEF FolderItems
<1>3. PICK q \in Seq(Marks) : q = f.mark_queue
  BY DEF FolderItems
<1>4. /\ Distinct(l) /\ Distinct(c) /\ Apart(l, c) /\ AllSound(f, l) /\ AllSound(f, c)
      /\ Echo(q, c)
  BY <1>1, <1>2, <1>3 DEF Listable
<1>5. PICK ms : ms = MarksOf(l)
  OBVIOUS
<1>6. /\ ms \in Seq(Marks) /\ Len(ms) = Len(l) /\ Len(l) \in Nat
      /\ \A i \in 1..Len(l) : ms[i].num = l[i].num /\ ms[i].flags = l[i].flags
  BY <1>5, MarksTypes
<1>7. PICK rs : rs = Joined(ms, q)
  OBVIOUS
<1>8. /\ g.file = f.file /\ g.stype = f.stype /\ g.mark_queue = <<>>
      /\ g.marks.state = "ok" /\ g.marks.recs = rs
  <2>1. SameMail(f, g) /\ g.mark_queue = <<>>
    BY WriteCacheIs
  <2>2. g.marks.state = "ok" /\ g.marks.recs = Joined(MarksOf(f.list), f.mark_queue)
    BY WriteCacheIs
  <2> QED
    BY <1>1, <1>3, <1>5, <1>7, <2>1, <2>2 DEF SameMail
<1>9. /\ \A n : n \in NumsOf(l) <=> \E i \in 1..Len(l) : l[i].num = n
      /\ \A n : n \in NumsOf(ms) <=> \E i \in 1..Len(ms) : ms[i].num = n
  BY <1>6, NumsOfIs
<1>10. \A n : n \in NumsOf(ms) <=> n \in NumsOf(l)
  BY <1>6, <1>9
<1>11. /\ \A n : n \in NumsOf(q) <=> n \in NumsOf(c)
       /\ Distinct(q)
  BY <1>4, EchoNums
<1>12. Distinct(ms)
  BY <1>4, <1>6 DEF Distinct
<1>13. Apart(ms, q)
  BY <1>4, <1>10, <1>11 DEF Apart
<1>14. /\ rs \in Seq(Marks) /\ Distinct(rs)
       /\ \A n : n \in NumsOf(rs) <=> n \in NumsOf(ms) \/ n \in NumsOf(q)
  <2>1. rs \in Seq(Marks) /\ Distinct(rs)
    BY <1>6, <1>7, <1>11, <1>12, <1>13, JoinedIs
  <2>2. \A n : n \in NumsOf(rs) <=> n \in NumsOf(ms) \/ n \in NumsOf(q)
    BY <1>6, <1>7, JoinedIs
  <2> QED
    BY <2>1, <2>2
<1>15. /\ \A n : HasMark(g, n) <=> n \in NumsOf(rs)
       /\ \A i \in 1..Len(rs) : MarkFor(g, rs[i].num) = rs[i].flags
       /\ \A n : ~HasMark(g, n) => MarkFor(g, n) = Default
       /\ Distinct(g.mark_queue) /\ Apart(g.marks.recs, g.mark_queue) /\ Agree(g.marks.recs)
  BY <1>8, <1>14, MarksAre
<1>16. \A n : HasMark(g, n) <=> n \in NumsOf(l) \/ n \in NumsOf(c)
  BY <1>10, <1>11, <1>14, <1>15
<1>17. Joins(ms, q, rs)
  BY <1>6, <1>7, JoinedParts
<1>18. \A i \in 1..Len(l) : MarkFor(g, l[i].num) = l[i].flags
  <2> SUFFICES ASSUME NEW i \in 1..Len(l) PROVE MarkFor(g, l[i].num) = l[i].flags
    OBVIOUS
  <2>1. i \in 1..Len(rs) /\ rs[i] = ms[i]
    BY <1>6, <1>17 DEF Joins
  <2> QED
    BY <1>6, <1>15, <2>1
<1>19. \A i \in 1..Len(c) : MarkFor(g, c[i].num) = c[i].flags
  <2> SUFFICES ASSUME NEW i \in 1..Len(c) PROVE MarkFor(g, c[i].num) = c[i].flags
    OBVIOUS
  <2>1. i \in 1..Len(q) /\ q[i].num = c[i].num /\ q[i].flags = c[i].flags
    BY <1>4 DEF Echo
  <2>2. Len(ms) + i \in 1..Len(rs) /\ rs[Len(ms) + i] = q[i]
    BY <1>17, <2>1 DEF Joins
  <2>3. MarkFor(g, rs[Len(ms) + i].num) = rs[Len(ms) + i].flags
    BY <1>15, <2>2
  <2> QED
    BY <2>1, <2>2, <2>3
<1>20. /\ \A i \in 1..Len(l) : Shown(f, l[i].num) = l[i].flags
       /\ \A i \in 1..Len(c) : Shown(f, c[i].num) = c[i].flags
       /\ \A n \in FileNums(f) : n \notin NumsOf(l) /\ n \notin NumsOf(c) => Shown(f, n) = Default
  BY <1>1, <1>2, ShownIs DEF Listable
<1>21. \A n : n \in NumsOf(c) <=> \E i \in 1..Len(c) : c[i].num = n
  BY NumsOfIs
<1>22. ASSUME NEW n \in FileNums(f) PROVE MarkFor(g, n) = Shown(f, n)
  <2>1. CASE n \in NumsOf(l)
    <3>1. PICK i \in 1..Len(l) : l[i].num = n
      BY <1>9, <2>1
    <3> QED
      BY <1>18, <1>20, <3>1
  <2>2. CASE n \in NumsOf(c)
    <3>1. PICK i \in 1..Len(c) : c[i].num = n
      BY <1>21, <2>2
    <3> QED
      BY <1>19, <1>20, <3>1
  <2>3. CASE n \notin NumsOf(l) /\ n \notin NumsOf(c)
    BY <1>15, <1>16, <1>20, <2>3
  <2> QED
    BY <2>1, <2>2, <2>3
<1>23. KnownMarks(g)
  <2>1. \A n : KnownMark(g, n) <=> KnownMark(f, n)
    <3>1. FileNums(g) = FileNums(f)
      BY <1>8, SameFiles
    <3> QED
      BY <1>8, <3>1 DEF KnownMark
  <2>2. \A i \in 1..Len(l) : KnownMark(f, l[i].num)
    BY <1>4, SoundKnown
  <2>3. \A i \in 1..Len(c) : KnownMark(f, c[i].num)
    BY <1>4, SoundKnown
  <2> QED
    BY <1>9, <1>16, <1>21, <2>1, <2>2, <2>3, SMTT(30) DEF KnownMarks
<1>24. Filed(g)
  BY <1>8, <1>15, <1>23 DEF Filed, ReadableMarks
<1> QED
  BY <1>1, <1>2, <1>8, <1>16, <1>22, <1>24 DEF Wrote

LEMMA WriteCacheMarks ==
    ASSUME NEW f \in FolderItems, Listable(f), OpenMarks(f), MarksPending(f) \/ (Filed(f) /\ Ready(f)),
           NEW g, g = WriteCache(f)
    PROVE  /\ Wrote(f, g)
           /\ f.cache_queue = <<>> => OpenMarks(g) /\ SameShown(f, g)
<1>0. Echo(f.mark_queue, f.cache_queue) /\ RowsMarked(f)
  BY DEF OpenMarks
<1>1. PICK l \in Seq(MsgInfos) : l = f.list
  BY DEF FolderItems
<1>2. \A n : n \in NumsOf(l) <=> \E i \in 1..Len(l) : l[i].num = n
  BY NumsOfIs
<1>3. /\ \A i \in 1..Len(l) : Shown(f, l[i].num) = l[i].flags
      /\ \A n \in FileNums(f) : n \notin NumsOf(f.list) /\ n \notin NumsOf(f.cache_queue)
            => ~HasMark(f, n) /\ Shown(f, n) = Default
  BY <1>0, <1>1, ShownIs DEF Listable
<1>4. SameMail(f, g) /\ g.mark_queue = <<>>
  BY WriteCacheIs
<1>5. Wrote(f, g)
  <2>1. CASE MarksPending(f)
    BY <1>0, <2>1, WritePending
  <2>2. CASE ~MarksPending(f)
    <3>1. g = f /\ ~f.mark_dirty /\ ~f.cache_dirty /\ f.mark_queue = <<>>
      BY <2>2, WriteCacheIs DEF MarksPending
    <3>2. f.cache_queue = <<>>
      <4>1. f.mark_queue \in Seq(Marks) /\ f.cache_queue \in Seq(MsgInfos)
        BY DEF FolderItems
      <4> QED
        BY <1>0, <3>1, <4>1, EchoNums
    <3>3. \A i \in 1..Len(l) : l[i].num \in NumsOf(f.marks.recs)
                               /\ LastOf(f.marks.recs, l[i].num).flags = l[i].flags
      BY <1>1, <3>1 DEF OpenMarks, RowsWritten
    <3>4. \A i \in 1..Len(l) : HasMark(f, l[i].num) /\ MarkFor(f, l[i].num) = l[i].flags
      BY <3>1, <3>3, EmptyIs DEF HasMark, MarkFor
    <3>5. ASSUME NEW n \in FileNums(f) PROVE MarkFor(g, n) = Shown(f, n)
      <4>1. CASE n \in NumsOf(l)
        <5>1. PICK i \in 1..Len(l) : l[i].num = n
          BY <1>2, <4>1
        <5> QED
          BY <1>3, <3>1, <3>4, <5>1
      <4>2. CASE n \notin NumsOf(l)
        <5>1. n \notin NumsOf(f.cache_queue)
          BY <3>2, EmptyIs
        <5>2. ~HasMark(f, n) /\ Shown(f, n) = Default
          BY <1>1, <1>3, <4>2, <5>1
        <5> QED
          BY <3>1, <5>2 DEF HasMark, MarkFor
      <4> QED
        BY <4>1, <4>2
    <3>6. \A n \in FileNums(f) : n \in NumsOf(f.list) \/ n \in NumsOf(f.cache_queue) => HasMark(g, n)
      BY <1>1, <1>2, <3>1, <3>2, <3>4, EmptyIs
    <3> QED
      BY <2>2, <3>1, <3>5, <3>6 DEF Wrote, Ready, Listable
  <2> QED
    BY <2>1, <2>2
<1>6. ASSUME f.cache_queue = <<>> PROVE OpenMarks(g) /\ SameShown(f, g)
  <2>1. g.list = l /\ g.opened /\ g.file = f.file /\ g.stype = f.stype
    BY <1>1, <1>4 DEF SameMail, Listable
  <2>2. g.cache_queue = <<>>
    BY <1>6, WriteCacheIs
  <2>3. FileNums(g) = FileNums(f)
    BY <2>1, SameFiles
  <2>4. Echo(g.mark_queue, g.cache_queue)
    BY <1>4, <2>2 DEF Echo
  <2>5. \A n \in FileNums(f) : HasMark(g, n) => n \in NumsOf(l)
    <3>1. CASE MarksPending(f)
      BY <1>0, <1>1, <1>6, <3>1, WritePending, EmptyIs
    <3>2. CASE ~MarksPending(f)
      BY <1>1, <1>3, <1>6, <3>2, WriteCacheIs, EmptyIs
    <3> QED
      BY <3>1, <3>2
  <2>6. RowsMarked(g)
    BY <2>1, <2>3, <2>5 DEF RowsMarked, HasMark
  <2>7. \A n : n \notin NumsOf(g.mark_queue) /\ n \notin NumsOf(g.cache_queue)
    BY <1>4, <2>2, EmptyIs
  <2>8. RowsWritten(g)
    <3> SUFFICES ASSUME NEW i \in 1..Len(l), ~g.mark_dirty, ~g.cache_dirty
                 PROVE  /\ l[i].num \in NumsOf(g.marks.recs)
                        /\ LastOf(g.marks.recs, l[i].num).flags = l[i].flags
      BY <2>1 DEF RowsWritten
    <3>1. CASE MarksPending(f)
      <4>1. PICK ms \in Seq(Marks) : ms = MarksOf(l)
        BY MarksTypes
      <4>2. g.marks.recs = Joined(ms, f.mark_queue)
        BY <1>1, <3>1, <4>1, WriteCacheIs
      <4>3. f.mark_queue = <<>>
        <5>1. f.mark_queue \in Seq(Marks) /\ f.cache_queue \in Seq(MsgInfos)
          BY DEF FolderItems
        <5> QED
          BY <1>0, <1>6, <5>1, EchoNums
      <4>4. g.marks.recs = ms
        BY <4>2, <4>3, ConcatEmptySeq DEF Joined
      <4>5. /\ Len(ms) = Len(l)
            /\ \A j \in 1..Len(l) : ms[j].num = l[j].num /\ ms[j].flags = l[j].flags
        BY <4>1, MarksTypes
      <4>6. Distinct(ms)
        BY <1>1, <4>5 DEF Distinct, Listable
      <4>7. ms[i].num \in NumsOf(ms) /\ LastOf(ms, ms[i].num) = ms[i]
        BY <4>5, <4>6, OnlyRecord
      <4> QED
        BY <4>4, <4>5, <4>7
    <3>2. CASE ~MarksPending(f)
      <4>1. g = f /\ ~f.mark_dirty /\ ~f.cache_dirty
        BY <3>2, WriteCacheIs DEF MarksPending
      <4> QED
        BY <1>1, <4>1 DEF OpenMarks, RowsWritten
    <3> QED
      BY <3>1, <3>2
  <2>9. SameShown(f, g)
    <3> SUFFICES ASSUME NEW n \in FileNums(f) PROVE Shown(g, n) = Shown(f, n)
      BY <2>1 DEF SameShown
    <3>1. CASE n \in NumsOf(l)
      BY <1>1, <2>1, <3>1 DEF Shown, Listable
    <3>2. CASE n \notin NumsOf(l)
      <4>1. Shown(g, n) = MarkFor(g, n)
        BY <2>1, <2>7, <3>2 DEF Shown
      <4> QED
        BY <1>5, <4>1 DEF Wrote
    <3> QED
      BY <3>1, <3>2
  <2> QED
    BY <2>4, <2>6, <2>8, <2>9 DEF OpenMarks
<1> QED
  BY <1>5, <1>6

-----------------------------------------------------------------------------
\* The numbers that are counted.

LEMMA SameCount ==
    ASSUME NEW S, IsFiniteSet(S), NEW T, NEW h, h = [x \in S |-> h[x]],
           \A x \in S : h[x] \in T, \A x, y \in S : h[x] = h[y] => x = y,
           \A y \in T : \E x \in S : h[x] = y
    PROVE  IsFiniteSet(T) /\ Cardinality(T) = Cardinality(S)
<1>1. h \in Bijection(S, T)
  BY DEF Bijection, Injection, IsInjective, Surjection
<1>2. ExistsBijection(S, T)
  BY <1>1 DEF ExistsBijection
<1> QED
  BY <1>2, FS_Bijection

\* Rows with a number each are as many as their numbers.
LEMMA RowCount ==
    ASSUME NEW R, NEW rs \in Seq(R), Distinct(rs), NEW I \in SUBSET (1..Len(rs)), NEW T,
           \A i \in I : rs[i].num \in T, \A n \in T : \E i \in I : rs[i].num = n
    PROVE  Cardinality(T) = Cardinality(I)
<1>1. IsFiniteSet(1..Len(rs)) /\ Len(rs) \in Nat
  BY FS_Interval
<1>2. IsFiniteSet(I)
  BY <1>1, FS_Subset
<1>3. PICK h : h = [i \in I |-> rs[i].num]
  OBVIOUS
<1>4. h = [i \in I |-> h[i]] /\ \A i \in I : h[i] = rs[i].num
  BY <1>3
<1>5. \A i, j \in I : h[i] = h[j] => i = j
  BY <1>4 DEF Distinct
<1> QED
  BY <1>2, <1>4, <1>5, SameCount

UnreadNums(f) == {n \in FileNums(f) : "UNREAD" \in Shown(f, n)}
\* The folder tree has the numbers of the folder.
Counted(f) ==
    /\ f.total = Cardinality(FileNums(f))
    /\ f.stype # "F_DRAFT" => f.unread = Cardinality(UnreadNums(f))

LEMMA FilesCount ==
    ASSUME NEW f
    PROVE  /\ IsFiniteSet(FileNums(f)) /\ IsFiniteSet(UnreadNums(f))
           /\ Cardinality(FileNums(f)) \in Nat /\ Cardinality(UnreadNums(f)) \in Nat
           /\ FileNums(f) \in SUBSET Nums /\ UnreadNums(f) \in SUBSET Nums
<1>1. FileNums(f) \in SUBSET Nums /\ UnreadNums(f) \in SUBSET Nums
  BY DEF FileNums, UnreadNums
<1> QED
  BY <1>1, NumsAre

LEMMA SameCounted ==
    ASSUME NEW f, NEW g, SameShown(f, g), Counted(f), g.total = f.total, g.unread = f.unread
    PROVE  Counted(g)
<1>1. FileNums(g) = FileNums(f) /\ g.stype = f.stype
  BY SameFiles DEF SameShown
<1>2. UnreadNums(g) = UnreadNums(f)
  BY <1>1 DEF UnreadNums, SameShown
<1> QED
  BY <1>1, <1>2 DEF Counted

\* A folder that is read shows what the marks say, and the marks file has it.
LEMMA OpenedMarks ==
    ASSUME NEW f \in FolderItems, ~f.opened, Filed(f), Ready(f),
           NEW g \in FolderItems, g.file = f.file, g.stype = f.stype, g.opened,
           Distinct(g.list), FlaggedOpen(f, g)
    PROVE  /\ Filed(g) /\ Ready(g) /\ OpenMarks(g) /\ Counted(g)
           /\ \A n \in FileNums(f) : Shown(g, n) = MarkFor(f, n)
<1> DEFINE l == g.list
<1>0. l \in Seq(MsgInfos) /\ Len(l) \in Nat
  BY DEF FolderItems
<1>1. /\ \A n : n \in DOMAIN MarkedTable(f) <=> HasMark(f, n)
      /\ \A n : FlagsIn(MarkedTable(f), n) = MarkFor(f, n)
  BY MarkedTableIs DEF Filed
<1>2. /\ \A i \in 1..Len(l) : l[i].flags = MarkFor(f, l[i].num)
      /\ g.total = Len(l) /\ g.unread = UnreadOf(MarkedTable(f), l)
      /\ g.cache_queue = <<>> /\ NumsOf(l) = FileNums(f)
  BY <1>1 DEF FlaggedOpen
<1>3. f.mark_queue = <<>> \/ f.marks.state = "ok"
  BY DEF Ready
<1>4. /\ g.mark_queue = <<>> /\ g.marks.state = "ok"
      /\ \/ g.marks.recs = MarksOf(l)
         \/ /\ f.marks.state = "ok" /\ NumsOf(l) \subseteq DOMAIN MarkedTable(f)
            /\ g.marks.recs = TableRecs(Table(f)) \/ (g.marks = f.marks /\ f.mark_queue = <<>>)
  BY <1>3 DEF FlaggedOpen
<1>5. FileNums(g) = FileNums(f)
  BY SameFiles
<1>6. \A n \in FileNums(f) : \E i \in 1..Len(l) : l[i].num = n
  BY <1>0, <1>2, NumsOfIs
<1>7. Filed(g) /\ \A i \in 1..Len(l) : l[i].num \in NumsOf(g.marks.recs)
                                         /\ LastOf(g.marks.recs, l[i].num).flags = l[i].flags
  <2>1. CASE g.marks.recs = MarksOf(l)
    <3>1. PICK ms : ms = MarksOf(l)
      OBVIOUS
    <3>2. /\ ms \in Seq(Marks) /\ Len(ms) = Len(l)
          /\ \A i \in 1..Len(l) : ms[i].num = l[i].num /\ ms[i].flags = l[i].flags
      BY <1>0, <3>1, MarksTypes
    <3>3. Distinct(ms)
      BY <3>2 DEF Distinct
    <3>4. /\ \A n : HasMark(g, n) <=> n \in NumsOf(ms)
          /\ Distinct(g.mark_queue) /\ Apart(g.marks.recs, g.mark_queue) /\ Agree(g.marks.recs)
      BY <1>4, <2>1, <3>1, <3>2, <3>3, MarksAre
    <3>5. \A n : n \in NumsOf(ms) <=> n \in NumsOf(l)
      BY <1>0, <3>2, NumsOfIs
    <3>6. KnownMarks(g)
      BY <1>2, <1>5, <3>4, <3>5 DEF KnownMarks, KnownMark
    <3>7. Filed(g)
      BY <1>4, <3>4, <3>6 DEF Filed, ReadableMarks
    <3>8. ASSUME NEW i \in 1..Len(l)
          PROVE  l[i].num \in NumsOf(g.marks.recs) /\ LastOf(g.marks.recs, l[i].num).flags = l[i].flags
      <4>1. LastOf(ms, ms[i].num) = ms[i] /\ ms[i].num \in NumsOf(ms)
        BY <3>2, <3>3, OnlyRecord
      <4> QED
        BY <2>1, <3>1, <3>2, <4>1
    <3> QED
      BY <3>7, <3>8
  <2>2. CASE /\ f.marks.state = "ok" /\ NumsOf(l) \subseteq DOMAIN MarkedTable(f)
             /\ g.marks.recs = TableRecs(Table(f)) \/ (g.marks = f.marks /\ f.mark_queue = <<>>)
    <3>1. Filed(g) /\ SameTable(f, g)
      BY <1>4, <2>2, SettledTable
    <3>2. ASSUME NEW i \in 1..Len(l)
          PROVE  l[i].num \in NumsOf(g.marks.recs) /\ LastOf(g.marks.recs, l[i].num).flags = l[i].flags
      <4>1. l[i].num \in NumsOf(l)
        BY <1>0, NumsOfIs
      <4>2. HasMark(g, l[i].num)
        BY <1>1, <2>2, <3>1, <4>1 DEF SameTable
      <4>3. l[i].num \in NumsOf(g.marks.recs) /\ l[i].num \notin NumsOf(g.mark_queue)
        BY <1>4, <4>2, EmptyIs DEF HasMark
      <4>4. MarkFor(g, l[i].num) = l[i].flags
        BY <1>2, <3>1 DEF SameTable
      <4> QED
        BY <4>3, <4>4 DEF MarkFor
    <3> QED
      BY <3>1, <3>2
  <2> QED
    BY <1>4, <2>1, <2>2
<1>8. Ready(g)
  BY <1>4 DEF Ready
<1>9. OpenMarks(g)
  <2>1. Echo(g.mark_queue, g.cache_queue)
    BY <1>2, <1>4 DEF Echo
  <2>2. RowsMarked(g) /\ RowsWritten(g)
    BY <1>2, <1>5, <1>7 DEF RowsMarked, RowsWritten
  <2> QED
    BY <2>1, <2>2 DEF OpenMarks
<1>10. \A i \in 1..Len(l) : Shown(g, l[i].num) = l[i].flags
  <2>1. Distinct(g.cache_queue) /\ Apart(l, g.cache_queue)
    BY <1>2, EmptyIs
  <2> QED
    BY <2>1, ShownIs
<1>11. \A n \in FileNums(f) : Shown(g, n) = MarkFor(f, n)
  BY <1>2, <1>6, <1>10
<1>12. Counted(g)
  <2>1. \A i \in 1..Len(l) : l[i].num \in FileNums(g)
    BY <1>0, <1>2, <1>5, NumsOfIs
  <2>2. Cardinality(FileNums(g)) = Len(l)
    <3>1. Cardinality(1..Len(l)) = Len(l)
      BY <1>0, FS_Interval
    <3>2. Cardinality(FileNums(g)) = Cardinality(1..Len(l))
      BY <1>0, <1>5, <1>6, <2>1, RowCount
    <3> QED
      BY <3>1, <3>2
  <2>3. PICK I : I = {i \in DOMAIN l : "UNREAD" \in FlagsIn(MarkedTable(f), l[i].num)}
    OBVIOUS
  <2>4. I \in SUBSET (1..Len(l)) /\ \A i \in 1..Len(l) : i \in I <=> "UNREAD" \in l[i].flags
    BY <1>0, <1>1, <1>2, <2>3
  <2>5. \A i \in I : l[i].num \in UnreadNums(g)
    BY <1>10, <2>1, <2>4 DEF UnreadNums
  <2>6. \A n \in UnreadNums(g) : \E i \in I : l[i].num = n
    BY <1>5, <1>6, <1>10, <2>4 DEF UnreadNums
  <2>7. Cardinality(UnreadNums(g)) = Cardinality(I)
    BY <1>0, <2>4, <2>5, <2>6, RowCount
  <2>8. g.unread = Cardinality(I)
    BY <1>2, <2>3 DEF UnreadOf
  <2> QED
    BY <1>2, <2>2, <2>7, <2>8 DEF Counted
<1> QED
  BY <1>7, <1>8, <1>9, <1>11, <1>12

-----------------------------------------------------------------------------
\* Counting changes no flags.

LEMMA SettledMarked ==
    ASSUME NEW f \in FolderItems, NEW g \in FolderItems, SameMail(f, g), Flushed(f, g), Settled(f, g),
           Filed(f), Ready(f)
    PROVE  /\ Filed(g) /\ Ready(g) /\ SameTable(f, g) /\ SameShown(f, g)
           /\ f.opened /\ OpenMarks(f) => OpenMarks(g)
<1>1. g.file = f.file /\ g.stype = f.stype /\ g.opened = f.opened /\ g.list = f.list
  BY DEF SameMail
<1>2. \/ g.marks = f.marks /\ g.mark_queue = f.mark_queue
      \/ g.mark_queue = <<>> /\ g.marks.recs = TableRecs(Table(f)) /\ g.marks.state = "ok"
  BY DEF Settled
<1>3. Filed(g) /\ SameTable(f, g)
  BY <1>1, <1>2, SettledTable
<1>4. Ready(g)
  BY <1>1, <1>2 DEF Ready, Settled
<1>5. f.opened => g.cache_queue = f.cache_queue
  BY DEF Flushed
<1>6. SameShown(f, g)
  BY <1>1, <1>3, <1>5 DEF SameShown, Shown, SameTable
<1>7. ASSUME f.opened, OpenMarks(f) PROVE OpenMarks(g)
  <2>1. g.marks = f.marks /\ g.mark_queue = f.mark_queue /\ (f.mark_dirty => g.mark_dirty)
    BY <1>7 DEF Settled
  <2>2. g.cache_dirty = f.cache_dirty /\ FileNums(g) = FileNums(f)
    BY <1>1, SameFiles DEF Flushed
  <2> QED
    BY <1>1, <1>5, <1>7, <2>1, <2>2 DEF OpenMarks, RowsMarked, RowsWritten
<1> QED
  BY <1>3, <1>4, <1>6, <1>7

\* The marks of a folder that keeps no drafts are of its files.
LEMMA MarksOfFiles ==
    ASSUME NEW f \in FolderItems, ~f.opened, Filed(f), Ready(f), f.stype # "F_DRAFT",
           NEW M, M = DOMAIN MarkedTable(f)
    PROVE  /\ M \in SUBSET FileNums(f) /\ \A n : n \in M <=> HasMark(f, n)
           /\ UnreadIn(MarkedTable(f)) = Cardinality(M \cap UnreadNums(f))
           /\ FileNums(f) \ M \in SUBSET UnreadNums(f)
<1>1. /\ \A n : n \in M <=> HasMark(f, n)
      /\ \A n \in M : MarkedTable(f)[n] = MarkFor(f, n)
      /\ \A n : ~HasMark(f, n) => MarkFor(f, n) = Default
  BY MarkedTableIs DEF Filed, HasMark, MarkFor
<1>2. M \in SUBSET FileNums(f)
  BY <1>1 DEF Filed, KnownMarks, KnownMark
<1>3. \A n \in FileNums(f) : n \in UnreadNums(f) <=> "UNREAD" \in MarkFor(f, n)
  BY DEF UnreadNums, Shown
<1>4. {n \in M : "UNREAD" \in MarkedTable(f)[n]} = M \cap UnreadNums(f)
  BY <1>1, <1>2, <1>3
<1>5. UnreadIn(MarkedTable(f)) = Cardinality(M \cap UnreadNums(f))
  BY <1>4 DEF UnreadIn
<1>6. FileNums(f) \ M \in SUBSET UnreadNums(f)
  BY <1>1, <1>3 DEF Default
<1> QED
  BY <1>1, <1>2, <1>5, <1>6

LEMMA ScanCounted ==
    ASSUME NEW f \in FolderItems, Filed(f), Ready(f), ~f.opened \/ f.stype = "F_DRAFT",
           NEW g, g = Scan(f)
    PROVE  Counted(g)
<1>1. /\ g \in FolderItems /\ SameMail(f, g) /\ Flushed(f, g) /\ Settled(f, g)
      /\ g.total = Cardinality(FileNums(f)) /\ g.unread = ScanUnread(f)
  BY ScanIs
<1>2. SameShown(f, g) /\ FileNums(g) = FileNums(f) /\ g.stype = f.stype
  BY <1>1, SettledMarked, SameFiles DEF SameMail
<1>3. UnreadNums(g) = UnreadNums(f)
  BY <1>2 DEF UnreadNums, SameShown
<1>4. ASSUME f.stype # "F_DRAFT" PROVE g.unread = Cardinality(UnreadNums(f))
  <2>1. PICK M : M = DOMAIN MarkedTable(f)
    OBVIOUS
  <2>2. /\ M \in SUBSET FileNums(f)
        /\ UnreadIn(MarkedTable(f)) = Cardinality(M \cap UnreadNums(f))
        /\ FileNums(f) \ M \in SUBSET UnreadNums(f)
    BY <1>4, <2>1, MarksOfFiles
  <2>3. /\ IsFiniteSet(FileNums(f)) /\ IsFiniteSet(UnreadNums(f))
        /\ Cardinality(FileNums(f)) \in Nat
    BY FilesCount
  <2>4. IsFiniteSet(M) /\ Cardinality(M) \in Nat /\ Cardinality(M) <= Cardinality(FileNums(f))
    BY <2>2, <2>3, FS_Subset, FS_CardinalityType
  <2>5. Cardinality(FileNums(f) \ M) = Cardinality(FileNums(f)) - Cardinality(M)
    <3>1. FileNums(f) \cap M = M
      BY <2>2
    <3> QED
      BY <2>3, <3>1, FS_Difference
  <2>6. UnreadNums(f) \ M = FileNums(f) \ M
    BY <2>2 DEF UnreadNums
  <2>7. UnreadNums(f) \cap M = M \cap UnreadNums(f)
    OBVIOUS
  <2>8. Cardinality(UnreadNums(f) \ M) = Cardinality(UnreadNums(f)) - Cardinality(M \cap UnreadNums(f))
    BY <2>3, <2>7, FS_Difference, ZenonT(60)
  <2>9. /\ Cardinality(M \cap UnreadNums(f)) \in Nat /\ Cardinality(UnreadNums(f)) \in Nat
    <3>1. M \cap UnreadNums(f) \in SUBSET UnreadNums(f)
      OBVIOUS
    <3> QED
      BY <2>3, <3>1, FS_Subset, FS_CardinalityType
  <2>10. CASE Cardinality(FileNums(f)) = 0
    <3>1. FileNums(f) = {}
      BY <2>3, <2>10, FS_EmptySet
    <3>2. UnreadNums(f) = {}
      BY <3>1 DEF UnreadNums
    <3> QED
      BY <1>1, <2>10, <3>2, FS_EmptySet DEF ScanUnread
  <2>11. CASE Cardinality(FileNums(f)) # 0
    <3>1. g.unread = Cardinality(M \cap UnreadNums(f))
                     + (IF Cardinality(FileNums(f)) > Cardinality(M)
                        THEN Cardinality(FileNums(f)) - Cardinality(M) ELSE 0)
      BY <1>1, <2>1, <2>2, <2>11 DEF ScanUnread
    <3>2. g.unread = Cardinality(M \cap UnreadNums(f)) + (Cardinality(FileNums(f)) - Cardinality(M))
      BY <2>3, <2>4, <2>9, <3>1
    <3>3. Cardinality(FileNums(f)) - Cardinality(M)
            = Cardinality(UnreadNums(f)) - Cardinality(M \cap UnreadNums(f))
      BY <2>5, <2>6, <2>8
    <3> QED
      BY <2>3, <2>4, <2>9, <3>2, <3>3
  <2> QED
    BY <2>10, <2>11
<1> QED
  BY <1>1, <1>2, <1>3, <1>4 DEF Counted

\* procmsg_flush_folder counts the marks.
LEMMA FlushCounted ==
    ASSUME NEW f \in FolderItems, Filed(f), Ready(f), ~f.opened, f.stype # "F_DRAFT",
           f.last_num < 0 \/ \A n \in FileNums(f) : HasMark(f, n),
           NEW g, g = FlushFolder(f)
    PROVE  Counted(g)
<1>1. CASE f.last_num < 0
  BY <1>1, ScanCounted DEF FlushFolder
<1>2. CASE ~(f.last_num < 0)
  <2>1. /\ g \in FolderItems /\ SameMail(f, g) /\ Flushed(f, g) /\ Settled(f, g)
        /\ g.total = Cardinality(DOMAIN MarkedTable(f)) /\ g.unread = UnreadIn(MarkedTable(f))
    BY <1>2, FlushFolderIs
  <2>2. SameShown(f, g) /\ FileNums(g) = FileNums(f) /\ g.stype = f.stype
    BY <2>1, SettledMarked, SameFiles DEF SameMail
  <2>3. UnreadNums(g) = UnreadNums(f)
    BY <2>2 DEF UnreadNums, SameShown
  <2>4. PICK M : M = DOMAIN MarkedTable(f)
    OBVIOUS
  <2>5. /\ M \in SUBSET FileNums(f) /\ \A n : n \in M <=> HasMark(f, n)
        /\ UnreadIn(MarkedTable(f)) = Cardinality(M \cap UnreadNums(f))
    BY <2>4, MarksOfFiles
  <2>6. M = FileNums(f)
    BY <1>2, <2>5
  <2>7. M \cap UnreadNums(f) = UnreadNums(f)
    BY <2>6 DEF UnreadNums
  <2> QED
    BY <2>1, <2>2, <2>3, <2>4, <2>5, <2>6, <2>7 DEF Counted
<1> QED
  BY <1>1, <1>2

\* Counting a closed folder writes what marks wait, if it has files.
LEMMA NoMarkWaits ==
    ASSUME NEW f \in FolderItems, NEW g \in FolderItems, ~f.opened, Filed(f), Ready(f),
           f.stype # "F_DRAFT", Settled(f, g), Drained(f, g)
    PROVE  g.mark_queue = <<>>
<1>1. CASE f.mark_queue = <<>>
  BY <1>1 DEF Settled
<1>2. CASE f.mark_queue # <<>>
  <2>1. f.marks.state = "ok"
    BY <1>2 DEF Ready
  <2>2. f.mark_queue \in Seq(Marks)
    BY DEF FolderItems
  <2>3. 1 \in 1..Len(f.mark_queue)
    BY <1>2, <2>2
  <2>4. f.mark_queue[1].num \in NumsOf(f.mark_queue)
    BY <2>2, <2>3, NumsOfIs
  <2>5. f.mark_queue[1].num \in FileNums(f)
    BY <2>4 DEF HasMark, Filed, KnownMarks, KnownMark
  <2> QED
    BY <2>1, <2>5 DEF Drained
<1> QED
  BY <1>1, <1>2

-----------------------------------------------------------------------------
\* Showing a folder again.

LEMMA GoodListable ==
    ASSUME NEW f, Good(f), f.opened
    PROVE  Listable(f)
<1>1. AllSound(f, f.list)
  BY DEF Good, RowsSound, Right, AllSound, Sound
<1> QED
  BY <1>1 DEF Good, RowsSound, CacheSound, Listable

\* Only the marks matter to what a closed folder shows.
LEMMA ClosedMarks ==
    ASSUME NEW f, NEW g, g.file = f.file, g.stype = f.stype, g.marks = f.marks,
           g.mark_queue = f.mark_queue, Filed(f)
    PROVE  Filed(g) /\ \A n : MarkFor(g, n) = MarkFor(f, n) /\ (HasMark(g, n) <=> HasMark(f, n))
<1>1. \A n : MarkFor(g, n) = MarkFor(f, n) /\ (HasMark(g, n) <=> HasMark(f, n))
  BY DEF MarkFor, HasMark
<1>2. KnownMarks(g)
  BY <1>1, KnownAs DEF Filed
<1> QED
  BY <1>1, <1>2 DEF Filed, ReadableMarks

LEMMA ReopenedMarks ==
    ASSUME NEW f \in FolderItems, Listable(f), OpenMarks(f), MarksPending(f) \/ (Filed(f) /\ Ready(f)),
           NEW w, w = WriteCache(f), w \in FolderItems, SameMail(f, w),
           CacheSound(w), Numbered(w), w.cache.state = "ok" \/ w.cache_queue = <<>>,
           NEW st \in BOOLEAN, f.stype = "F_DRAFT" => st, w.fresh => Trusted(w),
           NEW g, g = Refresh(f, st)
    PROVE  /\ g \in FolderItems /\ g.opened /\ SameShown(f, g)
           /\ Filed(g) /\ Ready(g) /\ OpenMarks(g) /\ Counted(g)
           /\ f.last_num >= 0 => g.last_num >= 0
<1>1. Wrote(f, w)
  BY WriteCacheMarks
<1>2. PICK c : c = Close(w)
  OBVIOUS
<1>3. /\ c \in FolderItems /\ Good(c) /\ c.file = w.file /\ c.stype = w.stype /\ ~c.opened
      /\ c.cache = w.cache /\ c.cache_queue = w.cache_queue /\ c.fresh = w.fresh
      /\ Trusted(w) => Trusted(c)
  BY <1>2, ClosedGood
<1>4. SameMarks(w, c)
  BY <1>2, CloseIs
<1>5. Filed(c) /\ \A n : MarkFor(c, n) = MarkFor(w, n)
  BY <1>1, <1>3, <1>4, ClosedMarks DEF Wrote, SameMarks
<1>6. Ready(c)
  BY <1>1, <1>4 DEF Ready, Wrote, SameMarks
<1>7. g = Open(c, st)
  BY <1>2 DEF Refresh
<1>8. /\ g \in FolderItems /\ g.file = c.file /\ g.stype = c.stype /\ g.opened
      /\ Good(g) /\ FlaggedOpen(c, g)
  <2>1. CacheSound(c) /\ Numbered(c) /\ (c.cache.state = "ok" \/ c.cache_queue = <<>>)
    BY <1>3 DEF Good
  <2>2. (c.stype = "F_DRAFT" => st) /\ (c.fresh => Trusted(c))
    BY <1>3 DEF SameMail
  <2> QED
    BY <1>3, <1>7, <2>1, <2>2, OpenIs
<1>9. Distinct(g.list)
  BY <1>8 DEF Good, RowsSound
<1>10. /\ Filed(g) /\ Ready(g) /\ OpenMarks(g) /\ Counted(g)
       /\ \A n \in FileNums(c) : Shown(g, n) = MarkFor(c, n)
  BY <1>3, <1>5, <1>6, <1>8, <1>9, OpenedMarks
<1>11. g.file = f.file /\ g.stype = f.stype /\ FileNums(c) = FileNums(f)
  BY <1>3, <1>8, SameFiles DEF SameMail
<1>12. SameShown(f, g)
  BY <1>1, <1>5, <1>10, <1>11 DEF SameShown, Wrote
<1>13. f.last_num >= 0 => g.last_num >= 0
  <2>1. w.last_num = f.last_num
    BY WriteCacheIs DEF SameSums
  <2>2. c.last_num = w.last_num
    BY <1>2, CloseIs DEF SameSums
  <2> QED
    BY <1>8, <2>1, <2>2 DEF FlaggedOpen
<1> QED
  BY <1>8, <1>10, <1>12, <1>13

LEMMA RefreshMarks ==
    ASSUME NEW f \in FolderItems, Good(f), f.opened, f.fresh => Trusted(f),
           OpenMarks(f), MarksPending(f) \/ (Filed(f) /\ Ready(f)),
           NEW st \in BOOLEAN, f.stype = "F_DRAFT" => st, NEW g, g = Refresh(f, st)
    PROVE  /\ g \in FolderItems /\ g.opened /\ SameShown(f, g)
           /\ Filed(g) /\ Ready(g) /\ OpenMarks(g) /\ Counted(g)
           /\ f.last_num >= 0 => g.last_num >= 0
<1>1. PICK w : w = WriteCache(f)
  OBVIOUS
<1>2. /\ w \in FolderItems /\ SameMail(f, w) /\ Good(w)
      /\ w.fresh => f.fresh
      /\ w.cache_queue = <<>>
      /\ Trusted(f) => Trusted(w)
  BY <1>1, WriteCacheGood
<1>3. CacheSound(w) /\ Numbered(w)
  BY <1>2 DEF Good
<1> QED
  BY <1>1, <1>2, <1>3, GoodListable, ReopenedMarks

\* A closed folder is shown.
LEMMA OpenMarksIs ==
    ASSUME NEW f \in FolderItems, Good(f), ~f.opened, Filed(f), Ready(f),
           f.cache.state = "ok" \/ f.cache_queue = <<>>,
           NEW st \in BOOLEAN, f.stype = "F_DRAFT" => st, f.fresh => Trusted(f),
           NEW g, g = Open(f, st)
    PROVE  /\ g \in FolderItems /\ g.opened /\ SameShown(f, g)
           /\ Filed(g) /\ Ready(g) /\ OpenMarks(g) /\ Counted(g)
           /\ f.last_num >= 0 => g.last_num >= 0
<1>1. /\ g \in FolderItems /\ g.file = f.file /\ g.stype = f.stype /\ g.opened
      /\ Good(g) /\ FlaggedOpen(f, g)
  BY OpenIs DEF Good
<1>2. Distinct(g.list)
  BY <1>1 DEF Good, RowsSound
<1>3. /\ Filed(g) /\ Ready(g) /\ OpenMarks(g) /\ Counted(g)
      /\ \A n \in FileNums(f) : Shown(g, n) = MarkFor(f, n)
  BY <1>1, <1>2, OpenedMarks
<1>4. SameShown(f, g)
  BY <1>1, <1>3 DEF SameShown, Shown
<1>5. f.last_num >= 0 => g.last_num >= 0
  BY <1>1 DEF FlaggedOpen
<1> QED
  BY <1>1, <1>3, <1>4, <1>5

-----------------------------------------------------------------------------
\* The mark of a message that is added.

NoteFlags(by, f, r) == IF by = "adding" /\ r.received THEN r.flags ELSE ClearedFor(f, r.flags)
Mark(n, flags) == [num |-> n, flags |-> flags]
Appended(s, x) == Append(s, x)
\* It waits, or is written: the latter in a closed folder.
Noted(f, g, info, mark, queued) ==
    /\ mark \in Marks /\ mark.num = info.num
    /\ g.mark_dirty = f.mark_dirty
    /\ IF queued THEN g.marks = f.marks /\ g.mark_queue = Appended(f.mark_queue, mark)
       ELSE /\ ~f.opened /\ g.mark_queue = f.mark_queue /\ g.marks.state = "ok"
            /\ g.marks.recs = Joined(f.marks.recs, <<mark>>)
    /\ g.total = f.total + 1 /\ g.unread = f.unread + Unread(info.flags)
Queued(by, f, r) == by = "moving" \/ r.received \/ f.opened
OneNoted(by, f, g, r, info) ==
    /\ Added(f, g, info) /\ info.msg = r.msg /\ info.flags = r.flags
    /\ Noted(f, g, info, Mark(info.num, NoteFlags(by, f, r)), Queued(by, f, r))

LEMMA PutCounts ==
    ASSUME NEW f \in FolderItems, NEW m, NEW flags, NEW g, g = Put(f, m, flags)
    PROVE  g.total = f.total + 1 /\ g.unread = f.unread + Unread(flags)
BY DEF Put, FolderItems

LEMMA OneNotes ==
    ASSUME NEW by \in {"adding", "moving"}, NEW f \in FolderItems, f.last_num >= 0, Free(f) # {},
           NEW r \in Incoming, NEW g, g = One(by, f, r)
    PROVE  /\ g \in FolderItems
           /\ \E info : OneNoted(by, f, g, r, info)
<1>0. r.msg \in Msgs /\ r.flags \in Flags /\ r.received \in BOOLEAN
  BY DEF Incoming
<1>1. PICK p : p = Put(f, r.msg, r.flags)
  OBVIOUS
<1>2. p \in FolderItems /\ SameMarks(f, p)
  BY <1>0, <1>1, PutIs
<1>3. PICK info : Added(f, p, info) /\ info.msg = r.msg /\ info.flags = r.flags
  BY <1>0, <1>1, PutIs
<1>4. p.total = f.total + 1 /\ p.unread = f.unread + Unread(info.flags)
  BY <1>1, <1>3, PutCounts
<1>5. PICK flags \in Flags : flags = NoteFlags(by, f, r)
  <2>1. NoteFlags(by, f, r) \in Flags
    BY <1>0, FlagsTypes DEF NoteFlags, ClearedFor
  <2> QED
    BY <2>1
<1>6. p.last_num = info.num /\ info.num \in Nums
  BY <1>3 DEF Added, MsgInfos
<1>7. PICK mark : mark = Mark(info.num, flags)
  OBVIOUS
<1>8. mark \in Marks /\ mark.num = info.num
  BY <1>6, <1>7 DEF Marks, Mark
<1>9. p.mark_queue \in Seq(Marks) /\ ~p.fresh
  BY <1>2, <1>3 DEF FolderItems, Added
<1>10. g = IF Queued(by, f, r) THEN [p EXCEPT !.mark_queue = Append(@, mark)]
           ELSE AppendMarks(p, <<mark>>)
  <2>1. CASE by = "adding"
    BY <1>1, <1>5, <1>6, <1>7, <2>1 DEF One, AddOne, NoteFlags, Mark, Queued
  <2>2. CASE by = "moving"
    BY <1>1, <1>5, <1>6, <1>7, <2>2 DEF One, PutQueued, NoteFlags, Mark, Queued
  <2> QED
    BY <2>1, <2>2
<1>11. CASE Queued(by, f, r)
  <2>1. PICK q \in Seq(Marks) : q = Append(p.mark_queue, mark) /\ q # <<>>
    <3>1. Append(p.mark_queue, mark) \in Seq(Marks) /\ Append(p.mark_queue, mark) # <<>>
      BY <1>8, <1>9, AppendProperties
    <3> QED
      BY <3>1
  <2>2. g = WithMarkQueue(p, q)
    BY <1>2, <1>10, <1>11, <2>1 DEF WithMarkQueue, FolderItems
  <2>3. /\ g \in FolderItems /\ SameMail(p, g) /\ SameCache(p, g) /\ SameSums(p, g)
        /\ g.mark_queue = q /\ g.mark_dirty = p.mark_dirty /\ g.marks = p.marks
        /\ g.fresh => p.fresh
    BY <1>2, <2>2, SetMarkQueue
  <2>4. Added(f, g, info)
    BY <1>3, <1>9, <2>3, MarkedAfterPut DEF SameMail, SameCache, SameSums
  <2>5. Noted(f, g, info, mark, TRUE)
    BY <1>2, <1>4, <1>8, <2>1, <2>3 DEF Noted, SameMarks, SameSums, Appended
  <2> QED
    BY <1>3, <1>5, <1>7, <1>11, <2>3, <2>4, <2>5 DEF OneNoted
<1>12. CASE ~Queued(by, f, r)
  <2>0. <<mark>> \in Seq(Marks)
    BY <1>8
  <2>1. PICK rs \in Seq(Marks) : rs = <<mark>>
    BY <2>0
  <2>2. g = AppendMarks(p, rs)
    BY <1>10, <1>12, <2>1
  <2>3. /\ g \in FolderItems /\ SameMail(p, g) /\ SameCache(p, g) /\ SameSums(p, g)
        /\ g.mark_queue = p.mark_queue /\ g.mark_dirty = p.mark_dirty
    BY <1>2, <2>2, AppendMarksIs
  <2>4. g.marks.state = "ok" /\ g.marks.recs = Joined(p.marks.recs, rs) /\ (g.fresh => p.fresh)
    BY <1>2, <2>2, AppendMarksIs
  <2>5. Added(f, g, info)
    BY <1>3, <1>9, <2>3, <2>4, MarkedAfterPut DEF SameMail, SameCache, SameSums
  <2>6. ~f.opened
    BY <1>12 DEF Queued
  <2>7. Noted(f, g, info, mark, FALSE)
    BY <1>2, <1>4, <1>8, <2>1, <2>3, <2>4, <2>6 DEF Noted, SameMarks, SameSums
  <2>8. Noted(f, g, info, mark, Queued(by, f, r))
    BY <1>12, <2>7 DEF Noted
  <2> QED
    BY <1>3, <1>5, <1>7, <2>3, <2>5, <2>8 DEF OneNoted
<1> QED
  BY <1>11, <1>12

-----------------------------------------------------------------------------
\* One record more.

\* t is rs with x after it.
OneMore(rs, x, t) ==
    /\ Len(rs) \in Nat /\ Len(t) = Len(rs) + 1
    /\ \A i \in 1..Len(t) : (i \in 1..Len(rs) /\ t[i] = rs[i]) \/ (i = Len(t) /\ t[i] = x)
LEMMA OneMoreIs ==
    ASSUME NEW R, NEW rs \in Seq(R), NEW x \in R, NEW t, t = Appended(rs, x)
    PROVE  /\ t \in Seq(R) /\ OneMore(rs, x, t)
           /\ \A n : n \in NumsOf(t) <=> n \in NumsOf(rs) \/ n = x.num
<1>1. t = Append(rs, x)
  BY DEF Appended
<1>2. /\ t \in Seq(R) /\ Len(rs) \in Nat /\ Len(t) = Len(rs) + 1
      /\ \A i \in 1..Len(t) : (i \in 1..Len(rs) /\ t[i] = rs[i]) \/ (i = Len(t) /\ t[i] = x)
  BY <1>1, AppendIs
<1>3. \A n : n \in NumsOf(t) <=> n \in NumsOf(rs) \/ n = x.num
  BY <1>1, AppendIs
<1> QED
  BY <1>2, <1>3 DEF OneMore

LEMMA FirstInAppended ==
    ASSUME NEW R, NEW rs \in Seq(R), NEW x \in R, Distinct(rs), x.num \notin NumsOf(rs),
           NEW t, t = Appended(rs, x)
    PROVE  /\ t \in Seq(R) /\ Distinct(t)
           /\ \A n : n \in NumsOf(t) <=> n \in NumsOf(rs) \/ n = x.num
           /\ \A n \in NumsOf(rs) : FirstOf(t, n) = FirstOf(rs, n)
           /\ FirstOf(t, x.num) = x
<1>1. /\ t \in Seq(R) /\ Len(rs) \in Nat /\ Len(t) = Len(rs) + 1
      /\ \A i \in 1..Len(t) : (i \in 1..Len(rs) /\ t[i] = rs[i]) \/ (i = Len(t) /\ t[i] = x)
  BY AppendIs DEF Appended
<1>2. /\ \A n : n \in NumsOf(t) <=> n \in NumsOf(rs) \/ n = x.num
      /\ Distinct(t)
  BY AppendIs DEF Appended
<1>3. ASSUME NEW n \in NumsOf(rs) PROVE FirstOf(t, n) = FirstOf(rs, n)
  <2>1. PICK i \in 1..Len(rs) : rs[i].num = n
    BY NumsOfIs
  <2>2. i \in 1..Len(t) /\ t[i] = rs[i]
    BY <1>1
  <2>3. FirstOf(rs, rs[i].num) = rs[i]
    BY OnlyRecord
  <2>4. FirstOf(t, t[i].num) = t[i]
    BY <1>1, <1>2, <2>2, OnlyRecord
  <2> QED
    BY <2>1, <2>2, <2>3, <2>4
<1>4. FirstOf(t, x.num) = x
  <2>1. Len(t) \in 1..Len(t) /\ t[Len(t)] = x
    BY <1>1
  <2>2. FirstOf(t, t[Len(t)].num) = t[Len(t)]
    BY <1>1, <1>2, <2>1, OnlyRecord
  <2> QED
    BY <2>1, <2>2
<1> QED
  BY <1>1, <1>2, <1>3, <1>4

LEMMA LastInJoined ==
    ASSUME NEW R, NEW rs \in Seq(R), NEW x \in R, NEW t, t = Joined(rs, <<x>>)
    PROVE  /\ t \in Seq(R) /\ OneMore(rs, x, t)
           /\ \A n : n \in NumsOf(t) <=> n \in NumsOf(rs) \/ n = x.num
           /\ \A n \in NumsOf(rs) : n # x.num => LastOf(t, n) = LastOf(rs, n)
           /\ LastOf(t, x.num) = x
<1> USE DEF OneMore
<1>0. t = Append(rs, x)
  BY DEF Joined
<1>1. /\ t \in Seq(R) /\ Len(rs) \in Nat /\ Len(t) = Len(rs) + 1
      /\ \A i \in 1..Len(t) : (i \in 1..Len(rs) /\ t[i] = rs[i]) \/ (i = Len(t) /\ t[i] = x)
      /\ \A n : n \in NumsOf(t) <=> n \in NumsOf(rs) \/ n = x.num
  BY <1>0, AppendIs
<1>2. ASSUME NEW n \in NumsOf(rs), n # x.num PROVE LastOf(t, n) = LastOf(rs, n)
  <2>1. PICK i \in 1..Len(rs) : /\ LastOf(rs, n) = rs[i] /\ rs[i].num = n
                                /\ \A j \in 1..Len(rs) : rs[j].num = n => j <= i
    BY RecordOf
  <2>2. PICK k \in 1..Len(t) : /\ LastOf(t, n) = t[k] /\ t[k].num = n
                               /\ \A j \in 1..Len(t) : t[j].num = n => j <= k
    BY <1>1, RecordOf
  <2>3. k \in 1..Len(rs) /\ t[k] = rs[k]
    BY <1>1, <1>2, <2>2
  <2>4. k <= i
    BY <2>1, <2>2, <2>3
  <2>5. i \in 1..Len(t) /\ t[i] = rs[i]
    BY <1>1
  <2>6. i <= k
    BY <2>1, <2>2, <2>5
  <2>7. i = k
    BY <2>3, <2>4, <2>6
  <2> QED
    BY <2>1, <2>2, <2>3, <2>7
<1>3. LastOf(t, x.num) = x
  <2>1. PICK k \in 1..Len(t) : /\ LastOf(t, x.num) = t[k] /\ t[k].num = x.num
                               /\ \A j \in 1..Len(t) : t[j].num = x.num => j <= k
    BY <1>1, RecordOf
  <2>2. Len(t) \in 1..Len(t) /\ t[Len(t)] = x
    BY <1>1, SMTT(30)
  <2>3. Len(t) <= k
    BY <2>1, <2>2
  <2>4. k = Len(t)
    BY <1>1, <2>1, <2>3
  <2> QED
    BY <2>1, <2>2, <2>4
<1> QED
  BY <1>1, <1>2, <1>3

\* A number that is given has no mark yet.
LEMMA NewHasNoMark ==
    ASSUME NEW f \in FolderItems, KnownMarks(f), Numbered(f), f.last_num >= 0,
           NEW n \in Nums, n > f.last_num, f.file[n] = None
    PROVE  ~HasMark(f, n) /\ n \notin FileNums(f)
<1>1. n \notin FileNums(f)
  BY DEF FileNums
<1>2. ASSUME f.stype = "F_DRAFT", NEW k \in FileNums(f), n < k PROVE FALSE
  <2>1. k <= f.last_num
    BY <1>2 DEF Numbered
  <2> QED
    BY <1>2, <2>1 DEF FileNums, Nums, FolderItems
<1> QED
  BY <1>1, <1>2 DEF KnownMarks, KnownMark

\* The marks after one message more.
OneMarked(f, g, n, flags) ==
    /\ \A k : k # n => MarkFor(g, k) = MarkFor(f, k) /\ (HasMark(g, k) <=> HasMark(f, k))
    /\ HasMark(g, n) /\ MarkFor(g, n) = flags

LEMMA AddedFiles ==
    ASSUME NEW f, NEW g, NEW info, Added(f, g, info)
    PROVE  /\ \A n : n \in FileNums(g) <=> n \in FileNums(f) \/ n = info.num
           /\ info.num \notin FileNums(f) /\ FileNums(g) = FileNums(f) \cup {info.num}
           /\ \A n \in FileNums(f) : g.file[n] = f.file[n] /\ n # info.num
<1>1. info.num \in Nums /\ info.msg # None
  BY NoneAssumption DEF Added, MsgInfos
<1>2. /\ f.file[info.num] = None /\ g.file[info.num] = info.msg
      /\ \A k \in Nums : k # info.num => g.file[k] = f.file[k]
  BY DEF Added
<1> QED
  BY <1>1, <1>2 DEF FileNums

LEMMA NotedMarks ==
    ASSUME NEW f \in FolderItems, NEW g \in FolderItems, NEW info, NEW mark, NEW queued,
           Added(f, g, info), Noted(f, g, info, mark, queued), Filed(f), ~HasMark(f, info.num)
    PROVE  Filed(g) /\ OneMarked(f, g, info.num, mark.flags)
<1> DEFINE n == info.num
<1>1. mark \in Marks /\ mark.num = n
  BY DEF Noted
<1>2. n \notin NumsOf(f.mark_queue) /\ n \notin NumsOf(f.marks.recs)
  BY DEF HasMark
<1>3. f.mark_queue \in Seq(Marks) /\ f.marks.recs \in Seq(Marks)
  BY DEF FolderItems, Written
<1>4. /\ Distinct(f.mark_queue) /\ Apart(f.marks.recs, f.mark_queue)
      /\ Agree(f.marks.recs) /\ ReadableMarks(f)
  BY DEF Filed
<1>5. /\ Distinct(g.mark_queue) /\ Apart(g.marks.recs, g.mark_queue)
      /\ Agree(g.marks.recs) /\ ReadableMarks(g) /\ OneMarked(f, g, n, mark.flags)
  <2>1. CASE queued
    <3>1. g.marks = f.marks /\ g.mark_queue = Appended(f.mark_queue, mark)
      BY <2>1 DEF Noted
    <3>2. PICK q : q = g.mark_queue
      OBVIOUS
    <3>3. /\ q \in Seq(Marks) /\ Distinct(q)
          /\ \A k : k \in NumsOf(q) <=> k \in NumsOf(f.mark_queue) \/ k = n
          /\ \A k \in NumsOf(f.mark_queue) : FirstOf(q, k) = FirstOf(f.mark_queue, k)
          /\ FirstOf(q, n) = mark
      BY <1>1, <1>2, <1>3, <1>4, <3>1, <3>2, FirstInAppended
    <3>4. OneMarked(f, g, n, mark.flags)
      BY <3>1, <3>2, <3>3 DEF OneMarked, MarkFor, HasMark
    <3>5. Apart(g.marks.recs, q)
      BY <1>2, <1>4, <3>1, <3>3 DEF Apart
    <3> QED
      BY <1>4, <3>1, <3>2, <3>3, <3>4, <3>5 DEF ReadableMarks
  <2>2. CASE ~queued
    <3>1. /\ g.mark_queue = f.mark_queue /\ g.marks.state = "ok"
          /\ g.marks.recs = Joined(f.marks.recs, <<mark>>)
      BY <2>2 DEF Noted
    <3>2. PICK rs : rs = g.marks.recs
      OBVIOUS
    <3>0. rs = Joined(f.marks.recs, <<mark>>)
      BY <3>1, <3>2
    <3>3. /\ Len(f.marks.recs) \in Nat
          /\ \A i \in 1..Len(rs) : \/ i \in 1..Len(f.marks.recs) /\ rs[i] = f.marks.recs[i]
                                   \/ i = Len(rs) /\ rs[i] = mark
          /\ \A k : k \in NumsOf(rs) <=> k \in NumsOf(f.marks.recs) \/ k = n
      <4>1. OneMore(f.marks.recs, mark, rs)
        BY <1>1, <1>3, <3>0, LastInJoined
      <4>2. \A k : k \in NumsOf(rs) <=> k \in NumsOf(f.marks.recs) \/ k = mark.num
        BY <1>1, <1>3, <3>0, LastInJoined
      <4> QED
        BY <1>1, <4>1, <4>2 DEF OneMore
    <3>4. /\ \A k \in NumsOf(f.marks.recs) : k # n => LastOf(rs, k) = LastOf(f.marks.recs, k)
          /\ LastOf(rs, n) = mark
      BY <1>1, <1>3, <3>1, <3>2, LastInJoined
    <3>5. OneMarked(f, g, n, mark.flags)
      BY <1>2, <3>1, <3>2, <3>3, <3>4 DEF OneMarked, MarkFor, HasMark
    <3>6. Apart(rs, g.mark_queue)
      BY <1>2, <1>4, <3>1, <3>3 DEF Apart
    <3>7. \A i \in 1..Len(f.marks.recs) : f.marks.recs[i].num # n
      BY <1>2, <1>3, NumsOfIs
    <3>8. Agree(rs)
      BY <1>1, <1>4, <3>3, <3>7, SMTT(30) DEF Agree
    <3> QED
      BY <1>4, <3>1, <3>2, <3>5, <3>6, <3>8 DEF ReadableMarks
  <2> QED
    BY <2>1, <2>2
<1>6. KnownMarks(g)
  <2>1. ASSUME NEW k, HasMark(g, k) PROVE KnownMark(g, k)
    <3>1. CASE k = n
      BY <3>1, AddedFiles DEF KnownMark
    <3>2. CASE k # n
      <4>1. KnownMark(f, k)
        BY <1>5, <2>1, <3>2 DEF OneMarked, Filed, KnownMarks
      <4> QED
        BY <4>1, AddedFiles DEF KnownMark, Added
    <3> QED
      BY <3>1, <3>2
  <2> QED
    BY <2>1 DEF KnownMarks
<1> QED
  BY <1>5, <1>6 DEF Filed

-----------------------------------------------------------------------------
\* What is shown after one message more.

LEMMA NotedShown ==
    ASSUME NEW f \in FolderItems, NEW g \in FolderItems, NEW info, NEW mark, NEW queued,
           Added(f, g, info), Noted(f, g, info, mark, queued), Filed(f), ~HasMark(f, info.num),
           Good(f), Good(g), f.opened => OpenMarks(f) /\ mark.flags = info.flags
    PROVE  /\ f.opened => OpenMarks(g)
           /\ \A k \in FileNums(f) : Shown(g, k) = Shown(f, k)
           /\ Shown(g, info.num) = mark.flags
<1> DEFINE n == info.num
<1>1. OneMarked(f, g, n, mark.flags)
  BY NotedMarks
<1>2. /\ \A k : k \in FileNums(g) <=> k \in FileNums(f) \/ k = n
      /\ n \notin FileNums(f)
  BY AddedFiles
<1>3. g.opened = f.opened /\ g.list = f.list /\ g.cache_dirty = f.cache_dirty
      /\ g.cache_queue = Append(f.cache_queue, info) /\ info \in MsgInfos
  BY DEF Added
<1>4. CASE ~f.opened
  BY <1>1, <1>2, <1>3, <1>4 DEF Shown, OneMarked
<1>5. CASE f.opened
  <2>1. queued
    BY <1>5 DEF Noted
  <2>2. /\ g.marks = f.marks /\ g.mark_queue = Appended(f.mark_queue, mark)
        /\ g.mark_dirty = f.mark_dirty /\ mark \in Marks /\ mark.num = n
    BY <2>1 DEF Noted
  <2>3. Echo(f.mark_queue, f.cache_queue) /\ RowsMarked(f) /\ RowsWritten(f) /\ mark.flags = info.flags
    BY <1>5 DEF OpenMarks
  <2>4. f.mark_queue \in Seq(Marks) /\ f.cache_queue \in Seq(MsgInfos) /\ f.list \in Seq(MsgInfos)
    BY DEF FolderItems
  <2>5. PICK c : c = g.cache_queue
    OBVIOUS
  <2>6. PICK q : q = g.mark_queue
    OBVIOUS
  <2>7. /\ Len(f.cache_queue) \in Nat /\ Len(c) = Len(f.cache_queue) + 1
        /\ \A i \in 1..Len(c) : \/ i \in 1..Len(f.cache_queue) /\ c[i] = f.cache_queue[i]
                                \/ i = Len(c) /\ c[i] = info
        /\ \A k : k \in NumsOf(c) <=> k \in NumsOf(f.cache_queue) \/ k = n
    <3>1. c = Appended(f.cache_queue, info)
      BY <1>3, <2>5 DEF Appended
    <3>2. OneMore(f.cache_queue, info, c) /\ \A k : k \in NumsOf(c) <=> k \in NumsOf(f.cache_queue) \/ k = n
      BY <1>3, <2>4, <3>1, OneMoreIs
    <3> QED
      BY <3>2 DEF OneMore
  <2>8. /\ Len(f.mark_queue) \in Nat /\ Len(q) = Len(f.mark_queue) + 1
        /\ \A i \in 1..Len(q) : \/ i \in 1..Len(f.mark_queue) /\ q[i] = f.mark_queue[i]
                                \/ i = Len(q) /\ q[i] = mark
    <3>1. OneMore(f.mark_queue, mark, q)
      BY <2>2, <2>4, <2>6, OneMoreIs
    <3> QED
      BY <3>1 DEF OneMore
  <2>9. Echo(q, c)
    BY <2>2, <2>3, <2>7, <2>8, SMTT(30) DEF Echo
  <2>10. RowsMarked(g)
    BY <1>2, <1>3, <2>2, <2>3 DEF RowsMarked, HasMark
  <2>11. RowsWritten(g)
    BY <1>3, <2>2, <2>3 DEF RowsWritten
  <2>12. OpenMarks(g)
    BY <2>5, <2>6, <2>9, <2>10, <2>11 DEF OpenMarks
  <2>13. /\ Distinct(f.list) /\ Distinct(f.cache_queue) /\ Apart(f.list, f.cache_queue)
         /\ Distinct(g.list) /\ Distinct(c) /\ Apart(g.list, c)
    BY <1>3, <1>5, <2>5 DEF Good, CacheSound, RowsSound
  <2>14. /\ \A i \in 1..Len(f.list) : Shown(f, f.list[i].num) = f.list[i].flags
         /\ \A i \in 1..Len(f.cache_queue) : Shown(f, f.cache_queue[i].num) = f.cache_queue[i].flags
         /\ \A k \in FileNums(f) :
               k \notin NumsOf(f.list) /\ k \notin NumsOf(f.cache_queue) => Shown(f, k) = Default
    BY <1>5, <2>3, <2>13, ShownIs
  <2>15. /\ \A i \in 1..Len(f.list) : Shown(g, f.list[i].num) = f.list[i].flags
         /\ \A i \in 1..Len(c) : Shown(g, c[i].num) = c[i].flags
         /\ \A k \in FileNums(g) :
               k \notin NumsOf(f.list) /\ k \notin NumsOf(c) => Shown(g, k) = Default
    <3>1. g.opened
      BY <1>3, <1>5
    <3> QED
      BY <1>3, <2>5, <2>6, <2>9, <2>10, <2>13, <3>1, ShownIs
  <2>16. ASSUME NEW k \in FileNums(f) PROVE Shown(g, k) = Shown(f, k)
    <3>1. CASE k \in NumsOf(f.list)
      <4>1. PICK i \in 1..Len(f.list) : f.list[i].num = k
        BY <2>4, <3>1, NumsOfIs
      <4> QED
        BY <2>14, <2>15, <4>1
    <3>2. CASE k \in NumsOf(f.cache_queue)
      <4>1. PICK i \in 1..Len(f.cache_queue) : f.cache_queue[i].num = k
        BY <2>4, <3>2, NumsOfIs
      <4>2. i \in 1..Len(c) /\ c[i] = f.cache_queue[i]
        BY <2>7
      <4> QED
        BY <2>14, <2>15, <4>1, <4>2
    <3>3. CASE k \notin NumsOf(f.list) /\ k \notin NumsOf(f.cache_queue)
      <4>1. k \in FileNums(g) /\ k \notin NumsOf(c)
        BY <1>2, <2>7, <3>3
      <4> QED
        BY <2>14, <2>15, <3>3, <4>1
    <3> QED
      BY <3>1, <3>2, <3>3
  <2>17. Len(c) \in 1..Len(c) /\ c[Len(c)] = info
    BY <2>7
  <2>18. Shown(g, n) = mark.flags
    BY <2>3, <2>15, <2>17
  <2> QED
    BY <2>12, <2>16, <2>18
<1> QED
  BY <1>4, <1>5

\* The flags with which the messages are seen.
SeenAs(f) == [m \in Contents(f) |-> Shown(f, CHOOSE n \in FileNums(f) : f.file[n] = m)]

LEMMA SeenShown ==
    ASSUME NEW f, Unique(f)
    PROVE  /\ SeenAs(f) = [m \in Contents(f) |-> SeenAs(f)[m]]
           /\ \A n \in FileNums(f) : f.file[n] \in Contents(f) /\ SeenAs(f)[f.file[n]] = Shown(f, n)
           /\ \A m \in Contents(f) : \E n \in FileNums(f) : f.file[n] = m
<1>1. /\ SeenAs(f) = [m \in Contents(f) |-> SeenAs(f)[m]]
      /\ \A m \in Contents(f) : \E n \in FileNums(f) : f.file[n] = m
      /\ \A n \in FileNums(f) : f.file[n] \in Contents(f)
  BY DEF SeenAs, Contents
<1>2. ASSUME NEW n \in FileNums(f) PROVE SeenAs(f)[f.file[n]] = Shown(f, n)
  <2>1. PICK k : k = CHOOSE i \in FileNums(f) : f.file[i] = f.file[n]
    OBVIOUS
  <2>2. k \in FileNums(f) /\ f.file[k] = f.file[n]
    BY <2>1
  <2>3. k = n
    BY <2>2 DEF Unique
  <2> QED
    BY <1>1, <2>1, <2>3 DEF SeenAs
<1> QED
  BY <1>1, <1>2

LEMMA SeenIs ==
    ASSUME Filed(folder), Ready(folder)
    PROVE  Seen = SeenAs(folder)
<1>1. \A n : FlagsIn(MarkedTable(folder), n) = MarkFor(folder, n)
  BY MarkedTableIs DEF Filed
<1>2. \A n : SeenFlags(n) = Shown(folder, n)
  BY <1>1 DEF SeenFlags, Shown
<1> QED
  BY <1>2 DEF Seen, SeenAs, NumOf

LEMMA SeenNextIs ==
    ASSUME NEW g, folder' = g, Filed(g), Ready(g)
    PROVE  Seen' = SeenAs(g)
<1>1. \A n : FlagsIn(MarkedTable(g), n) = MarkFor(g, n)
  BY MarkedTableIs DEF Filed
<1>2. \A n : SeenFlags(n)' = Shown(g, n)
  BY <1>1 DEF SeenFlags, Shown
<1> QED
  BY <1>2 DEF Seen, SeenAs, NumOf

-----------------------------------------------------------------------------
\* What is kept of the marks and the counts by messages that come.

AllMarked(f) == \A n \in FileNums(f) : HasMark(f, n)
Noticed(f, g) ==
    /\ Filed(g) /\ Unique(g)
    /\ f.opened => OpenMarks(g)
    /\ f.marks.state = "ok" => g.marks.state = "ok"
    /\ Counted(f) => Counted(g)
    /\ AllMarked(f) => AllMarked(g)
\* The first i of the messages rs came, with the flags of their marks.
Brought(by, f, g, rs, i) ==
    /\ \A m : m \in Contents(g) <=> m \in Contents(f) \/ \E j \in 1..i : rs[j].msg = m
    /\ \A m \in Contents(f) : SeenAs(g)[m] = SeenAs(f)[m]
    /\ \A j \in 1..i : SeenAs(g)[rs[j].msg] = NoteFlags(by, f, rs[j])
OneBrought(by, f, g, r) ==
    /\ \A m : m \in Contents(g) <=> m \in Contents(f) \/ r.msg = m
    /\ \A m \in Contents(f) : SeenAs(g)[m] = SeenAs(f)[m]
    /\ SeenAs(g)[r.msg] = NoteFlags(by, f, r)

\* One file more is counted.
LEMMA CountedOn ==
    ASSUME NEW f \in FolderItems, NEW g, NEW n, NEW flags \in Flags, n \notin FileNums(f),
           FileNums(g) = FileNums(f) \cup {n}, g.stype = f.stype, Counted(f),
           \A k \in FileNums(f) : Shown(g, k) = Shown(f, k),
           f.stype # "F_DRAFT" => Shown(g, n) = flags,
           g.total = f.total + 1, g.unread = f.unread + Unread(flags)
    PROVE  Counted(g)
<1>1. /\ IsFiniteSet(FileNums(f)) /\ IsFiniteSet(UnreadNums(f))
      /\ Cardinality(FileNums(f)) \in Nat /\ Cardinality(UnreadNums(f)) \in Nat
  BY FilesCount
<1>2. Cardinality(FileNums(g)) = Cardinality(FileNums(f)) + 1
  BY <1>1, FS_AddElement
<1>3. ASSUME f.stype # "F_DRAFT" PROVE g.unread = Cardinality(UnreadNums(g))
  <2>1. n \notin UnreadNums(f)
    BY DEF UnreadNums
  <2>2. CASE "UNREAD" \in flags
    <3>1. UnreadNums(g) = UnreadNums(f) \cup {n}
      BY <1>3, <2>2 DEF UnreadNums
    <3>2. Cardinality(UnreadNums(g)) = Cardinality(UnreadNums(f)) + 1
      BY <1>1, <2>1, <3>1, FS_AddElement, ZenonT(60)
    <3> QED
      BY <1>3, <2>2, <3>2 DEF Counted, Unread
  <2>3. CASE "UNREAD" \notin flags
    <3>1. UnreadNums(g) = UnreadNums(f)
      BY <1>3, <2>3 DEF UnreadNums
    <3>2. g.unread = f.unread
      BY <1>1, <1>3, <2>3 DEF Unread, Counted
    <3> QED
      BY <1>3, <3>1, <3>2 DEF Counted
  <2> QED
    BY <2>2, <2>3
<1> QED
  BY <1>2, <1>3 DEF Counted

LEMMA OneBroughtIs ==
    ASSUME NEW by \in {"adding", "moving"}, NEW f \in FolderItems, f.last_num >= 0, Good(f),
           NEW g \in FolderItems, Good(g), NEW r \in Incoming, NEW info, OneNoted(by, f, g, r, info),
           Filed(f), Unique(f), f.opened => OpenMarks(f) /\ NoteFlags(by, f, r) = r.flags,
           r.msg \notin Contents(f)
    PROVE  /\ Noticed(f, g) /\ OneBrought(by, f, g, r)
           /\ ~Queued(by, f, r) => g.mark_queue = f.mark_queue
<1> DEFINE n == info.num
           fl == NoteFlags(by, f, r)
<1>1. /\ Added(f, g, info) /\ info.msg = r.msg /\ info.flags = r.flags
      /\ Noted(f, g, info, Mark(n, fl), Queued(by, f, r))
  BY DEF OneNoted
<1>2. Mark(n, fl).flags = fl
  BY DEF Mark
<1>3. n \in Nums /\ n > f.last_num /\ f.file[n] = None /\ g.file[n] = r.msg /\ g.stype = f.stype
  BY <1>1 DEF Added, MsgInfos
<1>4. ~HasMark(f, n) /\ n \notin FileNums(f)
  BY <1>3, NewHasNoMark DEF Filed, Good
<1>5. Filed(g) /\ OneMarked(f, g, n, fl)
  BY <1>1, <1>2, <1>4, NotedMarks
<1>6. /\ f.opened => OpenMarks(g)
      /\ \A k \in FileNums(f) : Shown(g, k) = Shown(f, k)
      /\ Shown(g, n) = fl
  BY <1>1, <1>2, <1>4, NotedShown
<1>7. /\ \A k : k \in FileNums(g) <=> k \in FileNums(f) \/ k = n
      /\ FileNums(g) = FileNums(f) \cup {n}
      /\ \A k \in FileNums(f) : g.file[k] = f.file[k]
  BY <1>1, AddedFiles
<1>8. Unique(g)
  <2>1. \A k \in FileNums(f) : f.file[k] # r.msg
    BY DEF Contents
  <2> QED
    BY <1>3, <1>7, <2>1 DEF Unique
<1>9. f.marks.state = "ok" => g.marks.state = "ok"
  BY <1>1 DEF Noted
<1>10. AllMarked(f) => AllMarked(g)
  BY <1>5, <1>7 DEF AllMarked, OneMarked
<1>11. r.flags \in Flags
  BY DEF Incoming
<1>12. f.stype # "F_DRAFT" => fl = r.flags
  BY DEF NoteFlags, ClearedFor
<1>13. g.total = f.total + 1 /\ g.unread = f.unread + Unread(r.flags)
  BY <1>1 DEF Noted
<1>14. Counted(f) => Counted(g)
  BY <1>3, <1>4, <1>6, <1>7, <1>11, <1>12, <1>13, CountedOn
<1>15. Noticed(f, g)
  BY <1>5, <1>6, <1>8, <1>9, <1>10, <1>14 DEF Noticed
<1>16. \A m : m \in Contents(g) <=> m \in Contents(f) \/ r.msg = m
  BY <1>3, <1>7 DEF Contents
<1>17. \A m \in Contents(f) : SeenAs(g)[m] = SeenAs(f)[m]
  <2>1. ASSUME NEW m \in Contents(f) PROVE SeenAs(g)[m] = SeenAs(f)[m]
    <3>1. PICK k \in FileNums(f) : f.file[k] = m
      BY DEF Contents
    <3>2. SeenAs(f)[m] = Shown(f, k)
      BY <3>1, SeenShown
    <3>3. SeenAs(g)[m] = Shown(g, k)
      BY <1>7, <1>8, <3>1, SeenShown
    <3> QED
      BY <1>6, <3>2, <3>3
  <2> QED
    BY <2>1
<1>18. SeenAs(g)[r.msg] = fl
  <2>1. SeenAs(g)[g.file[n]] = Shown(g, n)
    BY <1>7, <1>8, SeenShown
  <2> QED
    BY <1>3, <1>6, <2>1
<1>19. ~Queued(by, f, r) => g.mark_queue = f.mark_queue
  BY <1>1 DEF Noted
<1> QED
  BY <1>15, <1>16, <1>17, <1>18, <1>19 DEF OneBrought

-----------------------------------------------------------------------------
\* Messages that come together: the flags and the counts.

Newcomers(f, rs) ==
    /\ \A j \in 1..Len(rs) : rs[j].msg \notin Contents(f)
    /\ \A i, j \in 1..Len(rs) : rs[i].msg = rs[j].msg => i = j
\* A folder that is shown gets the flags that its rows have.
Plain(by, f, rs) == f.opened => \A j \in 1..Len(rs) : NoteFlags(by, f, rs[j]) = rs[j].flags
\* No mark waits for them.
Direct(by, f, rs) == by = "adding" /\ ~f.opened /\ \A j \in 1..Len(rs) : ~rs[j].received

LEMMA BroughtNext ==
    ASSUME NEW by, NEW f, NEW g, NEW h, NEW rs, NEW i \in Nat,
           g.stype = f.stype, Brought(by, f, g, rs, i), OneBrought(by, g, h, rs[i + 1])
    PROVE  Brought(by, f, h, rs, i + 1)
<1>1. \A m : m \in Contents(h) <=> m \in Contents(g) \/ rs[i + 1].msg = m
  BY DEF OneBrought
<1>2. \A m : m \in Contents(g) <=> m \in Contents(f) \/ \E j \in 1..i : rs[j].msg = m
  BY DEF Brought
<1>3. \A j : j \in 1..(i + 1) <=> j \in 1..i \/ j = i + 1
  OBVIOUS
<1>4. \A m : m \in Contents(h) <=> m \in Contents(f) \/ \E j \in 1..(i + 1) : rs[j].msg = m
  BY <1>1, <1>2, <1>3
<1>5. \A m \in Contents(f) : SeenAs(h)[m] = SeenAs(f)[m]
  BY <1>2 DEF Brought, OneBrought
<1>6. NoteFlags(by, g, rs[i + 1]) = NoteFlags(by, f, rs[i + 1])
  BY DEF NoteFlags, ClearedFor
<1>7. \A j \in 1..i : SeenAs(h)[rs[j].msg] = NoteFlags(by, f, rs[j])
  BY <1>2 DEF Brought, OneBrought
<1>8. \A j \in 1..(i + 1) : SeenAs(h)[rs[j].msg] = NoteFlags(by, f, rs[j])
  BY <1>3, <1>6, <1>7 DEF OneBrought
<1> QED
  BY <1>4, <1>5, <1>8 DEF Brought

LEMMA BroughtAll ==
    ASSUME NEW by \in {"adding", "moving"}, NEW f \in FolderItems, f.last_num >= 0, Good(f),
           NEW rs \in Seq(Incoming), Cardinality(Free(f)) >= Len(rs),
           Filed(f), Unique(f), f.opened => OpenMarks(f), Newcomers(f, rs), Plain(by, f, rs),
           NEW w, Trace(by, f, rs, w), NEW i \in 0..Len(rs)
    PROVE  /\ Noticed(f, w[i]) /\ Brought(by, f, w[i], rs, i)
           /\ Direct(by, f, rs) => w[i].mark_queue = f.mark_queue
<1>1. PICK n \in Nat : n = Len(rs)
  OBVIOUS
<1> DEFINE Fine(j) == /\ Noticed(f, w[j]) /\ Brought(by, f, w[j], rs, j)
                      /\ Direct(by, f, rs) => w[j].mark_queue = f.mark_queue
           U == {j \in Nat : j > n \/ Fine(j)}
<1>2. \A j \in 1..n : w[j] = One(by, w[j - 1], rs[j]) /\ rs[j] \in Incoming
  BY <1>1 DEF Trace
<1>3. w[0] = f
  BY DEF Trace
<1>4. \A j \in 0..n : /\ w[j] \in FolderItems /\ w[j].last_num >= 0 /\ Grown(f, w[j], rs, j)
                      /\ Good(w[j]) /\ Cardinality(Free(w[j])) >= n - j
  BY <1>1, AddedAll
<1>5. Fine(0)
  <2>1. Noticed(f, f)
    BY DEF Noticed
  <2>2. Brought(by, f, f, rs, 0)
    BY DEF Brought
  <2> QED
    BY <1>3, <2>1, <2>2
<1>6. ASSUME NEW j \in Nat, j < n, Fine(j) PROVE Fine(j + 1)
  <2>0. j \in 0..n /\ j + 1 \in 0..n /\ j + 1 \in 1..n
    BY <1>6
  <2>1. PICK g \in FolderItems : g = w[j]
    BY <1>4, <2>0
  <2>2. PICK h \in FolderItems : h = w[j + 1]
    BY <1>4, <2>0
  <2>3. PICK r \in Incoming : r = rs[j + 1]
    BY <1>2, <2>0
  <2>4. h = One(by, g, r)
    BY <1>2, <2>0, <2>1, <2>2, <2>3
  <2>5. g.last_num >= 0 /\ Good(g) /\ Grown(f, g, rs, j) /\ Good(h)
    BY <1>4, <2>0, <2>1, <2>2
  <2>6. Free(g) # {}
    <3>1. Cardinality(Free(g)) # 0
      <4>1. Free(g) \in SUBSET Nums
        BY DEF Free
      <4>2. Cardinality(Free(g)) \in Nat /\ Cardinality(Free(g)) >= n - j
        BY <1>4, <2>0, <2>1, <4>1, NumsAre
      <4> QED
        BY <1>6, <4>2
    <3> QED
      BY <3>1, FS_EmptySet
  <2>7. PICK info : OneNoted(by, g, h, r, info)
    BY <2>4, <2>5, <2>6, OneNotes
  <2>8. Noticed(f, g) /\ Brought(by, f, g, rs, j) /\ (Direct(by, f, rs) => g.mark_queue = f.mark_queue)
    BY <1>6, <2>1
  <2>9. g.stype = f.stype /\ g.opened = f.opened
    BY <2>5 DEF Grown
  <2>10. r.msg \notin Contents(g)
    <3>1. \A k \in 1..j : k \in 1..n /\ k # j + 1
      BY <1>6
    <3>2. r.msg \notin Contents(f) /\ \A k \in 1..j : rs[k].msg # r.msg
      BY <1>1, <2>0, <2>3, <3>1 DEF Newcomers
    <3> QED
      BY <2>8, <3>2 DEF Brought
  <2>11. g.opened => OpenMarks(g) /\ NoteFlags(by, g, r) = r.flags
    <3>1. NoteFlags(by, g, r) = NoteFlags(by, f, r)
      BY <2>9 DEF NoteFlags, ClearedFor
    <3> QED
      BY <1>1, <2>0, <2>3, <2>8, <2>9, <3>1 DEF Noticed, Plain
  <2>12. Filed(g) /\ Unique(g)
    BY <2>8 DEF Noticed
  <2>13. /\ Noticed(g, h) /\ OneBrought(by, g, h, r)
         /\ ~Queued(by, g, r) => h.mark_queue = g.mark_queue
    BY <2>5, <2>7, <2>10, <2>11, <2>12, OneBroughtIs
  <2>14. Brought(by, f, h, rs, j + 1)
    BY <2>3, <2>8, <2>9, <2>13, BroughtNext
  <2>15. Noticed(f, h)
    BY <2>8, <2>9, <2>13 DEF Noticed
  <2>16. Direct(by, f, rs) => h.mark_queue = f.mark_queue
    <3>1. Direct(by, f, rs) => ~Queued(by, g, r)
      BY <1>1, <2>0, <2>3, <2>9 DEF Direct, Queued
    <3> QED
      BY <2>8, <2>13, <3>1
  <2> QED
    BY <2>2, <2>14, <2>15, <2>16
<1> HIDE DEF Fine
<1>7. 0 \in U
  BY <1>5
<1>8. \A j \in U : j + 1 \in U
  <2> SUFFICES ASSUME NEW j \in U PROVE j + 1 \in U
    OBVIOUS
  <2>1. j \in Nat /\ (j > n \/ Fine(j))
    OBVIOUS
  <2>2. j + 1 > n \/ (j < n /\ Fine(j))
    BY <2>1
  <2>3. j + 1 > n \/ Fine(j + 1)
    BY <1>6, <2>1, <2>2
  <2> QED
    BY <2>1, <2>3
<1>9. U = Nat
  BY <1>7, <1>8, SetInduction
<1>10. Fine(i)
  BY <1>1, <1>9
<1> QED
  BY <1>10 DEF Fine

-----------------------------------------------------------------------------
\* Marks that wait are written.

LEMMA LastInJoin ==
    ASSUME NEW R, NEW rs \in Seq(R), NEW ss \in Seq(R), Distinct(ss), Apart(rs, ss), NEW t, t = Joined(rs, ss)
    PROVE  /\ t \in Seq(R)
           /\ \A n : n \in NumsOf(t) <=> n \in NumsOf(rs) \/ n \in NumsOf(ss)
           /\ \A n \in NumsOf(ss) : LastOf(t, n) = FirstOf(ss, n)
           /\ \A n \in NumsOf(rs) : LastOf(t, n) = LastOf(rs, n)
           /\ Agree(rs) => Agree(t)
<1>1. /\ t \in Seq(R)
      /\ \A n : n \in NumsOf(t) <=> n \in NumsOf(rs) \/ n \in NumsOf(ss)
  BY JoinedIs
<1>2. Joins(rs, ss, t)
  BY JoinedParts
<1>3. /\ \A i \in 1..Len(t) : \/ i \in 1..Len(rs) /\ t[i] = rs[i]
                              \/ \E j \in 1..Len(ss) : i = Len(rs) + j /\ t[i] = ss[j]
      /\ \A i \in 1..Len(rs) : i \in 1..Len(t) /\ t[i] = rs[i]
      /\ \A i \in 1..Len(ss) : Len(rs) + i \in 1..Len(t) /\ t[Len(rs) + i] = ss[i]
      /\ Len(rs) \in Nat /\ Len(ss) \in Nat
  BY <1>2 DEF Joins
<1>4. /\ \A i \in 1..Len(rs) : rs[i].num \in NumsOf(rs)
      /\ \A i \in 1..Len(ss) : ss[i].num \in NumsOf(ss)
  BY NumsOfIs
<1>5. \A i \in 1..Len(t) : (i \in 1..Len(rs) /\ t[i] = rs[i]) \/ \E j \in 1..Len(ss) : t[i] = ss[j]
  BY <1>3
<1>9. ASSUME NEW i \in 1..Len(t), t[i].num \notin NumsOf(ss) PROVE i \in 1..Len(rs) /\ t[i] = rs[i]
  BY <1>4, <1>5, <1>9
<1>10. ASSUME NEW i \in 1..Len(t), t[i].num \notin NumsOf(rs) PROVE \E j \in 1..Len(ss) : t[i] = ss[j]
  BY <1>4, <1>5, <1>10
<1>6. ASSUME NEW n \in NumsOf(ss) PROVE LastOf(t, n) = FirstOf(ss, n)
  <2>1. PICK i \in 1..Len(ss) : FirstOf(ss, n) = ss[i] /\ ss[i].num = n
    BY RecordOf
  <2>2. PICK k \in 1..Len(t) : LastOf(t, n) = t[k] /\ t[k].num = n
    BY <1>1, RecordOf
  <2>3. PICK j \in 1..Len(ss) : t[k] = ss[j]
    <3>1. t[k].num \notin NumsOf(rs)
      BY <1>6, <2>2 DEF Apart
    <3> QED
      BY <1>10, <3>1
  <2>4. j = i
    BY <2>1, <2>2, <2>3 DEF Distinct
  <2> QED
    BY <2>1, <2>2, <2>3, <2>4
<1>7. ASSUME NEW n \in NumsOf(rs) PROVE LastOf(t, n) = LastOf(rs, n)
  <2>1. PICK i \in 1..Len(rs) : /\ LastOf(rs, n) = rs[i] /\ rs[i].num = n
                                /\ \A j \in 1..Len(rs) : rs[j].num = n => j <= i
    BY RecordOf
  <2>2. PICK k \in 1..Len(t) : /\ LastOf(t, n) = t[k] /\ t[k].num = n
                               /\ \A j \in 1..Len(t) : t[j].num = n => j <= k
    BY <1>1, RecordOf
  <2>3. k \in 1..Len(rs) /\ t[k] = rs[k]
    <3>1. t[k].num \notin NumsOf(ss)
      BY <1>7, <2>2 DEF Apart
    <3> QED
      BY <1>9, <3>1
  <2>4. k <= i
    BY <2>1, <2>2, <2>3
  <2>5. i <= k
    BY <1>3, <2>1, <2>2
  <2>6. i = k
    BY <2>3, <2>4, <2>5
  <2> QED
    BY <2>1, <2>2, <2>3, <2>6
<1>8. ASSUME Agree(rs) PROVE Agree(t)
  <2>1. ASSUME NEW i \in 1..Len(t), NEW j \in 1..Len(t), t[i].num = t[j].num
        PROVE  t[i].flags \ UserFlags = t[j].flags \ UserFlags
    <3>1. CASE i \in 1..Len(rs) /\ t[i] = rs[i]
      <4>1. j \in 1..Len(rs) /\ t[j] = rs[j]
        <5>1. t[j].num \in NumsOf(rs)
          BY <1>4, <2>1, <3>1
        <5>2. t[j].num \notin NumsOf(ss)
          BY <5>1 DEF Apart
        <5> QED
          BY <1>9, <5>2
      <4> QED
        BY <1>8, <2>1, <3>1, <4>1 DEF Agree
    <3>2. CASE \E k \in 1..Len(ss) : i = Len(rs) + k /\ t[i] = ss[k]
      <4>1. PICK k \in 1..Len(ss) : t[i] = ss[k]
        BY <3>2
      <4>2. PICK l \in 1..Len(ss) : t[j] = ss[l]
        <5>1. t[j].num \in NumsOf(ss)
          BY <1>4, <2>1, <4>1
        <5>2. t[j].num \notin NumsOf(rs)
          BY <5>1 DEF Apart
        <5> QED
          BY <1>10, <5>2
      <4>3. k = l
        BY <2>1, <4>1, <4>2 DEF Distinct
      <4> QED
        BY <4>1, <4>2, <4>3
    <3> QED
      BY <1>3, <3>1, <3>2
  <2> QED
    BY <2>1 DEF Agree
<1> QED
  BY <1>1, <1>6, <1>7, <1>8

\* The marks of a closed folder, after those that wait are written.
LEMMA FlushedMarks ==
    ASSUME NEW f \in FolderItems, Filed(f), NEW g \in FolderItems, g.file = f.file, g.stype = f.stype,
           g.mark_queue = <<>>, g.marks.recs = Joined(f.marks.recs, f.mark_queue),
           g.marks.state = IF f.mark_queue = <<>> THEN f.marks.state ELSE "ok"
    PROVE  Filed(g) /\ SameTable(f, g)
<1>1. f.mark_queue \in Seq(Marks) /\ f.marks.recs \in Seq(Marks)
  BY DEF FolderItems, Written
<1>2. Distinct(f.mark_queue) /\ Apart(f.marks.recs, f.mark_queue) /\ Agree(f.marks.recs) /\ ReadableMarks(f)
  BY DEF Filed
<1>3. PICK t : t = g.marks.recs
  OBVIOUS
<1>4. /\ \A n : n \in NumsOf(t) <=> n \in NumsOf(f.marks.recs) \/ n \in NumsOf(f.mark_queue)
      /\ Agree(t)
  BY <1>1, <1>2, <1>3, LastInJoin
<1>5. /\ \A n \in NumsOf(f.mark_queue) : LastOf(t, n) = FirstOf(f.mark_queue, n)
      /\ \A n \in NumsOf(f.marks.recs) : LastOf(t, n) = LastOf(f.marks.recs, n)
  BY <1>1, <1>2, <1>3, LastInJoin
<1>6. \A n : n \notin NumsOf(g.mark_queue)
  BY EmptyIs
<1>7. SameTable(f, g)
  BY <1>3, <1>4, <1>5, <1>6 DEF SameTable, HasMark, MarkFor
<1>8. KnownMarks(g)
  BY <1>7, KnownAs DEF Filed, SameTable
<1>9. ReadableMarks(g)
  <2>1. ASSUME g.marks.state # "ok" PROVE g.marks.recs = <<>>
    <3>1. f.mark_queue = <<>> /\ f.marks.recs = <<>>
      BY <1>2, <2>1 DEF ReadableMarks
    <3> QED
      BY <3>1 DEF Joined
  <2> QED
    BY <2>1 DEF ReadableMarks
<1>10. Distinct(g.mark_queue) /\ Apart(g.marks.recs, g.mark_queue)
  BY EmptyIs
<1> QED
  BY <1>3, <1>4, <1>7, <1>8, <1>9, <1>10 DEF Filed

LEMMA SameSeen ==
    ASSUME NEW f, NEW g, SameShown(f, g)
    PROVE  /\ SeenAs(g) = SeenAs(f) /\ Contents(g) = Contents(f) /\ FileNums(g) = FileNums(f)
           /\ Unique(f) => Unique(g)
<1>1. g.file = f.file /\ FileNums(g) = FileNums(f) /\ Contents(g) = Contents(f)
  BY SameFiles DEF SameShown
<1>2. \A m \in Contents(f) : (CHOOSE n \in FileNums(f) : f.file[n] = m) \in FileNums(f)
  BY DEF Contents
<1>3. SeenAs(g) = SeenAs(f)
  BY <1>1, <1>2 DEF SeenAs, SameShown
<1> QED
  BY <1>1, <1>3 DEF Unique

\* A closed folder that has the same marks.
LEMMA SameTableShown ==
    ASSUME NEW f, NEW g, SameTable(f, g), g.file = f.file, g.stype = f.stype, ~f.opened, ~g.opened
    PROVE  SameShown(f, g) /\ (AllMarked(f) => AllMarked(g))
<1>1. FileNums(g) = FileNums(f)
  BY SameFiles
<1> QED
  BY <1>1 DEF SameTable, SameShown, Shown, AllMarked

LEMMA SameBrought ==
    ASSUME NEW by, NEW f, NEW s, NEW g, NEW h, NEW rs, NEW i, SameShown(f, s), SameShown(g, h),
           Brought(by, s, g, rs, i)
    PROVE  Brought(by, f, h, rs, i)
<1>1. SeenAs(s) = SeenAs(f) /\ Contents(s) = Contents(f) /\ s.stype = f.stype
  BY SameSeen DEF SameShown
<1>2. SeenAs(h) = SeenAs(g) /\ Contents(h) = Contents(g)
  BY SameSeen
<1>3. \A r : NoteFlags(by, s, r) = NoteFlags(by, f, r)
  BY <1>1 DEF NoteFlags, ClearedFor
<1> QED
  BY <1>1, <1>2, <1>3 DEF Brought

-----------------------------------------------------------------------------
\* mh_add_msgs and mh_do_move_msgs.

LEMMA ScanMarks ==
    ASSUME NEW f \in FolderItems, Marked(f), NEW g, g = Scan(f)
    PROVE  /\ Marked(g) /\ SameShown(f, g) /\ (AllMarked(f) => AllMarked(g))
           /\ ~f.opened \/ f.stype = "F_DRAFT" => Counted(g)
           /\ f.mark_queue = <<>> => g.mark_queue = <<>>
<1>1. g \in FolderItems /\ SameMail(f, g) /\ Flushed(f, g) /\ Settled(f, g)
  BY ScanIs
<1>2. Filed(f) /\ Ready(f) /\ Unique(f) /\ (f.opened => OpenMarks(f))
  BY DEF Marked
<1>3. /\ Filed(g) /\ Ready(g) /\ SameTable(f, g) /\ SameShown(f, g)
      /\ f.opened /\ OpenMarks(f) => OpenMarks(g)
  BY <1>1, <1>2, SettledMarked
<1>4. g.opened = f.opened /\ Unique(g) /\ FileNums(g) = FileNums(f)
  BY <1>1, <1>2, <1>3, SameSeen DEF SameMail
<1>5. AllMarked(f) => AllMarked(g)
  BY <1>3, <1>4 DEF AllMarked, SameTable
<1>6. ~f.opened \/ f.stype = "F_DRAFT" => Counted(g)
  BY <1>2, ScanCounted
<1>7. f.mark_queue = <<>> => g.mark_queue = <<>>
  BY <1>1 DEF Settled
<1>8. Marked(g)
  BY <1>2, <1>3, <1>4 DEF Marked
<1> QED
  BY <1>3, <1>5, <1>6, <1>7, <1>8

LEMMA ScannedMarks ==
    ASSUME NEW f \in FolderItems, Marked(f), NEW g, g = Scanned(f)
    PROVE  /\ Marked(g) /\ SameShown(f, g) /\ (AllMarked(f) => AllMarked(g))
           /\ Counted(f) /\ (f.opened => f.last_num >= 0) => Counted(g)
           /\ f.mark_queue = <<>> => g.mark_queue = <<>>
<1>1. CASE f.last_num < 0
  <2>1. g = Scan(f)
    BY <1>1 DEF Scanned
  <2>2. f.opened => ~(f.last_num >= 0)
    BY <1>1 DEF FolderItems
  <2> QED
    BY <2>1, <2>2, ScanMarks
<1>2. CASE ~(f.last_num < 0)
  <2>1. g = f
    BY <1>2 DEF Scanned
  <2> QED
    BY <2>1 DEF SameShown
<1> QED
  BY <1>1, <1>2

\* An empty mark file is made, if there is none.
LEMMA EmptyAppended ==
    ASSUME NEW f \in FolderItems, ~f.opened, Filed(f), NEW none, none = <<>>, NEW g, g = AppendMarks(f, none)
    PROVE  /\ g \in FolderItems /\ Filed(g) /\ SameShown(f, g) /\ SameMail(f, g) /\ SameSums(f, g)
           /\ g.marks.state = "ok" /\ g.mark_queue = f.mark_queue
           /\ AllMarked(f) => AllMarked(g)
<1>1. none \in Seq(Marks)
  OBVIOUS
<1>2. /\ g \in FolderItems /\ SameMail(f, g) /\ SameSums(f, g)
      /\ g.mark_queue = f.mark_queue /\ g.marks.state = "ok"
      /\ g.marks.recs = Joined(f.marks.recs, none)
  BY <1>1, AppendMarksIs, ZenonT(60)
<1>3. f.marks.recs \in Seq(Marks)
  BY DEF FolderItems, Written
<1>4. g.marks.recs = f.marks.recs
  BY <1>2, <1>3, ConcatEmptySeq DEF Joined
<1>5. SameTable(f, g)
  BY <1>2, <1>4 DEF SameTable, HasMark, MarkFor
<1>6. KnownMarks(g)
  BY <1>2, <1>5, KnownAs DEF Filed, SameTable, SameMail
<1>7. Filed(g)
  BY <1>2, <1>4, <1>6 DEF Filed, ReadableMarks
<1> QED
  BY <1>2, <1>5, <1>7, SameTableShown DEF SameMail

LEMMA AddMsgsMarks ==
    ASSUME NEW f \in FolderItems, Good(f), Marked(f), NEW rs \in Seq(Incoming), NEW n \in Nat, n = Len(rs),
           HasRoom(f, n), Newcomers(f, rs), Plain("adding", f, rs), NEW g, g = AddMsgs(f, rs)
    PROVE  /\ Marked(g) /\ Brought("adding", f, g, rs, n)
           /\ Counted(f) /\ (f.opened => f.last_num >= 0) => Counted(g)
           /\ AllMarked(f) => AllMarked(g)
           /\ Direct("adding", f, rs) /\ f.mark_queue = <<>> => g.mark_queue = <<>>
<1>1. PICK s : s = Scanned(f)
  OBVIOUS
<1>2. s \in FolderItems /\ SameMail(f, s) /\ Good(s) /\ s.last_num >= 0
  BY <1>1, ScannedGood
<1>3. /\ Marked(s) /\ SameShown(f, s) /\ (AllMarked(f) => AllMarked(s))
      /\ Counted(f) /\ (f.opened => f.last_num >= 0) => Counted(s)
      /\ f.mark_queue = <<>> => s.mark_queue = <<>>
  BY <1>1, ScannedMarks
<1>4. Cardinality(Free(s)) >= n
  BY <1>1, RoomIs
<1>5. PICK none : none = <<>>
  OBVIOUS
<1>6. PICK t : t = IF s.opened THEN s ELSE AppendMarks(s, none)
  OBVIOUS
<1>7. /\ t \in FolderItems /\ Good(t) /\ t.last_num >= 0 /\ t.opened = f.opened /\ Free(t) = Free(s)
      /\ SameShown(s, t) /\ Filed(t) /\ Unique(t) /\ t.marks.state = "ok"
      /\ t.mark_queue = s.mark_queue /\ (Counted(s) => Counted(t)) /\ (AllMarked(s) => AllMarked(t))
      /\ t.opened => OpenMarks(t)
  <2>1. CASE s.opened
    BY <1>2, <1>3, <1>6, <2>1 DEF Marked, Ready, SameShown, SameMail
  <2>2. CASE ~s.opened
    <3>1. t = AppendMarks(s, none)
      BY <1>6, <2>2
    <3>2. none \in Seq(Marks) /\ Filed(s) /\ Unique(s)
      BY <1>3, <1>5 DEF Marked
    <3>3. /\ t \in FolderItems /\ Filed(t) /\ SameShown(s, t) /\ SameMail(s, t) /\ SameSums(s, t)
          /\ t.marks.state = "ok" /\ t.mark_queue = s.mark_queue
          /\ AllMarked(s) => AllMarked(t)
      BY <1>2, <1>5, <2>2, <3>1, <3>2, EmptyAppended
    <3>4. SameCache(s, t)
      BY <1>2, <3>1, <3>2, AppendMarksIs
    <3>5. Good(t)
      BY <1>2, <2>2, <3>3, <3>4, MarksGood
    <3>6. Unique(t)
      BY <3>2, <3>3, SameSeen
    <3>7. Free(t) = Free(s) /\ t.last_num >= 0 /\ t.opened = f.opened /\ ~t.opened
      BY <1>2, <2>2, <3>3 DEF Free, SameMail, SameSums
    <3>8. Counted(s) => Counted(t)
      BY <3>3, SameCounted DEF SameSums
    <3> QED
      BY <3>3, <3>5, <3>6, <3>7, <3>8
  <2> QED
    BY <2>1, <2>2
<1>8. g = FoldLeft(AddOne, t, rs)
  BY <1>1, <1>5, <1>6 DEF AddMsgs
<1>9. PICK w : Trace("adding", t, rs, w) /\ w[n] = g
  BY <1>8, AddingFold
<1>10. SameShown(f, t)
  <2>1. FileNums(s) = FileNums(f)
    BY <1>3, SameSeen
  <2> QED
    BY <1>3, <1>7, <2>1 DEF SameShown
<1>11. Newcomers(t, rs) /\ Plain("adding", t, rs)
  <2>1. Contents(t) = Contents(f) /\ t.stype = f.stype
    BY <1>10, SameSeen DEF SameShown
  <2>2. \A r : NoteFlags("adding", t, r) = NoteFlags("adding", f, r)
    BY <2>1 DEF NoteFlags, ClearedFor
  <2> QED
    BY <1>7, <2>1, <2>2 DEF Newcomers, Plain
<1>12. n \in 0..Len(rs) /\ Cardinality(Free(t)) >= Len(rs)
  BY <1>4, <1>7
<1>13. /\ Noticed(t, g) /\ Brought("adding", t, g, rs, n)
       /\ Direct("adding", t, rs) => g.mark_queue = t.mark_queue
  BY <1>7, <1>9, <1>11, <1>12, BroughtAll
<1>14. Grown(t, g, rs, n)
  BY <1>7, <1>9, <1>12, AddedAll
<1>15. g.opened = t.opened
  BY <1>14 DEF Grown
<1>16. Marked(g)
  BY <1>7, <1>13, <1>15 DEF Noticed, Marked, Ready
<1>17. Brought("adding", f, g, rs, n)
  <2>1. SameShown(g, g)
    BY DEF SameShown
  <2> QED
    BY <1>10, <1>13, <2>1, SameBrought
<1>18. Direct("adding", f, rs) => Direct("adding", t, rs)
  BY <1>7 DEF Direct
<1>19. (Counted(t) => Counted(g)) /\ (AllMarked(t) => AllMarked(g))
  BY <1>13 DEF Noticed
<1> QED
  BY <1>3, <1>7, <1>13, <1>16, <1>17, <1>18, <1>19

LEMMA MoveMsgsMarks ==
    ASSUME NEW f \in FolderItems, ~f.opened, Good(f), Marked(f), NEW rs \in Seq(Incoming), NEW n \in Nat,
           n = Len(rs), HasRoom(f, n), Newcomers(f, rs), NEW g, g = MoveMsgs(f, rs)
    PROVE  /\ Marked(g) /\ Brought("moving", f, g, rs, n) /\ g.mark_queue = <<>>
           /\ Counted(f) => Counted(g)
           /\ AllMarked(f) => AllMarked(g)
<1>1. PICK s : s = Scanned(f)
  OBVIOUS
<1>2. s \in FolderItems /\ SameMail(f, s) /\ Good(s) /\ s.last_num >= 0
  BY <1>1, ScannedGood
<1>3. /\ Marked(s) /\ SameShown(f, s) /\ (AllMarked(f) => AllMarked(s))
      /\ Counted(f) => Counted(s)
  BY <1>1, ScannedMarks
<1>4. Cardinality(Free(s)) >= n
  BY <1>1, RoomIs
<1>5. ~s.opened /\ Filed(s) /\ Unique(s)
  BY <1>2, <1>3 DEF SameMail, Marked
<1>6. PICK h : h = FoldLeft(PutQueued, s, rs)
  OBVIOUS
<1>7. PICK w : Trace("moving", s, rs, w) /\ w[n] = h
  BY <1>6, MovingFold
<1>8. Newcomers(s, rs) /\ Plain("moving", s, rs)
  <2>1. Contents(s) = Contents(f)
    BY <1>3, SameSeen
  <2> QED
    BY <1>5, <2>1 DEF Newcomers, Plain
<1>9. n \in 0..Len(rs) /\ Cardinality(Free(s)) >= Len(rs)
  BY <1>4
<1>10. Noticed(s, h) /\ Brought("moving", s, h, rs, n)
  BY <1>2, <1>5, <1>7, <1>8, <1>9, BroughtAll
<1>11. h \in FolderItems /\ Good(h) /\ Grown(s, h, rs, n)
  BY <1>2, <1>7, <1>9, AddedAll
<1>12. ~h.opened /\ Filed(h) /\ Unique(h)
  BY <1>5, <1>10, <1>11 DEF Grown, Noticed
<1>13. PICK p : p = FlushMarkQueue(h)
  OBVIOUS
<1>14. /\ p \in FolderItems /\ SameMail(h, p) /\ SameSums(h, p)
       /\ p.mark_queue = <<>> /\ p.marks.recs = Joined(h.marks.recs, h.mark_queue)
       /\ p.marks.state = IF h.mark_queue = <<>> THEN h.marks.state ELSE "ok"
  BY <1>11, <1>13, FlushMarkQueueIs
<1>15. g = FlushCacheQueue(p)
  BY <1>1, <1>6, <1>12, <1>13 DEF MoveMsgs
<1>16. g \in FolderItems /\ SameMail(p, g) /\ SameMarks(p, g) /\ SameSums(p, g)
  BY <1>14, <1>15, FlushCacheQueueIs
<1>17. /\ g.file = h.file /\ g.stype = h.stype /\ ~g.opened /\ g.mark_queue = <<>>
       /\ g.marks.recs = Joined(h.marks.recs, h.mark_queue)
       /\ g.marks.state = IF h.mark_queue = <<>> THEN h.marks.state ELSE "ok"
       /\ g.total = h.total /\ g.unread = h.unread
  BY <1>12, <1>14, <1>16 DEF SameMail, SameMarks, SameSums
<1>18. Filed(g) /\ SameTable(h, g)
  BY <1>11, <1>12, <1>16, <1>17, FlushedMarks
<1>19. SameShown(h, g) /\ (AllMarked(h) => AllMarked(g))
  BY <1>12, <1>17, <1>18, SameTableShown
<1>20. Counted(h) => Counted(g)
  BY <1>17, <1>19, SameCounted
<1>21. Unique(g)
  BY <1>12, <1>19, SameSeen
<1>22. Marked(g)
  BY <1>17, <1>18, <1>21 DEF Marked, Ready
<1>23. Brought("moving", f, g, rs, n)
  BY <1>3, <1>10, <1>19, SameBrought
<1> QED
  BY <1>3, <1>10, <1>17, <1>19, <1>20, <1>22, <1>23 DEF Noticed

-----------------------------------------------------------------------------
\* Messages that leave: the counts.

\* The rows rs are of files that f has, each of another.
Leaving(f, rs) ==
    /\ \A j \in 1..Len(rs) : rs[j].num \in FileNums(f) /\ Shown(f, rs[j].num) = rs[j].flags
    /\ \A i, j \in 1..Len(rs) : rs[i].num = rs[j].num => i = j
CountTaken(f, g) ==
    /\ g.total = Cardinality(FileNums(g))
    /\ f.stype # "F_DRAFT" => g.unread = Cardinality(UnreadNums(f) \cap FileNums(g))

LEMMA RemovedFiles ==
    ASSUME NEW f \in FolderItems, NEW g, NEW rs \in Seq(MsgInfos), NEW i \in 0..Len(rs), Removed(f, g, rs, i)
    PROVE  /\ \A n : n \in FileNums(g) <=> n \in FileNums(f) /\ \A j \in 1..i : rs[j].num # n
           /\ \A n \in FileNums(g) : g.file[n] = f.file[n]
BY DEF Removed, FileNums

LEMMA TakenOne ==
    ASSUME NEW f \in FolderItems, NEW g \in FolderItems, FileNums(g) \in SUBSET FileNums(f), CountTaken(f, g),
           NEW r, r.num \in FileNums(g), r.flags \in Flags, Shown(f, r.num) = r.flags,
           NEW h, h = TakeAway(g, r)
    PROVE  CountTaken(f, h)
<1>1. r.num \in Nums
  BY DEF FileNums
<1>2. /\ h \in FolderItems /\ h.file[r.num] = None
      /\ \A k \in Nums : k # r.num => h.file[k] = g.file[k]
  BY <1>1, TakeAwayIs
<1>3. h.total = g.total - 1 /\ h.unread = g.unread - Unread(r.flags)
  BY DEF TakeAway, FolderItems
<1>4. FileNums(h) = FileNums(g) \ {r.num}
  BY <1>2 DEF FileNums
<1>5. /\ IsFiniteSet(FileNums(g)) /\ Cardinality(FileNums(g)) \in Nat
      /\ IsFiniteSet(UnreadNums(f))
  BY FilesCount
<1>6. h.total = Cardinality(FileNums(h))
  <2>1. Cardinality(FileNums(h)) = Cardinality(FileNums(g)) - 1
    <3>1. PICK S : S = FileNums(g)
      OBVIOUS
    <3>2. PICK n : n = r.num
      OBVIOUS
    <3>3. n \in S /\ IsFiniteSet(S)
      BY <1>5, <3>1, <3>2
    <3>4. Cardinality(S \ {n}) = Cardinality(S) - 1
      BY <3>3, FS_RemoveElement
    <3> QED
      BY <1>4, <3>1, <3>2, <3>4
  <2> QED
    BY <1>3, <2>1 DEF CountTaken
<1>7. ASSUME f.stype # "F_DRAFT" PROVE h.unread = Cardinality(UnreadNums(f) \cap FileNums(h))
  <2>1. PICK U : U = UnreadNums(f) \cap FileNums(g)
    OBVIOUS
  <2>2. IsFiniteSet(U) /\ Cardinality(U) \in Nat
    BY <1>5, <2>1, FS_Subset, FS_CardinalityType
  <2>3. UnreadNums(f) \cap FileNums(h) = U \ {r.num}
    BY <1>4, <2>1
  <2>4. r.num \in U <=> "UNREAD" \in r.flags
    BY <2>1 DEF UnreadNums
  <2>5. Cardinality(U \ {r.num}) = IF r.num \in U THEN Cardinality(U) - 1 ELSE Cardinality(U)
    BY <2>2, FS_RemoveElement
  <2>6. g.unread = Cardinality(U)
    BY <1>7, <2>1 DEF CountTaken
  <2> QED
    BY <1>3, <2>2, <2>3, <2>4, <2>5, <2>6 DEF Unread
<1> QED
  BY <1>6, <1>7 DEF CountTaken

LEMMA TakenCounts ==
    ASSUME NEW f \in FolderItems, Counted(f), NEW rs \in Seq(MsgInfos), Leaving(f, rs),
           NEW g, g = FoldLeft(TakeAway, f, rs)
    PROVE  CountTaken(f, g)
<1>1. PICK n \in Nat : n = Len(rs)
  OBVIOUS
<1>2. PICK w : Trace("taking", f, rs, w) /\ w[n] = g
  <2>1. DOMAIN rs = 1..n
    BY <1>1
  <2> QED
    BY <1>1, <2>1, TakingFold
<1> DEFINE Fine(j) == CountTaken(f, w[j])
           U == {j \in Nat : j > n \/ Fine(j)}
<1>3. \A j \in 1..n : w[j] = TakeAway(w[j - 1], rs[j]) /\ rs[j] \in MsgInfos
  BY <1>1, <1>2 DEF Trace, One
<1>4. \A j \in 0..n : w[j] \in FolderItems /\ Removed(f, w[j], rs, j)
  BY <1>1, <1>2, TakenAll
<1>5. Fine(0)
  <2>1. w[0] = f
    BY <1>2 DEF Trace
  <2>2. UnreadNums(f) \cap FileNums(f) = UnreadNums(f)
    BY DEF UnreadNums
  <2> QED
    BY <2>1, <2>2 DEF Counted, CountTaken
<1>6. ASSUME NEW j \in Nat, j < n, Fine(j) PROVE Fine(j + 1)
  <2>0. j \in 0..n /\ j + 1 \in 1..n /\ \A k \in 1..j : k \in 1..n /\ k # j + 1
    BY <1>6
  <2>1. PICK h \in FolderItems : h = w[j] /\ Removed(f, h, rs, j)
    BY <1>4, <2>0
  <2>2. PICK r \in MsgInfos : r = rs[j + 1]
    BY <1>3, <2>0
  <2>3. w[j + 1] = TakeAway(h, r)
    BY <1>3, <2>0, <2>1, <2>2
  <2>4. r.num \in FileNums(f) /\ Shown(f, r.num) = r.flags /\ r.flags \in Flags
    BY <1>1, <2>0, <2>2 DEF Leaving, MsgInfos
  <2>5. \A k \in 1..j : rs[k].num # r.num
    BY <1>1, <2>0, <2>2 DEF Leaving
  <2>6. j \in 0..Len(rs)
    BY <1>1, <2>0
  <2>7. r.num \in FileNums(h) /\ FileNums(h) \in SUBSET FileNums(f)
    BY <2>1, <2>4, <2>5, <2>6, RemovedFiles
  <2> QED
    BY <1>6, <2>1, <2>3, <2>4, <2>7, TakenOne
<1> HIDE DEF Fine
<1>7. 0 \in U
  BY <1>5
<1>8. \A j \in U : j + 1 \in U
  <2> SUFFICES ASSUME NEW j \in U PROVE j + 1 \in U
    OBVIOUS
  <2>1. j \in Nat /\ (j > n \/ Fine(j))
    OBVIOUS
  <2>2. j + 1 > n \/ (j < n /\ Fine(j))
    BY <2>1
  <2>3. j + 1 > n \/ Fine(j + 1)
    BY <1>6, <2>1, <2>2
  <2> QED
    BY <2>1, <2>3
<1>9. U = Nat
  BY <1>7, <1>8, SetInduction
<1>10. Fine(n)
  BY <1>1, <1>9
<1> QED
  BY <1>2, <1>10 DEF Fine

LEMMA RemoveMsgCounts ==
    ASSUME NEW f \in FolderItems, Counted(f), NEW r, r.num \in FileNums(f), r.flags \in Flags,
           Shown(f, r.num) = r.flags, NEW g, g = RemoveMsg(f, r)
    PROVE  CountTaken(f, g)
<1>1. PICK t : t = TakeAway(f, r)
  OBVIOUS
<1>2. CountTaken(f, f)
  <2>1. UnreadNums(f) \cap FileNums(f) = UnreadNums(f)
    BY DEF UnreadNums
  <2> QED
    BY <2>1 DEF Counted, CountTaken
<1>3. CountTaken(f, t)
  BY <1>1, <1>2, TakenOne
<1>4. t \in FolderItems
  BY <1>1, TakeAwayIs DEF FileNums
<1>5. CASE r.num # f.last_num
  BY <1>1, <1>3, <1>5 DEF RemoveMsg
<1>6. CASE r.num = f.last_num
  <2>1. g = Rescan(t)
    BY <1>1, <1>6 DEF RemoveMsg
  <2>2. FileNums(g) = FileNums(t)
    BY <1>4, <2>1, RescanIs, SameFiles DEF SameMail
  <2>3. CASE FileNums(t) = {}
    <3>1. g.total = 0 /\ g.unread = 0
      BY <1>4, <2>1, <2>3 DEF Rescan, FolderItems
    <3>2. UnreadNums(f) \cap FileNums(g) = {} /\ FileNums(g) = {}
      BY <2>2, <2>3
    <3> QED
      BY <3>1, <3>2, FS_EmptySet DEF CountTaken
  <2>4. CASE FileNums(t) # {}
    <3>1. g.total = t.total /\ g.unread = t.unread
      BY <1>4, <2>1, <2>4 DEF Rescan, FolderItems
    <3> QED
      BY <1>3, <2>2, <3>1 DEF CountTaken
  <2> QED
    BY <2>3, <2>4
<1> QED
  BY <1>5, <1>6

-----------------------------------------------------------------------------
\* The folder after messages left and its files were written.

\* t are rows of f, and among them those of the files of g.
RowsFor(f, g, t) ==
    /\ \A i \in 1..Len(t) : \E j \in 1..Len(f.list) : t[i] = f.list[j]
    /\ \A n \in FileNums(g) : n \in NumsOf(f.list) => n \in NumsOf(t)

LEMMA StayingNums ==
    ASSUME NEW f \in FolderItems, NEW rs \in Seq(MsgInfos), NEW g \in FolderItems,
           Removed(f, g, rs, Len(rs)),
           NEW t, t = Picked(f.list, {i \in DOMAIN f.list : f.list[i] \notin ToSet(rs)})
    PROVE  RowsFor(f, g, t)
<1>1. PICK l \in Seq(MsgInfos) : l = f.list
  BY DEF FolderItems
<1>2. PICK I : I = {i \in DOMAIN l : l[i] \notin ToSet(rs)}
  OBVIOUS
<1>3. I \in SUBSET (1..Len(l)) /\ \A i \in 1..Len(l) : i \in I <=> l[i] \notin ToSet(rs)
  BY <1>2
<1>4. t = Picked(l, I)
  BY <1>1, <1>2
<1>5. t \in Seq(MsgInfos) /\ PickedFrom(l, I, t)
  BY <1>3, <1>4, PickedNums
<1>6. \A i \in 1..Len(t) : \E j \in 1..Len(l) : t[i] = l[j]
  BY <1>3, <1>5 DEF PickedFrom
<1>7. ASSUME NEW n \in FileNums(g), n \in NumsOf(l) PROVE n \in NumsOf(t)
  <2>1. PICK j \in 1..Len(l) : l[j].num = n
    BY <1>7, NumsOfIs
  <2>2. \A k \in 1..Len(rs) : rs[k].num # n
    BY <1>7, RemovedFiles
  <2>3. l[j] \notin ToSet(rs)
    BY <2>1, <2>2 DEF ToSet
  <2>4. PICK i \in 1..Len(t) : t[i] = l[j]
    BY <1>3, <1>5, <2>3 DEF PickedFrom
  <2> QED
    BY <1>5, <2>1, <2>4, NumsOfIs
<1> QED
  BY <1>1, <1>6, <1>7 DEF RowsFor

LEMMA LeftMarks ==
    ASSUME NEW f \in FolderItems, Good(f), f.opened, f.cache_queue = <<>>, Marked(f),
           NEW rs \in Seq(MsgInfos),
           \A i \in 1..Len(rs) : \E j \in 1..Len(f.list) : rs[i] = f.list[j],
           NEW g \in FolderItems, Removed(f, g, rs, Len(rs)),
           NEW h, h = WriteCache(Left(g, rs))
    PROVE  /\ Marked(h) /\ h.opened /\ h.stype = f.stype /\ h.last_num = g.last_num
           /\ \A n : n \in FileNums(h) <=> n \in FileNums(f) /\ \A j \in 1..Len(rs) : rs[j].num # n
           /\ \A n \in FileNums(h) : h.file[n] = f.file[n] /\ Shown(h, n) = Shown(f, n)
           /\ CountTaken(f, g) => Counted(h)
<1>1. PICK t : t = Picked(f.list, {i \in DOMAIN f.list : f.list[i] \notin ToSet(rs)})
  OBVIOUS
<1>2. t \in Seq(MsgInfos) /\ Distinct(t) /\ Right(g, t)
  BY <1>1, StayingRows
<1>3. /\ \A i \in 1..Len(t) : \E j \in 1..Len(f.list) : t[i] = f.list[j]
      /\ \A n \in FileNums(g) : n \in NumsOf(f.list) => n \in NumsOf(t)
  <2>1. RowsFor(f, g, t)
    BY <1>1, StayingNums
  <2> QED
    BY <2>1 DEF RowsFor
<1>4. PICK e : e = Left(g, rs)
  OBVIOUS
<1>5. e = WithLeft(g, t)
  BY <1>1, <1>4 DEF Left, WithLeft, Removed
<1>6. /\ e \in FolderItems /\ e.stype = g.stype /\ e.file = g.file /\ e.opened = g.opened
      /\ e.list = t /\ e.cache = g.cache /\ e.cache_queue = g.cache_queue /\ e.cache_dirty
      /\ SameMarks(g, e) /\ SameSums(g, e)
  BY <1>2, <1>5, SetLeft
<1>7. /\ e.opened /\ e.stype = f.stype /\ e.marks = f.marks /\ e.mark_queue = f.mark_queue
      /\ e.cache_queue = <<>> /\ FileNums(e) = FileNums(g)
  BY <1>6, SameFiles DEF Removed, SameMarks, SameCache
<1>8. /\ \A n : n \in FileNums(g) <=> n \in FileNums(f) /\ \A j \in 1..Len(rs) : rs[j].num # n
      /\ \A n \in FileNums(g) : g.file[n] = f.file[n]
  <2>1. Len(rs) \in 0..Len(rs)
    OBVIOUS
  <2> QED
    BY <2>1, RemovedFiles
<1>9. Echo(f.mark_queue, f.cache_queue) /\ RowsMarked(f)
  BY DEF Marked, OpenMarks
<1>10. Listable(e)
  <2>1. AllSound(e, t)
    BY <1>2, <1>6 DEF AllSound, Sound, Right
  <2> QED
    BY <1>2, <1>6, <1>7, <2>1, EmptyIs DEF Listable
<1>11. OpenMarks(e)
  <2>1. Echo(e.mark_queue, e.cache_queue)
    BY <1>7, <1>9
  <2>2. RowsMarked(e)
    BY <1>3, <1>6, <1>7, <1>8, <1>9 DEF RowsMarked
  <2>3. RowsWritten(e)
    BY <1>6 DEF RowsWritten
  <2> QED
    BY <2>1, <2>2, <2>3 DEF OpenMarks
<1>12. MarksPending(e)
  BY <1>6 DEF MarksPending
<1>13. Wrote(e, h) /\ OpenMarks(h) /\ SameShown(e, h)
  BY <1>4, <1>6, <1>7, <1>10, <1>11, <1>12, WriteCacheMarks
<1>14. h \in FolderItems /\ SameMail(e, h) /\ SameSums(e, h)
  BY <1>4, <1>6, WriteCacheIs
<1>15. h.opened /\ h.stype = f.stype /\ h.file = g.file /\ FileNums(h) = FileNums(g)
  <2>1. h.opened /\ h.stype = f.stype /\ h.file = g.file
    BY <1>6, <1>7, <1>14 DEF SameMail
  <2> QED
    BY <2>1 DEF FileNums
<1>16. /\ \A i \in 1..Len(f.list) : Shown(f, f.list[i].num) = f.list[i].flags
       /\ \A n \in FileNums(f) : n \notin NumsOf(f.list) => Shown(f, n) = Default
  <2>1. Distinct(f.list) /\ Distinct(f.cache_queue) /\ Apart(f.list, f.cache_queue)
    BY DEF Good, RowsSound, CacheSound
  <2> QED
    BY <1>9, <2>1, ShownIs, EmptyIs
<1>17. /\ \A i \in 1..Len(t) : Shown(e, t[i].num) = t[i].flags
       /\ \A n \in FileNums(e) : n \notin NumsOf(t) => Shown(e, n) = Default
  <2>1. Distinct(e.list) /\ Distinct(e.cache_queue) /\ Apart(e.list, e.cache_queue)
    BY <1>10 DEF Listable
  <2>2. Echo(e.mark_queue, e.cache_queue) /\ RowsMarked(e)
    BY <1>11 DEF OpenMarks
  <2> QED
    BY <1>6, <1>7, <2>1, <2>2, ShownIs, EmptyIs
<1>18. f.list \in Seq(MsgInfos)
  BY DEF FolderItems
<1>19. ASSUME NEW n \in FileNums(g) PROVE Shown(e, n) = Shown(f, n)
  <2>1. CASE n \in NumsOf(t)
    <3>1. PICK i \in 1..Len(t) : t[i].num = n
      BY <1>2, <2>1, NumsOfIs
    <3> QED
      BY <1>3, <1>16, <1>17, <3>1
  <2>2. CASE n \notin NumsOf(t)
    BY <1>3, <1>7, <1>8, <1>16, <1>17, <2>2
  <2> QED
    BY <2>1, <2>2
<1>20. \A n \in FileNums(h) : h.file[n] = f.file[n] /\ Shown(h, n) = Shown(f, n)
  BY <1>7, <1>8, <1>13, <1>15, <1>19 DEF SameShown
<1>21. Unique(h)
  BY <1>8, <1>15, <1>20 DEF Marked, Unique
<1>22. Marked(h)
  <2>1. Filed(h) /\ Ready(h)
    BY <1>13 DEF Wrote, Ready
  <2> QED
    BY <1>13, <1>21, <2>1 DEF Marked
<1>23. CountTaken(f, g) => Counted(h)
  <2>1. UnreadNums(h) = UnreadNums(f) \cap FileNums(g)
    BY <1>8, <1>15, <1>20 DEF UnreadNums
  <2>2. h.total = g.total /\ h.unread = g.unread
    BY <1>6, <1>14 DEF SameSums
  <2> QED
    BY <1>15, <2>1, <2>2 DEF CountTaken, Counted
<1>24. h.last_num = g.last_num
  BY <1>6, <1>14 DEF SameSums
<1> QED
  BY <1>8, <1>15, <1>20, <1>22, <1>23, <1>24

-----------------------------------------------------------------------------
\* The other functions of the summary.

LEMMA ShowQueuedMarks ==
    ASSUME NEW f \in FolderItems, Good(f), Marked(f), f.opened, f.cache_queue # <<>>,
           NEW g, g = ShowQueued(f)
    PROVE  /\ Marked(g) /\ SameShown(f, g) /\ g.last_num = f.last_num
           /\ Counted(f) => Counted(g)
<1>1. /\ g \in FolderItems /\ Good(g) /\ g.file = f.file /\ g.stype = f.stype /\ g.opened
  BY ShowQueuedIs
<1>2. PICK l \in Seq(MsgInfos) : l = f.list
  BY DEF FolderItems
<1>3. PICK q \in Seq(MsgInfos) : q = f.cache_queue
  BY DEF FolderItems
<1>4. PICK t : t = Joined(l, q)
  OBVIOUS
<1>5. g = WithShown(f, t)
  BY <1>2, <1>3, <1>4 DEF ShowQueued, WithShown, Joined, FolderItems
<1>6. /\ g.list = t /\ g.mark_queue = <<>> /\ g.cache_queue = <<>> /\ g.cache_dirty
      /\ g.marks = f.marks /\ g.mark_dirty = f.mark_dirty
      /\ g.last_num = f.last_num /\ g.total = f.total /\ g.unread = f.unread
  BY <1>5 DEF WithShown, FolderItems
<1>7. t \in Seq(MsgInfos) /\ Joins(l, q, t)
  BY <1>4, JoinedParts
<1>8. \A n : n \in NumsOf(t) <=> n \in NumsOf(l) \/ n \in NumsOf(q)
  BY <1>4, JoinedIs
<1>9. FileNums(g) = FileNums(f) /\ Contents(g) = Contents(f)
  BY <1>1, SameFiles
<1>10. Filed(f) /\ Ready(f) /\ Unique(f) /\ Echo(f.mark_queue, f.cache_queue) /\ RowsMarked(f)
  BY DEF Marked, OpenMarks
<1>11. Filed(g)
  <2>1. \A n : HasMark(g, n) => HasMark(f, n)
    BY <1>6, EmptyIs DEF HasMark
  <2>2. KnownMarks(g)
    BY <1>1, <1>10, <2>1, KnownAs DEF Filed
  <2> QED
    BY <1>6, <1>10, <2>2, EmptyIs DEF Filed, ReadableMarks
<1>12. Ready(g)
  BY <1>6, <1>10 DEF Ready
<1>13. Unique(g)
  BY <1>1, <1>9, <1>10 DEF Unique
<1>14. OpenMarks(g)
  <2>1. Echo(g.mark_queue, g.cache_queue)
    BY <1>6 DEF Echo
  <2>2. RowsMarked(g)
    BY <1>2, <1>6, <1>8, <1>9, <1>10 DEF RowsMarked
  <2>3. RowsWritten(g)
    BY <1>6 DEF RowsWritten
  <2> QED
    BY <2>1, <2>2, <2>3 DEF OpenMarks
<1>15. ASSUME NEW n \in FileNums(f) PROVE Shown(g, n) = Shown(f, n)
  <2>1. Distinct(f.list) /\ Distinct(f.cache_queue) /\ Apart(f.list, f.cache_queue)
    BY DEF Good, RowsSound, CacheSound
  <2>2. /\ \A i \in 1..Len(l) : Shown(f, l[i].num) = l[i].flags
        /\ \A i \in 1..Len(q) : Shown(f, q[i].num) = q[i].flags
    BY <1>2, <1>3, <2>1, ShownIs
  <2>3. n \notin NumsOf(l) /\ n \notin NumsOf(q) => Shown(f, n) = Default
    BY <1>2, <1>3, <1>10, <2>1, ShownIs
  <2>4. Distinct(g.list) /\ Distinct(g.cache_queue) /\ Apart(g.list, g.cache_queue)
    BY <1>1 DEF Good, RowsSound, CacheSound
  <2>5. \A i \in 1..Len(t) : Shown(g, t[i].num) = t[i].flags
    BY <1>1, <1>6, <2>4, ShownIs
  <2>6. n \notin NumsOf(t) => Shown(g, n) = Default
    BY <1>1, <1>6, <1>9, <1>14, <2>4, ShownIs, EmptyIs DEF OpenMarks
  <2>7. CASE n \in NumsOf(l)
    <3>1. PICK i \in 1..Len(l) : l[i].num = n
      BY <2>7, NumsOfIs
    <3>2. i \in 1..Len(t) /\ t[i] = l[i]
      BY <1>7, <3>1 DEF Joins
    <3> QED
      BY <2>2, <2>5, <3>1, <3>2
  <2>8. CASE n \in NumsOf(q)
    <3>1. PICK i \in 1..Len(q) : q[i].num = n
      BY <2>8, NumsOfIs
    <3>2. PICK k \in 1..Len(t) : t[k] = q[i]
      BY <1>7, <3>1 DEF Joins
    <3> QED
      BY <2>2, <2>5, <3>1, <3>2
  <2>9. CASE n \notin NumsOf(l) /\ n \notin NumsOf(q)
    BY <1>8, <2>3, <2>6, <2>9
  <2> QED
    BY <2>7, <2>8, <2>9
<1>16. SameShown(f, g)
  BY <1>1, <1>15 DEF SameShown
<1>17. Counted(f) => Counted(g)
  BY <1>6, <1>16, SameCounted
<1> QED
  BY <1>6, <1>11, <1>12, <1>13, <1>14, <1>16, <1>17 DEF Marked

\* The summary writes its rows, and stays.
LEMMA WrittenOpen ==
    ASSUME NEW f \in FolderItems, Good(f), Marked(f), f.opened, f.cache_queue = <<>>,
           NEW g, g = WriteCache(f)
    PROVE  /\ Marked(g) /\ SameShown(f, g) /\ g.opened /\ g.last_num = f.last_num
           /\ Counted(f) => Counted(g)
<1>1. Wrote(f, g) /\ OpenMarks(g) /\ SameShown(f, g)
  BY GoodListable, WriteCacheMarks DEF Marked
<1>2. g \in FolderItems /\ SameMail(f, g) /\ SameSums(f, g)
  BY WriteCacheIs
<1>3. Unique(g)
  BY <1>1, SameSeen DEF Marked
<1>4. Marked(g)
  BY <1>1, <1>3 DEF Marked, Wrote, Ready
<1>5. Counted(f) => Counted(g)
  BY <1>1, <1>2, SameCounted DEF SameSums
<1> QED
  BY <1>1, <1>2, <1>4, <1>5 DEF SameMail, SameSums

\* A folder that was written is closed, or found by a new process.
LEMMA WrittenClosed ==
    ASSUME NEW f \in FolderItems, Good(f), Marked(f), f.opened,
           NEW w, w = WriteCache(f),
           NEW g, g.file = f.file, g.stype = f.stype, ~g.opened,
           g.marks = w.marks, g.mark_queue = <<>>, g.total = f.total, g.unread = f.unread
    PROVE  /\ Marked(g) /\ SameShown(f, g)
           /\ Counted(f) => Counted(g)
           /\ Covered(f) => AllMarked(g)
<1>1. Wrote(f, w)
  BY GoodListable, WriteCacheMarks DEF Marked
<1>2. SameMail(f, w)
  BY WriteCacheIs
<1>3. Filed(g) /\ \A n : MarkFor(g, n) = MarkFor(w, n) /\ (HasMark(g, n) <=> HasMark(w, n))
  BY <1>1, <1>2, ClosedMarks DEF Wrote, SameMail
<1>4. SameShown(f, g)
  BY <1>1, <1>3 DEF Wrote, SameShown, Shown
<1>5. FileNums(g) = FileNums(f) /\ Unique(g)
  BY <1>4, SameSeen DEF Marked
<1>6. Marked(g)
  BY <1>3, <1>5 DEF Marked, Ready
<1>7. Counted(f) => Counted(g)
  BY <1>4, SameCounted
<1>8. Covered(f) => AllMarked(g)
  BY <1>1, <1>3, <1>5 DEF Wrote, Covered, AllMarked
<1> QED
  BY <1>4, <1>6, <1>7, <1>8

-----------------------------------------------------------------------------
\* One message gets other flags.

LEMMA OneRecounted ==
    ASSUME NEW f \in FolderItems, NEW g, NEW n \in FileNums(f), g.file = f.file, g.stype = f.stype,
           \A k \in FileNums(f) : k # n => Shown(g, k) = Shown(f, k),
           Counted(f), g.total = f.total,
           g.unread = f.unread - Unread(Shown(f, n)) + Unread(Shown(g, n))
    PROVE  Counted(g)
<1>1. /\ IsFiniteSet(UnreadNums(f)) /\ Cardinality(UnreadNums(f)) \in Nat
      /\ IsFiniteSet(UnreadNums(g)) /\ Cardinality(UnreadNums(g)) \in Nat
  BY FilesCount
<1>2. FileNums(g) = FileNums(f)
  BY SameFiles
<1>3. ASSUME f.stype # "F_DRAFT" PROVE g.unread = Cardinality(UnreadNums(g))
  <2>1. f.unread = Cardinality(UnreadNums(f))
    BY <1>3 DEF Counted
  <2>2. CASE "UNREAD" \in Shown(f, n) /\ "UNREAD" \in Shown(g, n)
    <3>1. UnreadNums(g) = UnreadNums(f)
      BY <1>2, <2>2 DEF UnreadNums
    <3>2. g.unread = f.unread
      BY <1>1, <2>1, <2>2 DEF Unread
    <3> QED
      BY <2>1, <3>1, <3>2
  <2>3. CASE "UNREAD" \notin Shown(f, n) /\ "UNREAD" \notin Shown(g, n)
    <3>1. UnreadNums(g) = UnreadNums(f)
      BY <1>2, <2>3 DEF UnreadNums
    <3>2. g.unread = f.unread
      BY <1>1, <2>1, <2>3 DEF Unread
    <3> QED
      BY <2>1, <3>1, <3>2
  <2>4. CASE "UNREAD" \in Shown(f, n) /\ "UNREAD" \notin Shown(g, n)
    <3>1. UnreadNums(g) = UnreadNums(f) \ {n} /\ n \in UnreadNums(f)
      BY <1>2, <2>4 DEF UnreadNums
    <3>2. Cardinality(UnreadNums(f) \ {n}) = Cardinality(UnreadNums(f)) - 1
      BY <1>1, <3>1, FS_RemoveElement
    <3>3. g.unread = f.unread - 1
      BY <1>1, <2>1, <2>4 DEF Unread
    <3> QED
      BY <2>1, <3>1, <3>2, <3>3
  <2>5. CASE "UNREAD" \notin Shown(f, n) /\ "UNREAD" \in Shown(g, n)
    <3>1. UnreadNums(g) = UnreadNums(f) \cup {n} /\ n \notin UnreadNums(f)
      BY <1>2, <2>5 DEF UnreadNums
    <3>2. Cardinality(UnreadNums(f) \cup {n}) = Cardinality(UnreadNums(f)) + 1
      BY <1>1, <3>1, FS_AddElement
    <3>3. g.unread = f.unread + 1
      BY <1>1, <2>1, <2>5 DEF Unread
    <3> QED
      BY <2>1, <3>1, <3>2, <3>3
  <2> QED
    BY <2>2, <2>3, <2>4, <2>5
<1> QED
  BY <1>2, <1>3 DEF Counted

\* The rows k are the rows l with other flags of one of them.
Reflagged(l, k, i, new) ==
    /\ i \in 1..Len(l) /\ Len(k) = Len(l)
    /\ \A j \in 1..Len(l) : k[j].num = l[j].num /\ k[j].msg = l[j].msg
    /\ \A j \in 1..Len(l) : j # i => k[j].flags = l[j].flags
    /\ k[i].flags = new

Recount(f, l, i, new, u) == u = f.unread - Unread(l[i].flags) + Unread(new)

\* The row l[i] gets other flags.
FlagGiven(f, l, i, new, k, u, g) ==
    /\ f \in FolderItems /\ Good(f) /\ Marked(f) /\ f.opened /\ l \in Seq(MsgInfos) /\ l = f.list
    /\ new \in Flags /\ k \in Seq(MsgInfos) /\ Reflagged(l, k, i, new)
    /\ u \in Int /\ Recount(f, l, i, new, u) /\ g = WithFlags(f, k, u)
OneFlag(f, l, i, new, g) ==
    /\ Marked(g) /\ g.opened /\ g.last_num = f.last_num /\ g.file = f.file /\ g.stype = f.stype
    /\ l[i].num \in FileNums(f) /\ Shown(f, l[i].num) = l[i].flags /\ Shown(g, l[i].num) = new
    /\ \A n \in FileNums(f) : n # l[i].num => Shown(g, n) = Shown(f, n)
    /\ (Counted(f) => Counted(g))

LEMMA FlagSet ==
    ASSUME NEW f, NEW l, NEW i, NEW new, NEW k, NEW u, NEW g, FlagGiven(f, l, i, new, k, u, g)
    PROVE  OneFlag(f, l, i, new, g)
<1>0. /\ f \in FolderItems /\ Good(f) /\ Marked(f) /\ f.opened /\ l \in Seq(MsgInfos) /\ l = f.list
      /\ new \in Flags /\ k \in Seq(MsgInfos) /\ Reflagged(l, k, i, new)
      /\ u \in Int /\ Recount(f, l, i, new, u) /\ g = WithFlags(f, k, u)
  BY DEF FlagGiven
<1> USE <1>0
<1>1. g \in FolderItems
  BY DEF WithFlags, FolderItems
<1>2. /\ g.stype = f.stype /\ g.file = f.file /\ g.opened /\ g.list = k /\ g.marks = f.marks
      /\ g.cache_queue = f.cache_queue /\ g.mark_queue = f.mark_queue /\ g.mark_dirty
      /\ g.last_num = f.last_num /\ g.total = f.total /\ g.unread = u
  BY <1>1 DEF WithFlags, FolderItems
<1>3. Distinct(l) /\ Distinct(f.cache_queue) /\ Apart(l, f.cache_queue) /\ Right(f, l)
  BY DEF Good, RowsSound, CacheSound
<1>4. Distinct(k)
  BY <1>3 DEF Distinct, Reflagged
<1>5. \A n : n \in NumsOf(k) <=> n \in NumsOf(l)
  <2>1. \A n : n \in NumsOf(k) <=> \E j \in 1..Len(k) : k[j].num = n
    BY NumsOfIs
  <2>2. \A n : n \in NumsOf(l) <=> \E j \in 1..Len(l) : l[j].num = n
    BY NumsOfIs
  <2> QED
    BY <2>1, <2>2 DEF Reflagged
<1>6. Apart(k, f.cache_queue)
  BY <1>3, <1>5 DEF Apart
<1>7. FileNums(g) = FileNums(f)
  BY <1>2, SameFiles
<1>8. Filed(f) /\ Ready(f) /\ Unique(f) /\ Echo(f.mark_queue, f.cache_queue) /\ RowsMarked(f)
  BY DEF Marked, OpenMarks
<1>9. Filed(g) /\ \A n : MarkFor(g, n) = MarkFor(f, n)
  BY <1>2, <1>8, ClosedMarks
<1>10. Ready(g) /\ Unique(g)
  BY <1>2, <1>7, <1>8 DEF Ready, Unique
<1>11. OpenMarks(g)
  <2>1. RowsMarked(g)
    BY <1>2, <1>5, <1>7, <1>8 DEF RowsMarked
  <2>2. RowsWritten(g)
    BY <1>2 DEF RowsWritten
  <2> QED
    BY <1>2, <1>8, <2>1, <2>2 DEF OpenMarks
<1>12. /\ \A j \in 1..Len(l) : Shown(f, l[j].num) = l[j].flags
       /\ \A j \in 1..Len(k) : Shown(g, k[j].num) = k[j].flags
  <2>1. \A j \in 1..Len(l) : Shown(f, l[j].num) = l[j].flags
    BY <1>3, ShownIs
  <2>2. \A j \in 1..Len(k) : Shown(g, k[j].num) = k[j].flags
    BY <1>1, <1>2, <1>3, <1>4, <1>6, ShownIs
  <2> QED
    BY <2>1, <2>2
<1>13. \A n \in FileNums(f) : n \notin NumsOf(l) => Shown(g, n) = Shown(f, n)
  BY <1>2, <1>5, <1>9 DEF Shown
<1>14. i \in 1..Len(l) /\ l[i] \in MsgInfos
  BY DEF Reflagged
<1>15. l[i].num \in FileNums(f)
  <2>1. l[i].num \in Nums /\ l[i].msg \in Msgs /\ f.file[l[i].num] = l[i].msg
    BY <1>3, <1>14 DEF MsgInfos, Right
  <2> QED
    BY <2>1, NoneAssumption DEF FileNums
<1>16. Shown(f, l[i].num) = l[i].flags /\ Shown(g, l[i].num) = new
  BY <1>12, <1>14 DEF Reflagged
<1>17. ASSUME NEW n \in FileNums(f), n # l[i].num PROVE Shown(g, n) = Shown(f, n)
  <2>1. CASE n \in NumsOf(l)
    <3>1. PICK j \in 1..Len(l) : l[j].num = n
      BY <2>1, NumsOfIs
    <3>2. j # i /\ k[j].num = n /\ k[j].flags = l[j].flags /\ j \in 1..Len(k)
      BY <1>17, <3>1 DEF Reflagged
    <3> QED
      BY <1>12, <3>1, <3>2
  <2> QED
    BY <1>13, <2>1
<1>18. ASSUME Counted(f) PROVE Counted(g)
  BY <1>2, <1>15, <1>16, <1>17, <1>18, OneRecounted DEF Recount
<1> QED
  BY <1>2, <1>9, <1>10, <1>11, <1>15, <1>16, <1>17, <1>18 DEF Marked, OneFlag

\* A reply marks its message; another folder is shown.
LEMMA ReplyMarks ==
    ASSUME NEW f \in FolderItems, ~f.opened, Marked(f), NEW n \in FileNums(f), n \notin NumsOf(f.mark_queue),
           NEW flags \in Flags, flags = FirstFlags(f, n) \cup UserFlags,
           NEW rs, rs = <<Mark(n, flags)>>, NEW g, g = AppendMarks(f, rs)
    PROVE  /\ Marked(g) /\ g.file = f.file /\ g.stype = f.stype /\ ~g.opened
           /\ g.mark_queue = f.mark_queue
           /\ Shown(g, n) = Shown(f, n) \cup UserFlags
           /\ \A k \in FileNums(f) : k # n => Shown(g, k) = Shown(f, k)
           /\ Counted(f) => Counted(g)
           /\ AllMarked(f) => AllMarked(g)
<1>1. PICK x : x = Mark(n, flags)
  OBVIOUS
<1>2. x \in Marks /\ x.num = n /\ x.flags = flags
  BY <1>1 DEF Mark, Marks, FileNums
<1>3. rs \in Seq(Marks)
  BY <1>1, <1>2
<1>4. PICK old \in Seq(Marks) : old = f.marks.recs
  BY DEF FolderItems, Written
<1>5. /\ g \in FolderItems /\ SameMail(f, g) /\ SameSums(f, g)
      /\ g.mark_queue = f.mark_queue /\ g.marks.state = "ok"
      /\ g.marks.recs = Joined(f.marks.recs, rs)
  <2>1. PICK ss \in Seq(Marks) : ss = rs
    BY <1>3
  <2>2. g = AppendMarks(f, ss)
    BY <2>1
  <2> HIDE <2>1
  <2>3. /\ g \in FolderItems /\ SameMail(f, g) /\ SameSums(f, g)
        /\ g.mark_queue = f.mark_queue /\ g.marks.state = "ok"
        /\ g.marks.recs = Joined(f.marks.recs, ss)
    BY <2>2, AppendMarksIs
  <2> QED
    BY <2>1, <2>3
<1>6. PICK t : t = Joined(old, <<x>>)
  OBVIOUS
<1>7. g.marks.recs = t
  BY <1>1, <1>4, <1>5, <1>6
<1>8. /\ t \in Seq(Marks) /\ OneMore(old, x, t)
      /\ \A k : k \in NumsOf(t) <=> k \in NumsOf(old) \/ k = x.num
      /\ \A k \in NumsOf(old) : k # x.num => LastOf(t, k) = LastOf(old, k)
      /\ LastOf(t, x.num) = x
  <2>1. x \in Marks
    BY <1>2
  <2>2. t \in Seq(Marks) /\ OneMore(old, x, t)
    BY <1>6, <2>1, LastInJoined
  <2>3. \A k : k \in NumsOf(t) <=> k \in NumsOf(old) \/ k = x.num
    BY <1>6, <2>1, LastInJoined
  <2>4. \A k \in NumsOf(old) : k # x.num => LastOf(t, k) = LastOf(old, k)
    BY <1>6, <2>1, LastInJoined
  <2>5. LastOf(t, x.num) = x
    BY <1>6, <2>1, LastInJoined
  <2> QED
    BY <2>2, <2>3, <2>4, <2>5
<1>9. g.file = f.file /\ g.stype = f.stype /\ ~g.opened /\ FileNums(g) = FileNums(f)
  BY <1>5, SameFiles DEF SameMail
<1>10. Filed(f) /\ Ready(f) /\ Unique(f)
  BY DEF Marked
<1>11. /\ \A k : k # n => MarkFor(g, k) = MarkFor(f, k) /\ (HasMark(g, k) <=> HasMark(f, k))
       /\ HasMark(g, n) /\ MarkFor(g, n) = flags
  BY <1>2, <1>4, <1>5, <1>7, <1>8 DEF MarkFor, HasMark
\* The first record of the number and the last differ in the flags of a reply.
<1>12. /\ flags = MarkFor(f, n) \cup UserFlags
       /\ \A j \in 1..Len(old) : old[j].num = n => flags \ UserFlags = old[j].flags \ UserFlags
  <2>1. CASE n \in NumsOf(old)
    <3>1. f.marks.state = "ok"
      <4>1. old # <<>>
        BY <2>1, EmptyIs
      <4> QED
        BY <1>4, <1>10, <4>1 DEF Filed, ReadableMarks
    <3>2. PICK a : a = FirstOf(old, n)
      OBVIOUS
    <3>3. PICK b : b = LastOf(old, n)
      OBVIOUS
    <3>4. PICK i \in 1..Len(old) : a = old[i] /\ old[i].num = n
      BY <2>1, <3>2, RecordOf
    <3>5. PICK j \in 1..Len(old) : b = old[j] /\ old[j].num = n
      BY <2>1, <3>3, RecordOf
    <3>6. a.flags \ UserFlags = b.flags \ UserFlags
      BY <1>4, <1>10, <3>4, <3>5 DEF Filed, Agree
    <3>7. flags = a.flags \cup UserFlags
      BY <1>4, <2>1, <3>1, <3>2 DEF FirstFlags
    <3>8. MarkFor(f, n) = b.flags
      BY <1>4, <2>1, <3>3 DEF MarkFor
    <3>9. \A h \in 1..Len(old) : old[h].num = n => old[h].flags \ UserFlags = a.flags \ UserFlags
      BY <1>4, <1>10, <3>4 DEF Filed, Agree
    <3> QED
      BY <3>6, <3>7, <3>8, <3>9
  <2>2. CASE n \notin NumsOf(old)
    <3>1. FirstFlags(f, n) = Default /\ MarkFor(f, n) = Default
      BY <1>4, <2>2 DEF FirstFlags, MarkFor
    <3>2. \A j \in 1..Len(old) : old[j].num # n
      BY <2>2, NumsOfIs
    <3> QED
      BY <3>1, <3>2
  <2> QED
    BY <2>1, <2>2
<1>13. Agree(t)
  <2> SUFFICES ASSUME NEW i \in 1..Len(t), NEW j \in 1..Len(t), t[i].num = t[j].num
               PROVE  t[i].flags \ UserFlags = t[j].flags \ UserFlags
    BY DEF Agree
  <2>1. (i \in 1..Len(old) /\ t[i] = old[i]) \/ t[i] = x
    BY <1>8 DEF OneMore
  <2>2. (j \in 1..Len(old) /\ t[j] = old[j]) \/ t[j] = x
    BY <1>8 DEF OneMore
  <2>3. Agree(old)
    BY <1>4, <1>10 DEF Filed
  <2> QED
    BY <1>2, <1>12, <2>1, <2>2, <2>3 DEF Agree
<1>14. Filed(g)
  <2>1. KnownMarks(g)
    <3> SUFFICES ASSUME NEW k, HasMark(g, k) PROVE KnownMark(g, k)
      BY DEF KnownMarks
    <3>1. k = n \/ HasMark(f, k)
      BY <1>11
    <3>2. KnownMark(f, k)
      BY <1>10, <3>1 DEF Filed, KnownMarks, KnownMark
    <3> QED
      BY <1>9, <3>2 DEF KnownMark
  <2>2. Apart(g.marks.recs, g.mark_queue)
    BY <1>2, <1>4, <1>5, <1>7, <1>8, <1>10 DEF Filed, Apart
  <2> QED
    BY <1>5, <1>7, <1>10, <1>13, <2>1, <2>2 DEF Filed, ReadableMarks
<1>15. Marked(g)
  <2>1. Ready(g)
    BY <1>5 DEF Ready
  <2>2. Unique(g)
    BY <1>9, <1>10 DEF Unique
  <2> QED
    BY <1>9, <1>14, <2>1, <2>2 DEF Marked
<1>16. /\ Shown(g, n) = Shown(f, n) \cup UserFlags
       /\ \A k \in FileNums(f) : k # n => Shown(g, k) = Shown(f, k)
  BY <1>9, <1>11, <1>12 DEF Shown
<1>17. ASSUME Counted(f) PROVE Counted(g)
  <2>1. UnreadNums(g) = UnreadNums(f)
    BY <1>9, <1>16, UserFlagsAssumption DEF UnreadNums
  <2> QED
    BY <1>5, <1>9, <1>17, <2>1 DEF Counted, SameSums
<1>18. AllMarked(f) => AllMarked(g)
  BY <1>9, <1>11 DEF AllMarked
<1> QED
  BY <1>5, <1>9, <1>15, <1>16, <1>17, <1>18

\* Another program leaves a file.
LEMMA DeliveredMarks ==
    ASSUME NEW f \in FolderItems, Good(f), Marked(f), f.stype = "F_NORMAL", NEW k \in Nums,
           f.file[k] = None, NEW m \in Msgs, m \notin Contents(f),
           NEW g, g.stype = f.stype, g.opened = f.opened, g.file[k] = m,
           \A n \in Nums : n # k => g.file[n] = f.file[n],
           g.list = f.list, g.cache_queue = f.cache_queue, SameMarks(f, g), g.cache_dirty = f.cache_dirty
    PROVE  /\ Marked(g)
           /\ \A n : n \in FileNums(g) <=> n \in FileNums(f) \/ n = k
           /\ \A n \in FileNums(f) : g.file[n] = f.file[n] /\ Shown(g, n) = Shown(f, n)
           /\ Shown(g, k) = Default
<1>1. k \notin FileNums(f)
  BY DEF FileNums
<1>2. \A n : n \in FileNums(g) <=> n \in FileNums(f) \/ n = k
  BY NoneAssumption DEF FileNums
<1>3. \A n \in FileNums(f) : g.file[n] = f.file[n]
  BY <1>1 DEF FileNums
<1>4. Filed(f) /\ Ready(f) /\ Unique(f) /\ (f.opened => OpenMarks(f))
  BY DEF Marked
<1>5. ~HasMark(f, k)
  BY <1>1, <1>4 DEF Filed, KnownMarks, KnownMark
<1>6. \A n : MarkFor(g, n) = MarkFor(f, n) /\ (HasMark(g, n) <=> HasMark(f, n))
  BY DEF SameMarks, MarkFor, HasMark
<1>7. Filed(g)
  <2>1. KnownMarks(g)
    BY <1>2, <1>4, <1>6 DEF Filed, KnownMarks, KnownMark
  <2> QED
    BY <1>4, <2>1 DEF Filed, SameMarks, ReadableMarks
<1>8. Ready(g)
  BY <1>4 DEF Ready, SameMarks
<1>9. Unique(g)
  <2>1. \A n \in FileNums(f) : f.file[n] # m
    BY DEF Contents
  <2> QED
    BY <1>2, <1>3, <1>4, <2>1 DEF Unique
<1>10. f.opened => OpenMarks(g)
  <2> SUFFICES ASSUME f.opened PROVE OpenMarks(g)
    OBVIOUS
  <2>1. Echo(f.mark_queue, f.cache_queue) /\ RowsMarked(f) /\ RowsWritten(f)
    BY <1>4 DEF OpenMarks
  <2>2. RowsMarked(g)
    BY <1>2, <1>5, <2>1 DEF RowsMarked, SameMarks, HasMark
  <2>3. RowsWritten(g)
    BY <2>1 DEF RowsWritten, SameMarks
  <2> QED
    BY <2>1, <2>2, <2>3 DEF OpenMarks, SameMarks
<1>11. \A n \in FileNums(f) : Shown(g, n) = Shown(f, n)
  BY <1>6 DEF Shown
<1>12. Shown(g, k) = Default
  <2>1. MarkFor(g, k) = Default
    BY <1>5, <1>6 DEF MarkFor, HasMark
  <2>2. ASSUME f.opened PROVE k \notin NumsOf(f.list) /\ k \notin NumsOf(f.cache_queue)
    <3>1. Right(f, f.list) /\ Right(f, f.cache_queue) /\ f.list \in Seq(MsgInfos)
          /\ f.cache_queue \in Seq(MsgInfos)
      BY <2>2 DEF Good, RowsSound, FolderItems
    <3>2. ASSUME NEW rs \in Seq(MsgInfos), Right(f, rs) PROVE k \notin NumsOf(rs)
      <4>1. \A i \in 1..Len(rs) : rs[i].msg \in Msgs
        <5>1. \A i \in 1..Len(rs) : rs[i] \in MsgInfos
          OBVIOUS
        <5> QED
          BY <5>1 DEF MsgInfos
      <4>2. \A i \in 1..Len(rs) : rs[i].num # k
        BY <3>2, <4>1, NoneAssumption DEF Right
      <4> QED
        BY <4>2, NumsOfIs
    <3> QED
      BY <3>1, <3>2
  <2> QED
    BY <2>1, <2>2 DEF Shown
<1> QED
  BY <1>2, <1>3, <1>7, <1>8, <1>9, <1>10, <1>11, <1>12 DEF Marked

-----------------------------------------------------------------------------
\* What a new process finds.

\* The marks of the file alone.
FileMarks(f) ==
    /\ \A n \in NumsOf(f.marks.recs) : KnownMark(f, n)
    /\ Agree(f.marks.recs) /\ ReadableMarks(f)

LEMMA FiledFileMarks ==
    ASSUME NEW f, Filed(f)
    PROVE  FileMarks(f)
BY DEF Filed, FileMarks, KnownMarks, HasMark

LEMMA MarkForTypes ==
    ASSUME NEW f \in FolderItems, NEW n
    PROVE  MarkFor(f, n) \in Flags
<1>1. PICK q \in Seq(Marks) : q = f.mark_queue
  BY DEF FolderItems
<1>2. PICK rs \in Seq(Marks) : rs = f.marks.recs
  BY DEF FolderItems, Written
<1>3. ASSUME NEW ss \in Seq(Marks), n \in NumsOf(ss)
      PROVE  FirstOf(ss, n).flags \in Flags /\ LastOf(ss, n).flags \in Flags
  <2>1. /\ \E i \in 1..Len(ss) : FirstOf(ss, n) = ss[i]
        /\ \E i \in 1..Len(ss) : LastOf(ss, n) = ss[i]
    BY <1>3, RecordOf
  <2>2. \A i \in 1..Len(ss) : ss[i].flags \in Flags
    <3>1. \A i \in 1..Len(ss) : ss[i] \in Marks
      OBVIOUS
    <3> QED
      BY <3>1 DEF Marks
  <2> QED
    BY <2>1, <2>2
<1>4. Default \in Flags
  BY FlagsTypes
<1> QED
  BY <1>1, <1>2, <1>3, <1>4 DEF MarkFor

LEMMA AgainMarks ==
    ASSUME NEW f \in FolderItems, FileMarks(f), Unique(f), NEW d \in BOOLEAN, NEW g, g = Again(f, d)
    PROVE  /\ g \in FolderItems /\ Marked(g) /\ g.file = f.file /\ g.stype = f.stype /\ ~g.opened
           /\ g.marks = f.marks /\ g.mark_queue = <<>> /\ g.total = f.total /\ g.unread = f.unread
           /\ \A n : Shown(g, n) \in Flags
<1>1. <<>> \in Seq(Marks) /\ <<>> \in Seq(MsgInfos) /\ -1 \in -1..MaxNum
  BY NumsAre
<1>2. g \in FolderItems
  BY <1>1 DEF Again, FolderItems
<1>3. /\ g.file = f.file /\ g.stype = f.stype /\ ~g.opened
      /\ g.marks = f.marks /\ g.mark_queue = <<>> /\ g.total = f.total /\ g.unread = f.unread
  BY DEF Again, FolderItems
<1>4. FileNums(g) = FileNums(f)
  BY <1>3, SameFiles
<1>5. Filed(g)
  <2>1. KnownMarks(g)
    BY <1>3, <1>4, EmptyIs DEF KnownMarks, KnownMark, HasMark, FileMarks
  <2> QED
    BY <1>3, <2>1, EmptyIs DEF Filed, FileMarks, ReadableMarks
<1>6. Ready(g) /\ Unique(g)
  BY <1>3, <1>4 DEF Ready, Unique
<1>7. \A n : Shown(g, n) \in Flags
  BY <1>2, <1>3, MarkForTypes DEF Shown
<1> QED
  BY <1>2, <1>3, <1>5, <1>6, <1>7 DEF Marked

\* The summary wrote a part of the marks.
LEMMA TornMarks ==
    ASSUME NEW f \in FolderItems, Good(f), Marked(f), f.opened, MarksPending(f),
           NEW ks, ks = Joined(MarksOf(f.list), f.mark_queue), NEW marks \in PartOf(ks),
           NEW g \in FolderItems, g.file = f.file, g.stype = f.stype, g.marks = marks
    PROVE  FileMarks(g) /\ Unique(g)
<1>1. PICK w : w = WriteCache(f)
  OBVIOUS
<1>2. Wrote(f, w)
  BY <1>1, GoodListable, WriteCacheMarks DEF Marked
<1>3. w.marks.recs = ks /\ SameMail(f, w)
  BY <1>1, WriteCacheIs
<1>4. FileMarks(w)
  BY <1>2, FiledFileMarks DEF Wrote
<1>5. FileNums(w) = FileNums(f) /\ FileNums(g) = FileNums(f) /\ w.stype = f.stype
  BY <1>3, SameFiles DEF SameMail
<1>6. ks \in Seq(Marks)
  <2>1. w \in FolderItems
    BY <1>1, WriteCacheIs
  <2> QED
    BY <1>3, <2>1 DEF FolderItems, Written
<1>7. /\ marks \in Written(Marks)
      /\ \A i \in 1..Len(marks.recs) : i \in 1..Len(ks) /\ marks.recs[i] = ks[i]
  BY <1>6, PartOfIs
<1>8. marks.state # "ok" => marks.recs = <<>>
  BY DEF PartOf, Torn, Data
<1>9. PICK rs \in Seq(Marks) : rs = marks.recs
  BY <1>7 DEF Written
<1>10. \A i \in 1..Len(rs) : i \in 1..Len(ks) /\ rs[i] = ks[i]
  BY <1>7, <1>9
<1>11. \A n \in NumsOf(rs) : n \in NumsOf(ks)
  <2>1. \A n : n \in NumsOf(rs) <=> \E i \in 1..Len(rs) : rs[i].num = n
    BY NumsOfIs
  <2>2. \A n : n \in NumsOf(ks) <=> \E i \in 1..Len(ks) : ks[i].num = n
    BY <1>6, NumsOfIs
  <2> QED
    BY <1>10, <2>1, <2>2
<1>12. \A n \in NumsOf(rs) : KnownMark(g, n)
  BY <1>3, <1>4, <1>5, <1>11 DEF FileMarks, KnownMark
<1>13. Agree(rs)
  BY <1>3, <1>4, <1>10 DEF FileMarks, Agree
<1>14. FileMarks(g)
  BY <1>8, <1>9, <1>12, <1>13 DEF FileMarks, ReadableMarks
<1>15. Unique(g)
  BY <1>5 DEF Marked, Unique
<1> QED
  BY <1>14, <1>15

\* One file more, without a mark.
LEMMA PutMarks ==
    ASSUME NEW f \in FolderItems, Marked(f), NEW g \in FolderItems, NEW info, Added(f, g, info),
           SameMarks(f, g), info.msg \notin Contents(f)
    PROVE  /\ FileMarks(g) /\ Unique(g)
           /\ \A m : m \in Contents(g) <=> m \in Contents(f) \/ m = info.msg
<1>1. /\ \A n : n \in FileNums(g) <=> n \in FileNums(f) \/ n = info.num
      /\ \A n \in FileNums(f) : g.file[n] = f.file[n]
  BY AddedFiles
<1>2. g.file[info.num] = info.msg /\ g.stype = f.stype
  BY DEF Added
<1>3. FileMarks(f) /\ Unique(f)
  BY FiledFileMarks DEF Marked
<1>4. FileMarks(g)
  BY <1>1, <1>2, <1>3 DEF FileMarks, KnownMark, SameMarks, ReadableMarks
<1>5. Unique(g)
  <2>1. \A n \in FileNums(f) : f.file[n] # info.msg
    BY DEF Contents
  <2> QED
    BY <1>1, <1>2, <1>3, <2>1 DEF Unique
<1>6. \A m : m \in Contents(g) <=> m \in Contents(f) \/ m = info.msg
  BY <1>1, <1>2 DEF Contents
<1> QED
  BY <1>4, <1>5, <1>6

\* A trash without a file.
LEMMA EmptiedMarks ==
    ASSUME NEW g \in FolderItems, \A n \in Nums : g.file[n] = None,
           g.marks.recs = <<>>, g.opened => g.marks.state = "ok", g.mark_queue = <<>>, g.total = 0, g.unread = 0
    PROVE  /\ FileNums(g) = {} /\ Contents(g) = {} /\ Filed(g) /\ Ready(g) /\ Unique(g)
           /\ Counted(g) /\ AllMarked(g)
<1>1. FileNums(g) = {}
  BY DEF FileNums
<1>2. Contents(g) = {}
  BY <1>1 DEF Contents
<1>3. Filed(g)
  <2>1. \A n : ~HasMark(g, n)
    BY EmptyIs DEF HasMark
  <2>2. KnownMarks(g)
    BY <2>1 DEF KnownMarks
  <2>3. Agree(<<>>)
    BY DEF Agree
  <2> QED
    BY <2>2, <2>3, EmptyIs DEF Filed, ReadableMarks
<1>4. Counted(g)
  <2>1. UnreadNums(g) = {}
    BY <1>1 DEF UnreadNums
  <2> QED
    BY <1>1, <2>1, FS_EmptySet DEF Counted
<1> QED
  BY <1>1, <1>2, <1>3, <1>4 DEF Ready, Unique, AllMarked

-----------------------------------------------------------------------------
\* A version of a draft is removed.

LEMMA MarkedNums ==
    ASSUME NEW f \in FolderItems
    PROVE  \A n : HasMark(f, n) => n \in Int
<1>1. f.mark_queue \in Seq(Marks) /\ f.marks.recs \in Seq(Marks)
  BY DEF FolderItems, Written
<1>2. ASSUME NEW rs \in Seq(Marks), NEW n \in NumsOf(rs) PROVE n \in Int
  <2>1. PICK i \in 1..Len(rs) : rs[i].num = n
    BY NumsOfIs
  <2>2. rs[i] \in Marks
    OBVIOUS
  <2> QED
    BY <2>1, <2>2, NumsAre DEF Marks
<1> QED
  BY <1>1, <1>2 DEF HasMark

LEMMA RemovedMarks ==
    ASSUME NEW f \in FolderItems, Marked(f), f.stype = "F_DRAFT", NEW r, r.num \in Nums,
           NEW n \in FileNums(f), r.num < n, NEW g \in FolderItems, Removed(f, g, <<r>>, 1)
    PROVE  /\ Marked(g) /\ g.stype = f.stype /\ g.opened = f.opened /\ g.mark_queue = f.mark_queue
           /\ \A k : k \in FileNums(g) <=> k \in FileNums(f) /\ k # r.num
           /\ \A k \in FileNums(g) : g.file[k] = f.file[k] /\ Shown(g, k) = Shown(f, k)
<1>1. /\ g.stype = f.stype /\ g.opened = f.opened /\ g.list = f.list
      /\ g.marks = f.marks /\ g.mark_queue = f.mark_queue /\ g.mark_dirty = f.mark_dirty
      /\ g.cache_queue = f.cache_queue /\ g.cache_dirty = f.cache_dirty
  BY DEF Removed, SameMarks, SameCache
<1>2. g.file[r.num] = None /\ \A k \in Nums : k # r.num => g.file[k] = f.file[k]
  <2>1. PICK rs : rs = <<r>>
    OBVIOUS
  <2>2. rs[1] = r /\ \A j \in 1..1 : rs[j] = r
    BY <2>1
  <2>3. /\ \A k \in Nums : (\E j \in 1..1 : rs[j].num = k) => g.file[k] = None
        /\ \A k \in Nums : (\A j \in 1..1 : rs[j].num # k) => g.file[k] = f.file[k]
    BY <2>1 DEF Removed
  <2>4. 1 \in 1..1
    OBVIOUS
  <2> QED
    BY <2>2, <2>3, <2>4
<1>3. \A k : k \in FileNums(g) <=> k \in FileNums(f) /\ k # r.num
  BY <1>2 DEF FileNums
<1>4. \A k \in FileNums(g) : g.file[k] = f.file[k]
  BY <1>2, <1>3 DEF FileNums
<1>5. Filed(f) /\ Ready(f) /\ Unique(f) /\ (f.opened => OpenMarks(f))
  BY DEF Marked
<1>6. \A k : MarkFor(g, k) = MarkFor(f, k) /\ (HasMark(g, k) <=> HasMark(f, k))
  BY <1>1 DEF MarkFor, HasMark
<1>7. n \in FileNums(g)
  <2>1. n \in Int /\ r.num \in Int
    BY NumsAre DEF FileNums
  <2> QED
    BY <1>3, <2>1
<1>8. Filed(g)
  <2>1. ASSUME NEW k \in Int, KnownMark(f, k) PROVE KnownMark(g, k)
    <3>1. CASE k = r.num
      BY <1>1, <1>7, <3>1 DEF KnownMark
    <3>2. CASE k # r.num /\ k \in FileNums(f)
      BY <1>3, <3>2 DEF KnownMark
    <3>3. CASE k # r.num /\ k \notin FileNums(f)
      <4>1. PICK j \in FileNums(f) : k < j
        BY <2>1, <3>3 DEF KnownMark
      <4>2. CASE j = r.num
        <5>1. j \in Int /\ n \in Int /\ j < n
          BY <4>2, NumsAre DEF FileNums
        <5>2. k < n
          BY <4>1, <5>1
        <5> QED
          BY <1>1, <1>7, <5>2 DEF KnownMark
      <4>3. CASE j # r.num
        BY <1>1, <1>3, <4>1, <4>3 DEF KnownMark
      <4> QED
        BY <4>2, <4>3
    <3> QED
      BY <3>1, <3>2, <3>3
  <2>2. KnownMarks(g)
    BY <1>5, <1>6, <2>1, MarkedNums DEF KnownMarks, Filed
  <2> QED
    BY <1>1, <1>5, <2>2 DEF Filed, ReadableMarks
<1>9. Ready(g) /\ Unique(g)
  BY <1>1, <1>3, <1>4, <1>5 DEF Ready, Unique
<1>10. g.opened => OpenMarks(g)
  <2> SUFFICES ASSUME g.opened PROVE OpenMarks(g)
    OBVIOUS
  <2>1. RowsMarked(f) /\ RowsWritten(f) /\ Echo(f.mark_queue, f.cache_queue)
    BY <1>1, <1>5 DEF OpenMarks
  <2>2. RowsMarked(g)
    BY <1>1, <1>3, <2>1 DEF RowsMarked
  <2>3. RowsWritten(g)
    BY <1>1, <2>1 DEF RowsWritten
  <2> QED
    BY <1>1, <2>1, <2>2, <2>3 DEF OpenMarks
<1>11. \A k : Shown(g, k) = Shown(f, k)
  BY <1>1, <1>6 DEF Shown
<1> QED
  BY <1>1, <1>3, <1>4, <1>8, <1>9, <1>10, <1>11 DEF Marked

LEMMA TargetGone ==
    ASSUME NEW f \in FolderItems, Good(f), Marked(f), f.stype = "F_DRAFT",
           NEW n \in FileNums(f), target = NoTarget \/ (target.num \in Nums /\ target.msg \in Msgs),
           f.last_num = n, target.msg # f.file[n], NEW g, g = RemoveTarget(f)
    PROVE  /\ Marked(g)
           /\ \A k : k \in FileNums(g) <=> k \in FileNums(f) /\ ~(Exists(f, target) /\ k = target.num)
           /\ \A k \in FileNums(g) : g.file[k] = f.file[k] /\ Shown(g, k) = Shown(f, k)
           /\ f.mark_queue = <<>> => g.mark_queue = <<>>
<1>1. CASE target = NoTarget
  <2>1. g = f
    BY <1>1 DEF RemoveTarget
  <2>2. ~Exists(f, target)
    BY <1>1, NumsAre DEF Exists, NoTarget, Nums
  <2> QED
    BY <2>1, <2>2
<1>2. CASE target # NoTarget
  <2>1. PICK s : s = Scan(f)
    OBVIOUS
  <2>2. s \in FolderItems /\ SameMail(f, s) /\ s.last_num = LastFile(f)
    BY <2>1, ScanIs
  <2>3. s.file = f.file /\ s.stype = f.stype /\ s.opened = f.opened /\ FileNums(s) = FileNums(f)
    BY <2>2, SameFiles DEF SameMail
  <2>4. /\ Marked(s) /\ SameShown(f, s)
        /\ f.mark_queue = <<>> => s.mark_queue = <<>>
    BY <2>1, ScanMarks
  <2>5. PICK r : r = [num |-> target.num, flags |-> {}]
    OBVIOUS
  <2>6. g = IF Exists(s, target) THEN RemoveMsg(s, r) ELSE s
    BY <1>2, <2>1, <2>5 DEF RemoveTarget
  <2>7. Exists(s, target) <=> Exists(f, target)
    BY <2>3 DEF Exists
  <2>8. CASE Exists(s, target)
    <3>1. target.num \in Nums /\ s.file[target.num] = target.msg /\ target.msg \in Msgs
      BY <1>2, <2>8 DEF Exists
    <3>2. target.num \in FileNums(f)
      BY <2>3, <3>1, NoneAssumption DEF FileNums
    <3>3. n \in Int /\ target.num \in Int /\ n >= 0
      BY <3>1, NumsAre DEF FileNums, Nums
    <3>4. target.num <= n
      BY <3>2, <3>3 DEF Good, Numbered
    <3>5. target.num # n
      BY <2>3, <3>1
    <3>6. r.num \in Nums /\ r.flags \in Flags /\ r.num = target.num
      BY <2>5, <3>1, FlagsTypes
    <3>7. r.num < n
      BY <3>3, <3>4, <3>5, <3>6
    <3>8. g = RemoveMsg(s, r)
      BY <2>6, <2>8
    <3>9. g \in FolderItems /\ Removed(s, g, <<r>>, 1)
      BY <2>2, <3>6, <3>8, RemoveMsgIs
    <3>10. /\ Marked(g) /\ g.mark_queue = s.mark_queue
           /\ \A k : k \in FileNums(g) <=> k \in FileNums(s) /\ k # r.num
           /\ \A k \in FileNums(g) : g.file[k] = s.file[k] /\ Shown(g, k) = Shown(s, k)
      BY <2>2, <2>3, <2>4, <3>6, <3>7, <3>9, RemovedMarks
    <3> QED
      BY <2>3, <2>4, <2>7, <2>8, <3>6, <3>10 DEF SameShown
  <2>9. CASE ~Exists(s, target)
    <3>1. g = s
      BY <2>6, <2>9
    <3> QED
      BY <2>3, <2>4, <2>7, <2>9, <3>1 DEF SameShown
  <2> QED
    BY <2>8, <2>9
<1> QED
  BY <1>1, <1>2

-----------------------------------------------------------------------------
\* What holds of the marks between the handlers.  The flags of a folder that is
\* closed are in its marks file, but for those of messages that a check brought.
Tidied(f, fo, rc) ==
    /\ Marked(f) /\ rc \in {"no", "yet", "done"}
    /\ ~fo => /\ Counted(f) /\ (f.opened => f.last_num >= 0)
              /\ (~f.opened /\ f.stype # "F_DRAFT" => AllMarked(f))
    /\ (~f.opened /\ f.mark_queue # <<>> => rc = "done")
    /\ (rc = "done" => f.stype # "F_DRAFT")
Tidy == Tidied(folder, foreign, receiving)

\* A handler is a step of the mailbox, or none.
Edited(f, t) == IF Exists(f, t) THEN t.msg ELSE None
MailStep ==
    /\ folder'.stype = folder.stype
    /\ IsMailbox!Living \/ UNCHANGED <<Seen, elsewhere, Edited(folder, target)>>
\* Or it dies.
DeathStep == folder'.stype = folder.stype /\ IsMailbox!Dying

\* What is seen before the step and after it.
Look(g) ==
    /\ Seen = SeenAs(folder) /\ Seen' = SeenAs(g)
    /\ SeenAs(folder) = [m \in Contents(folder) |-> SeenAs(folder)[m]]
    /\ SeenAs(g) = [m \in Contents(g) |-> SeenAs(g)[m]]

LEMMA Looks ==
    ASSUME Marked(folder), NEW g, folder' = g, Marked(g)
    PROVE  Look(g)
<1>1. Seen = SeenAs(folder) /\ Seen' = SeenAs(g)
  BY SeenIs, SeenNextIs DEF Marked
<1>2. Unique(folder) /\ Unique(g)
  BY DEF Marked
<1> QED
  BY <1>1, <1>2, SeenShown DEF Look

LEMMA StillStep ==
    ASSUME Marked(folder), NEW g, folder' = g, Marked(g), SameShown(folder, g),
           UNCHANGED elsewhere, Edited(g, target') = Edited(folder, target)
    PROVE  MailStep
<1>1. Seen' = Seen
  BY Looks, SameSeen DEF Look
<1>2. Edited(folder, target)' = Edited(folder, target)
  BY DEF Edited, Exists
<1> QED
  BY <1>1, <1>2 DEF MailStep, SameShown

\* The message that is edited is what its number has.
LEMMA EditedSame ==
    ASSUME NEW f, NEW g, NEW t, g.file = f.file
    PROVE  Edited(g, t) = Edited(f, t)
BY DEF Edited, Exists

LEMMA EditedNone ==
    ASSUME NEW f
    PROVE  Edited(f, NoTarget) = None
BY DEF Edited, NoTarget

LEMMA ArriveStep ==
    ASSUME Marked(folder), NEW g, folder' = g, Marked(g), g.stype = folder.stype,
           NEW m \in Fresh, \A x : x \in Contents(g) <=> x \in Contents(folder) \/ x = m,
           \A x \in Contents(folder) : SeenAs(g)[x] = SeenAs(folder)[x],
           SeenAs(g)[m] \in Flags,
           UNCHANGED elsewhere, Edited(g, target') = Edited(folder, target)
    PROVE  MailStep
<1>1. PICK flags \in Flags : flags = SeenAs(g)[m]
  OBVIOUS
<1>2. m \in Msgs /\ m \notin Contents(folder) /\ m \notin DOMAIN elsewhere
  BY DEF Fresh
<1>3. Look(g)
  BY Looks
<1>4. SeenAs(g) = IsMailbox!Over([x \in {m} |-> flags], SeenAs(folder))
  BY <1>1, <1>2, <1>3 DEF Look, IsMailbox!Over
<1>5. IsMailbox!Arrive(m)
  <2>1. m \notin DOMAIN Seen \cup DOMAIN elsewhere
    BY <1>2, <1>3 DEF Look
  <2>2. Seen' = IsMailbox!Over([x \in {m} |-> flags], Seen)
    BY <1>3, <1>4 DEF Look
  <2>3. flags \in IsMailbox!Flags
    BY <1>1 DEF Flags, IsMailbox!Flags
  <2> QED
    BY <2>1, <2>2, <2>3 DEF IsMailbox!Arrive, Edited, Exists
<1> QED
  BY <1>2, <1>5 DEF MailStep, IsMailbox!Living

-----------------------------------------------------------------------------
\* The steps of the mailbox, message by message.
LEMMA InMsgs ==
    ASSUME NEW f \in FolderItems
    PROVE  /\ Contents(f) \in SUBSET Msgs /\ None \notin Contents(f)
           /\ \A m : m \in Contents(f) <=> \E n \in FileNums(f) : f.file[n] = m
<1>1. f.file \in [Nums -> Msgs \cup {None}]
  BY DEF FolderItems
<1> QED
  BY <1>1, NoneAssumption DEF Contents, FileNums

LEMMA MarkStep ==
    ASSUME folder \in FolderItems, Marked(folder), NEW g, folder' = g, Marked(g), g.stype = folder.stype,
           g.file = folder.file, NEW m \in Contents(folder), NEW flag \in {"UNREAD"} \cup UserFlags,
           \A x \in Contents(folder) : x # m => SeenAs(g)[x] = SeenAs(folder)[x],
           \/ SeenAs(g)[m] = SeenAs(folder)[m] \cup {flag}
           \/ SeenAs(g)[m] = SeenAs(folder)[m] \ {flag},
           UNCHANGED <<elsewhere, target>>
    PROVE  MailStep
<1>1. Look(g) /\ Contents(g) = Contents(folder)
  BY Looks, SameFiles
<1>2. SeenAs(g) \in {[SeenAs(folder) EXCEPT ![m] = @ \cup {flag}], [SeenAs(folder) EXCEPT ![m] = @ \ {flag}]}
  BY <1>1 DEF Look
<1>3. m \in DOMAIN SeenAs(folder) /\ m \in Msgs
  BY <1>1, InMsgs DEF Look
<1>4. Edited(folder, target)' = Edited(folder, target)
  BY DEF Edited, Exists
<1>5. IsMailbox!Mark(m)
  BY <1>1, <1>2, <1>3, <1>4 DEF IsMailbox!Mark, Edited, Look
<1> QED
  BY <1>3, <1>5 DEF MailStep, IsMailbox!Living

LEMMA AnswerStep ==
    ASSUME folder \in FolderItems, Marked(folder), NEW g, folder' = g, Marked(g), g.stype = folder.stype,
           g.file = folder.file, NEW m \in Contents(folder),
           \A x \in Contents(folder) : x # m => SeenAs(g)[x] = SeenAs(folder)[x],
           SeenAs(g)[m] = SeenAs(folder)[m] \cup UserFlags,
           UNCHANGED <<elsewhere, target>>
    PROVE  MailStep
<1>1. Look(g) /\ Contents(g) = Contents(folder)
  BY Looks, SameFiles
<1>2. SeenAs(g) = [SeenAs(folder) EXCEPT ![m] = @ \cup UserFlags]
  BY <1>1 DEF Look
<1>3. m \in DOMAIN SeenAs(folder) /\ m \in Msgs
  BY <1>1, InMsgs DEF Look
<1>4. Edited(folder, target)' = Edited(folder, target)
  BY DEF Edited, Exists
<1>5. IsMailbox!Answer(m)
  BY <1>1, <1>2, <1>3, <1>4 DEF IsMailbox!Answer, Edited, Look
<1> QED
  BY <1>3, <1>5 DEF MailStep, IsMailbox!Living

\* Messages leave.
Without(f, g, S) ==
    /\ \A x : x \in Contents(g) <=> x \in Contents(f) /\ x \notin S
    /\ \A x \in Contents(g) : SeenAs(g)[x] = SeenAs(f)[x]

LEMMA SeenWithout ==
    ASSUME Marked(folder), NEW g, folder' = g, Marked(g), NEW S, Without(folder, g, S)
    PROVE  Seen' = IsMailbox!Less(Seen, S)
<1>1. Look(g)
  BY Looks
<1>2. SeenAs(g) = IsMailbox!Less(SeenAs(folder), S)
  BY <1>1 DEF Look, Without, IsMailbox!Less
<1> QED
  BY <1>1, <1>2 DEF Look

LEMMA DiscardStep ==
    ASSUME folder \in FolderItems, Marked(folder), folder.stype = "F_TRASH", NEW g, folder' = g, Marked(g),
           g.stype = folder.stype, NEW S \in SUBSET Contents(folder), Without(folder, g, S),
           UNCHANGED elsewhere, Edited(g, target') = Edited(folder, target)
    PROVE  MailStep
<1>1. Look(g) /\ Seen' = IsMailbox!Less(Seen, S)
  BY Looks, SeenWithout
<1>2. S \subseteq DOMAIN Seen /\ S \in SUBSET Msgs
  BY <1>1, InMsgs DEF Look
<1>4. Edited(folder, target)' = Edited(folder, target)
  BY DEF Edited, Exists
<1>5. IsMailbox!Discard(S)
  BY <1>1, <1>2, <1>4 DEF IsMailbox!Discard, Edited
<1> QED
  BY <1>2, <1>5 DEF MailStep, IsMailbox!Living

LEMMA MoveAwayStep ==
    ASSUME folder \in FolderItems, Marked(folder), NEW g, folder' = g, Marked(g),
           g.stype = folder.stype, NEW S \in SUBSET Contents(folder), Without(folder, g, S),
           \A m \in S : m \notin DOMAIN elsewhere,
           elsewhere' = [m \in DOMAIN elsewhere \cup S |->
                            IF m \in DOMAIN elsewhere THEN elsewhere[m] ELSE SeenAs(folder)[m]],
           Edited(g, target') = IF Edited(folder, target) \in S THEN None ELSE Edited(folder, target)
    PROVE  MailStep
<1>1. Look(g) /\ Seen' = IsMailbox!Less(Seen, S)
  BY Looks, SeenWithout
<1>2. S \subseteq DOMAIN Seen \ DOMAIN elsewhere /\ S \in SUBSET Msgs
  BY <1>1, InMsgs DEF Look
<1>3. elsewhere' = IsMailbox!Over(elsewhere, IsMailbox!Only(Seen, S))
  BY <1>1, <1>2 DEF IsMailbox!Over, IsMailbox!Only, Look
<1>4. Edited(folder, target)' = IF Edited(folder, target) \in S THEN None ELSE Edited(folder, target)
  BY DEF Edited, Exists
<1>5. IsMailbox!MoveAway(S)
  BY <1>1, <1>2, <1>3, <1>4 DEF IsMailbox!MoveAway, Edited
<1> QED
  BY <1>2, <1>5 DEF MailStep, IsMailbox!Living

\* Messages come, or their copies.
KeptFlags(f, flags) == IF f.stype = "F_DRAFT" THEN flags \ {"UNREAD"} ELSE flags
With(f, g, S) ==
    /\ \A x : x \in Contents(g) <=> x \in Contents(f) \/ x \in S
    /\ \A x \in Contents(f) : SeenAs(g)[x] = SeenAs(f)[x]

LEMMA BringStep ==
    ASSUME folder \in FolderItems, Marked(folder), NEW g, folder' = g, Marked(g),
           g.stype = folder.stype, NEW S \in SUBSET (DOMAIN elsewhere \ Contents(folder)), S \in SUBSET Msgs,
           With(folder, g, S), \A x \in S : SeenAs(g)[x] = KeptFlags(folder, elsewhere[x]),
           elsewhere' = elsewhere \/ elsewhere' = [m \in DOMAIN elsewhere \ S |-> elsewhere[m]],
           Edited(g, target') \in IF Edited(folder, target) = None THEN S \cup {None} ELSE {Edited(folder, target)}
    PROVE  MailStep
<1>1. Look(g)
  BY Looks
<1>2. S \subseteq DOMAIN elsewhere \ DOMAIN Seen
  BY <1>1 DEF Look
<1>3. elsewhere' \in {elsewhere, IsMailbox!Less(elsewhere, S)}
  BY DEF IsMailbox!Less
<1>4. Edited(folder, target)' \in IF Edited(folder, target) = None THEN S \cup {None} ELSE {Edited(folder, target)}
  BY DEF Edited, Exists
<1>5. SeenAs(g) = IsMailbox!Over(SeenAs(folder), IsMailbox!Kept(IsMailbox!Only(elsewhere, S)))
  <2>1. SeenAs(g) = [x \in Contents(folder) \cup S |->
                        IF x \in Contents(folder) THEN SeenAs(folder)[x] ELSE KeptFlags(folder, elsewhere[x])]
    BY <1>1 DEF Look, With
  <2>2. DOMAIN IsMailbox!Only(elsewhere, S) = S /\ \A x \in S : IsMailbox!Only(elsewhere, S)[x] = elsewhere[x]
    BY DEF IsMailbox!Only
  <2>3. IsMailbox!Kept(IsMailbox!Only(elsewhere, S)) = [x \in S |-> KeptFlags(folder, elsewhere[x])]
    BY <2>2 DEF IsMailbox!Kept, KeptFlags
  <2> QED
    BY <1>1, <2>1, <2>3 DEF IsMailbox!Over, Look
<1>6. IsMailbox!Bring(S)
  BY <1>1, <1>2, <1>3, <1>4, <1>5 DEF IsMailbox!Bring, Edited, Look
<1> QED
  BY <1>6 DEF MailStep, IsMailbox!Living

LEMMA EditStep ==
    ASSUME NEW m \in Msgs \cup {None}, UNCHANGED <<folder, elsewhere>>, Edited(folder, target') = m
    PROVE  MailStep
<1>1. Seen' = Seen
  BY DEF Seen, Contents, FileNums, SeenFlags, NumOf
<1>2. Edited(folder, target)' = m
  BY DEF Edited, Exists
<1>3. IsMailbox!Edit(m)
  BY <1>1, <1>2 DEF IsMailbox!Edit, Edited
<1> QED
  BY <1>3 DEF MailStep, IsMailbox!Living

LEMMA SaveStep ==
    ASSUME Marked(folder), NEW g, folder' = g, Marked(g), g.stype = folder.stype,
           NEW m \in Fresh,
           \A x : x \in Contents(g) <=> x = m \/ (x \in Contents(folder) /\ x # Edited(folder, target)),
           \A x \in Contents(folder) : x # Edited(folder, target) => SeenAs(g)[x] = SeenAs(folder)[x],
           SeenAs(g)[m] \in Flags,
           UNCHANGED elsewhere, Edited(g, target') \in {m, None}
    PROVE  MailStep
<1>1. PICK flags \in Flags : flags = SeenAs(g)[m]
  OBVIOUS
<1>2. m \in Msgs /\ m \notin Contents(folder) /\ m \notin DOMAIN elsewhere
  BY DEF Fresh
<1>3. Look(g)
  BY Looks
<1>4. PICK e : e = Edited(folder, target)
  OBVIOUS
<1>5. SeenAs(g) = IsMailbox!Over([x \in {m} |-> flags], IsMailbox!Less(SeenAs(folder), {e}))
  BY <1>1, <1>2, <1>3, <1>4 DEF Look, IsMailbox!Over, IsMailbox!Less
<1>6. IsMailbox!Save(m)
  <2>1. m \notin DOMAIN Seen \cup DOMAIN elsewhere
    BY <1>2, <1>3 DEF Look
  <2>2. Seen' = IsMailbox!Over([x \in {m} |-> flags], IsMailbox!Less(Seen, {Edited(folder, target)}))
    BY <1>3, <1>4, <1>5 DEF Look
  <2>3. flags \in IsMailbox!Flags
    BY <1>1 DEF Flags, IsMailbox!Flags
  <2>4. Edited(folder, target)' \in {m, None}
    BY DEF Edited, Exists
  <2> QED
    BY <2>1, <2>2, <2>3, <2>4 DEF IsMailbox!Save, Edited
<1> QED
  BY <1>2, <1>6 DEF MailStep, IsMailbox!Living

LEMMA DieStep ==
    ASSUME Marked(folder), NEW g, folder' = g, Marked(g), g.stype = folder.stype,
           NEW S \in SUBSET (DOMAIN elsewhere \ Contents(folder)), S \in SUBSET Msgs,
           \A x : x \in Contents(g) <=> x \in Contents(folder) \/ x \in S,
           \A n : Shown(g, n) \in Flags,
           elsewhere' = elsewhere \/ elsewhere' = [m \in DOMAIN elsewhere \ S |-> elsewhere[m]],
           target' = NoTarget
    PROVE  DeathStep
<1>1. Look(g)
  BY Looks
<1>2. S \subseteq DOMAIN elsewhere \ DOMAIN Seen
  BY <1>1 DEF Look
<1>3. elsewhere' \in {elsewhere, IsMailbox!Less(elsewhere, S)}
  BY DEF IsMailbox!Less
<1>4. Edited(folder, target)' = None
  BY EditedNone DEF Edited, Exists
<1>5. \A x \in Contents(g) : SeenAs(g)[x] \in Flags
  BY DEF SeenAs
<1>6. Seen' \in [DOMAIN Seen \cup S -> IsMailbox!Flags]
  <2>1. Contents(g) = Contents(folder) \cup S
    OBVIOUS
  <2>2. SeenAs(g) \in [Contents(folder) \cup S -> Flags]
    BY <1>1, <1>5, <2>1 DEF Look
  <2>3. DOMAIN Seen = Contents(folder)
    BY <1>1 DEF Look
  <2>4. Flags = IsMailbox!Flags
    BY DEF Flags, IsMailbox!Flags
  <2> QED
    BY <1>1, <2>2, <2>3, <2>4 DEF Look
<1>7. IsMailbox!Crash(S)
  BY <1>2, <1>3, <1>4, <1>6 DEF IsMailbox!Crash, Edited
<1> QED
  BY <1>7 DEF DeathStep, IsMailbox!Dying

\* What is seen of a message is what is shown of its number.
LEMMA SeenOf ==
    ASSUME NEW f, Unique(f), NEW g, Unique(g), NEW n \in FileNums(f), n \in FileNums(g),
           g.file[n] = f.file[n], Shown(g, n) = Shown(f, n)
    PROVE  SeenAs(g)[f.file[n]] = SeenAs(f)[f.file[n]]
<1>1. SeenAs(f)[f.file[n]] = Shown(f, n) /\ SeenAs(g)[g.file[n]] = Shown(g, n)
  BY SeenShown
<1> QED
  BY <1>1
-----------------------------------------------------------------------------
\* A check for mail.
LEMMA BeginCheckTidy ==
    ASSUME Patient, Inv, Tidy, BeginCheck
    PROVE  Tidy' /\ MailStep
<1>1. folder \in FolderItems /\ Good(folder) /\ Marked(folder) /\ receiving = "no" /\ receiving' = "yet"
  BY DEF Inv, Held, Tidy, Tidied, BeginCheck
<1>2. CASE folder.opened
  <2>1. PICK g : g = WriteCache(folder) /\ folder' = g
    BY <1>2 DEF BeginCheck, Becomes
  <2>2. folder.cache_queue = <<>>
    BY <1>2 DEF BeginCheck, NothingWaits
  <2>3. /\ Marked(g) /\ SameShown(folder, g) /\ g.opened /\ g.last_num = folder.last_num
        /\ Counted(folder) => Counted(g)
    BY <1>1, <1>2, <2>1, <2>2, WrittenOpen
  <2>4. MailStep
    BY <1>1, <2>1, <2>3, StillStep, EditedSame DEF BeginCheck, SameShown
  <2>5. Tidied(g, foreign, "yet")
    BY <1>2, <2>3 DEF Tidy, Tidied
  <2> QED
    BY <1>1, <2>1, <2>4, <2>5 DEF Tidy, BeginCheck
<1>3. CASE ~folder.opened
  <2>1. folder' = folder
    BY <1>3 DEF BeginCheck, Becomes
  <2>2. SameShown(folder, folder)
    BY DEF SameShown
  <2>3. MailStep
    BY <1>1, <2>1, <2>2, StillStep, EditedSame DEF BeginCheck
  <2>4. Tidied(folder, foreign, "yet")
    BY <1>1 DEF Tidy, Tidied
  <2> QED
    BY <1>1, <2>1, <2>3, <2>4 DEF Tidy, BeginCheck
<1> QED
  BY <1>2, <1>3

LEMMA ShowNewTidy ==
    ASSUME Inv, Tidy, ShowNew
    PROVE  Tidy' /\ MailStep
<1>1. folder \in FolderItems /\ Good(folder) /\ Marked(folder)
  BY DEF Inv, Held, Tidy, Tidied
<1>2. PICK g : g = ShowQueued(folder) /\ folder' = g
  BY DEF ShowNew, Becomes
<1>3. folder.opened /\ folder.cache_queue # <<>>
  BY DEF ShowNew
<1>4. /\ Marked(g) /\ SameShown(folder, g) /\ g.last_num = folder.last_num
      /\ Counted(folder) => Counted(g)
  BY <1>1, <1>2, <1>3, ShowQueuedMarks
<1>5. g.opened
  BY <1>1, <1>2, <1>3, ShowQueuedIs
<1>6. MailStep
  BY <1>1, <1>2, <1>4, StillStep, EditedSame DEF ShowNew, SameShown
<1>7. Tidied(g, foreign, receiving)
  BY <1>3, <1>4, <1>5 DEF Tidy, Tidied, SameShown
<1> QED
  BY <1>2, <1>6, <1>7 DEF Tidy, ShowNew

LEMMA EndCheckTidy ==
    ASSUME Inv, Tidy, EndCheck
    PROVE  Tidy' /\ MailStep
<1>1. folder \in FolderItems /\ Good(folder) /\ strict \in BOOLEAN /\ (folder.fresh => Trusted(folder))
  BY DEF Inv, Held
<1>2. Marked(folder) /\ Filed(folder) /\ Ready(folder) /\ Unique(folder)
  BY DEF Tidy, Tidied, Marked
<1>3. PICK g : g = FlushFolder(folder)
  OBVIOUS
<1>4. /\ UNCHANGED <<strict, elsewhere, target, foreign>> /\ receiving # "no" /\ receiving' = "no"
      /\ folder' = IF receiving = "yet" THEN folder ELSE IF folder.opened THEN Refresh(g, strict) ELSE g
  BY <1>3 DEF EndCheck, Becomes
<1>5. /\ g \in FolderItems /\ SameMail(folder, g) /\ Flushed(folder, g) /\ Settled(folder, g)
      /\ Drained(folder, g)
  BY <1>1, <1>3, FlushFolderIs
<1>6. g.last_num = IF folder.last_num < 0 THEN LastFile(folder) ELSE folder.last_num
  BY <1>1, <1>3, FlushFolderIs
<1>7. g.fresh => folder.fresh
  BY <1>1, <1>3, FlushFolderIs
<1>8. g.file = folder.file /\ g.stype = folder.stype /\ g.opened = folder.opened
  BY <1>5 DEF SameMail
<1>9. /\ Filed(g) /\ Ready(g) /\ SameTable(folder, g) /\ SameShown(folder, g)
      /\ folder.opened /\ OpenMarks(folder) => OpenMarks(g)
  BY <1>1, <1>2, <1>5, SettledMarked
<1>10. Marked(g)
  BY <1>2, <1>8, <1>9, SameSeen DEF Marked
<1>11. CASE receiving = "yet"
  <2>1. folder' = folder /\ SameShown(folder, folder)
    BY <1>4, <1>11 DEF SameShown
  <2>2. MailStep
    BY <1>2, <1>4, <2>1, StillStep, EditedSame
  <2>3. Tidied(folder, foreign, "no")
    BY <1>11 DEF Tidy, Tidied
  <2> QED
    BY <1>4, <2>1, <2>2, <2>3 DEF Tidy
<1>12. CASE receiving # "yet" /\ folder.opened
  <2>1. PICK h : h = Refresh(g, strict) /\ folder' = h
    BY <1>4, <1>12
  <2>2. Good(g) /\ (g.fresh => Trusted(g)) /\ (g.stype = "F_DRAFT" => strict)
    <3>1. Good(g)
      BY <1>1, <1>5, <1>6, CountedGood
    <3>2. Trusted(folder) => Trusted(g)
      BY <1>5, FlushedTrusted
    <3>3. folder.stype = "F_DRAFT" => strict
      BY DEF Inv, Held
    <3> QED
      BY <1>1, <1>7, <1>8, <3>1, <3>2, <3>3
  <2>3. OpenMarks(g)
    BY <1>2, <1>9, <1>12 DEF Marked
  <2>4. h.opened /\ SameShown(g, h) /\ Filed(h) /\ Ready(h) /\ OpenMarks(h) /\ Counted(h)
    BY <1>1, <1>5, <1>8, <1>9, <1>12, <2>1, <2>2, <2>3, RefreshMarks
  <2>5. g.last_num >= 0 => h.last_num >= 0
    BY <1>1, <1>5, <1>8, <1>9, <1>12, <2>1, <2>2, <2>3, RefreshMarks
  <2>6. Marked(h)
    BY <1>10, <2>4, SameSeen DEF Marked
  <2>7. SameShown(folder, h)
    BY <1>9, <2>4, SameSeen DEF SameShown
  <2>8. MailStep
    BY <1>2, <1>4, <2>1, <2>6, <2>7, StillStep, EditedSame DEF SameShown
  <2>9. Tidied(h, foreign, "no")
    <3>1. ~foreign => folder.last_num >= 0
      BY <1>12 DEF Tidy, Tidied
    <3>2. folder.last_num \in Int
      BY <1>1, MaxNumAssumption DEF FolderItems
    <3>3. ~foreign => h.last_num >= 0
      BY <1>6, <2>5, <3>1, <3>2
    <3> QED
      BY <2>4, <2>6, <3>3 DEF Tidied
  <2> QED
    BY <1>4, <2>1, <2>8, <2>9 DEF Tidy
<1>13. CASE receiving # "yet" /\ ~folder.opened
  <2>1. folder' = g
    BY <1>4, <1>13
  <2>2. folder.stype # "F_DRAFT"
    BY <1>4, <1>13 DEF Tidy, Tidied
  <2>3. g.mark_queue = <<>>
    BY <1>1, <1>2, <1>5, <1>13, <2>2, NoMarkWaits
  <2>4. ~foreign => AllMarked(folder)
    BY <1>13, <2>2 DEF Tidy, Tidied
  <2>5. ~foreign => Counted(g)
    BY <1>1, <1>2, <1>3, <1>13, <2>2, <2>4, FlushCounted DEF AllMarked
  <2>6. ~foreign => AllMarked(g)
    BY <1>8, <1>9, <1>13, <2>4, SameTableShown
  <2>7. Tidied(g, foreign, "no")
    BY <1>8, <1>10, <1>13, <2>3, <2>5, <2>6 DEF Tidied
  <2>8. MailStep
    BY <1>2, <1>4, <1>8, <1>9, <1>10, <2>1, StillStep, EditedSame
  <2> QED
    BY <1>4, <2>1, <2>7, <2>8 DEF Tidy
<1> QED
  BY <1>11, <1>12, <1>13
-----------------------------------------------------------------------------
\* The summary.
LEMMA ShowTidy ==
    ASSUME CacheFirst, Inv, Tidy, Show
    PROVE  Tidy' /\ MailStep
<1>1. /\ folder \in FolderItems /\ Good(folder) /\ strict \in BOOLEAN /\ (folder.fresh => Trusted(folder))
      /\ folder.stype = "F_DRAFT" => strict
  BY DEF Inv, Held
<1>2. Marked(folder) /\ Filed(folder) /\ Ready(folder) /\ Unique(folder)
  BY DEF Tidy, Tidied, Marked
<1>3. PICK g : /\ g = IF folder.opened THEN Refresh(folder, strict) ELSE Open(folder, strict)
               /\ folder' = g /\ foreign' = (g.last_num < 0)
               /\ UNCHANGED <<strict, elsewhere, target, receiving>>
  BY DEF Show, Becomes
<1>4. folder.cache.state = "ok" \/ folder.cache_queue = <<>>
  BY DEF Show
<1>5. g \in FolderItems /\ g.opened /\ SameShown(folder, g) /\ Filed(g) /\ Ready(g) /\ OpenMarks(g) /\ Counted(g)
  <2>1. CASE folder.opened
    <3>1. g = Refresh(folder, strict) /\ OpenMarks(folder)
      BY <1>2, <1>3, <2>1 DEF Marked
    <3> QED
      BY <1>1, <1>2, <2>1, <3>1, RefreshMarks
  <2>2. CASE ~folder.opened
    <3>1. g = Open(folder, strict)
      BY <1>3, <2>2
    <3> QED
      BY <1>1, <1>2, <1>4, <2>2, <3>1, OpenMarksIs
  <2> QED
    BY <2>1, <2>2
<1>6. Marked(g)
  BY <1>2, <1>5, SameSeen DEF Marked
<1>7. MailStep
  BY <1>2, <1>3, <1>5, <1>6, StillStep, EditedSame DEF SameShown
<1>8. Tidied(g, foreign', receiving)
  <2>1. g.last_num \in Int
    BY <1>5, MaxNumAssumption DEF FolderItems
  <2>2. ~foreign' => g.last_num >= 0
    <3>1. ~foreign' => ~(g.last_num < 0)
      BY <1>3, Zenon
    <3> QED
      BY <2>1, <3>1
  <2>3. receiving \in {"no", "yet", "done"} /\ (receiving = "done" => g.stype # "F_DRAFT")
    BY <1>5 DEF Tidy, Tidied, SameShown
  <2> QED
    BY <1>5, <1>6, <2>2, <2>3 DEF Tidied
<1> QED
  BY <1>3, <1>7, <1>8 DEF Tidy

LEMMA LeaveTidy ==
    ASSUME Inv, Tidy, Leave
    PROVE  Tidy' /\ MailStep
<1>1. folder \in FolderItems /\ Good(folder) /\ folder.opened /\ Marked(folder)
  BY DEF Inv, Held, Leave, Tidy, Tidied
<1>2. PICK w : w = WriteCache(folder)
  OBVIOUS
<1>3. PICK g : g = Close(w)
  OBVIOUS
<1>4. folder' = g /\ UNCHANGED <<strict, elsewhere, target, receiving, foreign>>
  BY <1>2, <1>3 DEF Leave, Becomes
<1>5. w \in FolderItems /\ SameMail(folder, w) /\ SameSums(folder, w) /\ w.mark_queue = <<>>
  BY <1>1, <1>2, WriteCacheGood
<1>6. g.stype = w.stype /\ g.file = w.file /\ ~g.opened /\ SameMarks(w, g) /\ SameSums(w, g)
  BY <1>3, <1>5, CloseIs
<1>7. /\ g.file = folder.file /\ g.stype = folder.stype /\ g.marks = w.marks /\ g.mark_queue = <<>>
      /\ g.total = folder.total /\ g.unread = folder.unread
  BY <1>5, <1>6 DEF SameMail, SameMarks, SameSums
<1>8. Marked(g) /\ SameShown(folder, g) /\ (Counted(folder) => Counted(g)) /\ (Covered(folder) => AllMarked(g))
  BY <1>1, <1>2, <1>6, <1>7, WrittenClosed
<1>9. MailStep
  BY <1>1, <1>4, <1>7, <1>8, StillStep, EditedSame
<1>10. Tidied(g, foreign, receiving)
  <2>1. ~foreign => Covered(folder)
    BY <1>1 DEF Inv, Held
  <2> QED
    BY <1>6, <1>7, <1>8, <2>1 DEF Tidy, Tidied
<1> QED
  BY <1>4, <1>9, <1>10 DEF Tidy

LEMMA SaveFolderListTidy ==
    ASSUME Inv, Tidy, SaveFolderList
    PROVE  Tidy' /\ MailStep
<1>1. folder' = folder /\ UNCHANGED <<strict, elsewhere, target, receiving, foreign>>
  BY DEF SaveFolderList
<1>2. Marked(folder) /\ SameShown(folder, folder)
  BY DEF Tidy, Tidied, SameShown
<1> QED
  BY <1>1, <1>2, StillStep, EditedSame DEF Tidy, Tidied

LEMMA OneReflagged ==
    ASSUME NEW f, Unique(f), NEW g, Unique(g), g.file = f.file, NEW n \in FileNums(f),
           \A k \in FileNums(f) : k # n => Shown(g, k) = Shown(f, k)
    PROVE  /\ f.file[n] \in Contents(f)
           /\ SeenAs(f)[f.file[n]] = Shown(f, n) /\ SeenAs(g)[f.file[n]] = Shown(g, n)
           /\ \A x \in Contents(f) : x # f.file[n] => SeenAs(g)[x] = SeenAs(f)[x]
<1>1. FileNums(g) = FileNums(f) /\ Contents(g) = Contents(f)
  BY DEF FileNums, Contents
<1>2. \A k \in FileNums(f) : f.file[k] \in Contents(f) /\ SeenAs(f)[f.file[k]] = Shown(f, k)
  BY SeenShown
<1>3. \A k \in FileNums(g) : g.file[k] \in Contents(g) /\ SeenAs(g)[g.file[k]] = Shown(g, k)
  BY SeenShown
<1>4. ASSUME NEW x \in Contents(f), x # f.file[n] PROVE SeenAs(g)[x] = SeenAs(f)[x]
  <2>1. PICK k \in FileNums(f) : f.file[k] = x
    BY SeenShown
  <2> QED
    BY <1>1, <1>2, <1>3, <1>4, <2>1
<1> QED
  BY <1>1, <1>2, <1>3, <1>4

LEMMA SetFlagTidy ==
    ASSUME Inv, Tidy, NEW i \in DOMAIN folder.list, NEW flag \in {"UNREAD"} \cup UserFlags, SetFlag(i, flag)
    PROVE  Tidy' /\ MailStep
<1>1. folder \in FolderItems /\ Good(folder) /\ folder.opened /\ Marked(folder)
  BY DEF Inv, Held, SetFlag, Tidy, Tidied
<1>3. PICK l \in Seq(MsgInfos) : l = folder.list
  BY <1>1 DEF FolderItems
<1>4. PICK n \in Nat : n = Len(l) /\ DOMAIN l = 1..n
  BY <1>3
<1>5. PICK old : old = l[i].flags
  OBVIOUS
<1>6. PICK new : new = IF flag \in old THEN old \ {flag} ELSE old \cup {flag}
  OBVIOUS
<1>7. l[i] \in MsgInfos
  BY <1>3, <1>4
<1>8. old \in Flags
  BY <1>5, <1>7 DEF MsgInfos
<1>9. new \in Flags
  BY <1>6, <1>8 DEF Flags
<1>10. PICK u \in Int : u = folder.unread - Unread(old) + Unread(new)
  <2>1. Unread(old) \in {0, 1} /\ Unread(new) \in {0, 1}
    BY <1>8, <1>9, FlagsTypes
  <2>2. folder.unread \in Int
    BY <1>1 DEF FolderItems
  <2>3. folder.unread - Unread(old) + Unread(new) \in Int
    BY <2>1, <2>2
  <2> QED
    BY <2>3
<1>11. PICK k : k = WithFlag(l, i, new)
  OBVIOUS
<1>12. k \in Seq(MsgInfos) /\ Reflagged(l, k, i, new)
  <2>1. PICK r : r = [l[i] EXCEPT !.flags = new]
    OBVIOUS
  <2>2. r \in MsgInfos /\ r.num = l[i].num /\ r.msg = l[i].msg /\ r.flags = new
    BY <1>7, <1>9, <2>1 DEF MsgInfos
  <2>3. k = [l EXCEPT ![i] = r]
    BY <1>11, <2>1 DEF WithFlag
  <2>4. k \in Seq(MsgInfos) /\ Len(k) = n
    BY <1>3, <1>4, <2>2, <2>3
  <2>5. \A j \in 1..n : k[j] = IF j = i THEN r ELSE l[j]
    BY <1>4, <2>3
  <2> QED
    BY <1>3, <1>4, <2>2, <2>4, <2>5 DEF Reflagged
<1>13. PICK g : g = WithFlags(folder, k, u)
  OBVIOUS
<1>14. UNCHANGED <<elsewhere, target, receiving, foreign>> /\ folder' = g
  <2>1. UNCHANGED <<elsewhere, target, receiving, foreign>>
    BY DEF SetFlag
  <2>2. folder' = [folder EXCEPT !.list[i].flags = new, !.mark_dirty = TRUE,
                                 !.unread = @ - Unread(old) + Unread(new)]
    BY <1>3, <1>5, <1>6 DEF SetFlag, Becomes
  <2>3. g = [folder EXCEPT !.list[i].flags = new, !.mark_dirty = TRUE,
                           !.unread = @ - Unread(old) + Unread(new)]
    BY <1>3, <1>10, <1>11, <1>13, Zenon DEF WithFlags, WithFlag
  <2> QED
    BY <2>1, <2>2, <2>3
<1>15. /\ Marked(g) /\ g.opened /\ g.last_num = folder.last_num /\ g.file = folder.file /\ g.stype = folder.stype
       /\ l[i].num \in FileNums(folder) /\ Shown(folder, l[i].num) = old /\ Shown(g, l[i].num) = new
       /\ \A j \in FileNums(folder) : j # l[i].num => Shown(g, j) = Shown(folder, j)
       /\ Counted(folder) => Counted(g)
  <2>1. Recount(folder, l, i, new, u)
    BY <1>5, <1>10 DEF Recount
  <2>2. FlagGiven(folder, l, i, new, k, u, g)
    BY <1>1, <1>3, <1>9, <1>12, <1>13, <2>1 DEF FlagGiven
  <2>3. OneFlag(folder, l, i, new, g)
    BY <2>2, FlagSet
  <2> QED
    BY <1>5, <2>3 DEF OneFlag
<1>16. PICK m : m = folder.file[l[i].num]
  OBVIOUS
<1>17. Unique(folder) /\ Unique(g)
  BY <1>1, <1>15 DEF Marked
<1>18. /\ m \in Contents(folder) /\ SeenAs(folder)[m] = old /\ SeenAs(g)[m] = new
       /\ \A x \in Contents(folder) : x # m => SeenAs(g)[x] = SeenAs(folder)[x]
  BY <1>15, <1>16, <1>17, OneReflagged
<1>19. \/ SeenAs(g)[m] = SeenAs(folder)[m] \cup {flag}
       \/ SeenAs(g)[m] = SeenAs(folder)[m] \ {flag}
  BY <1>6, <1>18
<1>20. MailStep
  BY <1>1, <1>14, <1>15, <1>18, <1>19, MarkStep
<1>21. Tidied(g, foreign, receiving)
  BY <1>1, <1>15 DEF Tidy, Tidied
<1> QED
  BY <1>14, <1>20, <1>21 DEF Tidy

LEMMA ReplyTidy ==
    ASSUME Inv, Tidy, NEW m \in Contents(folder), Reply(m)
    PROVE  Tidy' /\ MailStep
<1>1. /\ folder \in FolderItems /\ ~folder.opened /\ Marked(folder)
  BY DEF Inv, Held, Reply, Tidy, Tidied
<1>2. PICK n \in FileNums(folder) : n = NumOf(m) /\ folder.file[n] = m
  <2>1. \E n \in FileNums(folder) : folder.file[n] = m
    BY DEF Contents
  <2>2. NumOf(m) \in FileNums(folder) /\ folder.file[NumOf(m)] = m
    BY <2>1 DEF NumOf
  <2> QED
    BY <2>2
<1>3. PICK flags \in Flags : flags = FirstFlags(folder, n) \cup UserFlags
  <2>1. FirstFlags(folder, n) \cup UserFlags \in Flags
    BY <1>1, FirstFlagsTypes, FlagsTypes
  <2> QED
    BY <2>1
<1>4. PICK rs : rs = <<Mark(n, flags)>>
  OBVIOUS
<1>5. PICK g : g = AppendMarks(folder, rs)
  OBVIOUS
<1>6. n \notin NumsOf(folder.mark_queue)
  BY <1>2 DEF Reply
<1>7. /\ Marked(g) /\ g.file = folder.file /\ g.stype = folder.stype /\ ~g.opened
      /\ g.mark_queue = folder.mark_queue
      /\ Shown(g, n) = Shown(folder, n) \cup UserFlags
      /\ \A k \in FileNums(folder) : k # n => Shown(g, k) = Shown(folder, k)
      /\ Counted(folder) => Counted(g)
      /\ AllMarked(folder) => AllMarked(g)
  BY <1>1, <1>3, <1>4, <1>5, <1>6, ReplyMarks
<1>8. g = AddFlags(folder, n, flags)
  BY <1>1, <1>4, <1>5 DEF AddFlags, Mark
<1>9. folder' = g /\ UNCHANGED <<elsewhere, target, receiving, foreign>>
  BY <1>2, <1>3, <1>8 DEF Reply, Becomes
<1>10. Unique(folder) /\ Unique(g)
  BY <1>1, <1>7 DEF Marked
<1>11. /\ SeenAs(folder)[m] = Shown(folder, n) /\ SeenAs(g)[m] = Shown(g, n)
       /\ \A x \in Contents(folder) : x # m => SeenAs(g)[x] = SeenAs(folder)[x]
  BY <1>2, <1>7, <1>10, OneReflagged
<1>12. SeenAs(g)[m] = SeenAs(folder)[m] \cup UserFlags
  BY <1>7, <1>11
<1>13. MailStep
  BY <1>1, <1>7, <1>9, <1>11, <1>12, AnswerStep
<1>14. Tidied(g, foreign, receiving)
  BY <1>1, <1>7 DEF Tidy, Tidied
<1> QED
  BY <1>9, <1>13, <1>14 DEF Tidy
-----------------------------------------------------------------------------
\* Messages that come.
LEMMA NoneEdited ==
    ASSUME Inv, folder.stype # "F_DRAFT"
    PROVE  target = NoTarget /\ \A f : Edited(f, target) = None
<1>1. target = NoTarget
  BY DEF Inv, Known
<1> QED
  BY <1>1, EditedNone

LEMMA IncorporateTidy ==
    ASSUME Inv, Tidy, NEW m \in Fresh, Incorporate(m)
    PROVE  Tidy' /\ MailStep
<1>1. /\ folder \in FolderItems /\ Good(folder) /\ m \in Msgs /\ m \notin Contents(folder) /\ HasRoom(folder, 1)
      /\ Marked(folder) /\ folder.stype # "F_DRAFT" /\ receiving' = "done"
  BY DEF Inv, Held, Fresh, Incorporate, Tidy, Tidied
<1>2. PICK flags \in {Default, UserFlags} :
         Becomes(AddMsgs(folder, <<[msg |-> m, flags |-> flags, received |-> TRUE]>>))
  BY DEF Incorporate
<1>3. PICK r : r = [msg |-> m, flags |-> flags, received |-> TRUE]
  OBVIOUS
<1>4. r \in Incoming /\ r.msg = m /\ r.flags = flags /\ r.received /\ flags \in Flags
  BY <1>1, <1>3, FlagsTypes DEF Incoming
<1>5. PICK rs : rs = <<r>>
  OBVIOUS
<1>6. rs \in Seq(Incoming) /\ Len(rs) = 1 /\ \A j \in 1..Len(rs) : rs[j] = r
  BY <1>4, <1>5
<1>7. PICK g : g = AddMsgs(folder, rs)
  OBVIOUS
<1>8. PICK n \in Nat : n = 1
  OBVIOUS
<1>9. n = Len(rs) /\ HasRoom(folder, n)
  BY <1>1, <1>6, <1>8
<1>10. Newcomers(folder, rs)
  BY <1>1, <1>4, <1>6 DEF Newcomers
<1>11. Plain("adding", folder, rs)
  BY <1>4, <1>6 DEF Plain, NoteFlags
<1>12. folder' = g /\ UNCHANGED <<elsewhere, target, foreign>>
  BY <1>2, <1>3, <1>5, <1>7 DEF Incorporate, Becomes
<1> HIDE <1>3, <1>5
<1>13. g \in FolderItems /\ Grown(folder, g, rs, n) /\ g.last_num >= 0
  BY <1>1, <1>6, <1>7, <1>9, AddMsgsIs
<1>14. Marked(g) /\ Brought("adding", folder, g, rs, n)
  BY <1>1, <1>6, <1>7, <1>9, <1>10, <1>11, AddMsgsMarks
<1>15. Counted(folder) /\ (folder.opened => folder.last_num >= 0) => Counted(g)
  BY <1>1, <1>6, <1>7, <1>9, <1>10, <1>11, AddMsgsMarks
<1>16. AllMarked(folder) => AllMarked(g)
  BY <1>1, <1>6, <1>7, <1>9, <1>10, <1>11, AddMsgsMarks
<1>17. g.stype = folder.stype /\ g.opened = folder.opened
  BY <1>13 DEF Grown
<1>18. Tidied(g, foreign, "done")
  BY <1>1, <1>13, <1>14, <1>15, <1>16, <1>17 DEF Tidy, Tidied
<1>19. /\ \A x : x \in Contents(g) <=> x \in Contents(folder) \/ x = m
       /\ \A x \in Contents(folder) : SeenAs(g)[x] = SeenAs(folder)[x]
       /\ SeenAs(g)[m] \in Flags
  <2>1. 1 \in 1..n /\ \A j \in 1..n : rs[j] = r
    BY <1>6, <1>8, <1>9
  <2>2. NoteFlags("adding", folder, r) = flags
    BY <1>4 DEF NoteFlags
  <2> QED
    BY <1>4, <1>14, <2>1, <2>2 DEF Brought
<1>20. Edited(g, target') = Edited(folder, target)
  BY <1>1, <1>12, NoneEdited
<1>21. MailStep
  BY <1>1, <1>12, <1>14, <1>17, <1>19, <1>20, ArriveStep
<1> QED
  BY <1>1, <1>12, <1>18, <1>21 DEF Tidy

LEMMA DeliverTidy ==
    ASSUME Inv, Tidy, NEW m \in Fresh, Deliver(m)
    PROVE  Tidy' /\ MailStep
<1>1. /\ folder \in FolderItems /\ Good(folder) /\ m \in Msgs /\ m \notin Contents(folder) /\ m # None
      /\ foreign' = TRUE /\ Marked(folder)
      /\ folder.stype = "F_NORMAL" /\ UNCHANGED <<strict, elsewhere, target, receiving>>
  BY NoneAssumption DEF Inv, Held, Fresh, Deliver, Tidy, Tidied
<1>2. PICK k \in Nums : k = LastFile(folder) + 1
  <2>1. LastFile(folder) \in 0..MaxNum /\ LastFile(folder) < MaxNum
    BY LastFileIs DEF Deliver
  <2> QED
    BY <2>1, NumsAre DEF Nums
<1>3. folder.file[k] = None
  <2>1. k \notin FileNums(folder)
    <3>1. LastFile(folder) \in 0..MaxNum /\ \A n \in FileNums(folder) : n <= LastFile(folder)
      BY LastFileIs
    <3> QED
      BY <1>2, <3>1
  <2> QED
    BY <2>1 DEF FileNums
<1>4. PICK file : file = WithFile(folder, k, m)
  OBVIOUS
<1>5. /\ file \in [Nums -> Msgs \cup {None}] /\ file[k] = m
      /\ \A j \in Nums : j # k => file[j] = folder.file[j]
  BY <1>1, <1>4 DEF WithFile, FolderItems
<1>6. PICK g : g = [folder EXCEPT !.file = file, !.fresh = FALSE]
  OBVIOUS
<1>7. folder' = g
  <2>1. g = [folder EXCEPT !.file[LastFile(folder) + 1] = m, !.fresh = FALSE]
    BY <1>2, <1>4, <1>6, Zenon DEF WithFile
  <2> QED
    BY <2>1 DEF Deliver, Becomes
<1>8. /\ g.file = file /\ g.stype = folder.stype /\ g.opened = folder.opened /\ g.list = folder.list
      /\ g.cache_queue = folder.cache_queue /\ g.cache_dirty = folder.cache_dirty /\ SameMarks(folder, g)
  BY <1>1, <1>6 DEF FolderItems, SameMarks
<1>9. g.file[k] = m /\ \A j \in Nums : j # k => g.file[j] = folder.file[j]
  BY <1>5, <1>8
<1>10. /\ Marked(g)
       /\ \A n : n \in FileNums(g) <=> n \in FileNums(folder) \/ n = k
       /\ \A n \in FileNums(folder) : g.file[n] = folder.file[n] /\ Shown(g, n) = Shown(folder, n)
       /\ Shown(g, k) = Default
  BY <1>1, <1>3, <1>8, <1>9, DeliveredMarks
<1>11. Unique(folder) /\ Unique(g)
  BY <1>1, <1>10 DEF Marked
<1>12. \A x : x \in Contents(g) <=> x \in Contents(folder) \/ x = m
  BY <1>9, <1>10 DEF Contents
<1>13. ASSUME NEW x \in Contents(folder) PROVE SeenAs(g)[x] = SeenAs(folder)[x]
  <2>1. PICK n \in FileNums(folder) : folder.file[n] = x
    BY DEF Contents
  <2> QED
    BY <1>10, <1>11, <2>1, SeenOf
<1>14. SeenAs(g)[m] \in Flags
  <2>1. k \in FileNums(g) /\ g.file[k] = m
    BY <1>9, <1>10
  <2>2. SeenAs(g)[m] = Shown(g, k)
    BY <1>11, <2>1, SeenShown
  <2> QED
    BY <1>10, <2>2, FlagsTypes
<1>15. Edited(g, target') = Edited(folder, target)
  BY <1>1, NoneEdited
<1>16. MailStep
  BY <1>1, <1>7, <1>8, <1>10, <1>12, <1>13, <1>14, <1>15, ArriveStep
<1>17. Tidied(g, foreign', receiving)
  <2>1. g.mark_queue = folder.mark_queue
    BY <1>8 DEF SameMarks
  <2> QED
    BY <1>1, <1>8, <1>10, <2>1 DEF Tidy, Tidied
<1> QED
  BY <1>1, <1>7, <1>16, <1>17 DEF Tidy
-----------------------------------------------------------------------------
\* The end of the program.
LEMMA QuitTidy ==
    ASSUME Patient, Inv, Tidy, Quit
    PROVE  Tidy' /\ MailStep
<1>1. /\ folder \in FolderItems /\ Good(folder) /\ Marked(folder)
      /\ UNCHANGED <<strict, elsewhere, target, receiving, foreign>> /\ target = NoTarget /\ receiving = "no"
  BY DEF Inv, Held, Quit, Tidy, Tidied
<1>2. PICK w : w = IF folder.opened THEN WriteCache(folder) ELSE folder
  OBVIOUS
<1>3. w \in FolderItems /\ SameMail(folder, w) /\ SameSums(folder, w)
  <2>1. CASE folder.opened
    BY <1>1, <1>2, <2>1, WriteCacheGood
  <2>2. CASE ~folder.opened
    BY <1>1, <1>2, <2>2 DEF SameMail, SameSums
  <2> QED
    BY <2>1, <2>2
<1>4. PICK d \in BOOLEAN : d = w.fresh
  BY <1>3 DEF FolderItems
<1>5. PICK g : g = Again(w, d)
  OBVIOUS
<1>6. folder' = g
  <2>1. folder' = [Restarted(w) EXCEPT !.fresh = d]
    BY <1>2, <1>4 DEF Quit
  <2> QED
    BY <1>3, <1>5, <2>1 DEF Again, Restarted, FolderItems
<1>7. /\ g.file = w.file /\ g.stype = w.stype /\ ~g.opened /\ g.marks = w.marks /\ g.mark_queue = <<>>
      /\ g.total = w.total /\ g.unread = w.unread
  BY <1>3, <1>5 DEF Again, FolderItems
<1>8. /\ g.file = folder.file /\ g.stype = folder.stype
      /\ g.total = folder.total /\ g.unread = folder.unread
  BY <1>3, <1>7 DEF SameMail, SameSums
<1>9. Marked(g) /\ SameShown(folder, g) /\ (Counted(folder) => Counted(g))
  <2>1. CASE folder.opened
    <3>1. w = WriteCache(folder)
      BY <1>2, <2>1
    <3> QED
      BY <1>1, <1>7, <1>8, <2>1, <3>1, WrittenClosed
  <2>2. CASE ~folder.opened
    <3>1. w = folder /\ folder.mark_queue = <<>>
      BY <1>1, <1>2, <2>2 DEF Tidy, Tidied
    <3>2. Filed(folder) /\ Unique(folder)
      BY <1>1 DEF Marked
    <3>3. Marked(g)
      BY <1>5, <3>1, <3>2, <1>1, FiledFileMarks, AgainMarks
    <3>4. \A n : MarkFor(g, n) = MarkFor(folder, n) /\ (HasMark(g, n) <=> HasMark(folder, n))
      BY <1>7, <1>8, <3>1, <3>2, ClosedMarks
    <3>5. SameTable(folder, g)
      BY <3>4 DEF SameTable
    <3>6. SameShown(folder, g)
      BY <1>7, <1>8, <2>2, <3>5, SameTableShown
    <3> QED
      BY <1>8, <3>3, <3>6, SameCounted
  <2> QED
    BY <2>1, <2>2
<1>10. ~foreign /\ g.stype # "F_DRAFT" => AllMarked(g)
  <2>1. CASE folder.opened
    <3>1. w = WriteCache(folder)
      BY <1>2, <2>1
    <3>2. ~foreign => Covered(folder)
      BY <2>1 DEF Inv, Held
    <3> QED
      BY <1>1, <1>7, <1>8, <2>1, <3>1, <3>2, WrittenClosed
  <2>2. CASE ~folder.opened
    <3>1. w = folder /\ folder.mark_queue = <<>>
      BY <1>1, <1>2, <2>2 DEF Tidy, Tidied
    <3>2. Filed(folder)
      BY <1>1 DEF Marked
    <3>3. \A n : HasMark(g, n) <=> HasMark(folder, n)
      BY <1>7, <1>8, <3>1, <3>2, ClosedMarks
    <3>4. ~foreign /\ folder.stype # "F_DRAFT" => AllMarked(folder)
      BY <2>2 DEF Tidy, Tidied
    <3> QED
      BY <1>8, <3>3, <3>4, SameFiles DEF AllMarked
  <2> QED
    BY <2>1, <2>2
<1>11. MailStep
  BY <1>1, <1>6, <1>8, <1>9, StillStep, EditedSame
<1>12. Tidied(g, foreign, receiving)
  BY <1>1, <1>7, <1>9, <1>10 DEF Tidy, Tidied
<1> QED
  BY <1>1, <1>6, <1>11, <1>12 DEF Tidy

\* A crash leaves the files f.
LEMMA DiedTidy ==
    ASSUME Inv, Tidy, Ended, NEW f \in FolderItems, FileMarks(f), Unique(f), f.stype = folder.stype,
           NEW d \in BOOLEAN, folder' = Again(f, d),
           NEW S \in SUBSET (DOMAIN elsewhere \ Contents(folder)), S \in SUBSET Msgs,
           \A x : x \in Contents(f) <=> x \in Contents(folder) \/ x \in S,
           elsewhere' = elsewhere \/ elsewhere' = [m \in DOMAIN elsewhere \ S |-> elsewhere[m]]
    PROVE  Tidy' /\ DeathStep
<1>1. PICK g : g = Again(f, d) /\ folder' = g
  OBVIOUS
<1>2. /\ Marked(g) /\ g.file = f.file /\ g.stype = f.stype /\ ~g.opened /\ g.mark_queue = <<>>
      /\ \A n : Shown(g, n) \in Flags
  BY <1>1, AgainMarks
<1>3. \A x : x \in Contents(g) <=> x \in Contents(folder) \/ x \in S
  BY <1>2, SameFiles
<1>4. target' = NoTarget /\ receiving' = "no" /\ foreign' = TRUE
  BY DEF Ended
<1>5. Marked(folder)
  BY DEF Tidy, Tidied
<1>6. DeathStep
  BY <1>1, <1>2, <1>3, <1>4, <1>5, DieStep
<1>7. Tidied(g, TRUE, "no")
  BY <1>2 DEF Tidied
<1> QED
  BY <1>1, <1>4, <1>6, <1>7 DEF Tidy

LEMMA CrashTidy ==
    ASSUME Inv, Tidy, Crash
    PROVE  Tidy' /\ DeathStep
<1>1. /\ folder \in FolderItems /\ saved \in BOOLEAN /\ UNCHANGED elsewhere /\ Ended
      /\ folder' = Restarted(folder) /\ Filed(folder) /\ Unique(folder)
  BY DEF Inv, Held, Crash, Tidy, Tidied, Marked
<1>2. PICK d \in BOOLEAN : d = saved
  BY <1>1
<1>3. folder' = Again(folder, d)
  BY <1>1, <1>2 DEF Again, Restarted
<1>4. FileMarks(folder)
  BY <1>1, FiledFileMarks
<1>5. PICK S : S = {}
  OBVIOUS
<1>6. /\ S \in SUBSET (DOMAIN elsewhere \ Contents(folder)) /\ S \in SUBSET Msgs
      /\ \A x : x \in Contents(folder) <=> x \in Contents(folder) \/ x \in S
  BY <1>5
<1> QED
  BY <1>1, <1>3, <1>4, <1>6, DiedTidy

LEMMA CrashWritingTidy ==
    ASSUME "marks" \notin Halves, Inv, Tidy, CrashWriting
    PROVE  Tidy' /\ DeathStep
<1>1. /\ folder \in FolderItems /\ Good(folder) /\ folder.opened /\ saved \in BOOLEAN /\ MarksPending(folder)
      /\ UNCHANGED elsewhere /\ Ended /\ Marked(folder)
  BY DEF Inv, Held, CrashWriting, Tidy, Tidied
<1>2. PICK l \in Seq(MsgInfos) : l = folder.list
  BY <1>1 DEF FolderItems
<1>3. PICK q \in Seq(MsgInfos) : q = folder.cache_queue
  BY <1>1 DEF FolderItems
<1>4. PICK mq \in Seq(Marks) : mq = folder.mark_queue
  BY <1>1 DEF FolderItems
<1>5. PICK t : t = Joined(l, q)
  OBVIOUS
<1>6. PICK hs : hs = HeadersOf(t)
  OBVIOUS
<1>7. PICK ks : ks = Joined(MarksOf(l), mq)
  OBVIOUS
<1>8. PICK cache \in CacheLeft, marks \in PartOf(ks), half \in SUBSET {"cache"} :
         LET g == [folder EXCEPT !.cache = cache, !.marks = marks, !.half = half]
         IN /\ folder' = [Restarted(g) EXCEPT !.fresh = saved /\ ~Changed(g)]
            /\ saved' = (saved /\ ~Changed(g))
  BY <1>2, <1>4, <1>7, CrashLeaves DEF Joined
<1>9. PICK g : g = WithFiles(folder, cache, marks, half)
  OBVIOUS
<1>10. folder' = [Restarted(g) EXCEPT !.fresh = saved /\ ~Changed(g)]
  BY <1>8, <1>9 DEF WithFiles
<1>11. PICK d \in BOOLEAN : d <=> saved /\ ~Changed(g)
  OBVIOUS
<1>12. cache \in Written(Headers)
  <2>1. t \in Seq(MsgInfos)
    BY <1>5, JoinedIs
  <2>2. hs \in Seq(Headers)
    BY <1>6, <2>1, HeadersTypes
  <2>3. CacheLeft \subseteq (IF folder.cache_dirty THEN PartOf(hs) \cup {Broken} ELSE {folder.cache})
    BY <1>2, <1>3, <1>5, <1>6 DEF CacheLeft, Joined
  <2>4. CASE cache = Broken
    <3>1. <<>> \in Seq(Headers)
      OBVIOUS
    <3> QED
      BY <2>4, <3>1 DEF Broken, Written
  <2>5. CASE folder.cache_dirty /\ cache # Broken
    <3>1. cache \in PartOf(hs)
      BY <1>8, <2>3, <2>5
    <3> QED
      BY <2>2, <3>1, PartOfIs
  <2>6. CASE ~folder.cache_dirty
    <3>1. cache = folder.cache
      BY <1>8, <2>3, <2>6
    <3> QED
      BY <1>1, <3>1 DEF FolderItems
  <2> QED
    BY <2>4, <2>5, <2>6
<1>13. marks \in Written(Marks)
  <2>1. MarksOf(l) \in Seq(Marks)
    BY MarksTypes
  <2>2. ks \in Seq(Marks)
    BY <1>7, <2>1, JoinedIs
  <2> QED
    BY <2>2, PartOfIs
<1>14. /\ g \in FolderItems /\ g.stype = folder.stype /\ g.file = folder.file /\ g.marks = marks
  BY <1>1, <1>9, <1>12, <1>13 DEF WithFiles, FolderItems
<1>15. folder' = Again(g, d)
  <2>1. (saved /\ ~Changed(g)) = d
    BY <1>11
  <2>2. folder' = [Restarted(g) EXCEPT !.fresh = d]
    BY <1>10, <2>1
  <2> QED
    BY <1>14, <2>2 DEF Again, Restarted, FolderItems
<1>16. ks = Joined(MarksOf(folder.list), folder.mark_queue)
  BY <1>2, <1>4, <1>7
<1>17. FileMarks(g) /\ Unique(g)
  <2> HIDE <1>2, <1>4, <1>7
  <2> QED
    BY <1>1, <1>8, <1>14, <1>16, TornMarks
<1>18. PICK S : S = {}
  OBVIOUS
<1>19. /\ S \in SUBSET (DOMAIN elsewhere \ Contents(folder)) /\ S \in SUBSET Msgs
       /\ \A x : x \in Contents(g) <=> x \in Contents(folder) \/ x \in S
  BY <1>14, <1>18, SameFiles
<1> QED
  BY <1>1, <1>14, <1>15, <1>17, <1>19, DiedTidy

LEMMA CrashMovingTidy ==
    ASSUME Inv, Tidy, NEW m \in DOMAIN elsewhere \ Contents(folder), CrashMoving(m)
    PROVE  Tidy' /\ DeathStep
<1>1. m \in Msgs
  BY DEF Inv, Typed
<1>2. /\ folder \in FolderItems /\ Good(folder) /\ ~folder.opened /\ Ended /\ Marked(folder)
      /\ elsewhere' = [x \in DOMAIN elsewhere \ {m} |-> elsewhere[x]]
  BY DEF Inv, Held, CrashMoving, Tidy, Tidied
<1>3. PICK s : s = Scan(folder)
  OBVIOUS
<1>4. /\ s \in FolderItems /\ SameMail(folder, s) /\ s.last_num = LastFile(folder)
  BY <1>2, <1>3, ScanIs
<1>5. Marked(s)
  BY <1>2, <1>3, ScanMarks
<1>6. s.last_num >= 0 /\ s.file = folder.file /\ s.stype = folder.stype
  <2>1. LastFile(folder) \in 0..MaxNum
    BY LastFileIs
  <2> QED
    BY <1>2, <1>4, <2>1, NumsAre DEF SameMail
<1>7. Free(s) # {}
  <2>1. HasRoom(s, 1)
    BY <1>3 DEF CrashMoving
  <2>2. PICK z : z = Scanned(s)
    OBVIOUS
  <2>3. PICK k \in Nat : k = 1
    OBVIOUS
  <2>4. Cardinality(Free(z)) >= k
    BY <1>4, <2>1, <2>2, <2>3, RoomIs
  <2>5. z = s
    BY <1>4, <1>6, <2>2 DEF Scanned, FolderItems
  <2> QED
    BY <2>3, <2>4, <2>5, FS_EmptySet
<1>8. PICK flags \in Flags : flags = {}
  BY FlagsTypes
<1>9. PICK g : g = Put(s, m, flags)
  OBVIOUS
<1>10. g \in FolderItems /\ SameMarks(s, g)
  BY <1>1, <1>4, <1>6, <1>7, <1>9, PutIs
<1>11. PICK info : Added(s, g, info) /\ info.msg = m
  BY <1>1, <1>4, <1>6, <1>7, <1>9, PutIs
<1>12. Contents(s) = Contents(folder)
  BY <1>6, SameFiles
<1>13. FileMarks(g) /\ Unique(g) /\ \A x : x \in Contents(g) <=> x \in Contents(s) \/ x = info.msg
  BY <1>4, <1>5, <1>10, <1>11, <1>12, PutMarks
<1>14. PICK d \in BOOLEAN : d = FALSE
  OBVIOUS
<1>15. folder' = Again(g, d)
  <2>1. folder' = [Restarted(g) EXCEPT !.fresh = d]
    BY <1>3, <1>8, <1>9, <1>14 DEF CrashMoving
  <2> QED
    BY <1>10, <2>1 DEF Again, Restarted, FolderItems
<1>16. PICK S : S = {m}
  OBVIOUS
<1>17. /\ S \in SUBSET (DOMAIN elsewhere \ Contents(folder)) /\ S \in SUBSET Msgs
       /\ \A x : x \in Contents(g) <=> x \in Contents(folder) \/ x \in S
       /\ elsewhere' = [x \in DOMAIN elsewhere \ S |-> elsewhere[x]]
  BY <1>1, <1>2, <1>11, <1>12, <1>13, <1>16
<1>18. g.stype = folder.stype
  BY <1>6, <1>11 DEF Added
<1> QED
  BY <1>2, <1>10, <1>13, <1>15, <1>17, <1>18, DiedTidy

-----------------------------------------------------------------------------
\* Messages that leave.
LEMMA RowsLeaving ==
    ASSUME NEW f \in FolderItems, Good(f), f.opened, NEW rs \in Seq(MsgInfos), Distinct(rs),
           \A i \in 1..Len(rs) : \E j \in 1..Len(f.list) : rs[i] = f.list[j]
    PROVE  Leaving(f, rs) /\ \A i \in 1..Len(rs) : f.file[rs[i].num] = rs[i].msg
<1>1. PICK l \in Seq(MsgInfos) : l = f.list
  BY DEF FolderItems
<1>2. Distinct(f.list) /\ Distinct(f.cache_queue) /\ Apart(f.list, f.cache_queue) /\ Right(f, f.list)
  BY DEF Good, RowsSound, CacheSound
<1>3. \A j \in 1..Len(f.list) : Shown(f, f.list[j].num) = f.list[j].flags
  BY <1>2, ShownIs
<1>4. \A j \in 1..Len(f.list) : f.file[f.list[j].num] = f.list[j].msg /\ f.list[j].num \in FileNums(f)
  <2> SUFFICES ASSUME NEW j \in 1..Len(f.list)
               PROVE  f.file[f.list[j].num] = f.list[j].msg /\ f.list[j].num \in FileNums(f)
    OBVIOUS
  <2>1. l[j] \in MsgInfos
    BY <1>1
  <2>2. f.list[j].num \in Nums /\ f.list[j].msg \in Msgs
    BY <1>1, <2>1 DEF MsgInfos
  <2> QED
    BY <1>2, <2>2, NoneAssumption DEF Right, FileNums
<1>5. ASSUME NEW i \in 1..Len(rs)
      PROVE  /\ f.file[rs[i].num] = rs[i].msg /\ rs[i].num \in FileNums(f)
             /\ Shown(f, rs[i].num) = rs[i].flags
  <2>1. PICK j \in 1..Len(f.list) : rs[i] = f.list[j]
    OBVIOUS
  <2> QED
    BY <1>3, <1>4, <2>1
<1>6. \A i, j \in 1..Len(rs) : rs[i].num = rs[j].num => i = j
  BY DEF Distinct
<1> QED
  BY <1>5, <1>6 DEF Leaving

\* What a handler leaves that takes the rows rs out of the folder.
Gone(f, h, rs, S) ==
    /\ Marked(h) /\ h.stype = f.stype /\ S \in SUBSET Contents(f) /\ Without(f, h, S)
    /\ \A i \in 1..Len(rs) : SeenAs(f)[rs[i].msg] = rs[i].flags
    /\ Edited(h, target) = IF Edited(f, target) \in S THEN None ELSE Edited(f, target)

LEMMA GoneTidy ==
    ASSUME Inv, Tidy, folder.opened, folder.cache_queue = <<>>,
           NEW rs \in Seq(MsgInfos), Distinct(rs),
           \A i \in 1..Len(rs) : \E j \in 1..Len(folder.list) : rs[i] = folder.list[j],
           NEW g \in FolderItems, Removed(folder, g, rs, Len(rs)),
           Counted(folder) => CountTaken(folder, g), folder.last_num >= 0 => g.last_num >= 0,
           NEW h, h = WriteCache(Left(g, rs)), NEW S, S = {rs[i].msg : i \in 1..Len(rs)}
    PROVE  Gone(folder, h, rs, S) /\ Tidied(h, foreign, receiving)
<1>1. folder \in FolderItems /\ Good(folder) /\ Marked(folder) /\ Unique(folder)
  BY DEF Inv, Held, Tidy, Tidied, Marked
<1>2. Leaving(folder, rs) /\ \A i \in 1..Len(rs) : folder.file[rs[i].num] = rs[i].msg
  BY <1>1, RowsLeaving
<1>3. /\ Marked(h) /\ h.opened /\ h.stype = folder.stype /\ h.last_num = g.last_num
      /\ \A n : n \in FileNums(h) <=> n \in FileNums(folder) /\ \A j \in 1..Len(rs) : rs[j].num # n
      /\ \A n \in FileNums(h) : h.file[n] = folder.file[n] /\ Shown(h, n) = Shown(folder, n)
  BY <1>1, LeftMarks
<1>4. CountTaken(folder, g) => Counted(h)
  BY <1>1, LeftMarks
<1>5. Unique(h)
  BY <1>3 DEF Marked
<1>6. \A i \in 1..Len(rs) : /\ rs[i].num \in FileNums(folder) /\ rs[i].msg \in Contents(folder)
                            /\ SeenAs(folder)[rs[i].msg] = rs[i].flags
  <2>1. \A n \in FileNums(folder) : folder.file[n] \in Contents(folder) /\ SeenAs(folder)[folder.file[n]] = Shown(folder, n)
    BY <1>1, SeenShown
  <2> QED
    BY <1>2, <2>1 DEF Leaving
<1>7. S \in SUBSET Contents(folder)
  BY <1>6
<1>8. \A n \in FileNums(folder) : n \in FileNums(h) <=> folder.file[n] \notin S
  <2> SUFFICES ASSUME NEW n \in FileNums(folder) PROVE n \in FileNums(h) <=> folder.file[n] \notin S
    OBVIOUS
  <2>1. folder.file[n] \in S <=> \E j \in 1..Len(rs) : rs[j].msg = folder.file[n]
    OBVIOUS
  <2>2. \A j \in 1..Len(rs) : rs[j].num = n <=> rs[j].msg = folder.file[n]
    <3> SUFFICES ASSUME NEW j \in 1..Len(rs) PROVE rs[j].num = n <=> rs[j].msg = folder.file[n]
      OBVIOUS
    <3>1. rs[j].num \in FileNums(folder) /\ folder.file[rs[j].num] = rs[j].msg
      BY <1>2, <1>6
    <3> QED
      BY <1>1, <3>1 DEF Unique
  <2> QED
    BY <1>3, <2>1, <2>2
<1>9. Without(folder, h, S)
  <2>1. ASSUME NEW x PROVE x \in Contents(h) <=> x \in Contents(folder) /\ x \notin S
    <3>1. x \in Contents(h) <=> \E n \in FileNums(h) : h.file[n] = x
      BY DEF Contents
    <3>2. x \in Contents(folder) <=> \E n \in FileNums(folder) : folder.file[n] = x
      BY DEF Contents
    <3>3. \A n \in FileNums(h) : n \in FileNums(folder) /\ h.file[n] = folder.file[n]
      BY <1>3
    <3> QED
      BY <1>8, <3>1, <3>2, <3>3
  <2>2. ASSUME NEW x \in Contents(h) PROVE SeenAs(h)[x] = SeenAs(folder)[x]
    <3>1. PICK n \in FileNums(h) : h.file[n] = x
      BY DEF Contents
    <3>2. n \in FileNums(folder) /\ h.file[n] = folder.file[n] /\ Shown(h, n) = Shown(folder, n)
      BY <1>3
    <3> QED
      BY <1>1, <1>5, <3>1, <3>2, SeenOf
  <2> QED
    BY <2>1, <2>2 DEF Without
<1>10. Edited(h, target) = IF Edited(folder, target) \in S THEN None ELSE Edited(folder, target)
  <2>1. None \notin S
    BY <1>1, <1>7, InMsgs
  <2>2. CASE target = NoTarget
    BY <2>1, <2>2, EditedNone
  <2>3. CASE target # NoTarget
    <3>1. target.num \in Nums /\ target.msg \in Msgs
      BY <2>3 DEF Inv, Known
    <3>2. CASE Exists(folder, target)
      <4>1. target.num \in FileNums(folder) /\ folder.file[target.num] = target.msg
        BY <3>1, <3>2, NoneAssumption DEF Exists, FileNums
      <4>2. target.num \in FileNums(h) <=> target.msg \notin S
        BY <1>8, <4>1
      <4>3. Exists(h, target) <=> target.num \in FileNums(h)
        BY <1>3, <3>1, <4>1, NoneAssumption DEF Exists, FileNums
      <4> QED
        BY <3>2, <4>2, <4>3 DEF Edited
    <3>3. CASE ~Exists(folder, target)
      <4>1. ~Exists(h, target)
        <5> SUFFICES ASSUME Exists(h, target) PROVE FALSE
          OBVIOUS
        <5>1. target.num \in FileNums(h) /\ h.file[target.num] = target.msg
          BY <3>1, NoneAssumption DEF Exists, FileNums
        <5> QED
          BY <1>3, <3>1, <3>3, <5>1 DEF Exists
      <4> QED
        BY <2>1, <3>3, <4>1 DEF Edited
    <3> QED
      BY <3>2, <3>3
  <2> QED
    BY <2>2, <2>3
<1>11. Gone(folder, h, rs, S)
  BY <1>3, <1>6, <1>7, <1>9, <1>10 DEF Gone
<1>12. Tidied(h, foreign, receiving)
  <2>1. ~foreign => Counted(h) /\ h.last_num >= 0
    BY <1>3, <1>4 DEF Tidy, Tidied
  <2> QED
    BY <1>3, <2>1 DEF Tidy, Tidied
<1> QED
  BY <1>11, <1>12

LEMMA ExecuteMoveTidy ==
    ASSUME Patient, Inv, Tidy, NEW I \in SUBSET DOMAIN folder.list, ExecuteMove(Picked(folder.list, I))
    PROVE  Tidy' /\ MailStep
<1>1. folder \in FolderItems /\ Good(folder) /\ Marked(folder) /\ folder.opened /\ folder.cache_queue = <<>>
  BY DEF Inv, Held, ExecuteMove, NothingWaits, Tidy, Tidied
<1>2. PICK l \in Seq(MsgInfos) : l = folder.list
  BY <1>1 DEF FolderItems
<1>3. I \in SUBSET (1..Len(l))
  BY <1>2
<1>4. PICK rs : rs = Picked(l, I)
  OBVIOUS
<1>5. rs \in Seq(MsgInfos) /\ PickedFrom(l, I, rs)
  BY <1>3, <1>4, PickedNums
<1>6. DOMAIN rs = 1..Len(rs)
  BY <1>5
<1>7. \A i \in 1..Len(rs) : \E j \in 1..Len(folder.list) : rs[i] = folder.list[j]
  BY <1>2, <1>3, <1>5 DEF PickedFrom
<1>8. Distinct(rs)
  BY <1>1, <1>2, <1>5 DEF PickedFrom, Good, RowsSound
<1>9. PICK g : g = FoldLeft(TakeAway, folder, rs)
  OBVIOUS
<1>10. g \in FolderItems /\ Removed(folder, g, rs, Len(rs)) /\ g.last_num = folder.last_num
  BY <1>1, <1>5, <1>9, AllTaken
<1>11. Leaving(folder, rs)
  BY <1>1, <1>5, <1>7, <1>8, RowsLeaving
<1>12. Counted(folder) => CountTaken(folder, g)
  BY <1>1, <1>5, <1>9, <1>11, TakenCounts
<1>13. PICK h : h = WriteCache(Left(g, rs))
  OBVIOUS
<1>14. /\ folder' = h /\ UNCHANGED <<target, foreign, receiving>>
       /\ elsewhere' = [m \in DOMAIN elsewhere \cup {rs[i].msg : i \in DOMAIN rs} |->
                          IF m \in DOMAIN elsewhere THEN elsewhere[m]
                          ELSE rs[CHOOSE i \in DOMAIN rs : rs[i].msg = m].flags]
       /\ \A i \in DOMAIN rs : rs[i].msg \notin DOMAIN elsewhere
  BY <1>2, <1>4, <1>9, <1>13 DEF ExecuteMove, Becomes
<1>15. PICK S : S = {rs[i].msg : i \in 1..Len(rs)}
  OBVIOUS
<1>16. Gone(folder, h, rs, S) /\ Tidied(h, foreign, receiving)
  BY <1>1, <1>5, <1>7, <1>8, <1>10, <1>12, <1>13, <1>15, GoneTidy
<1>17. elsewhere' = [m \in DOMAIN elsewhere \cup S |->
                        IF m \in DOMAIN elsewhere THEN elsewhere[m] ELSE SeenAs(folder)[m]]
  <2>1. ASSUME NEW m \in S PROVE rs[CHOOSE i \in DOMAIN rs : rs[i].msg = m].flags = SeenAs(folder)[m]
    <3>1. \E i \in DOMAIN rs : rs[i].msg = m
      BY <1>6, <1>15
    <3>2. PICK e \in DOMAIN rs : e = CHOOSE i \in DOMAIN rs : rs[i].msg = m
      BY <3>1
    <3>3. rs[e].msg = m
      BY <3>1, <3>2
    <3>4. SeenAs(folder)[rs[e].msg] = rs[e].flags
      BY <1>6, <1>16 DEF Gone
    <3> QED
      BY <3>2, <3>3, <3>4
  <2>2. S = {rs[i].msg : i \in DOMAIN rs}
    BY <1>6, <1>15
  <2> QED
    BY <1>14, <2>1, <2>2
<1>18. \A m \in S : m \notin DOMAIN elsewhere
  BY <1>6, <1>14, <1>15
<1>19. MailStep
  BY <1>1, <1>14, <1>16, <1>17, <1>18, MoveAwayStep DEF Gone
<1> QED
  BY <1>14, <1>16, <1>19 DEF Tidy

LEMMA ExecuteRemoveTidy ==
    ASSUME Patient, Inv, Tidy, NEW i \in DOMAIN folder.list, ExecuteRemove(folder.list[i])
    PROVE  Tidy' /\ MailStep
<1>1. /\ folder \in FolderItems /\ Good(folder) /\ Marked(folder) /\ folder.opened
      /\ folder.cache_queue = <<>> /\ folder.stype = "F_TRASH"
  BY DEF Inv, Held, ExecuteRemove, NothingWaits, Tidy, Tidied
<1>2. PICK l \in Seq(MsgInfos) : l = folder.list
  BY <1>1 DEF FolderItems
<1>3. PICK r \in MsgInfos : r = l[i]
  BY <1>2
<1>4. PICK rs : rs = <<r>>
  OBVIOUS
<1>5. /\ rs \in Seq(MsgInfos) /\ Len(rs) = 1
      /\ \A k \in 1..Len(rs) : k = 1 /\ rs[k] = r /\ rs[k] = l[i] /\ i \in 1..Len(l)
  BY <1>2, <1>3, <1>4
<1>6. PICK g : g = RemoveMsg(folder, r)
  OBVIOUS
<1>7. r.num \in Nums /\ r.flags \in Flags
  BY DEF MsgInfos
<1>8. g \in FolderItems /\ Removed(folder, g, rs, Len(rs))
  <2>1. g \in FolderItems /\ Removed(folder, g, <<r>>, 1)
    BY <1>1, <1>6, <1>7, RemoveMsgIs
  <2> QED
    BY <1>4, <1>5, <2>1
<1>9. folder.last_num >= 0 => g.last_num >= 0
  <2>1. g.last_num = folder.last_num \/ g.last_num = LastFile(g)
    BY <1>1, <1>6, <1>7, RemoveMsgIs
  <2>2. LastFile(g) \in 0..MaxNum
    BY LastFileIs
  <2> QED
    BY <2>1, <2>2, MaxNumAssumption
<1>10. PICK h : h = WriteCache(Left(g, rs))
  OBVIOUS
<1>11. folder' = h /\ UNCHANGED <<elsewhere, target, foreign, receiving>>
  BY <1>2, <1>3, <1>4, <1>6, <1>10 DEF ExecuteRemove, Becomes
<1>12. \A k \in 1..Len(rs) : \E j \in 1..Len(folder.list) : rs[k] = folder.list[j]
  BY <1>2, <1>5
<1>13. Distinct(rs)
  BY <1>5 DEF Distinct
<1> HIDE <1>4
<1>14. Leaving(folder, rs)
  BY <1>1, <1>5, <1>12, <1>13, RowsLeaving
<1>15. Counted(folder) => CountTaken(folder, g)
  <2>1. 1 \in 1..Len(rs) /\ rs[1] = r
    BY <1>5
  <2>2. r.num \in FileNums(folder) /\ Shown(folder, r.num) = r.flags
    BY <1>14, <2>1 DEF Leaving
  <2> QED
    BY <1>1, <1>6, <1>7, <2>2, RemoveMsgCounts
<1>16. PICK S : S = {rs[k].msg : k \in 1..Len(rs)}
  OBVIOUS
<1>17. Gone(folder, h, rs, S) /\ Tidied(h, foreign, receiving)
  BY <1>1, <1>5, <1>8, <1>9, <1>10, <1>12, <1>13, <1>15, <1>16, GoneTidy
<1>18. Edited(h, target') = Edited(folder, target)
  BY <1>1, <1>11, NoneEdited
<1>19. MailStep
  BY <1>1, <1>11, <1>17, <1>18, DiscardStep DEF Gone
<1> QED
  BY <1>11, <1>17, <1>19 DEF Tidy

LEMMA EmptyTrashTidy ==
    ASSUME Patient, Inv, Tidy, EmptyTrash
    PROVE  Tidy' /\ MailStep
<1>1. /\ folder \in FolderItems /\ folder.stype = "F_TRASH" /\ strict \in BOOLEAN
      /\ folder.cache_queue = <<>> /\ folder.mark_queue = <<>> /\ Good(folder) /\ Marked(folder)
      /\ UNCHANGED <<elsewhere, target, receiving, foreign>>
  BY DEF Inv, Held, EmptyTrash, Tidy, Tidied
<1>2. PICK g : g = ClearMark(ClearCache(RemoveAllMsg(folder)))
  OBVIOUS
<1>3. /\ g \in FolderItems /\ g.stype = folder.stype /\ g.opened = folder.opened
      /\ \A n \in Nums : g.file[n] = None
      /\ g.cache.state = "ok" /\ g.cache.recs = <<>> /\ g.cache_queue = <<>>
      /\ ~g.cache_dirty /\ ~g.mark_dirty /\ g.mark_queue = <<>>
      /\ g.last_num = 0 /\ ~g.fresh
      /\ g.marks.recs = <<>> /\ g.marks.state = "ok" /\ g.total = 0 /\ g.unread = 0
  BY <1>1, <1>2, EmptiedIs
<1>4. FileNums(g) = {} /\ Contents(g) = {} /\ Filed(g) /\ Ready(g) /\ Unique(g) /\ Counted(g) /\ AllMarked(g)
  BY <1>3, EmptiedMarks
<1>5. PICK h : h = IF folder.opened THEN Refresh(g, strict) ELSE g
  OBVIOUS
<1>6. folder' = h
  BY <1>2, <1>5 DEF EmptyTrash, Becomes
<1>7. /\ Marked(h) /\ Counted(h) /\ h.last_num >= 0 /\ h.stype = folder.stype /\ Contents(h) = {}
      /\ ~h.opened => h.mark_queue = <<>> /\ AllMarked(h)
  <2>1. CASE folder.opened
    <3>1. WriteCache(g) = g
      BY <1>3 DEF WriteCache, MarksPending
    <3>2. PICK c : c = Close(g)
      OBVIOUS
    <3>3. h = Open(c, strict)
      BY <1>5, <2>1, <3>1, <3>2 DEF Refresh
    <3>4. CacheSound(g) /\ Numbered(g)
      BY <1>3, <1>4, EmptyIs DEF CacheSound, Numbered
    <3>5. /\ c \in FolderItems /\ Good(c) /\ c.file = g.file /\ c.stype = g.stype /\ ~c.opened
          /\ c.cache = g.cache /\ c.cache_queue = g.cache_queue /\ c.last_num = g.last_num /\ c.fresh = g.fresh
      BY <1>3, <3>2, <3>4, ClosedGood
    <3>6. SameMarks(g, c)
      BY <1>3, <3>2, CloseIs
    <3>7. Filed(c) /\ Ready(c) /\ Unique(c)
      <4>1. Filed(c) /\ Unique(c)
        BY <1>3, <1>4, <3>5, <3>6, ClosedMarks, SameFiles DEF SameMarks, Unique
      <4>2. Ready(c)
        BY <1>3, <3>6 DEF Ready, SameMarks
      <4> QED
        BY <4>1, <4>2
    <3>8. c.cache.state = "ok" /\ ~c.fresh /\ c.stype # "F_DRAFT" /\ c.last_num >= 0
      BY <1>1, <1>3, <3>5
    <3>9. /\ h.opened /\ SameShown(c, h) /\ Filed(h) /\ Ready(h) /\ OpenMarks(h) /\ Counted(h)
          /\ h.last_num >= 0
      BY <1>1, <3>3, <3>5, <3>7, <3>8, OpenMarksIs
    <3>10. Unique(h) /\ Contents(h) = Contents(c) /\ Contents(c) = Contents(g)
      BY <3>5, <3>7, <3>9, SameSeen, SameFiles
    <3> QED
      BY <1>3, <1>4, <3>5, <3>9, <3>10 DEF Marked, SameShown
  <2>2. CASE ~folder.opened
    BY <1>3, <1>4, <1>5, <2>2 DEF Marked
  <2> QED
    BY <2>1, <2>2
<1>8. Tidied(h, foreign, receiving)
  BY <1>1, <1>7 DEF Tidy, Tidied
<1>9. PICK S : S = Contents(folder)
  OBVIOUS
<1>10. S \in SUBSET Contents(folder) /\ Without(folder, h, S)
  BY <1>7, <1>9 DEF Without
<1>11. Edited(h, target') = Edited(folder, target)
  BY <1>1, NoneEdited
<1>12. MailStep
  BY <1>1, <1>6, <1>7, <1>10, <1>11, DiscardStep
<1> QED
  BY <1>1, <1>6, <1>8, <1>12 DEF Tidy

-----------------------------------------------------------------------------
\* Messages that come from other folders.
LEMMA BatchIs ==
    ASSUME NEW ms \in Batches
    PROVE  \E n \in Nat : /\ Len(ms) = n /\ DOMAIN ms = 1..n
                          /\ \A i \in 1..n : ms[i] \in DOMAIN elsewhere \ Contents(folder)
                          /\ \A i, j \in 1..n : ms[i] = ms[j] => i = j
<1>1. PICK X : X = DOMAIN elsewhere \ Contents(folder)
  OBVIOUS
<1>2. (\E m \in X : ms = <<m>>) \/ (ms \in X \X X /\ ms[1] # ms[2])
  BY <1>1 DEF Batches
<1>3. CASE \E m \in X : ms = <<m>>
  <2>1. PICK m \in X : ms = <<m>>
    BY <1>3
  <2>2. /\ Len(ms) = 1 /\ DOMAIN ms = 1..1 /\ \A i \in 1..1 : ms[i] \in X
        /\ \A i, j \in 1..1 : ms[i] = ms[j] => i = j
    BY <2>1
  <2> QED
    BY <1>1, <2>2
<1>4. CASE ms \in X \X X /\ ms[1] # ms[2]
  <2>1. PICK a \in X, b \in X : ms = <<a, b>> /\ a # b
    BY <1>4
  <2>2. /\ Len(ms) = 2 /\ DOMAIN ms = 1..2 /\ \A i \in 1..2 : ms[i] \in X
        /\ \A i, j \in 1..2 : ms[i] = ms[j] => i = j
    BY <2>1
  <2> QED
    BY <1>1, <2>2
<1> QED
  BY <1>2, <1>3, <1>4

\* What comes of S, with the flags that it has elsewhere.
Comers(rs, S) ==
    /\ S \in SUBSET (DOMAIN elsewhere \ Contents(folder)) /\ S \in SUBSET Msgs
    /\ \A m : m \in S <=> \E j \in 1..Len(rs) : rs[j].msg = m
    /\ \A j \in 1..Len(rs) : ~rs[j].received /\ rs[j].flags = elsewhere[rs[j].msg]

LEMMA ComersIs ==
    ASSUME Inv, NEW ms \in Batches, NEW rs, rs = Coming(ms), NEW S, S = ToSet(ms)
    PROVE  Newcomers(folder, rs) /\ Comers(rs, S)
<1>1. PICK T \in SUBSET Msgs : elsewhere \in [T -> Flags]
  BY DEF Inv, Typed
<1>2. PICK n \in Nat : /\ Len(ms) = n /\ DOMAIN ms = 1..n
                       /\ \A i \in 1..n : ms[i] \in DOMAIN elsewhere \ Contents(folder)
                       /\ \A i, j \in 1..n : ms[i] = ms[j] => i = j
  BY BatchIs
<1>3. rs = [i \in 1..n |-> [msg |-> ms[i], flags |-> elsewhere[ms[i]], received |-> FALSE]]
  BY <1>2 DEF Coming
<1>4. /\ Len(rs) = n
      /\ \A i \in 1..n : rs[i].msg = ms[i] /\ rs[i].flags = elsewhere[ms[i]] /\ ~rs[i].received
  BY <1>3
<1>5. S = {ms[i] : i \in 1..n}
  BY <1>2 DEF ToSet
<1>6. \A m : m \in S <=> \E j \in 1..n : ms[j] = m
  BY <1>5
<1>7. Newcomers(folder, rs)
  BY <1>2, <1>4 DEF Newcomers
<1>8. S \in SUBSET (DOMAIN elsewhere \ Contents(folder)) /\ S \in SUBSET Msgs
  BY <1>1, <1>2, <1>6
<1> QED
  BY <1>4, <1>6, <1>7, <1>8 DEF Comers

\* The message that is edited, after others came: a number that it had may be
\* given to it again.
LEMMA EditedGrown ==
    ASSUME NEW f \in FolderItems, NEW g, Unique(g), \A k \in FileNums(f) : g.file[k] = f.file[k],
           NEW S, \A x : x \in Contents(g) <=> x \in Contents(f) \/ x \in S,
           NEW t, t = NoTarget \/ (t.num \in Nums /\ t.msg \in Msgs)
    PROVE  Edited(g, t) \in IF Edited(f, t) = None THEN S \cup {None} ELSE {Edited(f, t)}
<1>1. \A k \in FileNums(f) : g.file[k] = f.file[k]
  OBVIOUS
<1>2. CASE t = NoTarget
  BY <1>2, EditedNone
<1>3. CASE t.num \in Nums /\ t.msg \in Msgs
  <2>1. t.msg # None
    BY <1>3, NoneAssumption
  <2>2. CASE Exists(f, t)
    <3>1. t.num \in FileNums(f)
      BY <2>1, <2>2, <1>3 DEF Exists, FileNums
    <3>2. Exists(g, t)
      BY <1>1, <2>2, <3>1 DEF Exists
    <3> QED
      BY <2>1, <2>2, <3>2 DEF Edited
  <2>3. CASE ~Exists(f, t) /\ Exists(g, t)
    <3>1. t.num \in FileNums(g) /\ g.file[t.num] = t.msg
      BY <1>3, <2>1, <2>3 DEF Exists, FileNums
    <3>2. t.msg \in Contents(g)
      BY <3>1 DEF Contents
    <3>3. ASSUME t.msg \in Contents(f)
          PROVE  FALSE
      <4>1. PICK k \in FileNums(f) : f.file[k] = t.msg
        BY <3>3 DEF Contents
      <4>2. k \in FileNums(g) /\ g.file[k] = t.msg
        BY <1>1, <2>1, <4>1 DEF FileNums
      <4>3. k = t.num
        BY <3>1, <4>2 DEF Unique
      <4> QED
        BY <1>3, <2>3, <4>1, <4>3 DEF Exists
    <3>4. t.msg \in S
      BY <3>2, <3>3
    <3>5. Edited(f, t) = None /\ Edited(g, t) = t.msg
      BY <2>3 DEF Edited
    <3> QED
      BY <3>4, <3>5
  <2>4. CASE ~Exists(f, t) /\ ~Exists(g, t)
    BY <2>4 DEF Edited
  <2> QED
    BY <2>2, <2>3, <2>4
<1> QED
  BY <1>2, <1>3

\* What BringStep asks for.
Came(g, S) ==
    /\ folder \in FolderItems /\ Marked(folder) /\ folder' = g /\ Marked(g) /\ g.stype = folder.stype
    /\ S \in SUBSET (DOMAIN elsewhere \ Contents(folder)) /\ S \in SUBSET Msgs
    /\ With(folder, g, S) /\ \A x \in S : SeenAs(g)[x] = KeptFlags(folder, elsewhere[x])
    /\ elsewhere' = elsewhere \/ elsewhere' = [m \in DOMAIN elsewhere \ S |-> elsewhere[m]]
    /\ Edited(g, target') \in IF Edited(folder, target) = None THEN S \cup {None} ELSE {Edited(folder, target)}

LEMMA CameStep ==
    ASSUME NEW g, NEW S, Came(g, S)
    PROVE  MailStep
BY BringStep DEF Came

LEMMA ComersStep ==
    ASSUME Inv, Marked(folder), NEW rs, NEW S, Comers(rs, S), NEW by, NEW n, n = Len(rs),
           NEW g, folder' = g, Marked(g), g.stype = folder.stype,
           \A k \in FileNums(folder) : g.file[k] = folder.file[k], Brought(by, folder, g, rs, n),
           UNCHANGED target,
           elsewhere' = elsewhere \/ elsewhere' = [m \in DOMAIN elsewhere \ S |-> elsewhere[m]]
    PROVE  MailStep
<1>1. folder \in FolderItems /\ (target = NoTarget \/ (target.num \in Nums /\ target.msg \in Msgs))
  BY DEF Inv, Held, Known
<1>2. /\ S \in SUBSET (DOMAIN elsewhere \ Contents(folder)) /\ S \in SUBSET Msgs
      /\ \A m : m \in S <=> \E j \in 1..n : rs[j].msg = m
      /\ \A j \in 1..n : ~rs[j].received /\ rs[j].flags = elsewhere[rs[j].msg]
  BY DEF Comers
<1>3. With(folder, g, S)
  BY <1>2 DEF With, Brought
<1>4. \A x \in S : SeenAs(g)[x] = KeptFlags(folder, elsewhere[x])
  <2> SUFFICES ASSUME NEW x \in S
               PROVE  SeenAs(g)[x] = KeptFlags(folder, elsewhere[x])
    OBVIOUS
  <2>1. PICK j \in 1..n : rs[j].msg = x
    BY <1>2
  <2>2. SeenAs(g)[x] = NoteFlags(by, folder, rs[j])
    BY <2>1 DEF Brought
  <2>3. NoteFlags(by, folder, rs[j]) = ClearedFor(folder, elsewhere[x])
    BY <1>2, <2>1 DEF NoteFlags
  <2> QED
    BY <2>2, <2>3 DEF ClearedFor, KeptFlags
<1>5. Unique(g)
  BY DEF Marked
<1>6. Edited(g, target') \in IF Edited(folder, target) = None THEN S \cup {None} ELSE {Edited(folder, target)}
  <2>1. \A x : x \in Contents(g) <=> x \in Contents(folder) \/ x \in S
    BY <1>3 DEF With
  <2>2. Edited(g, target) \in IF Edited(folder, target) = None THEN S \cup {None} ELSE {Edited(folder, target)}
    BY <1>1, <1>5, <2>1, EditedGrown
  <2> QED
    BY <2>2
<1>7. Came(g, S)
  BY <1>1, <1>2, <1>3, <1>4, <1>6 DEF Came
<1> QED
  BY <1>7, CameStep

\* Those that come leave the other folders, or are copied.
LEMMA LeftElsewhere ==
    ASSUME Inv, NEW S, NEW b \in BOOLEAN,
           elsewhere' = [m \in DOMAIN elsewhere \ (IF b THEN {} ELSE S) |-> elsewhere[m]]
    PROVE  elsewhere' = elsewhere \/ elsewhere' = [m \in DOMAIN elsewhere \ S |-> elsewhere[m]]
<1>1. elsewhere = [m \in DOMAIN elsewhere |-> elsewhere[m]]
  BY DEF Inv, Typed
<1>2. CASE b
  <2>1. elsewhere' = [m \in DOMAIN elsewhere |-> elsewhere[m]]
    BY <1>2
  <2> QED
    BY <1>1, <2>1
<1>3. CASE ~b
  BY <1>3
<1> QED
  BY <1>2, <1>3

LEMMA MoveInTidy ==
    ASSUME Inv, Tidy, NEW ms \in Batches, NEW kept \in BOOLEAN, MoveIn(ms, kept)
    PROVE  Tidy' /\ MailStep
<1>1. /\ folder \in FolderItems /\ Good(folder) /\ ~folder.opened /\ Marked(folder)
      /\ Tidied(folder, foreign, receiving)
  BY DEF Inv, Held, MoveIn, Tidy, Tidied
<1>2. PICK s : s = Scan(folder)
  OBVIOUS
<1>3. /\ s \in FolderItems /\ SameMail(folder, s) /\ Flushed(folder, s) /\ Settled(folder, s)
      /\ s.last_num = LastFile(folder)
  BY <1>1, <1>2, ScanIs
<1>4. Good(s) /\ ~s.opened
  BY <1>1, <1>3, CountedGood DEF SameMail
<1>5. Marked(s) /\ SameShown(folder, s) /\ (AllMarked(folder) => AllMarked(s)) /\ Counted(s)
  BY <1>1, <1>2, ScanMarks
<1>6. Contents(s) = Contents(folder) /\ FileNums(s) = FileNums(folder)
  BY <1>5, SameSeen
<1>7. PICK rs : rs = Coming(ms)
  OBVIOUS
<1>8. PICK S : S = ToSet(ms)
  OBVIOUS
<1>9. rs \in Seq(Incoming) /\ Len(rs) = Len(ms) /\ Len(ms) \in Nat
  BY <1>7, ComingIs
<1>10. Newcomers(folder, rs) /\ Comers(rs, S)
  BY <1>7, <1>8, ComersIs
<1>11. Newcomers(s, rs)
  BY <1>6, <1>10 DEF Newcomers
<1>12. PICK n \in Nat : n = Len(rs)
  BY <1>9
<1>13. HasRoom(s, n)
  BY <1>2, <1>9, <1>12 DEF MoveIn
<1>14. PICK g : g = MoveMsgs(s, rs)
  OBVIOUS
<1>15. /\ folder' = g /\ UNCHANGED <<target, foreign, receiving>>
       /\ elsewhere' = [m \in DOMAIN elsewhere \ (IF kept THEN {} ELSE S) |-> elsewhere[m]]
  BY <1>2, <1>7, <1>8, <1>14 DEF MoveIn, Becomes
<1> HIDE <1>7, <1>8
<1>16. Grown(s, g, rs, n)
  BY <1>3, <1>4, <1>9, <1>12, <1>13, <1>14, MoveMsgsIs
<1>17. Marked(g) /\ Brought("moving", s, g, rs, n) /\ g.mark_queue = <<>>
  BY <1>3, <1>4, <1>5, <1>9, <1>11, <1>12, <1>13, <1>14, MoveMsgsMarks
<1>18. Counted(s) => Counted(g)
  BY <1>3, <1>4, <1>5, <1>9, <1>11, <1>12, <1>13, <1>14, MoveMsgsMarks
<1>19. AllMarked(s) => AllMarked(g)
  BY <1>3, <1>4, <1>5, <1>9, <1>11, <1>12, <1>13, <1>14, MoveMsgsMarks
<1>20. /\ g.stype = folder.stype /\ ~g.opened
       /\ \A k \in FileNums(folder) : g.file[k] = folder.file[k]
  BY <1>3, <1>4, <1>6, <1>16 DEF Grown, SameMail
<1>21. Tidied(g, foreign, receiving)
  BY <1>1, <1>5, <1>17, <1>18, <1>19, <1>20 DEF Tidied
<1>22. SameShown(g, g)
  BY DEF SameShown
<1>23. Brought("moving", folder, g, rs, n)
  BY <1>5, <1>17, <1>22, SameBrought
<1>24. elsewhere' = elsewhere \/ elsewhere' = [m \in DOMAIN elsewhere \ S |-> elsewhere[m]]
  BY <1>15, LeftElsewhere
<1>25. MailStep
  BY <1>1, <1>10, <1>12, <1>15, <1>17, <1>20, <1>23, <1>24, ComersStep
<1> QED
  BY <1>15, <1>21, <1>25 DEF Tidy

LEMMA AddInTidy ==
    ASSUME Inv, Tidy, NEW ms \in Batches, NEW failed \in BOOLEAN, AddIn(ms, failed)
    PROVE  Tidy' /\ MailStep
<1>1. /\ folder \in FolderItems /\ Good(folder) /\ Marked(folder)
      /\ Tidied(folder, foreign, receiving)
  BY DEF Inv, Held, Tidy, Tidied
<1>2. PICK s \in IF folder.opened THEN {folder} ELSE {folder, Scan(folder)} :
         HasRoom(s, Len(ms)) /\ Becomes(AddMsgs(s, Coming(ms)))
  BY DEF AddIn
<1>3. /\ s \in FolderItems /\ SameMail(folder, s) /\ Good(s)
      /\ Marked(s) /\ SameShown(folder, s) /\ (AllMarked(folder) => AllMarked(s))
      /\ (~foreign => Counted(s)) /\ (folder.mark_queue = <<>> => s.mark_queue = <<>>)
      /\ folder.opened => s = folder
  <2>1. CASE s = folder
    <3>1. SameMail(folder, s) /\ SameShown(folder, s)
      BY <2>1 DEF SameMail, SameShown
    <3> QED
      BY <1>1, <2>1, <3>1 DEF Tidied
  <2>2. CASE s = Scan(folder) /\ ~folder.opened
    <3>1. /\ s \in FolderItems /\ SameMail(folder, s) /\ Flushed(folder, s) /\ Settled(folder, s)
          /\ s.last_num = LastFile(folder)
      BY <1>1, <2>2, ScanIs
    <3>2. Good(s)
      BY <1>1, <3>1, CountedGood
    <3>3. /\ Marked(s) /\ SameShown(folder, s) /\ (AllMarked(folder) => AllMarked(s)) /\ Counted(s)
          /\ (folder.mark_queue = <<>> => s.mark_queue = <<>>)
      BY <1>1, <2>2, ScanMarks
    <3> QED
      BY <2>2, <3>1, <3>2, <3>3
  <2> QED
    BY <1>2, <2>1, <2>2
<1>4. Contents(s) = Contents(folder) /\ FileNums(s) = FileNums(folder)
  BY <1>3, SameSeen
<1>5. PICK rs : rs = Coming(ms)
  OBVIOUS
<1>6. PICK S : S = ToSet(ms)
  OBVIOUS
<1>7. rs \in Seq(Incoming) /\ Len(rs) = Len(ms) /\ Len(ms) \in Nat
  BY <1>5, ComingIs
<1>8. Newcomers(folder, rs) /\ Comers(rs, S)
  BY <1>5, <1>6, ComersIs
<1>9. Newcomers(s, rs)
  BY <1>4, <1>8 DEF Newcomers
<1>10. PICK n \in Nat : n = Len(rs)
  BY <1>7
<1>11. HasRoom(s, n)
  BY <1>2, <1>7, <1>10
<1>12. PICK g : g = AddMsgs(s, rs)
  OBVIOUS
<1>13. /\ folder' = g /\ UNCHANGED <<target, foreign, receiving>>
       /\ elsewhere' = [m \in DOMAIN elsewhere \ (IF failed THEN {} ELSE S) |-> elsewhere[m]]
       /\ folder.opened => folder.stype # "F_DRAFT"
  BY <1>2, <1>5, <1>6, <1>12 DEF AddIn, Becomes
<1> HIDE <1>5, <1>6
<1>14. \A j \in 1..Len(rs) : ~rs[j].received
  BY <1>8 DEF Comers
<1>15. s.opened = folder.opened /\ s.stype = folder.stype
  BY <1>3 DEF SameMail
<1>16. Plain("adding", s, rs)
  BY <1>13, <1>14, <1>15 DEF Plain, NoteFlags, ClearedFor
<1>17. ~s.opened => Direct("adding", s, rs)
  BY <1>14 DEF Direct
<1>18. g \in FolderItems /\ Grown(s, g, rs, n) /\ g.last_num >= 0
  BY <1>3, <1>7, <1>10, <1>11, <1>12, AddMsgsIs
<1>19. Marked(g) /\ Brought("adding", s, g, rs, n)
  BY <1>3, <1>7, <1>9, <1>10, <1>11, <1>12, <1>16, AddMsgsMarks
<1>20. Counted(s) /\ (s.opened => s.last_num >= 0) => Counted(g)
  BY <1>3, <1>7, <1>9, <1>10, <1>11, <1>12, <1>16, AddMsgsMarks
<1>21. AllMarked(s) => AllMarked(g)
  BY <1>3, <1>7, <1>9, <1>10, <1>11, <1>12, <1>16, AddMsgsMarks
<1>22. Direct("adding", s, rs) /\ s.mark_queue = <<>> => g.mark_queue = <<>>
  BY <1>3, <1>7, <1>9, <1>10, <1>11, <1>12, <1>16, AddMsgsMarks
<1>23. /\ g.stype = folder.stype /\ g.opened = folder.opened
       /\ \A k \in FileNums(folder) : g.file[k] = folder.file[k]
  <2>1. \A k \in FileNums(s) : g.file[k] = s.file[k]
    BY <1>18 DEF Grown
  <2>2. s.file = folder.file
    BY <1>3 DEF SameMail
  <2> QED
    BY <1>4, <1>15, <1>18, <2>1, <2>2 DEF Grown
<1>24. ~g.opened /\ g.mark_queue # <<>> => folder.mark_queue # <<>>
  BY <1>3, <1>15, <1>17, <1>22, <1>23
<1>25. ~foreign => Counted(g)
  BY <1>1, <1>3, <1>15, <1>20 DEF Tidied
<1>26. Tidied(g, foreign, receiving)
  BY <1>1, <1>3, <1>18, <1>19, <1>21, <1>23, <1>24, <1>25 DEF Tidied
<1>27. SameShown(g, g)
  BY DEF SameShown
<1>28. Brought("adding", folder, g, rs, n)
  BY <1>3, <1>19, <1>27, SameBrought
<1>29. elsewhere' = elsewhere \/ elsewhere' = [m \in DOMAIN elsewhere \ S |-> elsewhere[m]]
  BY <1>13, LeftElsewhere
<1>30. MailStep
  BY <1>1, <1>8, <1>10, <1>13, <1>19, <1>23, <1>28, <1>29, ComersStep
<1> QED
  BY <1>13, <1>26, <1>30 DEF Tidy

-----------------------------------------------------------------------------
\* The compose window.
LEMMA ReeditTidy ==
    ASSUME Inv, Tidy, NEW i \in DOMAIN folder.list, Reedit(folder.list[i])
    PROVE  Tidy' /\ MailStep
<1>1. /\ folder \in FolderItems /\ Good(folder) /\ folder.opened
      /\ target' = HeaderOf(folder.list[i]) /\ UNCHANGED <<folder, elsewhere, receiving, foreign>>
  BY DEF Inv, Held, Reedit
<1>2. folder.list \in Seq(MsgInfos) /\ i \in 1..Len(folder.list)
  BY <1>1 DEF FolderItems
<1>3. folder.list[i].num \in Nums /\ folder.list[i].msg \in Msgs
  <2>1. folder.list[i] \in MsgInfos
    BY <1>2
  <2> QED
    BY <2>1 DEF MsgInfos
<1>4. folder.file[folder.list[i].num] = folder.list[i].msg
  BY <1>1, <1>2 DEF Good, RowsSound, Right
<1>5. PICK t : t = target'
  OBVIOUS
<1>6. t.num = folder.list[i].num /\ t.msg = folder.list[i].msg
  BY <1>1, <1>5 DEF HeaderOf
<1>7. Edited(folder, t) = folder.list[i].msg
  BY <1>3, <1>4, <1>6 DEF Edited, Exists
<1>8. Edited(folder, target') = folder.list[i].msg
  BY <1>5, <1>7
<1>9. MailStep
  BY <1>1, <1>3, <1>8, EditStep
<1> QED
  BY <1>1, <1>9 DEF Tidy

LEMMA CloseWindowTidy ==
    ASSUME Inv, Tidy, CloseWindow
    PROVE  Tidy' /\ MailStep
<1>1. target' = NoTarget /\ UNCHANGED <<folder, elsewhere, receiving, foreign>>
  BY DEF CloseWindow
<1>2. Edited(folder, target') = None
  BY <1>1, EditedNone
<1>3. MailStep
  BY <1>1, <1>2, EditStep
<1> QED
  BY <1>1, <1>3 DEF Tidy

\* A version that is removed takes its message along, and no other.
LEMMA VersionGone ==
    ASSUME NEW g \in FolderItems, Unique(g), NEW e, Unique(e), NEW t,
           t = NoTarget \/ (t.num \in Nums /\ t.msg \in Msgs),
           \A k : k \in FileNums(e) <=> k \in FileNums(g) /\ ~(Exists(g, t) /\ k = t.num),
           \A k \in FileNums(e) : e.file[k] = g.file[k] /\ Shown(e, k) = Shown(g, k),
           NEW v, v = Edited(g, t)
    PROVE  Without(g, e, {v})
<1>1. None \notin Contents(g)
  BY InMsgs
<1>2. \A x : x \in Contents(e) <=> x \in Contents(g) /\ x # v
  <2>1. CASE Exists(g, t)
    <3>1. v = t.msg /\ t.num \in Nums /\ g.file[t.num] = t.msg
      BY <2>1 DEF Edited, Exists
    <3>2. t # NoTarget
      BY <3>1, NumsAre DEF NoTarget, Nums
    <3>3. t.num \in FileNums(g)
      BY <3>1, <3>2, NoneAssumption DEF FileNums
    <3>4. \A k \in FileNums(g) : g.file[k] = v <=> k = t.num
      BY <3>1, <3>3 DEF Unique
    <3>5. \A k : k \in FileNums(e) <=> k \in FileNums(g) /\ g.file[k] # v
      BY <2>1, <3>4
    <3>6. ASSUME NEW x, x \in Contents(e)
          PROVE  x \in Contents(g) /\ x # v
      <4>1. PICK k \in FileNums(e) : e.file[k] = x
        BY <3>6 DEF Contents
      <4>2. k \in FileNums(g) /\ g.file[k] # v /\ g.file[k] = x
        BY <3>5, <4>1
      <4> QED
        BY <4>2 DEF Contents
    <3>7. ASSUME NEW x, x \in Contents(g), x # v
          PROVE  x \in Contents(e)
      <4>1. PICK k \in FileNums(g) : g.file[k] = x
        BY <3>7 DEF Contents
      <4>2. k \in FileNums(e) /\ e.file[k] = x
        BY <3>5, <3>7, <4>1
      <4> QED
        BY <4>2 DEF Contents
    <3> QED
      BY <3>6, <3>7
  <2>2. CASE ~Exists(g, t)
    <3>1. v = None
      BY <2>2 DEF Edited
    <3>2. FileNums(e) = FileNums(g) /\ \A k \in FileNums(g) : e.file[k] = g.file[k]
      BY <2>2
    <3>3. Contents(e) = Contents(g)
      BY <3>2 DEF Contents
    <3> QED
      BY <1>1, <3>1, <3>3
  <2> QED
    BY <2>1, <2>2
<1>3. ASSUME NEW x \in Contents(e)
      PROVE  SeenAs(e)[x] = SeenAs(g)[x]
  <2>1. PICK k \in FileNums(e) : e.file[k] = x
    BY <1>3 DEF Contents
  <2>2. k \in FileNums(g) /\ g.file[k] = x /\ Shown(e, k) = Shown(g, k)
    BY <2>1
  <2>3. e.file[k] = g.file[k]
    BY <2>1
  <2>4. SeenAs(e)[g.file[k]] = SeenAs(g)[g.file[k]]
    BY <2>1, <2>2, <2>3, SeenOf
  <2> QED
    BY <2>2, <2>4
<1> QED
  BY <1>2, <1>3 DEF Without

\* What is shown, after it was counted, is written, closed and read again.
LEMMA SavedMarks ==
    ASSUME NEW h \in FolderItems, Loose(h), Marked(h), Counted(h), h.stype = "F_DRAFT", ~h.fresh,
           h.last_num >= 0, ~h.opened => h.mark_queue = <<>>,
           NEW x, x = IF h.opened THEN Refresh(h, TRUE) ELSE h
    PROVE  /\ Marked(x) /\ SameShown(h, x) /\ Counted(x) /\ x.last_num >= 0
           /\ ~x.opened => x.mark_queue = <<>>
<1>1. CASE h.opened
  <2>1. PICK w : w = WriteCache(h)
    OBVIOUS
  <2>2. /\ CacheSound(h) /\ Waiting(h) /\ Numbered(h)
        /\ Distinct(h.list) /\ Apart(h.list, h.cache_queue) /\ AllSound(h, h.list)
    BY <1>1 DEF Loose
  <2>3. /\ w \in FolderItems /\ SameMail(h, w) /\ SameSums(h, w) /\ CacheSound(w)
        /\ w.cache_queue = <<>>
    BY <1>1, <2>1, <2>2, WriteCacheSound
  <2>4. w.fresh => h.fresh
    BY <1>1, <2>1, <2>2, WriteCacheSound
  <2>5. Numbered(w)
    BY <2>2, <2>3 DEF Numbered, FileNums, SameMail, SameSums
  <2>6. Listable(h)
    BY <1>1, <2>2 DEF Listable, CacheSound
  <2>7. Filed(h) /\ Ready(h) /\ OpenMarks(h) /\ Unique(h)
    BY <1>1 DEF Marked
  <2>8. x = Refresh(h, TRUE) /\ (w.fresh => Trusted(w)) /\ (w.cache.state = "ok" \/ w.cache_queue = <<>>)
    BY <1>1, <2>3, <2>4
  <2>9. /\ x \in FolderItems /\ x.opened /\ SameShown(h, x)
        /\ Filed(x) /\ Ready(x) /\ OpenMarks(x) /\ Counted(x)
        /\ h.last_num >= 0 => x.last_num >= 0
    BY <2>1, <2>3, <2>5, <2>6, <2>7, <2>8, ReopenedMarks
  <2>10. Unique(x)
    BY <2>7, <2>9, SameSeen
  <2> QED
    BY <2>9, <2>10 DEF Marked
<1>2. CASE ~h.opened
  <2>1. x = h /\ SameShown(h, h)
    BY <1>2 DEF SameShown
  <2> QED
    BY <1>2, <2>1
<1> QED
  BY <1>1, <1>2

LEMMA SaveDraftTidy ==
    ASSUME Inv, Tidy, NEW m \in Fresh, NEW keep \in BOOLEAN, SaveDraft(m, keep)
    PROVE  Tidy' /\ MailStep
<1>1. /\ folder \in FolderItems /\ Good(folder) /\ folder.stype = "F_DRAFT" /\ strict = TRUE
      /\ Known(target, folder, elsewhere) /\ Marked(folder)
      /\ receiving \in {"no", "yet"} /\ (~folder.opened => folder.mark_queue = <<>>)
  BY DEF Inv, Held, SaveDraft, Tidy, Tidied
<1>2. m \in Msgs /\ m \notin Contents(folder) /\ m \notin DOMAIN elsewhere
  BY DEF Fresh
<1>3. PICK f : f = Scan(folder)
  OBVIOUS
<1>4. /\ f \in FolderItems /\ SameMail(folder, f) /\ Flushed(folder, f) /\ Settled(folder, f)
      /\ f.last_num = LastFile(folder)
  BY <1>1, <1>3, ScanIs
<1>5. Good(f)
  BY <1>1, <1>4, CountedGood
<1>6. Marked(f) /\ SameShown(folder, f) /\ (folder.mark_queue = <<>> => f.mark_queue = <<>>)
  BY <1>1, <1>3, ScanMarks
<1>7. /\ f.file = folder.file /\ f.stype = "F_DRAFT" /\ f.opened = folder.opened
      /\ SeenAs(f) = SeenAs(folder) /\ Contents(f) = Contents(folder) /\ FileNums(f) = FileNums(folder)
  BY <1>1, <1>4, <1>6, SameSeen DEF SameMail
<1>8. PICK r : r = [msg |-> m, flags |-> {}, received |-> FALSE]
  OBVIOUS
<1>9. r \in Incoming /\ r.msg = m /\ r.flags = {} /\ ~r.received
  BY <1>2, <1>8, FlagsTypes DEF Incoming
<1>10. PICK rs : rs = <<r>>
  OBVIOUS
<1>11. rs \in Seq(Incoming) /\ Len(rs) = 1 /\ \A j \in 1..Len(rs) : rs[j] = r
  BY <1>9, <1>10
<1>12. PICK g : g = AddMsgs(f, rs)
  OBVIOUS
<1>13. PICK e : e = RemoveTarget(g)
  OBVIOUS
<1>14. PICK h : h = Scan(e)
  OBVIOUS
<1>15. PICK x : x = IF folder.opened THEN Refresh(h, strict) ELSE h
  OBVIOUS
<1>16. /\ HasRoom(f, 1) /\ folder' = x
       /\ target' = IF keep THEN [num |-> g.last_num, msg |-> m] ELSE NoTarget
       /\ UNCHANGED <<elsewhere, receiving>>
  BY <1>3, <1>8, <1>10, <1>12, <1>13, <1>14, <1>15 DEF SaveDraft, Becomes
<1> HIDE <1>8, <1>10
<1>17. PICK k \in Nat : k = 1
  OBVIOUS
<1>18. k = Len(rs) /\ HasRoom(f, k)
  BY <1>11, <1>16, <1>17
<1>19. Newcomers(f, rs)
  BY <1>2, <1>7, <1>9, <1>11 DEF Newcomers
<1>20. NoteFlags("adding", f, r) = {}
  BY <1>9 DEF NoteFlags, ClearedFor
<1>21. Plain("adding", f, rs)
  BY <1>9, <1>11, <1>20 DEF Plain
<1>22. ~f.opened => Direct("adding", f, rs)
  BY <1>9, <1>11 DEF Direct
<1>23. g \in FolderItems /\ Good(g) /\ Grown(f, g, rs, k)
  BY <1>4, <1>5, <1>11, <1>12, <1>18, AddMsgsIs
<1>24. Marked(g) /\ Brought("adding", f, g, rs, k)
  BY <1>4, <1>5, <1>6, <1>11, <1>12, <1>18, <1>19, <1>21, AddMsgsMarks
<1>25. Direct("adding", f, rs) /\ f.mark_queue = <<>> => g.mark_queue = <<>>
  BY <1>4, <1>5, <1>6, <1>11, <1>12, <1>18, <1>19, <1>21, AddMsgsMarks
<1>26. /\ \A y : y \in Contents(g) <=> y \in Contents(folder) \/ y = m
       /\ \A y \in Contents(folder) : SeenAs(g)[y] = SeenAs(folder)[y]
       /\ SeenAs(g)[m] = {}
  <2>1. 1 \in 1..k /\ \A j \in 1..k : rs[j] = r
    BY <1>11, <1>17, <1>18
  <2> QED
    BY <1>7, <1>9, <1>20, <1>24, <2>1 DEF Brought
<1>27. PICK n : n = g.last_num
  OBVIOUS
<1>28. /\ n \in FileNums(g) /\ g.file[n] = m
       /\ g.stype = "F_DRAFT" /\ g.opened = folder.opened
       /\ \A j \in FileNums(folder) : g.file[j] = folder.file[j]
  <2>1. k \in 1..Len(rs) /\ rs[k] = r
    BY <1>11, <1>17, <1>18
  <2> QED
    BY <1>7, <1>9, <1>17, <1>23, <1>27, <2>1 DEF Grown
<1>29. target = NoTarget \/ (target.num \in Nums /\ target.msg \in Msgs)
  BY <1>1 DEF Known
<1>30. target.msg # m
  <2>1. CASE target = NoTarget
    BY <1>2, <2>1, NoneAssumption DEF NoTarget
  <2>2. CASE target # NoTarget
    BY <1>1, <1>2, <2>2 DEF Known
  <2> QED
    BY <2>1, <2>2
<1>31. PICK v : v = Edited(folder, target)
  OBVIOUS
<1>32. v = Edited(g, target) /\ v # m
  <2>1. Unique(g)
    BY <1>24 DEF Marked
  <2>2. PICK S : S = {m}
    OBVIOUS
  <2>3. \A y : y \in Contents(g) <=> y \in Contents(folder) \/ y \in S
    BY <1>26, <2>2
  <2>4. \A j \in FileNums(folder) : g.file[j] = folder.file[j]
    BY <1>28
  <2>5. PICK t : t = target
    OBVIOUS
  <2>6. t = NoTarget \/ (t.num \in Nums /\ t.msg \in Msgs)
    BY <1>29, <2>5
  <2>7. Edited(g, t) \in IF Edited(folder, t) = None THEN S \cup {None} ELSE {Edited(folder, t)}
    BY <1>1, <2>1, <2>3, <2>4, <2>6, EditedGrown
  <2>8. Edited(g, target) # m /\ v # m
    BY <1>2, <1>30, <1>31, NoneAssumption DEF Edited
  <2> QED
    BY <1>31, <2>2, <2>5, <2>7, <2>8
<1>33. target.msg # g.file[n] /\ g.last_num = n
  BY <1>27, <1>28, <1>30
<1>34. /\ Marked(e)
       /\ \A j : j \in FileNums(e) <=> j \in FileNums(g) /\ ~(Exists(g, target) /\ j = target.num)
       /\ \A j \in FileNums(e) : e.file[j] = g.file[j] /\ Shown(e, j) = Shown(g, j)
       /\ g.mark_queue = <<>> => e.mark_queue = <<>>
  BY <1>13, <1>23, <1>24, <1>28, <1>29, <1>33, TargetGone
<1>35. /\ e \in FolderItems /\ Loose(e)
       /\ e.stype = "F_DRAFT" /\ e.opened = folder.opened
  BY <1>13, <1>23, <1>28, <1>29, <1>33, RemoveTargetIs
<1>36. Without(g, e, {v})
  <2>1. Unique(g) /\ Unique(e)
    BY <1>24, <1>34 DEF Marked
  <2> QED
    BY <1>23, <1>29, <1>32, <1>34, <2>1, VersionGone
<1>37. h \in FolderItems /\ Loose(h) /\ SameMail(e, h) /\ ~h.fresh /\ h.last_num = LastFile(e)
  BY <1>14, <1>35, LooseScanned
<1>38. h.stype = "F_DRAFT" /\ h.opened = folder.opened /\ h.last_num >= 0
  <2>1. LastFile(e) \in 0..MaxNum
    BY LastFileIs
  <2> QED
    BY <1>35, <1>37, <2>1, NumsAre DEF SameMail
<1>39. /\ Marked(h) /\ SameShown(e, h) /\ Counted(h)
       /\ e.mark_queue = <<>> => h.mark_queue = <<>>
  BY <1>14, <1>34, <1>35, ScanMarks
<1>40. ~h.opened => h.mark_queue = <<>>
  BY <1>1, <1>6, <1>7, <1>22, <1>25, <1>34, <1>38, <1>39
<1>41. x = IF h.opened THEN Refresh(h, TRUE) ELSE h
  BY <1>1, <1>15, <1>38
<1>42. /\ Marked(x) /\ SameShown(h, x) /\ Counted(x) /\ x.last_num >= 0
       /\ ~x.opened => x.mark_queue = <<>>
  BY <1>37, <1>38, <1>39, <1>40, <1>41, SavedMarks
<1>43. x.stype = "F_DRAFT"
  BY <1>38, <1>42 DEF SameShown
<1>44. Tidied(x, foreign', receiving')
  BY <1>1, <1>16, <1>42, <1>43 DEF Tidied
<1>45. SeenAs(x) = SeenAs(e) /\ Contents(x) = Contents(e)
  <2>1. SeenAs(h) = SeenAs(e) /\ Contents(h) = Contents(e)
    BY <1>39, SameSeen
  <2>2. SeenAs(x) = SeenAs(h) /\ Contents(x) = Contents(h)
    BY <1>42, SameSeen
  <2> QED
    BY <2>1, <2>2
<1>46. /\ \A y : y \in Contents(x) <=> y = m \/ (y \in Contents(folder) /\ y # v)
       /\ \A y \in Contents(folder) : y # v => SeenAs(x)[y] = SeenAs(folder)[y]
       /\ SeenAs(x)[m] \in Flags
  BY <1>26, <1>32, <1>36, <1>45, FlagsTypes DEF Without
<1>47. Edited(x, target') \in {m, None}
  <2>1. PICK t : t = target'
    OBVIOUS
  <2>2. t.msg \in {m, None}
    BY <1>16, <2>1 DEF NoTarget
  <2>3. Edited(x, t) \in {m, None}
    BY <2>2 DEF Edited
  <2> QED
    BY <2>1, <2>3
<1>48. MailStep
  <2>1. x.stype = folder.stype /\ UNCHANGED elsewhere
    BY <1>1, <1>16, <1>43
  <2> QED
    BY <1>1, <1>16, <1>31, <1>42, <1>46, <1>47, <2>1, SaveStep
<1> QED
  BY <1>16, <1>44, <1>48 DEF Tidy

-----------------------------------------------------------------------------
\* An empty folder is a mailbox.
LEMMA InitTidy ==
    ASSUME Init
    PROVE  Tidy /\ IsMailbox!Init
<1>1. PICK kind \in Kinds : folder = Brand(kind[1])
  BY DEF Init
<1>2. folder \in FolderItems
  BY InitInv DEF Inv, Held
<1>3. kind[1] \in {"F_NORMAL", "F_TRASH", "F_DRAFT"}
  BY KindsAssumption
<1>4. /\ folder.stype = kind[1] /\ ~folder.opened /\ \A n \in Nums : folder.file[n] = None
      /\ folder.marks.recs = <<>> /\ folder.mark_queue = <<>> /\ folder.total = 0 /\ folder.unread = 0
  BY <1>1 DEF Brand, NoFile
<1>5. /\ FileNums(folder) = {} /\ Contents(folder) = {} /\ Filed(folder) /\ Ready(folder)
      /\ Unique(folder) /\ Counted(folder) /\ AllMarked(folder)
  BY <1>2, <1>4, EmptiedMarks
<1>6. Marked(folder)
  BY <1>4, <1>5 DEF Marked
<1>7. receiving = "no" /\ foreign = FALSE /\ target = NoTarget
  BY DEF Init
<1>8. Tidy
  BY <1>4, <1>5, <1>6, <1>7 DEF Tidy, Tidied
<1>9. Seen = <<>>
  <2>1. Seen = [m \in {} |-> SeenFlags(NumOf(m))]
    BY <1>5 DEF Seen
  <2> QED
    BY <2>1
<1>10. (IF Exists(folder, target) THEN target.msg ELSE None) = None
  BY <1>7, NumsAre DEF Exists, NoTarget, Nums
<1>11. \E S \in SUBSET Msgs : elsewhere \in [S -> IsMailbox!Flags]
  <2>1. Typed(elsewhere)
    BY InitInv DEF Inv
  <2> QED
    BY <2>1 DEF Typed, Flags, IsMailbox!Flags
<1>12. IsMailbox!Init
  BY <1>3, <1>4, <1>9, <1>10, <1>11 DEF IsMailbox!Init
<1> QED
  BY <1>8, <1>12

-----------------------------------------------------------------------------
\* Every step is one of the mailbox, or none.
LEMMA NextTidy ==
    ASSUME Patient, CacheFirst, "marks" \notin Halves, Inv, Tidy, Next
    PROVE  Tidy' /\ (MailStep \/ (DeathStep /\ Dies))
<1>1. CASE BeginCheck
  BY <1>1, BeginCheckTidy
<1>2. CASE ShowNew
  BY <1>2, ShowNewTidy
<1>3. CASE EndCheck
  BY <1>3, EndCheckTidy
<1>4. CASE Show
  BY <1>4, ShowTidy
<1>5. CASE Leave
  BY <1>5, LeaveTidy
<1>6. CASE CloseWindow
  BY <1>6, CloseWindowTidy
<1>7. CASE EmptyTrash
  BY <1>7, EmptyTrashTidy
<1>8. CASE SaveFolderList
  BY <1>8, SaveFolderListTidy
<1>9. CASE Quit
  BY <1>9, QuitTidy
<1>10. CASE Crash
  BY <1>10, CrashTidy DEF Dies
<1>11. CASE CrashWriting
  BY <1>11, CrashWritingTidy DEF Dies
<1>12. ASSUME NEW m \in Fresh, Incorporate(m) \/ Deliver(m) \/ \E keep \in BOOLEAN : SaveDraft(m, keep)
       PROVE  Tidy' /\ MailStep
  BY <1>12, IncorporateTidy, DeliverTidy, SaveDraftTidy
<1>13. ASSUME NEW i \in DOMAIN folder.list,
              \/ \E flag \in {"UNREAD"} \cup UserFlags : SetFlag(i, flag)
              \/ ExecuteRemove(folder.list[i]) \/ Reedit(folder.list[i])
       PROVE  Tidy' /\ MailStep
  BY <1>13, SetFlagTidy, ExecuteRemoveTidy, ReeditTidy
<1>14. ASSUME NEW S \in SUBSET DOMAIN folder.list, ExecuteMove(Picked(folder.list, S))
       PROVE  Tidy' /\ MailStep
  BY <1>14, ExecuteMoveTidy
<1>15. ASSUME NEW m \in Contents(folder), Reply(m)
       PROVE  Tidy' /\ MailStep
  BY <1>15, ReplyTidy
<1>16. ASSUME NEW ms \in Batches, NEW b \in BOOLEAN, MoveIn(ms, b) \/ AddIn(ms, b)
       PROVE  Tidy' /\ MailStep
  BY <1>16, MoveInTidy, AddInTidy
<1>17. ASSUME NEW m \in DOMAIN elsewhere \ Contents(folder), CrashMoving(m)
       PROVE  Tidy' /\ DeathStep /\ Dies
  BY <1>17, CrashMovingTidy DEF Dies
<1> QED
  BY <1>1, <1>2, <1>3, <1>4, <1>5, <1>6, <1>7, <1>8, <1>9, <1>10, <1>11, <1>12, <1>13, <1>14, <1>15,
     <1>16, <1>17 DEF Next

LEMMA StepTidy ==
    ASSUME Patient, CacheFirst, "marks" \notin Halves, Inv, Tidy, [Next]_vars
    PROVE  Tidy' /\ (MailStep \/ (DeathStep /\ Dies))
<1>1. CASE UNCHANGED vars
  <2>1. UNCHANGED <<folder, elsewhere, target, receiving, foreign>>
    BY <1>1 DEF vars
  <2>2. Marked(folder) /\ SameShown(folder, folder)
    BY DEF Tidy, Tidied, SameShown
  <2>3. MailStep
    BY <2>1, <2>2, StillStep
  <2> QED
    BY <2>1, <2>3 DEF Tidy
<1> QED
  BY <1>1, NextTidy

LEMMA TidyInvariance ==
    ASSUME Patient, CacheFirst, "marks" \notin Halves
    PROVE  Spec => [](Inv /\ Tidy)
<1>1. Init => Inv /\ Tidy
  BY InitInv, InitTidy
<1>2. Inv /\ Tidy /\ [Next]_vars => Tidy'
  BY StepTidy
<1> QED
  BY <1>1, <1>2, Invariance, PTL DEF Spec

\* The numbers of unread files, and the messages that are unread.
LEMMA CountsRightHolds ==
    ASSUME Tidy
    PROVE  CountsRight
<1>1. Marked(folder) /\ (~foreign => Counted(folder))
  BY DEF Tidy, Tidied
<1>2. Unique(folder) /\ Seen = SeenAs(folder)
  BY <1>1, SeenIs DEF Marked
<1>3. PICK T : T = {m \in Contents(folder) : "UNREAD" \in Seen[m]}
  OBVIOUS
<1>4. PICK S : S = UnreadNums(folder)
  OBVIOUS
<1>5. IsFiniteSet(S) /\ \A n \in S : n \in FileNums(folder) /\ "UNREAD" \in Shown(folder, n)
  BY <1>4, FilesCount DEF UnreadNums
<1>6. PICK h : h = [n \in S |-> folder.file[n]]
  OBVIOUS
<1>7. \A n \in FileNums(folder) : folder.file[n] \in Contents(folder) /\ Seen[folder.file[n]] = Shown(folder, n)
  BY <1>2, SeenShown
<1>8. \A n \in S : h[n] = folder.file[n] /\ h[n] \in T
  BY <1>3, <1>5, <1>6, <1>7
<1>9. \A k, n \in S : h[k] = h[n] => k = n
  BY <1>2, <1>5, <1>8 DEF Unique
<1>10. \A m \in T : \E n \in S : h[n] = m
  <2> SUFFICES ASSUME NEW m \in T PROVE \E n \in S : h[n] = m
    OBVIOUS
  <2>1. m \in Contents(folder) /\ "UNREAD" \in Seen[m]
    BY <1>3
  <2>2. PICK n \in FileNums(folder) : folder.file[n] = m
    BY <2>1 DEF Contents
  <2>3. n \in S
    BY <1>4, <1>7, <2>1, <2>2 DEF UnreadNums
  <2> QED
    BY <1>8, <2>2, <2>3
<1>11. h = [n \in S |-> h[n]]
  BY <1>6
<1>12. Cardinality(T) = Cardinality(S)
  BY <1>5, <1>8, <1>9, <1>10, <1>11, SameCount
<1> QED
  BY <1>1, <1>3, <1>4, <1>12 DEF CountsRight, Counted

\* What the mailbox sees of a step.
LEMMA MailboxStep ==
    ASSUME Patient, CacheFirst, "marks" \notin Halves, Inv, Tidy, [Next]_vars
    PROVE  /\ [(IsMailbox!Living \/ IsMailbox!Dying) /\ UNCHANGED folder.stype]_IsMailbox!vars
           /\ [~Dies => IsMailbox!Living]_IsMailbox!vars
<1>1. MailStep \/ (DeathStep /\ Dies)
  BY StepTidy
<1>2. CASE DeathStep /\ Dies
  BY <1>2 DEF DeathStep
<1>3. CASE MailStep /\ IsMailbox!Living
  BY <1>3 DEF MailStep
<1>4. CASE MailStep /\ UNCHANGED <<Seen, elsewhere, Edited(folder, target)>>
  <2>1. UNCHANGED IsMailbox!vars
    BY <1>4 DEF MailStep, Edited, IsMailbox!vars
  <2> QED
    BY <2>1
<1> QED
  BY <1>1, <1>2, <1>3, <1>4 DEF MailStep

\* The numbers in the folder tree count the files of the folder, and those that
\* are unread, after any sequence of additions, moves and removals, checks for
\* mail, writes of the mark file and restarts, unless another program was at
\* work: procmsg_flush_folder, which counts the marks and not the files, finds
\* one for each file, and none for others.
THEOREM CountsAreRight ==
    ASSUME Patient, CacheFirst, "marks" \notin Halves
    PROVE  Spec => []CountsRight
  BY TidyInvariance, CountsRightHolds, PTL

\* The folder keeps what a mailbox promises.  A message that is in it stays, with
\* the flags that the user gave it, whatever queues its header and mark wait in
\* and whatever of the files is written when, until it is moved away, discarded
\* or replaced by the next version of the draft; one that is moved is never in
\* neither place.  When the program dies flags may be lost, but no message, and
\* in no other step does a message lose flags; for this, no crash may leave
\* half a record at the end of the mark file.
THEOREM MessagesAreKept ==
    ASSUME Patient, CacheFirst, "marks" \notin Halves
    PROVE  Spec => KeepsMessages
<1>1. Init => IsMailbox!Init
  BY InitTidy
<1>2. Inv /\ Tidy /\ [Next]_vars =>
         /\ [(IsMailbox!Living \/ IsMailbox!Dying) /\ UNCHANGED folder.stype]_IsMailbox!vars
         /\ [~Dies => IsMailbox!Living]_IsMailbox!vars
  BY MailboxStep
<1> QED
  BY <1>1, <1>2, TidyInvariance, PTL DEF Spec, KeepsMessages, IsMailbox!Spec
=============================================================================
