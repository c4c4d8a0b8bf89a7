-------------------------- MODULE SendQueueProofs --------------------------
(***************************************************************************)
(* Theorems about SendQueue, for any messages, numbers and depth of runs.  *)
(***************************************************************************)
EXTENDS SendQueue, TLAPS, SequenceTheorems

\* A message is in the queue once.
FileOK == \A k, n \in Nums : file[k] = file[n] /\ file[k] # None => k = n

\* The window of a queued message is closed, that of a message that is being
\* sent from its window is not, and no other run sends it from there.
WindowOK ==
    /\ \A n \in Nums : file[n] # None => window[file[n]] = "closed"
    /\ \A i \in 1..Depth : runs[i].kind = "compose"
          => runs[i].phase # "next" /\ window[runs[i].msg] = "sending"
    /\ \A i, j \in 1..Depth :
          /\ runs[i].kind = "compose" /\ runs[j].kind = "compose"
          /\ runs[i].msg = runs[j].msg
          => i = j

\* A run still has the numbers of the messages that it owes a trial.
OwedOK ==
    \A i \in 1..Depth : \A m \in runs[i].owed :
        /\ window[m] = "closed"
        /\ \A n \in Nums : file[n] = m => n \in runs[i].todo

\* What is filed as sent has been taken.
TookOK ==
    \A i \in 1..Depth :
        /\ runs[i].phase = "filtering" => runs[i].took
        /\ runs[i].took => runs[i].phase # "next" /\ taken[runs[i].msg] > 0

Inv == FileOK /\ WindowOK /\ OwedOK /\ TookOK

\* With a careful user: the number of a run still has the message it had,
AloneOK ==
    /\ \A i, j \in 1..Depth : runs[i].kind = "queue" /\ runs[j].kind = "queue" => i = j
    /\ \A i \in 1..Depth :
          runs[i].kind = "queue" /\ runs[i].phase # "next" => file[runs[i].num] = runs[i].msg

\* nobody replaces the message that a run below is sending,
EditedOK ==
    \A i, j \in 1..Depth :
        /\ i < j /\ runs[i].kind = "queue" /\ runs[j].kind = "compose"
        /\ runs[i].phase # "next"
        => target[runs[j].msg] # runs[i].msg

\* and a message that was taken once more than the program was told otherwise is
\* on its way out of the queue and of its window, or has left both.
Spent(m) ==
    \/ window[m] = "closed" /\ m \notin Queue(file)
    \/ \E i \in 1..Depth : runs[i].took /\ runs[i].msg = m
SpentOK ==
    \A m \in Msgs : taken[m] <= excused[m] + (IF Spent(m) THEN 1 ELSE 0)

CarefulInv == AloneOK /\ EditedOK /\ SpentOK

-----------------------------------------------------------------------------
\* The list of runs.

LEMMA RunsType ==
    ASSUME TypeOK
    PROVE  /\ Depth \in Nat /\ runs \in Seq(Run)
           /\ \A i \in 1..Depth : runs[i] \in Run
           /\ runs # <<>> => Depth \in 1..Depth /\ Top \in Run /\ Top = runs[Depth]
BY DEF TypeOK, Depth, Top

\* A run on top.
LEMMA Pushed ==
    ASSUME TypeOK, NEW r \in Run, runs' = Append(runs, r)
    PROVE  /\ runs' \in Seq(Run) /\ Depth' = Depth + 1
           /\ runs'[Depth + 1] = r
           /\ \A i \in 1..Depth : runs'[i] = runs[i]
BY DEF TypeOK, Depth

\* The run on top goes on.
LEMMA Replaced ==
    ASSUME TypeOK, runs # <<>>, NEW r \in Run, Replace(r)
    PROVE  /\ runs' \in Seq(Run) /\ Depth' = Depth
           /\ runs'[Depth] = r
           /\ \A i \in 1..Depth : i # Depth => runs'[i] = runs[i]
BY DEF TypeOK, Depth, Replace

\* The run on top ends.
LEMMA Returned ==
    ASSUME TypeOK, runs # <<>>, Return
    PROVE  /\ runs' \in Seq(Run) /\ Depth' = Depth - 1
           /\ \A i \in 1..(Depth - 1) : runs'[i] = runs[i]
<1>1. runs \in Seq(Run) /\ Depth \in Nat /\ Depth >= 1
  BY DEF TypeOK, Depth
<1> DEFINE n == Depth - 1
<1>2. n \in Int /\ n >= 0 /\ \A i \in 1..n : runs[i] \in Run
  BY <1>1 DEF Depth
<1> HIDE DEF n
<1>3. /\ SubSeq(runs, 1, n) \in Seq(Run)
      /\ Len(SubSeq(runs, 1, n)) = n
      /\ \A i \in 1..n : SubSeq(runs, 1, n)[i] = runs[i]
  BY <1>1, <1>2
<1> QED
  BY <1>3, <1>1 DEF Return, Depth, n

-----------------------------------------------------------------------------
\* Type correctness.

RunOK(r) ==
    /\ r.phase # "next" <=> r.msg # None
    /\ r.kind = "queue" /\ r.phase # "next" => r.num \in Nums
RunsOK == runs \in Seq(Run) /\ Depth <= MaxDepth /\ \A i \in 1..Depth : RunOK(runs[i])

FoldersOK ==
    /\ file \in [Nums -> Msgs \cup {None}]
    /\ outbox \subseteq Msgs /\ queued \subseteq Msgs /\ discarded \subseteq Msgs

WindowsOK ==
    /\ window \in [Msgs -> {"none", "open", "sending", "closed"}]
    /\ target \in [Msgs -> Msgs \cup {None}]

CountsOK == taken \in [Msgs -> 0..MaxTaken] /\ excused \in [Msgs -> Nat]

LEMMA TypeParts == TypeOK <=> RunsOK /\ FoldersOK /\ WindowsOK /\ CountsOK
BY DEF TypeOK, RunsOK, RunOK, FoldersOK, WindowsOK, CountsOK

LEMMA PartsNext ==
    ASSUME RunsOK', FoldersOK', WindowsOK', CountsOK'
    PROVE  TypeOK'
BY DEF TypeOK, RunsOK, RunOK, FoldersOK, WindowsOK, CountsOK

LEMMA PushType ==
    ASSUME TypeOK, Depth < MaxDepth, NEW r \in Run, RunOK(r), runs' = Append(runs, r)
    PROVE  RunsOK'
<1>1. Depth \in Nat /\ MaxDepth \in Nat /\ \A i \in 1..Depth : RunOK(runs[i])
  BY RunsType, TypeParts, BoundsAssumption DEF RunsOK
<1>2. /\ runs' \in Seq(Run) /\ Depth' = Depth + 1
      /\ runs'[Depth + 1] = r
      /\ \A i \in 1..Depth : runs'[i] = runs[i]
  BY Pushed
<1>3. ASSUME NEW i \in 1..Depth' PROVE RunOK(runs'[i])
  <2>1. i \in 1..Depth \/ i = Depth + 1
    BY <1>1, <1>2
  <2>2. CASE i \in 1..Depth
    BY <1>1, <1>2, <2>2
  <2>3. CASE i = Depth + 1
    BY <1>2, <2>3
  <2> QED
    BY <2>1, <2>2, <2>3
<1>4. Depth' <= MaxDepth
  BY <1>1, <1>2
<1> QED
  BY <1>2, <1>3, <1>4 DEF RunsOK

LEMMA ReplaceType ==
    ASSUME TypeOK, runs # <<>>, NEW r \in Run, RunOK(r), Replace(r)
    PROVE  RunsOK'
<1>1. Depth \in Nat /\ Depth <= MaxDepth /\ \A i \in 1..Depth : RunOK(runs[i])
  BY RunsType, TypeParts DEF RunsOK
<1>2. \A i \in 1..Depth' : RunOK(runs'[i])
  BY <1>1, Replaced
<1> QED
  BY <1>1, <1>2, Replaced DEF RunsOK

LEMMA ReturnType ==
    ASSUME TypeOK, runs # <<>>, Return
    PROVE  RunsOK'
<1>1. Depth \in Nat /\ Depth <= MaxDepth /\ \A i \in 1..Depth : RunOK(runs[i])
  BY RunsType, TypeParts DEF RunsOK
<1>2. MaxDepth \in Nat
  BY BoundsAssumption
<1>3. \A i \in 1..Depth' : RunOK(runs'[i])
  BY <1>1, Returned
<1> QED
  BY <1>1, <1>2, <1>3, Returned DEF RunsOK

\* What a run is when it goes on: the fields that a step changes.
LEMMA TopRun ==
    ASSUME TypeOK, runs # <<>>
    PROVE  /\ Top.kind \in {"queue", "compose"} /\ Top.todo \subseteq Nums
           /\ Top.num \in Nums \cup {0} /\ Top.msg \in Msgs \cup {None}
           /\ Top.phase \in {"next", "sending", "filtering"}
           /\ Top.took \in BOOLEAN /\ Top.owed \subseteq Msgs
           /\ Top.phase # "next" => Top.msg \in Msgs
           /\ Top.kind = "queue" /\ Top.phase # "next" => Top.num \in Nums
<1>1. Top \in Run /\ RunOK(Top)
  BY RunsType, TypeParts DEF RunsOK
<1> QED
  BY <1>1 DEF Run, RunOK

LEMMA QueueInMsgs ==
    ASSUME TypeOK
    PROVE  /\ Queue(file) \subseteq Msgs
           /\ \A m \in Msgs : Edited(m) \subseteq Queue(file)
BY DEF TypeOK, Queue, Edited

LEMMA ExcuseType ==
    ASSUME TypeOK, NEW ms, Excuse(ms)
    PROVE  excused' \in [Msgs -> Nat]
BY DEF TypeOK, Excuse

LEMMA WithoutType ==
    ASSUME NEW f \in [Nums -> Msgs \cup {None}], NEW ms
    PROVE  Without(f, ms) \in [Nums -> Msgs \cup {None}]
BY DEF Without

LEMMA InitType == Init => TypeOK
<1> SUFFICES ASSUME Init PROVE TypeOK
  OBVIOUS
<1>1. RunsOK
  BY BoundsAssumption DEF Init, RunsOK, Depth
<1>2. FoldersOK /\ WindowsOK /\ CountsOK
  BY BoundsAssumption DEF Init, FoldersOK, WindowsOK, CountsOK
<1> QED
  BY <1>1, <1>2, TypeParts

LEMMA UserType ==
    ASSUME TypeOK, UserNext
    PROVE  TypeOK'
<1>. RunsOK /\ FoldersOK /\ WindowsOK /\ CountsOK
  BY TypeParts
<1>1. ASSUME NEW m \in Msgs, Compose(m) PROVE TypeOK'
  <2>1. RunsOK' /\ FoldersOK' /\ CountsOK'
    BY <1>1 DEF Compose, RunsOK, FoldersOK, CountsOK, Depth
  <2>2. WindowsOK'
    BY <1>1, QueueInMsgs DEF Compose, WindowsOK
  <2> QED
    BY <2>1, <2>2, PartsNext
<1>2. ASSUME NEW m \in Msgs, Close(m) PROVE TypeOK'
  BY <1>2, PartsNext DEF Close, RunsOK, FoldersOK, WindowsOK, CountsOK, Depth
<1>3. ASSUME NEW m \in Msgs, SendLater(m) PROVE TypeOK'
  <2>1. RunsOK' /\ WindowsOK' /\ CountsOK'
    BY <1>3 DEF SendLater, RunsOK, WindowsOK, CountsOK, Depth
  <2>2. FoldersOK'
    <3>1. PICK n \in Nums, gone \in SUBSET Edited(m) :
             /\ file' = Without([file EXCEPT ![n] = m], gone)
             /\ discarded' = discarded \cup gone
      BY <1>3 DEF SendLater
    <3>2. file' \in [Nums -> Msgs \cup {None}]
      <4>1. [file EXCEPT ![n] = m] \in [Nums -> Msgs \cup {None}]
        BY DEF FoldersOK
      <4> QED
        BY <3>1, <4>1, WithoutType
    <3>3. queued' = queued \cup {m} /\ outbox' = outbox
      BY <1>3 DEF SendLater
    <3> QED
      BY <3>1, <3>2, <3>3, QueueInMsgs DEF FoldersOK
  <2> QED
    BY <2>1, <2>2, PartsNext
<1>4. ASSUME NEW m \in Msgs, Send(m) PROVE TypeOK'
  <2> DEFINE r == [kind |-> "compose", todo |-> {}, num |-> 0, msg |-> m,
                   phase |-> "sending", took |-> FALSE, owed |-> {}]
  <2>1. r \in Run /\ RunOK(r)
    BY NoneAssumption DEF Run, RunOK
  <2>2. Depth < MaxDepth /\ runs' = Append(runs, r)
    BY <1>4 DEF Send
  <2>3. RunsOK'
    <3> HIDE DEF r
    <3> QED
      BY <2>1, <2>2, PushType
  <2>4. FoldersOK' /\ WindowsOK' /\ CountsOK'
    BY <1>4 DEF Send, FoldersOK, WindowsOK, CountsOK
  <2> QED
    BY <2>3, <2>4, PartsNext
<1>5. ASSUME NEW n \in Nums, Delete(n) PROVE TypeOK'
  <2>1. RunsOK' /\ WindowsOK' /\ CountsOK'
    BY <1>5 DEF Delete, RunsOK, WindowsOK, CountsOK, Depth
  <2>2. FoldersOK'
    BY <1>5 DEF Delete, FoldersOK
  <2> QED
    BY <2>1, <2>2, PartsNext
<1>6. CASE StartQueue
  <2> DEFINE r == [kind |-> "queue", todo |-> {n \in Nums : file[n] # None}, num |-> 0,
                   msg |-> None, phase |-> "next", took |-> FALSE, owed |-> Queue(file)]
  <2>1. r \in Run /\ RunOK(r)
    BY QueueInMsgs DEF Run, RunOK
  <2>2. Depth < MaxDepth /\ runs' = Append(runs, r)
    BY <1>6 DEF StartQueue
  <2>3. RunsOK'
    <3> HIDE DEF r
    <3> QED
      BY <2>1, <2>2, PushType
  <2>4. FoldersOK' /\ WindowsOK' /\ CountsOK'
    BY <1>6 DEF StartQueue, FoldersOK, WindowsOK, CountsOK
  <2> QED
    BY <2>3, <2>4, PartsNext
<1> QED
  BY <1>1, <1>2, <1>3, <1>4, <1>5, <1>6 DEF UserNext

LEMMA RunType ==
    ASSUME TypeOK, RunNext
    PROVE  TypeOK'
<1>. RunsOK /\ FoldersOK /\ WindowsOK /\ CountsOK
  BY TypeParts
<1>1. CASE NextMsg
  <2>1. PICK n \in Top.todo :
           Replace([Top EXCEPT !.todo = @ \ {n}, !.num = n, !.msg = file[n],
                               !.phase = IF file[n] = None THEN "next" ELSE "sending",
                               !.took = FALSE, !.owed = @ \ {file[n]}])
    BY <1>1 DEF NextMsg
  <2> DEFINE r == [Top EXCEPT !.todo = @ \ {n}, !.num = n, !.msg = file[n],
                              !.phase = IF file[n] = None THEN "next" ELSE "sending",
                              !.took = FALSE, !.owed = @ \ {file[n]}]
  <2>2. runs # <<>> /\ FoldersOK' /\ WindowsOK' /\ CountsOK'
    BY <1>1 DEF NextMsg, AtTop, FoldersOK, WindowsOK, CountsOK
  <2>3. n \in Nums /\ file[n] \in Msgs \cup {None} /\ Top \in Run
    BY <2>2, TopRun, RunsType DEF FoldersOK
  <2>4. r \in Run /\ RunOK(r)
    BY <2>3 DEF Run, RunOK
  <2>5. RunsOK'
    <3> HIDE DEF r
    <3> QED
      BY <2>1, <2>2, <2>4, ReplaceType DEF r
  <2> QED
    BY <2>2, <2>5, PartsNext
<1>2. CASE EndQueue
  <2>1. RunsOK'
    BY <1>2, ReturnType DEF EndQueue, AtTop
  <2>2. FoldersOK' /\ WindowsOK' /\ CountsOK'
    BY <1>2 DEF EndQueue, FoldersOK, WindowsOK, CountsOK
  <2> QED
    BY <2>1, <2>2, PartsNext
<1>3. CASE QueueFailed \/ QueueDone
  <2> DEFINE r == [Top EXCEPT !.phase = "next", !.msg = None, !.took = FALSE]
  <2>1. runs # <<>> /\ Replace(r) /\ Top.phase # "next" /\ Top.kind = "queue"
    BY <1>3 DEF QueueFailed, QueueDone, AtTop
  <2>2. r \in Run /\ RunOK(r)
    BY <2>1, RunsType DEF Run, RunOK
  <2>3. RunsOK'
    <3> HIDE DEF r
    <3> QED
      BY <2>1, <2>2, ReplaceType
  <2>4. CASE QueueFailed
    <3>1. excused' \in [Msgs -> Nat]
      BY <2>4, ExcuseType DEF QueueFailed
    <3>2. FoldersOK' /\ WindowsOK' /\ CountsOK'
      BY <2>4, <3>1 DEF QueueFailed, FoldersOK, WindowsOK, CountsOK
    <3> QED
      BY <2>3, <3>2, PartsNext
  <2>5. CASE QueueDone
    <3>1. Top.msg \in Msgs
      BY <2>1, TopRun
    <3>2. FoldersOK'
      BY <2>5, <3>1 DEF QueueDone, FoldersOK
    <3>3. WindowsOK' /\ CountsOK'
      BY <2>5, ExcuseType DEF QueueDone, WindowsOK, CountsOK
    <3> QED
      BY <2>3, <3>2, <3>3, PartsNext
  <2> QED
    BY <1>3, <2>4, <2>5
<1>4. CASE QueueSent \/ ComposeSent
  <2> DEFINE r == [Top EXCEPT !.phase = "filtering"]
  <2>1. runs # <<>> /\ Replace(r) /\ Top.phase = "sending"
    BY <1>4 DEF QueueSent, ComposeSent, AtTop
  <2>2. Top \in Run /\ Top.msg \in Msgs /\ (Top.kind = "queue" => Top.num \in Nums)
    BY <2>1, TopRun, RunsType
  <2>3. r \in Run /\ RunOK(r)
    BY <2>2, NoneAssumption DEF Run, RunOK
  <2>4. RunsOK'
    <3> HIDE DEF r
    <3> QED
      BY <2>1, <2>3, ReplaceType
  <2>5. CASE QueueSent
    BY <2>4, <2>5, PartsNext DEF QueueSent, FoldersOK, WindowsOK, CountsOK
  <2>6. CASE ComposeSent
    <3>1. PICK gone \in SUBSET Edited(Top.msg) :
             file' = Without(file, gone) /\ discarded' = discarded \cup gone
      BY <2>6 DEF ComposeSent
    <3>2. file' \in [Nums -> Msgs \cup {None}] /\ gone \subseteq Msgs
      BY <2>2, <3>1, WithoutType, QueueInMsgs DEF FoldersOK
    <3>3. FoldersOK'
      BY <2>6, <3>1, <3>2 DEF ComposeSent, FoldersOK
    <3>4. WindowsOK' /\ CountsOK'
      BY <2>6 DEF ComposeSent, WindowsOK, CountsOK
    <3> QED
      BY <2>4, <3>3, <3>4, PartsNext
  <2> QED
    BY <1>4, <2>5, <2>6
<1>5. CASE ComposeFailed \/ ComposeDone
  <2>1. RunsOK'
    BY <1>5, ReturnType DEF ComposeFailed, ComposeDone, AtTop
  <2>2. Top.msg \in Msgs
    BY <1>5, TopRun DEF ComposeFailed, ComposeDone, AtTop
  <2>3. excused' \in [Msgs -> Nat]
    BY <1>5, ExcuseType DEF ComposeFailed, ComposeDone, CountsOK
  <2>4. FoldersOK'
    BY <1>5, <2>2 DEF ComposeFailed, ComposeDone, FoldersOK
  <2>5. WindowsOK' /\ CountsOK'
    BY <1>5, <2>2, <2>3 DEF ComposeFailed, ComposeDone, WindowsOK, CountsOK
  <2> QED
    BY <2>1, <2>4, <2>5, PartsNext
<1> QED
  BY <1>1, <1>2, <1>3, <1>4, <1>5 DEF RunNext

\* The run that has its message taken.
LEMMA TakenRun ==
    ASSUME TypeOK, ServerTakes
    PROVE  \E i \in 1..Depth :
              /\ runs[i].phase = "sending" /\ ~runs[i].took /\ runs[i].msg \in Msgs
              /\ taken[runs[i].msg] < MaxTaken
              /\ taken' = [taken EXCEPT ![runs[i].msg] = @ + 1]
              /\ runs' \in Seq(Run) /\ Depth' = Depth
              /\ runs'[i] = [runs[i] EXCEPT !.took = TRUE]
              /\ \A j \in 1..Depth : j # i => runs'[j] = runs[j]
<1>1. PICK i \in 1..Depth :
         /\ runs[i].phase = "sending" /\ ~runs[i].took
         /\ taken[runs[i].msg] < MaxTaken
         /\ runs' = [runs EXCEPT ![i].took = TRUE]
         /\ taken' = [taken EXCEPT ![runs[i].msg] = @ + 1]
  BY DEF ServerTakes
<1>2. runs[i] \in Run /\ RunOK(runs[i]) /\ runs \in Seq(Run)
  BY RunsType, TypeParts DEF RunsOK
<1>3. runs[i].msg \in Msgs
  BY <1>1, <1>2 DEF Run, RunOK
<1> DEFINE r == [runs[i] EXCEPT !.took = TRUE]
<1>4. r \in Run
  BY <1>2 DEF Run
<1>5. runs' = [runs EXCEPT ![i] = r]
  BY <1>1
<1> HIDE DEF r
<1>6. runs' \in Seq(Run) /\ Depth' = Depth /\ runs'[i] = r
      /\ \A j \in 1..Depth : j # i => runs'[j] = runs[j]
  BY <1>2, <1>4, <1>5 DEF Depth
<1> QED
  BY <1>1, <1>3, <1>6 DEF r

LEMMA TakenType ==
    ASSUME TypeOK, ServerTakes
    PROVE  TypeOK'
<1>. RunsOK /\ FoldersOK /\ WindowsOK /\ CountsOK
  BY TypeParts
<1>1. PICK i \in 1..Depth :
              /\ runs[i].phase = "sending" /\ ~runs[i].took /\ runs[i].msg \in Msgs
              /\ taken[runs[i].msg] < MaxTaken
              /\ taken' = [taken EXCEPT ![runs[i].msg] = @ + 1]
              /\ runs' \in Seq(Run) /\ Depth' = Depth
              /\ runs'[i] = [runs[i] EXCEPT !.took = TRUE]
              /\ \A j \in 1..Depth : j # i => runs'[j] = runs[j]
  BY TakenRun
<1>2. runs[i] \in Run /\ RunOK(runs[i])
  BY RunsType DEF RunsOK
<1>3. RunOK(runs'[i])
  BY <1>1, <1>2 DEF Run, RunOK
<1>4. \A j \in 1..Depth : RunOK(runs'[j])
  BY <1>1, <1>3 DEF RunsOK
<1>5. RunsOK'
  BY <1>1, <1>4 DEF RunsOK
<1>6. CountsOK'
  <2> DEFINE m == runs[i].msg
  <2>1. m \in Msgs /\ taken[m] + 1 \in 0..MaxTaken
    BY <1>1, BoundsAssumption DEF CountsOK
  <2>2. taken' = [taken EXCEPT ![m] = taken[m] + 1] /\ excused' = excused
    BY <1>1 DEF ServerTakes
  <2> HIDE DEF m
  <2> QED
    BY <2>1, <2>2 DEF CountsOK
<1>7. FoldersOK' /\ WindowsOK'
  BY DEF FoldersOK, WindowsOK, ServerTakes
<1> QED
  BY <1>5, <1>6, <1>7, PartsNext

LEMMA CrashType ==
    ASSUME TypeOK, Crash
    PROVE  TypeOK'
<1>. RunsOK /\ FoldersOK /\ WindowsOK /\ CountsOK
  BY TypeParts
<1>1. runs' = <<>> /\ Depth' = 0
  BY DEF Crash, Depth
<1>2. RunsOK'
  BY <1>1, BoundsAssumption DEF RunsOK
<1>3. excused' \in [Msgs -> Nat]
  BY ExcuseType DEF Crash
<1>4. FoldersOK' /\ WindowsOK' /\ CountsOK'
  BY <1>3 DEF Crash, FoldersOK, WindowsOK, CountsOK
<1> QED
  BY <1>2, <1>4, PartsNext

LEMMA StutterType ==
    ASSUME TypeOK, UNCHANGED vars
    PROVE  TypeOK'
<1>. RunsOK /\ FoldersOK /\ WindowsOK /\ CountsOK
  BY TypeParts
<1> QED
  BY PartsNext DEF vars, RunsOK, FoldersOK, WindowsOK, CountsOK, Depth

\* Windows, folders, runs and counters are what they are declared to be, and a run
\* that sends or files a message has one.
THEOREM TypeCorrect == Spec => []TypeOK
<1>1. TypeOK /\ [Next]_vars => TypeOK'
  BY UserType, RunType, TakenType, CrashType, StutterType DEF Next
<1> QED
  BY InitType, <1>1, PTL DEF Spec

-----------------------------------------------------------------------------
\* What holds for any user.

LEMMA InitInv == Init => Inv
BY DEF Init, Inv, FileOK, WindowOK, OwedOK, TookOK, Depth

\* A message that is put into the queue was not in it; its number was free.
LEMMA QueuedFile ==
    ASSUME TypeOK, Inv, NEW m \in Msgs, SendLater(m)
    PROVE  /\ m \notin Queue(file)
           /\ \E n \in Nums, gone \in SUBSET Edited(m) :
                 /\ file[n] = None
                 /\ file' = [k \in Nums |-> IF k = n THEN m
                               ELSE IF file[k] \in gone THEN None ELSE file[k]]
                 /\ discarded' = discarded \cup gone
<1>1. m \notin Queue(file)
  BY DEF SendLater, Inv, WindowOK, Queue
<1>2. PICK n \in Nums, gone \in SUBSET Edited(m) :
         /\ IsNext(n)
         /\ file' = Without([file EXCEPT ![n] = m], gone)
         /\ discarded' = discarded \cup gone
  BY DEF SendLater
<1>3. file[n] = None
  BY <1>2 DEF IsNext, Nums
<1>4. m \notin gone
  BY <1>1, QueueInMsgs
<1>5. file \in [Nums -> Msgs \cup {None}]
  BY DEF TypeOK
<1>6. file' = [k \in Nums |-> IF k = n THEN m
                 ELSE IF file[k] \in gone THEN None ELSE file[k]]
  BY <1>2, <1>4, <1>5 DEF Without
<1> QED
  BY <1>1, <1>2, <1>3, <1>6

LEMMA UserInv ==
    ASSUME TypeOK, Inv, UserNext
    PROVE  Inv'
<1>. FileOK /\ WindowOK /\ OwedOK /\ TookOK
  BY DEF Inv
<1>1. ASSUME NEW m \in Msgs, Compose(m) PROVE Inv'
  <2>1. /\ runs' = runs /\ Depth' = Depth /\ file' = file /\ taken' = taken
        /\ window[m] = "none" /\ \A w : w # m => window'[w] = window[w]
    BY <1>1 DEF Compose, Depth, TypeOK
  <2>2. FileOK' /\ TookOK'
    BY <2>1 DEF FileOK, TookOK
  <2>3. WindowOK'
    BY <2>1 DEF WindowOK
  <2>4. OwedOK'
    BY <2>1 DEF OwedOK
  <2> QED
    BY <2>2, <2>3, <2>4 DEF Inv
<1>2. ASSUME NEW m \in Msgs, Close(m) PROVE Inv'
  <2>1. /\ runs' = runs /\ Depth' = Depth /\ file' = file /\ taken' = taken
        /\ window[m] = "open" /\ \A w : w # m => window'[w] = window[w]
    BY <1>2 DEF Close, Depth, TypeOK
  <2>2. FileOK' /\ TookOK'
    BY <2>1 DEF FileOK, TookOK
  <2>3. WindowOK'
    BY <2>1 DEF WindowOK
  <2>4. OwedOK'
    BY <2>1 DEF OwedOK
  <2> QED
    BY <2>2, <2>3, <2>4 DEF Inv
<1>3. ASSUME NEW m \in Msgs, SendLater(m) PROVE Inv'
  <2>1. PICK n \in Nums, gone \in SUBSET Edited(m) :
           /\ file[n] = None
           /\ file' = [k \in Nums |-> IF k = n THEN m
                         ELSE IF file[k] \in gone THEN None ELSE file[k]]
    BY <1>3, QueuedFile
  <2>2. /\ runs' = runs /\ Depth' = Depth /\ taken' = taken
        /\ window[m] = "open" /\ window'[m] = "closed"
        /\ \A w : w # m => window'[w] = window[w]
    BY <1>3 DEF SendLater, Depth, TypeOK
  <2>3. /\ file'[n] = m /\ m # None
        /\ \A k \in Nums : k # n => file'[k] = file[k] \/ file'[k] = None
        /\ \A k \in Nums : file[k] # m
    BY <2>1, <2>2, NoneAssumption DEF WindowOK
  <2>4. FileOK'
    BY <2>3 DEF FileOK
  <2>5. TookOK'
    BY <2>2 DEF TookOK
  <2>6. WindowOK'
    BY <2>2, <2>3 DEF WindowOK
  <2>7. OwedOK'
    <3> SUFFICES ASSUME NEW i \in 1..Depth, NEW o \in runs[i].owed
                 PROVE  window'[o] = "closed"
                        /\ \A k \in Nums : file'[k] = o => k \in runs[i].todo
      BY <2>2 DEF OwedOK
    <3>1. window[o] = "closed" /\ \A k \in Nums : file[k] = o => k \in runs[i].todo
      BY DEF OwedOK
    <3>2. o # m /\ o # None
      <4>1. o \in Msgs
        BY RunsType DEF Run
      <4> QED
        BY <3>1, <2>2, <4>1, NoneAssumption
    <3> QED
      BY <3>1, <3>2, <2>2, <2>3
  <2> QED
    BY <2>4, <2>5, <2>6, <2>7 DEF Inv
<1>4. ASSUME NEW m \in Msgs, Send(m) PROVE Inv'
  <2> DEFINE r == [kind |-> "compose", todo |-> {}, num |-> 0, msg |-> m,
                   phase |-> "sending", took |-> FALSE, owed |-> {}]
  <2>1. r \in Run /\ Depth \in Nat
    BY RunsType DEF Run
  <2>2. /\ runs'[Depth + 1] = r /\ Depth' = Depth + 1
        /\ \A i \in 1..Depth : runs'[i] = runs[i]
    <3>1. runs' = Append(runs, r)
      BY <1>4 DEF Send
    <3> HIDE DEF r
    <3> QED
      BY <2>1, <3>1, Pushed
  <2>3. \A i : i \in 1..Depth' <=> i \in 1..Depth \/ i = Depth + 1
    BY <2>1, <2>2
  <2>4. /\ file' = file /\ taken' = taken
        /\ window[m] = "open" /\ window'[m] = "sending"
        /\ \A w : w # m => window'[w] = window[w]
    BY <1>4 DEF Send, TypeOK
  <2>5. FileOK'
    BY <2>4 DEF FileOK
  <2>6. TookOK'
    BY <2>2, <2>3, <2>4 DEF TookOK
  <2>7. WindowOK'
    BY <2>1, <2>2, <2>3, <2>4 DEF WindowOK
  <2>8. OwedOK'
    BY <2>2, <2>3, <2>4 DEF OwedOK
  <2> QED
    BY <2>5, <2>6, <2>7, <2>8 DEF Inv
<1>5. ASSUME NEW n \in Nums, Delete(n) PROVE Inv'
  <2>1. /\ runs' = runs /\ Depth' = Depth /\ taken' = taken /\ window' = window
        /\ \A k \in Nums : file'[k] = file[k] \/ file'[k] = None
    BY <1>5 DEF Delete, Depth, TypeOK
  <2>2. FileOK' /\ TookOK'
    BY <2>1 DEF FileOK, TookOK
  <2>3. WindowOK'
    BY <2>1 DEF WindowOK
  <2>4. OwedOK'
    BY <2>1, RunsType, NoneAssumption DEF OwedOK, Run
  <2> QED
    BY <2>2, <2>3, <2>4 DEF Inv
<1>6. CASE StartQueue
  <2> DEFINE r == [kind |-> "queue", todo |-> {n \in Nums : file[n] # None}, num |-> 0,
                   msg |-> None, phase |-> "next", took |-> FALSE, owed |-> Queue(file)]
  <2>1. r \in Run /\ Depth \in Nat
    BY RunsType, QueueInMsgs DEF Run
  <2>2. /\ runs'[Depth + 1] = r /\ Depth' = Depth + 1
        /\ \A i \in 1..Depth : runs'[i] = runs[i]
    <3>1. runs' = Append(runs, r)
      BY <1>6 DEF StartQueue
    <3> HIDE DEF r
    <3> QED
      BY <2>1, <3>1, Pushed
  <2>3. \A i : i \in 1..Depth' <=> i \in 1..Depth \/ i = Depth + 1
    BY <2>1, <2>2
  <2>4. file' = file /\ taken' = taken /\ window' = window
    BY <1>6 DEF StartQueue
  <2>5. FileOK'
    BY <2>4 DEF FileOK
  <2>6. TookOK'
    BY <2>2, <2>3, <2>4 DEF TookOK
  <2>7. WindowOK'
    BY <2>1, <2>2, <2>3, <2>4 DEF WindowOK
  <2>8. OwedOK'
    BY <2>2, <2>3, <2>4 DEF OwedOK, Queue, WindowOK
  <2> QED
    BY <2>5, <2>6, <2>7, <2>8 DEF Inv
<1> QED
  BY <1>1, <1>2, <1>3, <1>4, <1>5, <1>6 DEF UserNext

\* A run goes on: it keeps its kind, owes no more, and has what it needs to be
\* where it is.
LEMMA GoOnInv ==
    ASSUME TypeOK, Inv, runs # <<>>, NEW r \in Run, Replace(r),
           r.kind = Top.kind,
           r.kind = "compose" => r.msg = Top.msg /\ r.phase # "next",
           \A m \in r.owed : m \in Top.owed
              /\ \A n \in Nums : file[n] = m => n \in r.todo,
           r.phase = "filtering" => r.took,
           r.took => r.phase # "next" /\ taken[r.msg] > 0,
           window' = window, taken' = taken,
           \A k \in Nums : file'[k] = file[k] \/ file'[k] = None
    PROVE  Inv'
<1>. FileOK /\ WindowOK /\ OwedOK /\ TookOK
  BY DEF Inv
<1>1. /\ Depth' = Depth /\ Depth \in 1..Depth /\ Top = runs[Depth]
      /\ runs'[Depth] = r
      /\ \A i \in 1..Depth : i # Depth => runs'[i] = runs[i]
  BY Replaced, RunsType
<1>2. FileOK'
  BY DEF FileOK
<1>3. TookOK'
  BY <1>1 DEF TookOK
<1>4. WindowOK'
  <2>1. \A n \in Nums : file'[n] # None => window'[file'[n]] = "closed"
    BY DEF WindowOK
  <2>2. \A i \in 1..Depth : runs'[i].kind = "compose"
           => runs[i].kind = "compose" /\ runs'[i].msg = runs[i].msg /\ runs'[i].phase # "next"
    BY <1>1 DEF WindowOK
  <2> QED
    BY <1>1, <2>1, <2>2 DEF WindowOK
<1>5. OwedOK'
  <2> SUFFICES ASSUME NEW i \in 1..Depth, NEW m \in runs'[i].owed
               PROVE  window[m] = "closed"
                      /\ \A k \in Nums : file'[k] = m => k \in runs'[i].todo
    BY <1>1 DEF OwedOK
  <2>1. m \in runs[i].owed /\ \A k \in Nums : file[k] = m => k \in runs'[i].todo
    BY <1>1 DEF OwedOK
  <2>2. m # None
    BY <2>1, RunsType, NoneAssumption DEF Run
  <2> QED
    BY <2>1, <2>2 DEF OwedOK
<1> QED
  BY <1>2, <1>3, <1>4, <1>5 DEF Inv

\* A run ends; the window that it has sent from is free.
LEMMA EndInv ==
    ASSUME TypeOK, Inv, runs # <<>>, Return,
           file' = file, taken' = taken,
           \A w \in Msgs : window'[w] = window[w] \/ (Top.kind = "compose" /\ w = Top.msg)
    PROVE  Inv'
<1>. FileOK /\ WindowOK /\ OwedOK /\ TookOK
  BY DEF Inv
<1>1. /\ Depth' = Depth - 1 /\ Depth \in Nat /\ Depth \in 1..Depth /\ Top = runs[Depth]
      /\ \A i \in 1..(Depth - 1) : runs'[i] = runs[i]
  BY Returned, RunsType
<1>2. \A i \in 1..Depth' : i \in 1..Depth /\ i # Depth /\ runs'[i] = runs[i]
  BY <1>1
<1>3. \A w \in Msgs : window[w] = "closed" => window'[w] = window[w]
  BY <1>1 DEF WindowOK
<1>4. FileOK' /\ TookOK'
  BY <1>2 DEF FileOK, TookOK
<1>5. WindowOK'
  <2>1. \A n \in Nums : file'[n] # None => window'[file'[n]] = "closed"
    BY <1>3 DEF WindowOK, TypeOK
  <2>2. ASSUME NEW i \in 1..Depth', runs'[i].kind = "compose"
        PROVE  runs'[i].phase # "next" /\ window'[runs'[i].msg] = "sending"
    <3>1. /\ runs[i].phase # "next" /\ window[runs[i].msg] = "sending"
          /\ Top.kind = "compose" => runs[i].msg # Top.msg
      BY <1>1, <1>2, <2>2 DEF WindowOK
    <3>2. runs[i].msg \in Msgs
      BY <1>2, <3>1, RunsType, TypeParts DEF RunsOK, RunOK, Run
    <3> QED
      BY <1>2, <3>1, <3>2
  <2> QED
    BY <1>2, <2>1, <2>2 DEF WindowOK
<1>6. OwedOK'
  BY <1>2, <1>3, RunsType DEF OwedOK, Run
<1> QED
  BY <1>4, <1>5, <1>6 DEF Inv

LEMMA RunInv ==
    ASSUME TypeOK, Inv, RunNext
    PROVE  Inv'
<1>. FileOK /\ WindowOK /\ OwedOK /\ TookOK
  BY DEF Inv
<1>1. CASE NextMsg
  <2>1. PICK n \in Top.todo :
           Replace([Top EXCEPT !.todo = @ \ {n}, !.num = n, !.msg = file[n],
                               !.phase = IF file[n] = None THEN "next" ELSE "sending",
                               !.took = FALSE, !.owed = @ \ {file[n]}])
    BY <1>1 DEF NextMsg
  <2> DEFINE r == [Top EXCEPT !.todo = @ \ {n}, !.num = n, !.msg = file[n],
                              !.phase = IF file[n] = None THEN "next" ELSE "sending",
                              !.took = FALSE, !.owed = @ \ {file[n]}]
  <2>2. runs # <<>> /\ Top.kind = "queue" /\ window' = window /\ taken' = taken /\ file' = file
    BY <1>1 DEF NextMsg, AtTop
  <2>3. n \in Nums /\ file[n] \in Msgs \cup {None} /\ Top \in Run
    BY <2>2, TopRun, RunsType DEF TypeOK
  <2>4. /\ r \in Run /\ r.kind = "queue" /\ ~r.took /\ r.phase \in {"next", "sending"}
        /\ r.owed = Top.owed \ {file[n]} /\ r.todo = Top.todo \ {n}
    BY <2>2, <2>3 DEF Run
  <2>5. \A m \in r.owed : m \in Top.owed /\ \A k \in Nums : file[k] = m => k \in r.todo
    <3>1. \A m \in Top.owed : \A k \in Nums : file[k] = m => k \in Top.todo
      BY <2>2, RunsType DEF OwedOK
    <3> HIDE DEF r
    <3> QED
      BY <2>4, <3>1
  <2>6. Replace(r)
    BY <2>1
  <2> HIDE DEF r
  <2> QED
    BY <2>2, <2>4, <2>5, <2>6, GoOnInv
<1>2. CASE EndQueue
  <2>1. runs # <<>> /\ Return /\ file' = file /\ taken' = taken
    BY <1>2 DEF EndQueue, AtTop
  <2>2. \A w \in Msgs : window'[w] = window[w] \/ (Top.kind = "compose" /\ w = Top.msg)
    BY <1>2 DEF EndQueue
  <2> QED
    BY <2>1, <2>2, EndInv
<1>3. CASE QueueFailed \/ QueueDone
  <2> DEFINE r == [Top EXCEPT !.phase = "next", !.msg = None, !.took = FALSE]
  <2>1. /\ runs # <<>> /\ Replace(r) /\ Top.phase # "next" /\ Top.kind = "queue"
        /\ window' = window /\ taken' = taken
        /\ \A k \in Nums : file'[k] = file[k] \/ file'[k] = None
    BY <1>3 DEF QueueFailed, QueueDone, AtTop, TypeOK
  <2>2. /\ r \in Run /\ r.kind = "queue" /\ ~r.took /\ r.phase = "next"
        /\ r.owed = Top.owed /\ r.todo = Top.todo
    BY <2>1, RunsType DEF Run
  <2>3. \A m \in Top.owed : \A k \in Nums : file[k] = m => k \in Top.todo
    BY <2>1, RunsType DEF OwedOK
  <2> HIDE DEF r
  <2> QED
    BY <2>1, <2>2, <2>3, GoOnInv
<1>4. CASE QueueSent \/ ComposeSent
  <2> DEFINE r == [Top EXCEPT !.phase = "filtering"]
  <2>1. /\ runs # <<>> /\ Replace(r) /\ Top.phase = "sending" /\ Top.took
        /\ window' = window /\ taken' = taken
        /\ \A k \in Nums : file'[k] = file[k] \/ file'[k] = None
    BY <1>4 DEF QueueSent, ComposeSent, AtTop, TypeOK, Without
  <2>2. /\ r \in Run /\ r.kind = Top.kind /\ r.took /\ r.phase = "filtering"
        /\ r.msg = Top.msg /\ r.owed = Top.owed /\ r.todo = Top.todo
    BY <2>1, RunsType DEF Run
  <2>3. \A m \in Top.owed : \A k \in Nums : file[k] = m => k \in Top.todo
    BY <2>1, RunsType DEF OwedOK
  <2>4. taken[Top.msg] > 0
    BY <2>1, RunsType DEF TookOK
  <2> HIDE DEF r
  <2> QED
    BY <2>1, <2>2, <2>3, <2>4, GoOnInv
<1>5. CASE ComposeFailed \/ ComposeDone
  <2>1. runs # <<>> /\ Return /\ file' = file /\ taken' = taken /\ Top.kind = "compose"
    BY <1>5 DEF ComposeFailed, ComposeDone, AtTop
  <2>2. \A w \in Msgs : window'[w] = window[w] \/ (Top.kind = "compose" /\ w = Top.msg)
    BY <1>5, <2>1 DEF ComposeFailed, ComposeDone, TypeOK
  <2> QED
    BY <2>1, <2>2, EndInv
<1> QED
  BY <1>1, <1>2, <1>3, <1>4, <1>5 DEF RunNext

LEMMA TakenInv ==
    ASSUME TypeOK, Inv, ServerTakes
    PROVE  Inv'
<1>. FileOK /\ WindowOK /\ OwedOK /\ TookOK
  BY DEF Inv
<1>1. PICK i \in 1..Depth :
              /\ runs[i].phase = "sending" /\ ~runs[i].took /\ runs[i].msg \in Msgs
              /\ taken[runs[i].msg] < MaxTaken
              /\ taken' = [taken EXCEPT ![runs[i].msg] = @ + 1]
              /\ runs' \in Seq(Run) /\ Depth' = Depth
              /\ runs'[i] = [runs[i] EXCEPT !.took = TRUE]
              /\ \A j \in 1..Depth : j # i => runs'[j] = runs[j]
  BY TakenRun
<1>2. file' = file /\ window' = window
  BY DEF ServerTakes
<1>3. \A j \in 1..Depth :
         /\ runs'[j].kind = runs[j].kind /\ runs'[j].msg = runs[j].msg
         /\ runs'[j].phase = runs[j].phase /\ runs'[j].todo = runs[j].todo
         /\ runs'[j].owed = runs[j].owed
         /\ j # i => runs'[j].took = runs[j].took
         /\ j = i => runs'[j].took
  BY <1>1, RunsType DEF Run
<1>4. FileOK'
  BY <1>2 DEF FileOK
<1>5. WindowOK'
  BY <1>1, <1>2, <1>3 DEF WindowOK
<1>6. OwedOK'
  BY <1>1, <1>2, <1>3 DEF OwedOK
<1>7. \A m \in Msgs : taken[m] > 0 \/ m = runs[i].msg => taken'[m] > 0
  <2>1. taken \in [Msgs -> 0..MaxTaken] /\ MaxTaken \in Nat
    BY BoundsAssumption DEF TypeOK
  <2>2. SUFFICES ASSUME NEW m \in Msgs, taken[m] > 0 \/ m = runs[i].msg
                 PROVE  taken'[m] > 0
    OBVIOUS
  <2>3. taken[m] \in Nat
    BY <2>1
  <2>4. taken'[m] = IF m = runs[i].msg THEN taken[m] + 1 ELSE taken[m]
    BY <1>1, <2>1
  <2> QED
    BY <2>2, <2>3, <2>4
<1>8. TookOK'
  <2> SUFFICES ASSUME NEW j \in 1..Depth
               PROVE  /\ runs'[j].phase = "filtering" => runs'[j].took
                      /\ runs'[j].took => runs'[j].phase # "next" /\ taken'[runs'[j].msg] > 0
    BY <1>1 DEF TookOK
  <2>1. runs[j].phase # "next" => runs[j].msg \in Msgs
    BY RunsType, TypeParts DEF RunsOK, RunOK, Run
  <2>2. CASE j = i
    BY <1>1, <1>3, <1>7, <2>2
  <2>3. CASE j # i
    <3>1. /\ runs[j].phase = "filtering" => runs[j].took
          /\ runs[j].took => runs[j].phase # "next" /\ taken[runs[j].msg] > 0
      BY DEF TookOK
    <3>2. runs[j].took => taken'[runs[j].msg] > 0
      BY <1>7, <2>1, <3>1
    <3> QED
      BY <1>3, <2>3, <3>1, <3>2
  <2> QED
    BY <2>2, <2>3
<1> QED
  BY <1>4, <1>5, <1>6, <1>8 DEF Inv

LEMMA CrashInv ==
    ASSUME TypeOK, Inv, Crash
    PROVE  Inv'
<1>1. Depth' = 0 /\ file' = file
  BY DEF Crash, Depth
<1>2. FileOK'
  BY <1>1 DEF Inv, FileOK
<1>3. \A m \in Msgs : window[m] = "closed" => window'[m] = "closed"
  BY DEF Crash
<1>4. WindowOK' /\ OwedOK' /\ TookOK'
  BY <1>1, <1>3 DEF Inv, WindowOK, OwedOK, TookOK, TypeOK
<1> QED
  BY <1>2, <1>4 DEF Inv

THEOREM Invariance == Spec => [](TypeOK /\ Inv)
<1>1. TypeOK /\ Inv /\ UNCHANGED vars => Inv'
  BY DEF vars, Inv, FileOK, WindowOK, OwedOK, TookOK, Depth
<1>2. TypeOK /\ Inv /\ [Next]_vars => Inv'
  BY <1>1, UserInv, RunInv, TakenInv, CrashInv DEF Next
<1> QED
  BY InitInv, <1>2, TypeCorrect, PTL DEF Spec

\* A run over the queue leaves no message untried that it has found, whatever
\* fails and whatever the user does meanwhile.
THEOREM EverythingIsTried == Spec => []Tried
<1>1. TypeOK /\ Inv => Tried
  BY DEF Inv, OwedOK, Tried, Queue
<1> QED
  BY <1>1, Invariance, PTL

-----------------------------------------------------------------------------
\* What a careful user adds.

LEMMA InitCareful == Init => CarefulInv
BY BoundsAssumption DEF Init, CarefulInv, AloneOK, EditedOK, SpentOK, Depth

\* A run that sends or files a message has one.
LEMMA HasMsg ==
    ASSUME TypeOK, NEW i \in 1..Depth, runs[i].phase # "next"
    PROVE  runs[i].msg \in Msgs /\ (runs[i].kind = "queue" => runs[i].num \in Nums)
BY RunsType, TypeParts DEF RunsOK, RunOK, Run

LEMMA BusyMsg ==
    ASSUME TypeOK, NEW i \in 1..Depth, runs[i].kind = "queue", runs[i].phase # "next"
    PROVE  runs[i].msg \in BeingSent
BY HasMsg, NoneAssumption DEF BeingSent

\* No two runs send or file the same message.
LEMMA OneRun ==
    ASSUME TypeOK, Inv, AloneOK,
           NEW i \in 1..Depth, NEW j \in 1..Depth,
           runs[i].phase # "next", runs[j].phase # "next", runs[i].msg = runs[j].msg
    PROVE  i = j
<1>1. runs[i].kind \in {"queue", "compose"} /\ runs[j].kind \in {"queue", "compose"}
  BY RunsType DEF Run
<1>2. \A k \in 1..Depth : runs[k].kind = "queue" /\ runs[k].phase # "next"
         => window[runs[k].msg] = "closed"
  <2> SUFFICES ASSUME NEW k \in 1..Depth, runs[k].kind = "queue", runs[k].phase # "next"
               PROVE  window[runs[k].msg] = "closed"
    OBVIOUS
  <2>1. runs[k].num \in Nums /\ file[runs[k].num] = runs[k].msg /\ runs[k].msg # None
    BY HasMsg, NoneAssumption DEF AloneOK
  <2> QED
    BY <2>1 DEF Inv, WindowOK
<1>3. \A k \in 1..Depth : runs[k].kind = "compose" => window[runs[k].msg] = "sending"
  BY DEF Inv, WindowOK
<1> QED
  BY <1>1, <1>2, <1>3 DEF AloneOK, Inv, WindowOK

\* What keeps SpentOK when no server takes a message.
LEMMA SpentStep ==
    ASSUME TypeOK, SpentOK, taken' = taken, excused' \in [Msgs -> Nat],
           \A m \in Msgs :
              /\ excused'[m] >= excused[m]
              /\ Spent(m) => Spent(m)' \/ excused'[m] >= excused[m] + 1
    PROVE  SpentOK'
<1> SUFFICES ASSUME NEW m \in Msgs
             PROVE  taken[m] <= excused'[m] + (IF Spent(m)' THEN 1 ELSE 0)
  BY DEF SpentOK
<1>1. taken[m] \in Nat /\ excused[m] \in Nat /\ excused'[m] \in Nat
  BY BoundsAssumption DEF TypeOK
<1>2. taken[m] <= excused[m] + (IF Spent(m) THEN 1 ELSE 0)
  BY DEF SpentOK
<1>3. excused'[m] >= excused[m] /\ (Spent(m) => Spent(m)' \/ excused'[m] >= excused[m] + 1)
  OBVIOUS
<1>4. CASE Spent(m)
  BY <1>1, <1>2, <1>3, <1>4
<1>5. CASE ~Spent(m)
  <2>1. taken[m] <= excused[m]
    BY <1>1, <1>2, <1>5
  <2> QED
    BY <1>1, <1>3, <2>1
<1> QED
  BY <1>4, <1>5

\* Nothing is excused: what was spent is spent.
LEMMA SpentStays ==
    ASSUME TypeOK, SpentOK, taken' = taken, excused' = excused,
           \A m \in Msgs : Spent(m) => Spent(m)'
    PROVE  SpentOK'
<1>1. excused \in [Msgs -> Nat]
  BY DEF TypeOK
<1> QED
  BY <1>1, SpentStep

LEMMA UserCareful ==
    ASSUME Careful, TypeOK, Inv, CarefulInv, UserNext
    PROVE  CarefulInv'
<1>. AloneOK /\ EditedOK /\ SpentOK /\ WindowOK /\ Depth \in Nat
  BY RunsType DEF CarefulInv, Inv
<1>1. ASSUME NEW m \in Msgs, Compose(m) \/ Close(m) PROVE CarefulInv'
  <2>1. /\ runs' = runs /\ Depth' = Depth /\ file' = file
        /\ taken' = taken /\ excused' = excused
        /\ window[m] # "closed" /\ window[m] # "sending"
        /\ \A w \in Msgs : w # m => window'[w] = window[w] /\ target'[w] = target[w]
    BY <1>1 DEF Compose, Close, Depth, TypeOK
  <2>2. AloneOK'
    BY <2>1 DEF AloneOK
  <2>3. EditedOK'
    <3> SUFFICES ASSUME NEW i \in 1..Depth, NEW j \in 1..Depth, i < j,
                        runs[i].kind = "queue", runs[j].kind = "compose",
                        runs[i].phase # "next"
                 PROVE  target'[runs[j].msg] # runs[i].msg
      BY <2>1 DEF EditedOK
    <3>1. runs[j].msg \in Msgs /\ runs[j].msg # m
      BY <2>1, HasMsg DEF WindowOK
    <3> QED
      BY <2>1, <3>1 DEF EditedOK
  <2>4. \A w \in Msgs : Spent(w) => Spent(w)'
    BY <2>1 DEF Spent, Queue
  <2>5. SpentOK'
    BY <2>1, <2>4, SpentStays
  <2> QED
    BY <2>2, <2>3, <2>5 DEF CarefulInv
<1>2. ASSUME NEW m \in Msgs, SendLater(m) PROVE CarefulInv'
  <2>1. PICK n \in Nums, gone \in SUBSET Edited(m) :
           /\ file[n] = None
           /\ file' = [k \in Nums |-> IF k = n THEN m
                         ELSE IF file[k] \in gone THEN None ELSE file[k]]
    BY <1>2, QueuedFile
  <2>2. /\ runs' = runs /\ Depth' = Depth /\ target' = target
        /\ taken' = taken /\ excused' = excused
        /\ window[m] = "open" /\ window'[m] = "closed"
        /\ \A w \in Msgs : w # m => window'[w] = window[w]
        /\ target[m] \notin BeingSent
    BY <1>2 DEF SendLater, Depth, TypeOK, LeftAlone
  <2>3. AloneOK'
    <3> SUFFICES ASSUME NEW i \in 1..Depth, runs[i].kind = "queue", runs[i].phase # "next"
                 PROVE  file'[runs[i].num] = runs[i].msg
      BY <2>2 DEF AloneOK
    <3>1. /\ runs[i].num \in Nums /\ runs[i].msg # None
          /\ file[runs[i].num] = runs[i].msg
      BY HasMsg, NoneAssumption DEF AloneOK
    <3>2. runs[i].msg \notin gone
      BY <2>2, BusyMsg DEF Edited
    <3> QED
      BY <2>1, <3>1, <3>2
  <2>4. EditedOK'
    BY <2>2 DEF EditedOK
  <2>5. \A w \in Msgs : Spent(w) => Spent(w)'
    <3>1. \A k \in Nums : file'[k] \in {m, None, file[k]}
      BY <2>1
    <3>2. \A w \in Msgs : w # m /\ w \notin Queue(file) => w \notin Queue(file')
      BY <3>1 DEF Queue
    <3> QED
      BY <2>2, <3>2 DEF Spent
  <2>6. SpentOK'
    BY <2>2, <2>5, SpentStays
  <2> QED
    BY <2>3, <2>4, <2>6 DEF CarefulInv
<1>3. ASSUME NEW m \in Msgs, Send(m) PROVE CarefulInv'
  <2> DEFINE r == [kind |-> "compose", todo |-> {}, num |-> 0, msg |-> m,
                   phase |-> "sending", took |-> FALSE, owed |-> {}]
  <2>1. r \in Run
    BY DEF Run
  <2>2. /\ runs'[Depth + 1] = r /\ Depth' = Depth + 1
        /\ \A i \in 1..Depth : runs'[i] = runs[i]
    <3>1. runs' = Append(runs, r)
      BY <1>3 DEF Send
    <3> HIDE DEF r
    <3> QED
      BY <2>1, <3>1, Pushed
  <2>3. /\ \A i : i \in 1..Depth' <=> i \in 1..Depth \/ i = Depth + 1
        /\ \A i \in 1..Depth : i < Depth + 1
    BY <2>2
  <2>4. /\ file' = file /\ target' = target /\ taken' = taken /\ excused' = excused
        /\ window[m] = "open"
        /\ \A w \in Msgs : w # m => window'[w] = window[w]
        /\ target[m] \notin BeingSent
    BY <1>3 DEF Send, TypeOK, LeftAlone
  <2>5. AloneOK'
    BY <2>2, <2>3, <2>4 DEF AloneOK
  <2>6. EditedOK'
    <3> SUFFICES ASSUME NEW i \in 1..Depth', NEW j \in 1..Depth', i < j,
                        runs'[i].kind = "queue", runs'[j].kind = "compose",
                        runs'[i].phase # "next"
                 PROVE  target[runs'[j].msg] # runs'[i].msg
      BY <2>4 DEF EditedOK
    <3>1. i \in 1..Depth /\ runs'[i] = runs[i]
      BY <2>2, <2>3
    <3>2. CASE j \in 1..Depth
      BY <2>2, <3>1, <3>2 DEF EditedOK
    <3>3. CASE j = Depth + 1
      BY <2>2, <2>4, <3>1, <3>3, BusyMsg
    <3> QED
      BY <2>3, <3>2, <3>3
  <2>7. \A w \in Msgs : Spent(w) => Spent(w)'
    BY <2>2, <2>3, <2>4 DEF Spent
  <2>8. SpentOK'
    BY <2>4, <2>7, SpentStays
  <2> QED
    BY <2>5, <2>6, <2>8 DEF CarefulInv
<1>4. ASSUME NEW n \in Nums, Delete(n) PROVE CarefulInv'
  <2>1. /\ runs' = runs /\ Depth' = Depth /\ window' = window /\ target' = target
        /\ taken' = taken /\ excused' = excused /\ file[n] \notin BeingSent
        /\ file' = [file EXCEPT ![n] = None] /\ file \in [Nums -> Msgs \cup {None}]
    BY <1>4 DEF Delete, Depth, TypeOK, LeftAlone
  <2>2. AloneOK'
    <3> SUFFICES ASSUME NEW i \in 1..Depth, runs[i].kind = "queue", runs[i].phase # "next"
                 PROVE  file'[runs[i].num] = runs[i].msg
      BY <2>1 DEF AloneOK
    <3>1. runs[i].num \in Nums /\ file[runs[i].num] = runs[i].msg
      BY HasMsg DEF AloneOK
    <3>2. runs[i].num # n
      BY <2>1, <3>1, BusyMsg
    <3> QED
      BY <2>1, <3>1, <3>2
  <2>3. EditedOK'
    BY <2>1 DEF EditedOK
  <2>4. \A w \in Msgs : Spent(w) => Spent(w)'
    BY <2>1, NoneAssumption DEF Spent, Queue
  <2>5. SpentOK'
    BY <2>1, <2>4, SpentStays
  <2> QED
    BY <2>2, <2>3, <2>5 DEF CarefulInv
<1>5. CASE StartQueue
  <2> DEFINE r == [kind |-> "queue", todo |-> {n \in Nums : file[n] # None}, num |-> 0,
                   msg |-> None, phase |-> "next", took |-> FALSE, owed |-> Queue(file)]
  <2>1. r \in Run
    BY QueueInMsgs DEF Run
  <2>2. /\ runs'[Depth + 1] = r /\ Depth' = Depth + 1
        /\ \A i \in 1..Depth : runs'[i] = runs[i]
    <3>1. runs' = Append(runs, r)
      BY <1>5 DEF StartQueue
    <3> HIDE DEF r
    <3> QED
      BY <2>1, <3>1, Pushed
  <2>3. /\ \A i : i \in 1..Depth' <=> i \in 1..Depth \/ i = Depth + 1
        /\ \A i \in 1..Depth : i < Depth + 1
    BY <2>2
  <2>4. /\ file' = file /\ target' = target /\ taken' = taken /\ excused' = excused
        /\ window' = window
        /\ \A i \in 1..Depth : runs[i].kind # "queue"
    BY <1>5 DEF StartQueue
  <2>5. AloneOK'
    BY <2>2, <2>3, <2>4 DEF AloneOK
  <2>6. EditedOK'
    BY <2>2, <2>3, <2>4 DEF EditedOK
  <2>7. \A w \in Msgs : Spent(w) => Spent(w)'
    BY <2>2, <2>3, <2>4 DEF Spent
  <2>8. SpentOK'
    BY <2>4, <2>7, SpentStays
  <2> QED
    BY <2>5, <2>6, <2>8 DEF CarefulInv
<1> QED
  BY <1>1, <1>2, <1>3, <1>4, <1>5 DEF UserNext

\* A run goes on with the same message, or stops having one.
LEMMA GoOnAlone ==
    ASSUME TypeOK, AloneOK, EditedOK, runs # <<>>, NEW r \in Run, Replace(r),
           r.kind = Top.kind,
           r.kind = "compose" => r.msg = Top.msg,
           r.kind = "queue" /\ r.phase # "next" => file'[r.num] = r.msg,
           \A i \in 1..(Depth - 1) :
              runs[i].kind = "queue" /\ runs[i].phase # "next"
                 => file'[runs[i].num] = file[runs[i].num],
           target' = target
    PROVE  AloneOK' /\ EditedOK'
<1>1. /\ Depth' = Depth /\ Depth \in Nat /\ Depth \in 1..Depth /\ Top = runs[Depth]
      /\ runs'[Depth] = r
      /\ \A i \in 1..Depth : i # Depth => runs'[i] = runs[i]
  BY Replaced, RunsType
<1>2. \A i \in 1..Depth : i = Depth \/ i \in 1..(Depth - 1)
  BY <1>1
<1>3. \A i \in 1..Depth : runs'[i].kind = runs[i].kind
  BY <1>1
<1>4. AloneOK'
  <2>1. \A i, j \in 1..Depth : runs'[i].kind = "queue" /\ runs'[j].kind = "queue" => i = j
    BY <1>3 DEF AloneOK
  <2>2. \A i \in 1..Depth :
           runs'[i].kind = "queue" /\ runs'[i].phase # "next"
              => file'[runs'[i].num] = runs'[i].msg
    BY <1>1, <1>2 DEF AloneOK
  <2> QED
    BY <1>1, <2>1, <2>2 DEF AloneOK
<1>5. EditedOK'
  <2> SUFFICES ASSUME NEW i \in 1..Depth, NEW j \in 1..Depth, i < j,
                      runs'[i].kind = "queue", runs'[j].kind = "compose",
                      runs'[i].phase # "next"
               PROVE  target[runs'[j].msg] # runs'[i].msg
    BY <1>1 DEF EditedOK
  <2>1. i # Depth
    BY <1>1
  <2>2. runs'[i] = runs[i] /\ runs'[j].msg = runs[j].msg /\ runs[j].kind = "compose"
    BY <1>1, <2>1
  <2> QED
    BY <2>2 DEF EditedOK
<1> QED
  BY <1>4, <1>5

\* A run ends.
LEMMA EndAlone ==
    ASSUME TypeOK, AloneOK, EditedOK, runs # <<>>, Return, file' = file, target' = target
    PROVE  AloneOK' /\ EditedOK'
<1>1. /\ Depth' = Depth - 1 /\ Depth \in Nat
      /\ \A i \in 1..(Depth - 1) : runs'[i] = runs[i]
  BY Returned, RunsType
<1>2. \A i \in 1..Depth' : i \in 1..Depth /\ runs'[i] = runs[i]
  BY <1>1
<1> QED
  BY <1>2 DEF AloneOK, EditedOK

\* The other runs keep what they have taken.
LEMMA OthersSpent ==
    ASSUME TypeOK, runs # <<>>, Return \/ \E r \in Run : Replace(r),
           NEW m, NEW i \in 1..Depth, i # Depth, runs[i].took, runs[i].msg = m
    PROVE  \E j \in 1..Depth' : runs'[j].took /\ runs'[j].msg = m
<1>1. Depth \in Nat
  BY RunsType
<1>2. i \in 1..Depth' /\ runs'[i] = runs[i]
  <2>1. CASE Return
    BY <1>1, <2>1, Returned
  <2>2. ASSUME NEW r \in Run, Replace(r) PROVE i \in 1..Depth' /\ runs'[i] = runs[i]
    BY <2>2, Replaced
  <2> QED
    BY <2>1, <2>2
<1> QED
  BY <1>2

LEMMA NextCareful ==
    ASSUME TypeOK, Inv, CarefulInv, NextMsg \/ EndQueue
    PROVE  CarefulInv'
<1>. AloneOK /\ EditedOK /\ SpentOK /\ TookOK /\ Depth \in Nat
  BY RunsType DEF CarefulInv, Inv
<1>1. /\ runs # <<>> /\ Top.kind = "queue" /\ Top.phase = "next"
      /\ UNCHANGED <<file, window, target, taken, excused>>
      /\ Depth \in 1..Depth /\ Top = runs[Depth]
  BY RunsType DEF NextMsg, EndQueue, AtTop
<1>2. ~Top.took
  BY <1>1 DEF TookOK
<1>3. AloneOK' /\ EditedOK' /\ (Return \/ \E r \in Run : Replace(r))
  <2>1. CASE NextMsg
    <3>1. PICK n \in Top.todo :
             Replace([Top EXCEPT !.todo = @ \ {n}, !.num = n, !.msg = file[n],
                                 !.phase = IF file[n] = None THEN "next" ELSE "sending",
                                 !.took = FALSE, !.owed = @ \ {file[n]}])
      BY <2>1 DEF NextMsg
    <3> DEFINE r == [Top EXCEPT !.todo = @ \ {n}, !.num = n, !.msg = file[n],
                                !.phase = IF file[n] = None THEN "next" ELSE "sending",
                                !.took = FALSE, !.owed = @ \ {file[n]}]
    <3>2. n \in Nums /\ file[n] \in Msgs \cup {None} /\ Top \in Run
      BY <1>1, TopRun, RunsType DEF TypeOK
    <3>3. r \in Run /\ r.kind = "queue" /\ r.num = n /\ r.msg = file[n]
      BY <1>1, <3>2 DEF Run
    <3>4. Replace(r)
      BY <3>1
    <3> HIDE DEF r
    <3> QED
      BY <1>1, <3>3, <3>4, GoOnAlone
  <2>2. CASE EndQueue
    <3>1. Return
      BY <2>2 DEF EndQueue
    <3> QED
      BY <1>1, <3>1, EndAlone
  <2> QED
    BY <2>1, <2>2
<1>4. \A m \in Msgs : Spent(m) => Spent(m)'
  <2> SUFFICES ASSUME NEW m \in Msgs, Spent(m) PROVE Spent(m)'
    OBVIOUS
  <2>1. CASE window[m] = "closed" /\ m \notin Queue(file)
    BY <1>1, <2>1 DEF Spent
  <2>2. ASSUME NEW i \in 1..Depth, runs[i].took, runs[i].msg = m PROVE Spent(m)'
    BY <1>1, <1>2, <1>3, <2>2, OthersSpent DEF Spent
  <2> QED
    BY <2>1, <2>2 DEF Spent
<1>5. SpentOK'
  BY <1>1, <1>4, SpentStays
<1> QED
  BY <1>3, <1>5 DEF CarefulInv

LEMMA FailedCareful ==
    ASSUME TypeOK, Inv, CarefulInv, QueueFailed \/ ComposeFailed
    PROVE  CarefulInv'
<1>. AloneOK /\ EditedOK /\ SpentOK /\ WindowOK /\ Depth \in Nat
  BY RunsType DEF CarefulInv, Inv
<1> DEFINE told == IF Top.took THEN {Top.msg} ELSE {}
<1>1. /\ runs # <<>> /\ Top.phase = "sending" /\ Excuse(told)
      /\ UNCHANGED <<file, target, taken>>
      /\ Depth \in 1..Depth /\ Top = runs[Depth] /\ Top.msg \in Msgs
  BY RunsType, TopRun DEF QueueFailed, ComposeFailed, AtTop
<1>2. AloneOK' /\ EditedOK' /\ (Return \/ \E r \in Run : Replace(r))
  <2>1. CASE QueueFailed
    <3> DEFINE r == [Top EXCEPT !.phase = "next", !.msg = None, !.took = FALSE]
    <3>1. Replace(r) /\ Top.kind = "queue"
      BY <2>1 DEF QueueFailed, AtTop
    <3>2. r \in Run /\ r.kind = "queue" /\ r.phase = "next"
      BY <1>1, <3>1, RunsType DEF Run
    <3> HIDE DEF r
    <3> QED
      BY <1>1, <3>1, <3>2, GoOnAlone
  <2>2. CASE ComposeFailed
    <3>1. Return
      BY <2>2 DEF ComposeFailed
    <3> QED
      BY <1>1, <3>1, EndAlone
  <2> QED
    BY <2>1, <2>2
<1>3. \A m \in Msgs : window[m] = "closed" => window'[m] = "closed"
  <2>1. CASE QueueFailed
    BY <2>1 DEF QueueFailed
  <2>2. CASE ComposeFailed
    <3>1. window[Top.msg] = "sending"
      BY <1>1, <2>2 DEF ComposeFailed, AtTop, WindowOK
    <3> QED
      BY <2>2, <3>1 DEF ComposeFailed, TypeOK
  <2> QED
    BY <2>1, <2>2
<1>4. excused' \in [Msgs -> Nat]
  BY <1>1, ExcuseType
<1>5. \A m \in Msgs : /\ excused'[m] >= excused[m]
                      /\ Spent(m) => Spent(m)' \/ excused'[m] >= excused[m] + 1
  <2> SUFFICES ASSUME NEW m \in Msgs
               PROVE  /\ excused'[m] >= excused[m]
                      /\ Spent(m) => Spent(m)' \/ excused'[m] >= excused[m] + 1
    OBVIOUS
  <2>1. excused[m] \in Nat /\ excused'[m] = excused[m] + (IF m \in told THEN 1 ELSE 0)
    BY <1>1 DEF Excuse, TypeOK
  <2>2. excused'[m] >= excused[m] /\ (m \in told => excused'[m] >= excused[m] + 1)
    BY <2>1
  <2>3. CASE window[m] = "closed" /\ m \notin Queue(file)
    BY <1>1, <1>3, <2>2, <2>3 DEF Spent
  <2>4. ASSUME NEW i \in 1..Depth, runs[i].took, runs[i].msg = m
        PROVE  Spent(m)' \/ m \in told
    BY <1>1, <1>2, <2>4, OthersSpent DEF Spent
  <2> QED
    BY <2>2, <2>3, <2>4 DEF Spent
<1>6. SpentOK'
  BY <1>1, <1>4, <1>5, SpentStep
<1> QED
  BY <1>2, <1>6 DEF CarefulInv

LEMMA SentCareful ==
    ASSUME TypeOK, Inv, CarefulInv, QueueSent \/ ComposeSent
    PROVE  CarefulInv'
<1>. AloneOK /\ EditedOK /\ SpentOK /\ Depth \in Nat
  BY RunsType DEF CarefulInv
<1> DEFINE r == [Top EXCEPT !.phase = "filtering"]
<1>1. /\ runs # <<>> /\ Replace(r) /\ Top.phase = "sending" /\ Top.took
      /\ UNCHANGED <<window, target, taken, excused>>
      /\ Depth \in 1..Depth /\ Top = runs[Depth] /\ Top.msg \in Msgs
  BY RunsType, TopRun DEF QueueSent, ComposeSent, AtTop
<1>2. /\ r \in Run /\ r.kind = Top.kind /\ r.msg = Top.msg /\ r.num = Top.num /\ r.took
      /\ Top.kind \in {"queue", "compose"}
  BY <1>1, RunsType DEF Run
<1> HIDE DEF r
<1>3. /\ Top.kind = "queue" => file' = file
      /\ Top.kind = "compose" => \E gone \in SUBSET Edited(Top.msg) : file' = Without(file, gone)
  BY <1>1 DEF QueueSent, ComposeSent, AtTop
<1>4. \A i \in 1..(Depth - 1) :
         runs[i].kind = "queue" /\ runs[i].phase # "next"
            => file'[runs[i].num] = file[runs[i].num]
  <2> SUFFICES ASSUME NEW i \in 1..(Depth - 1), Top.kind = "compose",
                      runs[i].kind = "queue", runs[i].phase # "next"
               PROVE  file'[runs[i].num] = file[runs[i].num]
    BY <1>2, <1>3
  <2>1. i \in 1..Depth /\ i < Depth
    BY <1>1
  <2>2. runs[i].num \in Nums /\ file[runs[i].num] = runs[i].msg
    BY <2>1, HasMsg DEF AloneOK
  <2>3. target[Top.msg] # runs[i].msg
    BY <1>1, <2>1 DEF EditedOK
  <2> QED
    BY <1>3, <2>2, <2>3 DEF Without, Edited
<1>5. AloneOK' /\ EditedOK'
  <2>1. r.kind = "queue" /\ r.phase # "next" => file'[r.num] = r.msg
    BY <1>1, <1>2, <1>3 DEF AloneOK
  <2> QED
    BY <1>1, <1>2, <1>4, <2>1, GoOnAlone
<1>6. \A m \in Msgs : Spent(m) => Spent(m)'
  <2> SUFFICES ASSUME NEW m \in Msgs, Spent(m) PROVE Spent(m)'
    OBVIOUS
  <2>1. CASE window[m] = "closed" /\ m \notin Queue(file)
    <3>1. \A k \in Nums : file'[k] = file[k] \/ file'[k] = None
      BY <1>2, <1>3 DEF Without
    <3> QED
      BY <1>1, <2>1, <3>1, NoneAssumption DEF Spent, Queue
  <2>2. ASSUME NEW i \in 1..Depth, runs[i].took, runs[i].msg = m PROVE Spent(m)'
    <3>1. CASE i = Depth
      <4>1. Depth' = Depth /\ runs'[Depth] = r
        BY <1>1, <1>2, Replaced
      <4> QED
        BY <1>1, <1>2, <2>2, <3>1, <4>1 DEF Spent
    <3>2. CASE i # Depth
      BY <1>1, <1>2, <2>2, <3>2, OthersSpent DEF Spent
    <3> QED
      BY <3>1, <3>2
  <2> QED
    BY <2>1, <2>2 DEF Spent
<1>7. SpentOK'
  BY <1>1, <1>6, SpentStays
<1> QED
  BY <1>5, <1>7 DEF CarefulInv

\* The message at hand leaves the queue, and it was there once.
LEMMA QueueDoneCareful ==
    ASSUME TypeOK, Inv, CarefulInv, QueueDone
    PROVE  CarefulInv'
<1>. AloneOK /\ EditedOK /\ SpentOK /\ FileOK /\ WindowOK /\ Depth \in Nat
  BY RunsType DEF CarefulInv, Inv
<1> DEFINE r == [Top EXCEPT !.phase = "next", !.msg = None, !.took = FALSE]
<1>1. /\ runs # <<>> /\ Replace(r) /\ Top.kind = "queue" /\ Top.phase = "filtering"
      /\ UNCHANGED <<window, target, taken>> /\ file \in [Nums -> Msgs \cup {None}]
      /\ Depth \in 1..Depth /\ Top = runs[Depth] /\ Top.msg \in Msgs /\ Top.num \in Nums
  BY RunsType, TopRun DEF QueueDone, AtTop, TypeOK
<1>2. \/ file' = [file EXCEPT ![Top.num] = None] /\ UNCHANGED excused
      \/ Excuse({Top.msg}) /\ UNCHANGED file
  BY DEF QueueDone
<1>3. r \in Run /\ r.kind = "queue" /\ r.phase = "next"
  BY <1>1, RunsType DEF Run
<1> HIDE DEF r
<1>4. file[Top.num] = Top.msg
  BY <1>1 DEF AloneOK
<1>5. AloneOK' /\ EditedOK'
  <2>1. \A i \in 1..(Depth - 1) : runs[i].kind # "queue"
    <3> SUFFICES ASSUME NEW i \in 1..(Depth - 1), runs[i].kind = "queue" PROVE FALSE
      OBVIOUS
    <3>1. i \in 1..Depth /\ i # Depth
      BY <1>1
    <3> QED
      BY <1>1, <3>1 DEF AloneOK
  <2> QED
    BY <1>1, <1>3, <2>1, GoOnAlone
<1>6. CASE file' = [file EXCEPT ![Top.num] = None] /\ UNCHANGED excused
  <2>1. \A m \in Msgs : Spent(m) => Spent(m)'
    <3> SUFFICES ASSUME NEW m \in Msgs, Spent(m) PROVE Spent(m)'
      OBVIOUS
    <3>1. \A k \in Nums : file'[k] = file[k] \/ file'[k] = None
      BY <1>1, <1>6
    <3>2. CASE window[m] = "closed" /\ m \notin Queue(file)
      BY <1>1, <3>1, <3>2, NoneAssumption DEF Spent, Queue
    <3>3. CASE m = Top.msg
      <4>1. window[m] = "closed"
        BY <1>1, <1>4, <3>3, NoneAssumption DEF WindowOK
      <4>2. \A k \in Nums : file'[k] # m
        BY <1>1, <1>4, <1>6, <3>3, NoneAssumption DEF FileOK
      <4> QED
        BY <1>1, <4>1, <4>2 DEF Spent, Queue
    <3>4. ASSUME NEW i \in 1..Depth, runs[i].took, runs[i].msg = m, m # Top.msg
          PROVE  Spent(m)'
      BY <1>1, <1>3, <3>4, OthersSpent DEF Spent
    <3> QED
      BY <3>2, <3>3, <3>4 DEF Spent
  <2> QED
    BY <1>1, <1>5, <1>6, <2>1, SpentStays DEF CarefulInv
<1>7. CASE Excuse({Top.msg}) /\ UNCHANGED file
  <2>1. excused' \in [Msgs -> Nat]
    BY <1>7, ExcuseType
  <2>2. \A m \in Msgs : /\ excused'[m] >= excused[m]
                        /\ Spent(m) => Spent(m)' \/ excused'[m] >= excused[m] + 1
    <3> SUFFICES ASSUME NEW m \in Msgs
                 PROVE  /\ excused'[m] >= excused[m]
                        /\ Spent(m) => Spent(m)' \/ excused'[m] >= excused[m] + 1
      OBVIOUS
    <3>1. /\ excused[m] \in Nat
          /\ excused'[m] = excused[m] + (IF m \in {Top.msg} THEN 1 ELSE 0)
      BY <1>7 DEF Excuse, TypeOK
    <3>2. excused'[m] >= excused[m] /\ (m = Top.msg => excused'[m] >= excused[m] + 1)
      BY <3>1
    <3>3. CASE window[m] = "closed" /\ m \notin Queue(file)
      BY <1>1, <1>7, <3>2, <3>3 DEF Spent
    <3>4. ASSUME NEW i \in 1..Depth, runs[i].took, runs[i].msg = m, m # Top.msg
          PROVE  Spent(m)'
      BY <1>1, <1>3, <3>4, OthersSpent DEF Spent
    <3> QED
      BY <3>2, <3>3, <3>4 DEF Spent
  <2> QED
    BY <1>1, <1>5, <2>1, <2>2, SpentStep DEF CarefulInv
<1> QED
  BY <1>5, <1>6, <1>7, <1>2 DEF CarefulInv

LEMMA ComposeDoneCareful ==
    ASSUME TypeOK, Inv, CarefulInv, ComposeDone
    PROVE  CarefulInv'
<1>. AloneOK /\ EditedOK /\ SpentOK /\ WindowOK /\ Depth \in Nat
  BY RunsType DEF CarefulInv, Inv
<1>1. /\ runs # <<>> /\ Return /\ Top.kind = "compose"
      /\ UNCHANGED <<file, target, taken>>
      /\ Depth \in 1..Depth /\ Top = runs[Depth] /\ Top.msg \in Msgs
      /\ window \in [Msgs -> {"none", "open", "sending", "closed"}]
      /\ excused \in [Msgs -> Nat]
  BY RunsType, TopRun DEF ComposeDone, AtTop, TypeOK
<1>2. AloneOK' /\ EditedOK'
  BY <1>1, EndAlone
<1>3. window[Top.msg] = "sending"
  BY <1>1 DEF WindowOK
<1>4. Top.msg \notin Queue(file)
  BY <1>3, NoneAssumption, <1>1 DEF WindowOK, Queue
<1>5. \A m \in Msgs : m # Top.msg => window'[m] = window[m]
  BY <1>1 DEF ComposeDone
<1>6. \/ window'[Top.msg] = "closed" /\ excused' = excused
      \/ Excuse({Top.msg})
  BY <1>1 DEF ComposeDone
<1>7. \A m \in Msgs : Spent(m) /\ m # Top.msg => Spent(m)'
  <2> SUFFICES ASSUME NEW m \in Msgs, Spent(m), m # Top.msg PROVE Spent(m)'
    OBVIOUS
  <2>1. CASE window[m] = "closed" /\ m \notin Queue(file)
    BY <1>1, <1>5, <2>1 DEF Spent
  <2>2. ASSUME NEW i \in 1..Depth, runs[i].took, runs[i].msg = m PROVE Spent(m)'
    BY <1>1, <2>2, OthersSpent DEF Spent
  <2> QED
    BY <2>1, <2>2 DEF Spent
<1>8. CASE window'[Top.msg] = "closed" /\ excused' = excused
  <2>1. ASSUME NEW m \in Msgs, m = Top.msg PROVE Spent(m)'
    BY <1>1, <1>4, <1>8, <2>1 DEF Spent
  <2>2. \A m \in Msgs : Spent(m) => Spent(m)'
    BY <1>7, <2>1
  <2>3. SpentOK'
    BY <1>1, <1>8, <2>2, SpentStays
  <2> QED
    BY <1>2, <2>3 DEF CarefulInv
<1>9. CASE Excuse({Top.msg})
  <2>1. excused' \in [Msgs -> Nat]
    BY <1>9, ExcuseType
  <2>2. \A m \in Msgs : /\ excused'[m] >= excused[m]
                        /\ m = Top.msg => excused'[m] >= excused[m] + 1
    BY <1>1, <1>9 DEF Excuse
  <2>3. SpentOK'
    BY <1>1, <1>7, <2>1, <2>2, SpentStep
  <2> QED
    BY <1>2, <2>3 DEF CarefulInv
<1> QED
  BY <1>6, <1>8, <1>9

\* What a server takes was not spent: no other run sends it, and it is in the
\* queue or in its window.
LEMMA TakenCareful ==
    ASSUME TypeOK, Inv, CarefulInv, ServerTakes
    PROVE  CarefulInv'
<1>. AloneOK /\ EditedOK /\ SpentOK /\ WindowOK /\ TookOK
  BY DEF CarefulInv, Inv
<1>1. PICK i \in 1..Depth :
              /\ runs[i].phase = "sending" /\ ~runs[i].took /\ runs[i].msg \in Msgs
              /\ taken[runs[i].msg] < MaxTaken
              /\ taken' = [taken EXCEPT ![runs[i].msg] = @ + 1]
              /\ runs' \in Seq(Run) /\ Depth' = Depth
              /\ runs'[i] = [runs[i] EXCEPT !.took = TRUE]
              /\ \A j \in 1..Depth : j # i => runs'[j] = runs[j]
  BY TakenRun
<1>2. UNCHANGED <<file, window, target, excused>>
  BY DEF ServerTakes
<1>3. \A j \in 1..Depth :
         /\ runs'[j].kind = runs[j].kind /\ runs'[j].msg = runs[j].msg
         /\ runs'[j].phase = runs[j].phase /\ runs'[j].num = runs[j].num
         /\ j # i => runs'[j].took = runs[j].took
         /\ j = i => runs'[j].took
  BY <1>1, RunsType DEF Run
<1>4. AloneOK'
  BY <1>1, <1>2, <1>3 DEF AloneOK
<1>5. EditedOK'
  BY <1>1, <1>2, <1>3 DEF EditedOK
<1>6. ~Spent(runs[i].msg)
  <2>1. ~(window[runs[i].msg] = "closed" /\ runs[i].msg \notin Queue(file))
    <3>1. CASE runs[i].kind = "compose"
      BY <3>1 DEF WindowOK
    <3>2. CASE runs[i].kind = "queue"
      <4>1. runs[i].num \in Nums /\ file[runs[i].num] = runs[i].msg
        BY <1>1, <3>2, HasMsg DEF AloneOK
      <4> QED
        BY <1>1, <4>1, NoneAssumption DEF Queue
    <3> QED
      BY <3>1, <3>2, RunsType DEF Run
  <2>2. \A j \in 1..Depth : ~(runs[j].took /\ runs[j].msg = runs[i].msg)
    <3> SUFFICES ASSUME NEW j \in 1..Depth, runs[j].took, runs[j].msg = runs[i].msg
                 PROVE  FALSE
      OBVIOUS
    <3>1. runs[j].phase # "next" /\ runs[i].phase # "next"
      BY <1>1 DEF TookOK
    <3>2. j = i
      BY <3>1, OneRun
    <3> QED
      BY <1>1, <3>2
  <2> QED
    BY <2>1, <2>2 DEF Spent
<1>7. \A m \in Msgs : (Spent(m) => Spent(m)') /\ (m = runs[i].msg => Spent(m)')
  BY <1>1, <1>2, <1>3 DEF Spent
<1>8. SpentOK'
  <2> SUFFICES ASSUME NEW m \in Msgs
               PROVE  taken'[m] <= excused[m] + (IF Spent(m)' THEN 1 ELSE 0)
    BY <1>2 DEF SpentOK
  <2>1. taken[m] \in Nat /\ excused[m] \in Nat
    BY BoundsAssumption DEF TypeOK
  <2>2. taken[m] <= excused[m] + (IF Spent(m) THEN 1 ELSE 0)
    BY DEF SpentOK
  <2>3. taken'[m] = IF m = runs[i].msg THEN taken[m] + 1 ELSE taken[m]
    BY <1>1 DEF TypeOK
  <2>4. CASE m = runs[i].msg
    <3>1. taken[m] <= excused[m] /\ Spent(m)'
      BY <1>6, <1>7, <2>1, <2>2, <2>4
    <3> QED
      BY <2>1, <2>3, <2>4, <3>1
  <2>5. CASE m # runs[i].msg
    <3>1. CASE Spent(m)
      BY <1>7, <2>1, <2>2, <2>3, <2>5, <3>1
    <3>2. CASE ~Spent(m)
      <4>1. taken[m] <= excused[m]
        BY <2>1, <2>2, <3>2
      <4> QED
        BY <2>1, <2>3, <2>5, <4>1
    <3> QED
      BY <3>1, <3>2
  <2> QED
    BY <2>4, <2>5
<1> QED
  BY <1>4, <1>5, <1>8 DEF CarefulInv

LEMMA CrashCareful ==
    ASSUME TypeOK, Inv, CarefulInv, Crash
    PROVE  CarefulInv'
<1>. AloneOK /\ EditedOK /\ SpentOK /\ TookOK
  BY DEF CarefulInv, Inv
<1> DEFINE told == {runs[i].msg : i \in {j \in 1..Depth : runs[j].took}} \ {None}
<1>1. /\ Depth' = 0 /\ file' = file /\ taken' = taken /\ Excuse(told)
      /\ excused \in [Msgs -> Nat]
  BY DEF Crash, Depth, TypeOK
<1>2. AloneOK' /\ EditedOK'
  BY <1>1 DEF AloneOK, EditedOK
<1>3. \A m \in Msgs : window[m] = "closed" => window'[m] = "closed"
  BY DEF Crash
<1>4. \A m \in Msgs : Spent(m) => Spent(m)' \/ m \in told
  <2> SUFFICES ASSUME NEW m \in Msgs, Spent(m) PROVE Spent(m)' \/ m \in told
    OBVIOUS
  <2>1. CASE window[m] = "closed" /\ m \notin Queue(file)
    BY <1>1, <1>3, <2>1 DEF Spent
  <2>2. ASSUME NEW i \in 1..Depth, runs[i].took, runs[i].msg = m PROVE m \in told
    BY <2>2, NoneAssumption
  <2> QED
    BY <2>1, <2>2 DEF Spent
<1> HIDE DEF told
<1>5. excused' \in [Msgs -> Nat]
  BY <1>1, ExcuseType
<1>6. \A m \in Msgs : /\ excused'[m] >= excused[m]
                      /\ m \in told => excused'[m] >= excused[m] + 1
  BY <1>1 DEF Excuse
<1>7. SpentOK'
  BY <1>1, <1>4, <1>5, <1>6, SpentStep
<1> QED
  BY <1>2, <1>7 DEF CarefulInv

THEOREM CarefulInvariance ==
    ASSUME Careful
    PROVE  Spec => [](TypeOK /\ Inv /\ CarefulInv)
<1>1. TypeOK /\ Inv /\ CarefulInv /\ RunNext => CarefulInv'
  BY NextCareful, FailedCareful, SentCareful, QueueDoneCareful, ComposeDoneCareful
     DEF RunNext
<1>2. TypeOK /\ Inv /\ CarefulInv /\ UNCHANGED vars => CarefulInv'
  BY DEF vars, CarefulInv, AloneOK, EditedOK, SpentOK, Spent, Queue, Depth
<1>3. TypeOK /\ Inv /\ CarefulInv /\ [Next]_vars => CarefulInv'
  BY <1>1, <1>2, UserCareful, TakenCareful, CrashCareful DEF Next
<1> QED
  BY InitCareful, <1>3, Invariance, PTL DEF Spec

\* If the user leaves the message that is being sent alone, no server is given a
\* message again that it has taken, but for the failures that SentOnce counts.
THEOREM MessageIsSentOnce ==
    ASSUME Careful
    PROVE  Spec => []SentOnce
<1>1. TypeOK /\ CarefulInv => SentOnce
  <2> SUFFICES ASSUME TypeOK, CarefulInv, NEW m \in Msgs
               PROVE  taken[m] <= 1 + excused[m]
    BY DEF SentOnce
  <2>1. taken[m] \in Nat /\ excused[m] \in Nat
    BY BoundsAssumption DEF TypeOK
  <2>2. taken[m] <= excused[m] + (IF Spent(m) THEN 1 ELSE 0)
    BY DEF CarefulInv, SpentOK
  <2> QED
    BY <2>1, <2>2
<1> QED
  BY <1>1, CarefulInvariance, PTL

-----------------------------------------------------------------------------
\* Each step is one of Outgoing, or leaves its variables alone.

LEMMA InitPromise == Init => Promise!Init
<1> SUFFICES ASSUME Init PROVE Promise!Init
  OBVIOUS
<1>1. Queue(file) = {}
  BY DEF Init, Queue
<1>2. {m \in Msgs : taken[m] > 0} = {}
  BY DEF Init
<1>3. discarded = {}
  BY DEF Init
<1> QED
  BY <1>1, <1>2, <1>3 DEF Promise!Init

\* A message that the user removes from the queue, or replaces.
LEMMA Removed ==
    ASSUME TypeOK, NEW m \in Queue(file), taken' = taken,
           file' = Without(file, {m}), discarded' = discarded \cup {m}
    PROVE  Promise!Drop(m)
<1>1. Queue(file') = Queue(file) \ {m}
  BY NoneAssumption DEF Queue, Without, TypeOK
<1> QED
  BY <1>1 DEF Promise!Drop

LEMMA SubmitStep ==
    ASSUME TypeOK, Inv, NEW m \in Msgs, SendLater(m)
    PROVE  Promise!Next
<1>1. PICK n \in Nums, gone \in SUBSET Edited(m) :
         /\ m \notin Queue(file) /\ file[n] = None
         /\ file' = [k \in Nums |-> IF k = n THEN m
                       ELSE IF file[k] \in gone THEN None ELSE file[k]]
         /\ discarded' = discarded \cup gone
  BY QueuedFile
<1>2. taken' = taken
  BY DEF SendLater
<1>3. gone \subseteq Queue(file) /\ None \notin Queue(file) /\ m # None
  BY NoneAssumption, QueueInMsgs DEF Queue
<1>4. Queue(file') = (Queue(file) \cup {m}) \ gone
  <2>1. ASSUME NEW x \in Queue(file') PROVE x \in (Queue(file) \cup {m}) \ gone
    BY <1>1, <1>3, <2>1 DEF Queue
  <2>2. ASSUME NEW x \in (Queue(file) \cup {m}) \ gone PROVE x \in Queue(file')
    <3>1. CASE x = m
      BY <1>1, <1>3, <3>1 DEF Queue
    <3>2. CASE x # m
      <4>1. PICK k \in Nums : file[k] = x /\ x # None
        BY <3>2 DEF Queue
      <4>2. k # n /\ file'[k] = x
        BY <1>1, <4>1, <2>2
      <4> QED
        BY <4>1, <4>2 DEF Queue
    <3> QED
      BY <3>1, <3>2
  <2> QED
    BY <2>1, <2>2
<1>5. Promise!Submit(m, gone)
  BY <1>1, <1>2, <1>4 DEF Promise!Submit
<1> QED
  BY <1>3, <1>5 DEF Promise!Next

LEMMA DeleteStep ==
    ASSUME TypeOK, Inv, NEW n \in Nums, Delete(n)
    PROVE  Promise!Next
<1> DEFINE m == file[n]
<1>1. m \in Queue(file) /\ m \in Msgs
  BY DEF Delete, Queue, TypeOK
<1>2. file' = Without(file, {m})
  BY DEF Delete, Without, TypeOK, Inv, FileOK
<1>3. taken' = taken /\ discarded' = discarded \cup {m}
  BY DEF Delete
<1> HIDE DEF m
<1> QED
  BY <1>1, <1>2, <1>3, Removed DEF Promise!Next

LEMMA ComposeSentStep ==
    ASSUME TypeOK, ComposeSent
    PROVE  Promise!Next \/ UNCHANGED <<file, taken, discarded>>
<1>1. taken' = taken
  BY DEF ComposeSent
<1>2. PICK gone \in SUBSET Edited(Top.msg) :
         file' = Without(file, gone) /\ discarded' = discarded \cup gone
  BY DEF ComposeSent
<1>3. CASE gone = {}
  BY <1>1, <1>2, <1>3 DEF Without, TypeOK
<1>4. CASE gone # {}
  <2>1. PICK m \in Queue(file) : gone = {m}
    BY <1>4 DEF Edited
  <2>2. m \in Msgs
    BY QueueInMsgs
  <2> QED
    BY <1>1, <1>2, <2>1, <2>2, Removed DEF Promise!Next
<1> QED
  BY <1>3, <1>4

\* The number of the run still has the message that was taken.
LEMMA QueueDoneStep ==
    ASSUME TypeOK, Inv, AloneOK, QueueDone
    PROVE  Promise!Next \/ UNCHANGED <<file, taken, discarded>>
<1> DEFINE m == Top.msg
<1>1. /\ file \in [Nums -> Msgs \cup {None}] /\ taken' = taken /\ discarded' = discarded
      /\ runs # <<>> /\ Top.kind = "queue" /\ Top.phase = "filtering"
      /\ Depth \in 1..Depth /\ Top = runs[Depth] /\ m \in Msgs /\ Top.num \in Nums
  BY RunsType, TopRun DEF QueueDone, AtTop, TypeOK
<1>2. file[Top.num] = m /\ taken[m] > 0
  BY <1>1 DEF AloneOK, Inv, TookOK
<1>3. CASE file' = file
  BY <1>1, <1>3
<1>4. CASE file' = [file EXCEPT ![Top.num] = None]
  <2>1. Queue(file') = Queue(file) \ {m} /\ m \in Queue(file)
    BY <1>1, <1>2, <1>4, NoneAssumption DEF Inv, FileOK, Queue
  <2>2. Promise!Leave(m)
    BY <1>1, <1>2, <2>1 DEF Promise!Leave
  <2> QED
    BY <1>1, <2>2 DEF Promise!Next
<1> QED
  BY <1>3, <1>4 DEF QueueDone

LEMMA TakenStep ==
    ASSUME TypeOK, ServerTakes
    PROVE  Promise!Next
<1>1. PICK m \in Msgs : taken' = [taken EXCEPT ![m] = @ + 1]
  BY TakenRun
<1>2. file' = file /\ discarded' = discarded
  BY DEF ServerTakes
<1>3. \A w \in Msgs : taken[w] \in Nat /\ taken'[w] = IF w = m THEN taken[w] + 1 ELSE taken[w]
  BY <1>1, BoundsAssumption DEF TypeOK
<1>4. {w \in Msgs : taken'[w] > 0} = {w \in Msgs : taken[w] > 0} \cup {m}
  BY <1>3
<1>5. Promise!Deliver(m)
  BY <1>2, <1>4 DEF Promise!Deliver
<1> QED
  BY <1>5 DEF Promise!Next

LEMMA PromiseStep ==
    TypeOK /\ Inv /\ CarefulInv /\ [Next]_vars
       => [Promise!Next]_<<Queue(file), {m \in Msgs : taken[m] > 0}, discarded>>
<1> SUFFICES ASSUME TypeOK, Inv, AloneOK, [Next]_vars
             PROVE  Promise!Next \/ UNCHANGED <<file, taken, discarded>>
  BY DEF CarefulInv, Queue
<1>1. ASSUME NEW m \in Msgs, Compose(m) \/ Close(m) \/ Send(m)
      PROVE  UNCHANGED <<file, taken, discarded>>
  BY <1>1 DEF Compose, Close, Send
<1>2. CASE StartQueue \/ Crash \/ UNCHANGED vars
  BY <1>2 DEF StartQueue, Crash, vars
<1>3. CASE NextMsg \/ EndQueue \/ QueueFailed \/ QueueSent \/ ComposeFailed \/ ComposeDone
  BY <1>3 DEF NextMsg, EndQueue, QueueFailed, QueueSent, ComposeFailed, ComposeDone
<1> QED
  BY <1>1, <1>2, <1>3, SubmitStep, DeleteStep, ComposeSentStep, QueueDoneStep, TakenStep
     DEF Next, UserNext, RunNext

\* If the user leaves the message that is being sent alone, a message leaves the
\* queue only when a server has taken it, or when the user discards it: a run
\* that removes by a number removes what it has sent.
THEOREM QueueKeepsMail ==
    ASSUME Careful
    PROVE  Spec => KeepsMail
BY InitPromise, PromiseStep, CarefulInvariance, PTL DEF Spec, KeepsMail, Promise!Spec

=============================================================================
