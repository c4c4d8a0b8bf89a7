----------------------------- MODULE IncProofs -----------------------------
(***************************************************************************)
(* Theorems about Inc, for any list of accounts and any depth of calls.    *)
(***************************************************************************)
EXTENDS Inc, TLAPS, FiniteSetTheorems, SequenceTheorems

\* Why Exclusive is preserved: only retrieving calls have a queue, and below a
\* check that has no queue yet there is none.
FramesOK ==
    \A i \in 1..Depth :
        /\ stack[i].queue # <<>> => stack[i].kind \in {"inc", "auth", "rpop3"}
        /\ stack[i].kind = "inc" /\ stack[i].phase = "remote"
              => \A k \in 1..(i - 1) : stack[k].queue = <<>>

IInv == TypeOK /\ FramesOK /\ Exclusive /\ LocksBalanced /\ AutocheckArmed

Locker(f) == f.kind \in {"inc", "auth"}

\* What a call adds to inc_lock_count, and to the lock of the main window.
Held(f) == IF HoldsLock(f) THEN 1 ELSE 0
UiHeld(f) == IF Locker(f) THEN 1 ELSE 0

-----------------------------------------------------------------------------
\* The stack and the sets of calls that hold a lock.

LEMMA FiniteSubset ==
    ASSUME NEW n \in Nat, NEW S, S \subseteq 1..n
    PROVE  IsFiniteSet(S) /\ Cardinality(S) \in Nat
<1>1. IsFiniteSet(1..n)
  BY FS_Interval
<1> QED
  BY <1>1, FS_Subset, FS_CardinalityType

LEMMA Counted ==
    ASSUME TypeOK
    PROVE  /\ Depth \in Nat
           /\ IsFiniteSet(Holders) /\ Cardinality(Holders) \in Nat
           /\ IsFiniteSet(Lockers) /\ Cardinality(Lockers) \in Nat
<1>1. Depth \in Nat
  BY DEF TypeOK, Depth
<1>2. Holders \subseteq 1..Depth /\ Lockers \subseteq 1..Depth
  BY DEF Holders, Lockers
<1> QED
  BY <1>1, <1>2, FiniteSubset

\* A call on top.
LEMMA PushCounts ==
    ASSUME TypeOK, NEW f \in Call, Push(f)
    PROVE  /\ stack' \in Seq(Call) /\ Depth' = Depth + 1 /\ Depth' <= MaxDepth
           /\ stack'[Depth + 1] = f
           /\ \A i \in 1..Depth : stack'[i] = stack[i]
           /\ Cardinality(Holders)' = Cardinality(Holders) + Held(f)
           /\ Cardinality(Lockers)' = Cardinality(Lockers) + UiHeld(f)
           /\ Lockers' = IF Locker(f) THEN Lockers \cup {Depth + 1} ELSE Lockers
<1>1. stack' = Append(stack, f) /\ stack \in Seq(Call) /\ MaxDepth \in Nat
  BY DepthAssumption DEF Push, TypeOK
<1>2. /\ stack' \in Seq(Call) /\ Depth' = Depth + 1 /\ Depth' <= MaxDepth
      /\ stack'[Depth + 1] = f
      /\ \A i \in 1..Depth : stack'[i] = stack[i]
  BY <1>1 DEF Push, Depth
<1>3. Depth \in Nat
  BY Counted
<1>4. Depth + 1 \notin Holders /\ Depth + 1 \notin Lockers
  BY <1>3 DEF Holders, Lockers
<1>5. Holders' = IF HoldsLock(f) THEN Holders \cup {Depth + 1} ELSE Holders
  BY <1>2, <1>3 DEF Holders, HoldsLock
<1>6. Lockers' = IF Locker(f) THEN Lockers \cup {Depth + 1} ELSE Lockers
  BY <1>2, <1>3 DEF Lockers, Locker
<1>7. Cardinality(Holders)' = Cardinality(Holders) + Held(f)
  <2>1. Cardinality(Holders \cup {Depth + 1}) = Cardinality(Holders) + 1
    BY <1>4, Counted, FS_AddElement
  <2> QED
    BY <1>5, <2>1, Counted DEF Held
<1>8. Cardinality(Lockers)' = Cardinality(Lockers) + UiHeld(f)
  <2>1. Cardinality(Lockers \cup {Depth + 1}) = Cardinality(Lockers) + 1
    BY <1>4, Counted, FS_AddElement
  <2> QED
    BY <1>6, <2>1, Counted DEF UiHeld
<1> QED
  BY <1>2, <1>6, <1>7, <1>8

\* The call on top is in another phase.
LEMMA ReplaceCounts ==
    ASSUME TypeOK, stack # <<>>, NEW f \in Call, f.kind = Top.kind,
           stack' = [stack EXCEPT ![Depth] = f]
    PROVE  /\ stack' \in Seq(Call) /\ Depth' = Depth
           /\ Depth \in 1..Depth /\ Depth <= MaxDepth
           /\ stack'[Depth] = f
           /\ \A i \in 1..(Depth - 1) : stack'[i] = stack[i]
           /\ Cardinality(Holders)' = Cardinality(Holders)
                 - Held(Top) + Held(f)
           /\ Lockers' = Lockers
           /\ HoldsLock(Top) => Cardinality(Holders) >= 1
<1>1. stack \in Seq(Call) /\ Depth \in Nat /\ Depth >= 1 /\ Depth <= MaxDepth
  BY DEF TypeOK, Depth
<1>2. /\ stack' \in Seq(Call) /\ Depth' = Depth
      /\ stack'[Depth] = f
      /\ \A i \in 1..(Depth - 1) : stack'[i] = stack[i]
  BY <1>1 DEF Depth
<1>3. Lockers' = Lockers
  BY <1>1, <1>2 DEF Lockers, Top
<1> DEFINE Rest == Holders \ {Depth}
<1>4. IsFiniteSet(Rest) /\ Cardinality(Rest) \in Nat
  BY Counted, FS_Subset, FS_CardinalityType
<1>5. Holders = IF HoldsLock(Top) THEN Rest \cup {Depth} ELSE Rest
  BY <1>1 DEF Holders, Top
<1>6. Holders' = IF HoldsLock(f) THEN Rest \cup {Depth} ELSE Rest
  BY <1>1, <1>2 DEF Holders
<1>7. Cardinality(Rest \cup {Depth}) = Cardinality(Rest) + 1
  BY <1>4, FS_AddElement
<1> HIDE DEF Rest
<1>8. Cardinality(Holders)' = Cardinality(Rest) + Held(f)
  BY <1>6, <1>7, <1>4 DEF Held
<1>9. Cardinality(Holders) = Cardinality(Rest) + Held(Top)
  BY <1>5, <1>7, <1>4 DEF Held
<1>10. Held(Top) \in {0, 1} /\ Held(f) \in {0, 1} /\ (HoldsLock(Top) => Held(Top) = 1)
  BY DEF Held
<1> QED
  BY <1>1, <1>2, <1>3, <1>4, <1>8, <1>9, <1>10

\* The call on top returns.
LEMMA ReturnCounts ==
    ASSUME TypeOK, stack # <<>>, Return
    PROVE  /\ stack' \in Seq(Call) /\ Depth' = Depth - 1
           /\ Depth \in 1..Depth /\ Depth <= MaxDepth
           /\ \A i \in 1..(Depth - 1) : stack'[i] = stack[i]
           /\ Cardinality(Holders)' = Cardinality(Holders) - Held(Top)
           /\ Cardinality(Lockers)' = Cardinality(Lockers) - UiHeld(Top)
           /\ Lockers' = Lockers \ {Depth}
           /\ HoldsLock(Top) => Cardinality(Holders) >= 1
           /\ Locker(Top) => Cardinality(Lockers) >= 1
<1>1. stack \in Seq(Call) /\ Depth \in Nat /\ Depth >= 1 /\ Depth <= MaxDepth
  BY DEF TypeOK, Depth
<1>2. /\ stack' \in Seq(Call) /\ Depth' = Depth - 1
      /\ \A i \in 1..(Depth - 1) : stack'[i] = stack[i]
  <2> DEFINE n == Depth - 1
  <2>1. n \in Int /\ n >= 0 /\ \A i \in 1..n : stack[i] \in Call
    BY <1>1 DEF Depth
  <2> HIDE DEF n
  <2>2. /\ SubSeq(stack, 1, n) \in Seq(Call)
        /\ Len(SubSeq(stack, 1, n)) = IF 1 <= n THEN n - 1 + 1 ELSE 0
        /\ \A i \in 1..(n - 1 + 1) : SubSeq(stack, 1, n)[i] = stack[1 + i - 1]
    BY <2>1, SubSeqProperties
  <2>3. stack' = SubSeq(stack, 1, n)
    BY DEF Return, n
  <2>4. Len(stack') = n /\ \A i \in 1..n : stack'[i] = stack[i]
    BY <2>1, <2>2, <2>3
  <2> QED
    BY <2>2, <2>3, <2>4 DEF Depth, n
<1> DEFINE Rest == Holders \ {Depth}
           Others == Lockers \ {Depth}
<1>3. /\ IsFiniteSet(Rest) /\ Cardinality(Rest) \in Nat
      /\ IsFiniteSet(Others) /\ Cardinality(Others) \in Nat
  BY Counted, FS_Subset, FS_CardinalityType
<1>4. Holders = IF HoldsLock(Top) THEN Rest \cup {Depth} ELSE Rest
  BY <1>1 DEF Holders, Top
<1>5. Lockers = IF Locker(Top) THEN Others \cup {Depth} ELSE Others
  BY <1>1 DEF Lockers, Locker, Top
<1>6. Holders' = Rest
  BY <1>1, <1>2 DEF Holders
<1>7. Lockers' = Others
  BY <1>1, <1>2 DEF Lockers
<1>8. /\ Cardinality(Rest \cup {Depth}) = Cardinality(Rest) + 1
      /\ Cardinality(Others \cup {Depth}) = Cardinality(Others) + 1
  BY <1>3, FS_AddElement
<1>12. Lockers' = Lockers \ {Depth}
  BY <1>7
<1> HIDE DEF Rest, Others
<1>9. Cardinality(Holders) = Cardinality(Rest) + Held(Top)
  BY <1>3, <1>4, <1>8 DEF Held
<1>10. Cardinality(Lockers) = Cardinality(Others) + UiHeld(Top)
  BY <1>3, <1>5, <1>8 DEF UiHeld
<1>11. /\ Held(Top) \in {0, 1} /\ (HoldsLock(Top) => Held(Top) = 1)
       /\ UiHeld(Top) \in {0, 1} /\ (Locker(Top) => UiHeld(Top) = 1)
  BY DEF Held, UiHeld
<1>13. /\ Cardinality(Holders)' = Cardinality(Rest)
       /\ Cardinality(Lockers)' = Cardinality(Others)
  BY <1>6, <1>7
<1> QED
  BY <1>1, <1>2, <1>3, <1>9, <1>10, <1>11, <1>12, <1>13

-----------------------------------------------------------------------------
\* What the invariant says of a step, by what the step does to the stack.

LEMMA Numbers ==
    ASSUME TypeOK
    PROVE  /\ inc_lock_count \in Nat /\ ui_lock \in Nat
           /\ stack \in Seq(Call) /\ Depth \in Nat /\ Depth <= MaxDepth
           /\ Cardinality(Holders) \in Nat /\ Cardinality(Lockers) \in Nat
           /\ \A i \in 1..Depth : stack[i] \in Call
           /\ stack # <<>> => Depth >= 1 /\ Top \in Call /\ Top = stack[Depth]
BY Counted DEF TypeOK, Depth, Top

\* Steps that leave the stack alone.
LEMMA SameStack ==
    ASSUME IInv, stack' = stack
    PROVE  /\ FramesOK' /\ Exclusive'
           /\ Holders' = Holders /\ Lockers' = Lockers
           /\ Depth' = Depth
<1>1. Depth' = Depth
  BY DEF Depth
<1> QED
  BY <1>1 DEF IInv, FramesOK, Exclusive, Retrieving, Holders, Lockers

\* A call that retrieves nothing yet.
LEMMA PushFrames ==
    ASSUME IInv, NEW f \in Call, Push(f), f.queue = <<>>,
           f.kind = "inc" => \A i \in 1..Depth : stack[i].queue = <<>>
    PROVE  FramesOK' /\ Exclusive'
<1>1. /\ Depth \in Nat /\ Depth' = Depth + 1 /\ stack'[Depth + 1] = f
      /\ \A i \in 1..Depth : stack'[i] = stack[i]
  BY PushCounts, Numbers DEF IInv
<1>2. FramesOK'
  BY <1>1 DEF IInv, FramesOK
<1>3. Exclusive'
  BY <1>1 DEF IInv, Exclusive, Retrieving
<1> QED
  BY <1>2, <1>3

\* The call on top keeps its queue, or shortens it.
LEMMA ReplaceFrames ==
    ASSUME IInv, stack # <<>>, NEW f \in Call, f.kind = Top.kind,
           stack' = [stack EXCEPT ![Depth] = f],
           Top.queue = <<>> => f.queue = <<>>,
           f.kind = "inc" => f.phase # "remote"
    PROVE  FramesOK' /\ Exclusive'
<1>1. /\ Depth \in Nat /\ Depth >= 1 /\ Depth' = Depth /\ stack'[Depth] = f
      /\ \A i \in 1..(Depth - 1) : stack'[i] = stack[i]
      /\ Top = stack[Depth]
  BY ReplaceCounts, Numbers DEF IInv
<1>2. FramesOK'
  BY <1>1 DEF IInv, FramesOK
<1>3. Exclusive'
  BY <1>1 DEF IInv, Exclusive, Retrieving
<1> QED
  BY <1>2, <1>3

LEMMA ReturnFrames ==
    ASSUME IInv, stack # <<>>, Return
    PROVE  FramesOK' /\ Exclusive'
<1>1. /\ Depth \in Nat /\ Depth >= 1 /\ Depth' = Depth - 1
      /\ \A i \in 1..(Depth - 1) : stack'[i] = stack[i]
  BY ReturnCounts, Numbers DEF IInv
<1>2. FramesOK'
  BY <1>1 DEF IInv, FramesOK
<1>3. Exclusive'
  BY <1>1 DEF IInv, Exclusive, Retrieving
<1> QED
  BY <1>2, <1>3

\* Where nothing locks and nothing is active, nothing retrieves.
LEMMA NothingRetrieves ==
    ASSUME IInv, ~inc_is_active, \A i \in 1..Depth : stack[i].kind # "rpop3"
    PROVE  \A i \in 1..Depth : stack[i].queue = <<>>
BY DEF IInv, FramesOK, inc_is_active

LEMMA NoHolders ==
    ASSUME IInv, inc_lock_count = 0
    PROVE  ~settings /\ \A i \in 1..Depth : ~HoldsLock(stack[i])
<1>1. Cardinality(Holders) = 0 /\ ~settings
  BY Numbers DEF IInv, LocksBalanced, TypeOK
<1>2. Holders = {}
  BY <1>1, Counted, FS_EmptySet DEF IInv
<1> QED
  BY <1>1, <1>2 DEF Holders

LEMMA JobQueues == \A job \in Jobs : job \in Seq(AccountSet)
<1>1. Accounts \in Seq(AccountSet)
  BY AccountsAssumption DEF AccountSet
<1>2. \A a \in AccountSet : <<a>> \in Seq(AccountSet)
  OBVIOUS
<1>3. <<>> \in Seq(AccountSet)
  OBVIOUS
<1>4. \A job \in Jobs : job = <<>> \/ job = Accounts \/ \E a \in AccountSet : job = <<a>>
  BY DEF Jobs
<1> QED
  BY <1>1, <1>2, <1>3, <1>4

-----------------------------------------------------------------------------
\* The steps.

LEMMA StartStep ==
    ASSUME IInv, NEW job \in Jobs, StartInc(job),
           UNCHANGED <<inc_lock_count, leaked, autochk_newmail, settings>>
    PROVE  IInv'
<1> DEFINE f == Frame("inc", "remote", <<>>, job)
<1>1. /\ f \in Call /\ f.queue = <<>> /\ f.kind = "inc" /\ f.phase = "remote"
      /\ Push(f)
  BY JobQueues DEF StartInc, Frame, Call
<1> HIDE DEF f
<1>2. ~HoldsLock(f) /\ Locker(f)
  BY <1>1 DEF HoldsLock, Locker
<1>3. \A i \in 1..Depth : stack[i].queue = <<>>
  BY NoHolders, NothingRetrieves DEF StartInc, HoldsLock
<1>4. FramesOK' /\ Exclusive'
  BY <1>1, <1>3, PushFrames
<1>5. /\ stack' \in Seq(Call) /\ Depth' <= MaxDepth
      /\ Cardinality(Holders)' = Cardinality(Holders)
      /\ Cardinality(Lockers)' = Cardinality(Lockers) + 1
      /\ Lockers' = Lockers \cup {Depth + 1}
  BY <1>1, <1>2, PushCounts, Numbers DEF Held, UiHeld, IInv
<1>6. TypeOK'
  BY <1>5 DEF IInv, TypeOK, StartInc, MayGoOnline
<1>7. LocksBalanced'
  BY <1>5, Numbers DEF IInv, LocksBalanced, StartInc, TypeOK
<1>8. AutocheckArmed'
  BY <1>5 DEF AutocheckArmed
<1> QED
  BY <1>4, <1>6, <1>7, <1>8 DEF IInv

LEMMA InitInv == Init => IInv
<1> SUFFICES ASSUME Init PROVE IInv
  OBVIOUS
<1>1. stack = <<>> /\ Depth = 0
  BY DEF Init, Depth
<1>2. Holders = {} /\ Lockers = {}
  BY <1>1 DEF Holders, Lockers
<1>3. TypeOK
  <2>1. stack \in Seq(Call) /\ Depth <= MaxDepth
    BY <1>1, DepthAssumption
  <2>2. inc_lock_count \in Nat /\ ui_lock \in Nat
    BY DEF Init
  <2>3. timer \in {"off", "interval", "second"}
    BY DEF Init, TimerFor
  <2> QED
    BY <2>1, <2>2, <2>3 DEF Init, TypeOK
<1>4. FramesOK /\ Exclusive
  BY <1>1 DEF FramesOK, Exclusive
<1>5. LocksBalanced
  BY <1>2, FS_EmptySet DEF LocksBalanced, Init
<1>6. AutocheckArmed
  BY DEF AutocheckArmed, Init, TimerFor
<1> QED
  BY <1>3, <1>4, <1>5, <1>6 DEF IInv

\* Steps that leave the stack alone, whatever they do to the rest: the lock is
\* taken with the settings, and the timer is set where it has to be.
LEMMA QuietStep ==
    ASSUME IInv, stack' = stack, UNCHANGED <<inc_is_running, ui_lock, leaked>>,
           settings' \in BOOLEAN, online_mode' \in BOOLEAN,
           autochk_newmail' \in BOOLEAN, timer' \in {"off", "interval", "second"},
           inc_lock_count' = inc_lock_count - (IF settings THEN 1 ELSE 0)
                                            + (IF settings' THEN 1 ELSE 0),
           AutocheckArmed'
    PROVE  IInv'
<1>1. /\ FramesOK' /\ Exclusive' /\ Holders' = Holders /\ Lockers' = Lockers
      /\ Depth' = Depth
  BY SameStack
<1>2. Cardinality(Holders) \in Nat
  BY Numbers DEF IInv
<1>3. LocksBalanced'
  BY <1>1, <1>2 DEF IInv, LocksBalanced, TypeOK
<1>4. inc_lock_count' \in Nat
  BY <1>2 DEF IInv, LocksBalanced, TypeOK
<1>5. TypeOK'
  BY <1>1, <1>4 DEF IInv, TypeOK
<1> QED
  BY <1>1, <1>3, <1>5 DEF IInv

\* A lock is counted before it is given back.
LEMMA LockCounted ==
    ASSUME IInv
    PROVE  /\ settings => inc_lock_count > 0
           /\ \A i \in 1..Depth : HoldsLock(stack[i]) => inc_lock_count > 0
<1>1. Cardinality(Holders) \in Nat /\ IsFiniteSet(Holders)
  BY Counted DEF IInv
<1>2. settings => inc_lock_count > 0
  BY <1>1 DEF IInv, LocksBalanced
<1>3. \A i \in 1..Depth : HoldsLock(stack[i]) => Cardinality(Holders) # 0
  BY <1>1, FS_EmptySet DEF Holders
<1> QED
  BY <1>1, <1>2, <1>3 DEF IInv, LocksBalanced

LEMMA QuietSteps ==
    ASSUME IInv,
           \/ AutocheckLocked \/ AutocheckInVain
           \/ OpenSettings \/ ApplySettings \/ CancelSettings
           \/ GoOffline \/ GoOnline
    PROVE  IInv'
<1>0. TypeOK /\ AutocheckArmed /\ LocksBalanced
  BY DEF IInv
<1>a. inc_lock_count \in Nat /\ (settings => inc_lock_count > 0)
  BY LockCounted DEF IInv, TypeOK
<1>b. stack' = stack => Lockers' = Lockers
  BY SameStack
<1>1. CASE AutocheckLocked
  <2>1. AutocheckArmed'
    BY <1>1, <1>b DEF AutocheckLocked, AutocheckArmed, TimerFor
  <2> QED
    BY <1>0, <1>1, <1>a, <2>1, QuietStep DEF AutocheckLocked, TypeOK, TimerFor
<1>2. CASE AutocheckInVain
  <2>1. inc_is_active => inc_is_running \/ Lockers # {}
    BY <1>0 DEF inc_is_active, LocksBalanced, Lockers
  <2>2. AutocheckArmed'
    BY <1>2, <1>b, <2>1 DEF AutocheckInVain, AutocheckArmed
  <2> QED
    BY <1>0, <1>2, <1>a, <2>2, QuietStep DEF AutocheckInVain, TypeOK
<1>3. CASE OpenSettings
  <2>1. ~settings
    BY <1>3 DEF OpenSettings, Idle, Modal
  <2>2. AutocheckArmed'
    BY <1>0, <1>3, <1>b DEF OpenSettings, AutocheckArmed
  <2> QED
    BY <1>0, <1>3, <1>a, <2>1, <2>2, QuietStep DEF OpenSettings, TypeOK, inc_lock
<1>4. CASE ApplySettings
  <2>1. AutocheckArmed'
    BY <1>4 DEF ApplySettings, AutocheckArmed, TimerFor
  <2>2. inc_lock_count' = inc_lock_count - (IF settings THEN 1 ELSE 0)
                                       + (IF settings' THEN 1 ELSE 0)
    BY <1>4, <1>a DEF ApplySettings, inc_unlock
  <2>3. timer' \in {"off", "interval", "second"}
    BY <1>4 DEF ApplySettings, TimerFor
  <2> QED
    BY <1>0, <1>4, <2>1, <2>2, <2>3, QuietStep DEF ApplySettings, TypeOK
<1>5. CASE CancelSettings
  <2>1. AutocheckArmed'
    BY <1>0, <1>5, <1>b DEF CancelSettings, AutocheckArmed
  <2>2. inc_lock_count' = inc_lock_count - (IF settings THEN 1 ELSE 0)
                                       + (IF settings' THEN 1 ELSE 0)
    BY <1>5, <1>a DEF CancelSettings, inc_unlock
  <2> QED
    BY <1>0, <1>5, <2>1, <2>2, QuietStep DEF CancelSettings, TypeOK
<1>6. CASE GoOffline
  <2>1. AutocheckArmed'
    BY <1>6 DEF GoOffline, AutocheckArmed
  <2>2. inc_lock_count' = inc_lock_count - (IF settings THEN 1 ELSE 0)
                                       + (IF settings' THEN 1 ELSE 0)
    BY <1>6, <1>a DEF GoOffline
  <2> QED
    BY <1>0, <1>6, <2>1, <2>2, QuietStep DEF GoOffline, TypeOK
<1>7. CASE GoOnline
  <2>1. AutocheckArmed'
    BY <1>7 DEF GoOnline, AutocheckArmed, TimerFor
  <2> QED
    BY <1>0, <1>7, <1>a, <2>1, QuietStep DEF GoOnline, TypeOK, TimerFor
<1> QED
  BY <1>1, <1>2, <1>3, <1>4, <1>5, <1>6, <1>7

\* A call that does not lock the main window; if it holds the lock, the lock is
\* taken with it.
LEMMA PushStep ==
    ASSUME IInv, NEW f \in Call, Push(f), ~Locker(f),
           UNCHANGED <<inc_is_running, ui_lock, leaked, autochk_newmail, settings>>,
           inc_lock_count' = inc_lock_count + Held(f),
           online_mode' \in BOOLEAN, timer' \in {"off", "interval", "second"},
           online_mode' # online_mode => timer' = TimerFor(autochk_newmail, "interval"),
           online_mode' = online_mode => timer' = timer,
           FramesOK', Exclusive'
    PROVE  IInv'
<1>1. /\ stack' \in Seq(Call) /\ Depth' <= MaxDepth
      /\ Cardinality(Holders)' = Cardinality(Holders) + Held(f)
      /\ Cardinality(Lockers)' = Cardinality(Lockers)
      /\ Lockers' = Lockers
  BY PushCounts, Numbers DEF UiHeld, IInv
<1>2. Held(f) \in {0, 1} /\ Cardinality(Holders) \in Nat /\ inc_lock_count \in Nat
  BY Numbers DEF Held, IInv
<1>3. inc_lock_count' \in Nat
  BY <1>2
<1>4. TypeOK'
  BY <1>1, <1>3 DEF IInv, TypeOK
<1>5. inc_lock_count' = Cardinality(Holders)' + (IF settings' THEN 1 ELSE 0)
  BY <1>1, <1>2 DEF IInv, LocksBalanced
<1>6. LocksBalanced'
  BY <1>1, <1>5 DEF IInv, LocksBalanced
<1>7. AutocheckArmed'
  BY <1>1 DEF IInv, AutocheckArmed, TimerFor
<1> QED
  BY <1>4, <1>6, <1>7 DEF IInv

LEMMA CallSteps ==
    ASSUME IInv, Send \/ SendQueue \/ OpenDialog
    PROVE  IInv'
<1>0. /\ TypeOK /\ <<>> \in Seq(AccountSet)
      /\ \A wanted \in BOOLEAN : TimerFor(wanted, "interval") \in {"off", "interval"}
  BY DEF IInv, TimerFor
<1>1. ASSUME NEW kind \in {"compose", "queue"},
             Push(Frame(kind, "begin", <<>>, <<>>)),
             MayGoOnline, online_mode',
             timer' = IF online_mode THEN timer
                                     ELSE TimerFor(autochk_newmail, "interval"),
             UNCHANGED <<inc_is_running, inc_lock_count, ui_lock, leaked,
                         autochk_newmail, settings>>
      PROVE  IInv'
  <2> DEFINE f == Frame(kind, "begin", <<>>, <<>>)
  <2>1. f \in Call /\ f.kind = kind /\ f.phase = "begin" /\ f.queue = <<>> /\ Push(f)
    BY <1>0, <1>1 DEF Frame, Call
  <2> HIDE DEF f
  <2>2. ~Locker(f) /\ Held(f) = 0
    BY <2>1 DEF Locker, Held, HoldsLock
  <2>3. FramesOK' /\ Exclusive'
    BY <2>1, PushFrames
  <2>4. online_mode' = TRUE
    BY <1>0, <1>1 DEF MayGoOnline, TypeOK
  <2>5. timer' \in {"off", "interval", "second"}
    BY <1>0, <1>1 DEF TypeOK
  <2>6. inc_lock_count' = inc_lock_count + Held(f)
    BY <1>0, <1>1, <2>2 DEF TypeOK
  <2>7. /\ online_mode' # online_mode => timer' = TimerFor(autochk_newmail, "interval")
        /\ online_mode' = online_mode => timer' = timer
    BY <1>0, <1>1, <2>4 DEF TypeOK
  <2> QED
    BY <1>1, <2>1, <2>2, <2>3, <2>4, <2>5, <2>6, <2>7, PushStep
<1>2. CASE Send
  BY <1>1, <1>2 DEF Send
<1>3. CASE SendQueue
  BY <1>1, <1>3 DEF SendQueue
<1>4. CASE OpenDialog
  <2> DEFINE f == Frame("dialog", "open", <<>>, <<>>)
  <2>1. f \in Call /\ f.kind = "dialog" /\ f.queue = <<>> /\ Push(f)
    BY <1>0, <1>4 DEF Frame, Call, OpenDialog
  <2> HIDE DEF f
  <2>2. ~Locker(f) /\ Held(f) = 1
    BY <2>1 DEF Locker, Held, HoldsLock
  <2>3. FramesOK' /\ Exclusive'
    BY <2>1, PushFrames
  <2>4. inc_lock_count' = inc_lock_count + Held(f)
    BY <1>4, <2>2 DEF OpenDialog, inc_lock
  <2> QED
    BY <1>0, <1>4, <2>1, <2>2, <2>3, <2>4, PushStep DEF OpenDialog, TypeOK
<1> QED
  BY <1>2, <1>3, <1>4

\* Two remote mailbox windows, or one and a check, do not go together.
LEMMA Rpop3Step ==
    ASSUME IInv, NEW a \in AccountSet, Rpop3(a)
    PROVE  IInv'
<1> DEFINE f == Frame("rpop3", "open", <<a>>, <<>>)
<1>1. f \in Call /\ f.kind = "rpop3" /\ Push(f)
  <2>1. <<a>> \in Seq(AccountSet) /\ <<>> \in Seq(AccountSet)
    OBVIOUS
  <2> QED
    BY <2>1 DEF Frame, Call, Rpop3
<1> HIDE DEF f
<1>2. ~Locker(f) /\ Held(f) = 1
  BY <1>1 DEF Locker, Held, HoldsLock
<1>3. \A i \in 1..Depth : stack[i].queue = <<>>
  BY NothingRetrieves DEF Rpop3
<1>4. /\ Depth \in Nat /\ Depth' = Depth + 1 /\ stack'[Depth + 1] = f
      /\ \A i \in 1..Depth : stack'[i] = stack[i]
  BY <1>1, PushCounts, Numbers DEF IInv
<1>5. FramesOK'
  BY <1>1, <1>4 DEF IInv, FramesOK
<1>6. Exclusive'
  BY <1>3, <1>4 DEF Exclusive, Retrieving
<1>7. inc_lock_count' = inc_lock_count + Held(f)
  BY <1>2 DEF Rpop3, inc_lock
<1> QED
  BY <1>1, <1>2, <1>5, <1>6, <1>7, PushStep DEF Rpop3, IInv, TypeOK

\* POP before SMTP is not even tried while anything holds the lock.
LEMMA LoginStep ==
    ASSUME IInv, NEW a \in AccountSet, Login(a)
    PROVE  IInv'
<1> DEFINE f == Frame("auth", "sessions", <<a>>, <<>>)
           g == [Top EXCEPT !.phase = "connect"]
<1>1. f \in Call /\ f.kind = "auth"
  <2>1. <<a>> \in Seq(AccountSet) /\ <<>> \in Seq(AccountSet)
    OBVIOUS
  <2> QED
    BY <2>1 DEF Frame, Call
<1>2. /\ stack # <<>> /\ Depth \in Nat /\ Depth >= 1 /\ Depth + 1 <= MaxDepth
      /\ Top \in Call /\ Top = stack[Depth] /\ Top.kind \in {"queue", "compose"}
  BY Numbers, DepthAssumption DEF Login, AtTop, IInv
<1>3. g \in Call /\ g.kind = Top.kind /\ g.queue = Top.queue /\ g.phase = "connect"
  BY <1>2 DEF Call
<1>4. stack' = Append([stack EXCEPT ![Depth] = g], f)
  BY DEF Login, Top
<1> HIDE DEF f, g
<1>5. /\ stack' \in Seq(Call) /\ Depth' = Depth + 1
      /\ stack'[Depth + 1] = f /\ stack'[Depth] = g
      /\ \A i \in 1..(Depth - 1) : stack'[i] = stack[i]
  BY <1>1, <1>2, <1>3, <1>4, Numbers DEF IInv, Depth
<1>6. ~settings /\ \A i \in 1..Depth : ~HoldsLock(stack[i])
  BY NoHolders DEF Login
<1>7. ~HoldsLock(f) /\ ~HoldsLock(g)
  BY <1>1, <1>2, <1>3 DEF HoldsLock
<1>8. Holders' = {}
  BY <1>2, <1>5, <1>6, <1>7 DEF Holders
<1>9. Lockers' = Lockers \cup {Depth + 1}
  BY <1>1, <1>2, <1>3, <1>5 DEF Lockers
<1>10. Cardinality(Lockers)' = Cardinality(Lockers) + 1
  <2>1. Depth + 1 \notin Lockers
    BY <1>2 DEF Lockers
  <2> QED
    BY <1>9, <2>1, Counted, FS_AddElement DEF IInv
<1>11. FramesOK'
  BY <1>1, <1>2, <1>3, <1>5 DEF IInv, FramesOK
<1>12. Exclusive'
  BY <1>1, <1>2, <1>3, <1>5 DEF IInv, Exclusive, Retrieving
<1>13. TypeOK'
  <2>1. stack' \in Seq(Call) /\ Depth' =< MaxDepth
    BY <1>2, <1>5
  <2>2. /\ inc_is_running' \in BOOLEAN /\ timer' = "off" /\ settings' = settings
        /\ autochk_newmail' = autochk_newmail /\ ui_lock' = ui_lock + 1
        /\ inc_lock_count' = inc_lock_count /\ online_mode' \in BOOLEAN
    BY DEF Login, MayGoOnline
  <2>3. leaked' = leaked
    BY DEF Login
  <2> QED
    BY <2>1, <2>2, <2>3 DEF IInv, TypeOK
<1>14. LocksBalanced'
  BY <1>6, <1>8, <1>9, <1>10, FS_EmptySet, Numbers
     DEF IInv, LocksBalanced, Login, TypeOK
<1>15. AutocheckArmed'
  BY <1>9 DEF AutocheckArmed
<1> QED
  BY <1>11, <1>12, <1>13, <1>14, <1>15 DEF IInv

\* The call on top goes on, and its hold on the lock with its phase.
LEMMA ReplaceStep ==
    ASSUME IInv, stack # <<>>, NEW f \in Call, f.kind = Top.kind, Replace(f),
           UNCHANGED <<inc_is_running, ui_lock, leaked, timer, autochk_newmail,
                       online_mode, settings>>,
           inc_lock_count' = inc_lock_count - Held(Top) + Held(f),
           FramesOK', Exclusive'
    PROVE  IInv'
<1>1. /\ stack' \in Seq(Call) /\ Depth' = Depth
      /\ Cardinality(Holders)' = Cardinality(Holders) - Held(Top) + Held(f)
      /\ Lockers' = Lockers
  BY ReplaceCounts DEF IInv, Replace
<1>2. /\ Held(f) \in {0, 1} /\ Held(Top) \in {0, 1}
      /\ Cardinality(Holders) \in Nat /\ inc_lock_count \in Nat
      /\ Cardinality(Holders) >= Held(Top)
  <2>1. HoldsLock(Top) => Cardinality(Holders) >= 1
    BY ReplaceCounts DEF IInv, Replace
  <2> QED
    BY <2>1, Numbers DEF Held, IInv
<1>3. inc_lock_count' = Cardinality(Holders)' + (IF settings' THEN 1 ELSE 0)
  BY <1>1, <1>2 DEF IInv, LocksBalanced
<1>4. inc_lock_count' \in Nat
  BY <1>1, <1>2, <1>3
<1>5. TypeOK'
  BY <1>1, <1>4 DEF IInv, TypeOK
<1>6. LocksBalanced'
  BY <1>1, <1>3 DEF IInv, LocksBalanced
<1>7. AutocheckArmed'
  BY <1>1 DEF IInv, AutocheckArmed
<1> QED
  BY <1>5, <1>6, <1>7 DEF IInv

LEMMA ReturnStep ==
    ASSUME IInv, stack # <<>>, ~Locker(Top), Return,
           UNCHANGED <<inc_is_running, ui_lock, leaked, timer, autochk_newmail,
                       online_mode, settings>>,
           inc_lock_count' = inc_lock_count - Held(Top)
    PROVE  IInv'
<1>1. /\ stack' \in Seq(Call) /\ Depth' = Depth - 1 /\ Depth <= MaxDepth
      /\ Cardinality(Holders)' = Cardinality(Holders) - Held(Top)
      /\ Lockers' = Lockers
  <2>1. Depth \notin Lockers
    BY DEF Lockers, Locker, Top
  <2> QED
    BY <2>1, ReturnCounts DEF IInv
<1>2. /\ Held(Top) \in {0, 1} /\ Depth \in Nat /\ MaxDepth \in Nat
      /\ Cardinality(Holders) \in Nat /\ inc_lock_count \in Nat
      /\ Cardinality(Holders) >= Held(Top)
  BY Numbers, ReturnCounts, DepthAssumption DEF Held, IInv
<1>3. inc_lock_count' = Cardinality(Holders)' + (IF settings' THEN 1 ELSE 0)
  BY <1>1, <1>2 DEF IInv, LocksBalanced
<1>4. inc_lock_count' \in Nat /\ Depth' <= MaxDepth
  BY <1>1, <1>2, <1>3
<1>5. TypeOK'
  BY <1>1, <1>4 DEF IInv, TypeOK
<1>6. LocksBalanced'
  BY <1>1, <1>3 DEF IInv, LocksBalanced
<1>7. AutocheckArmed'
  BY <1>1 DEF IInv, AutocheckArmed
<1>8. FramesOK' /\ Exclusive'
  BY ReturnFrames
<1> QED
  BY <1>5, <1>6, <1>7, <1>8 DEF IInv

\* inc_unlock, by a call that holds the lock.
LEMMA Unlock ==
    ASSUME IInv, stack # <<>>, HoldsLock(Top), inc_unlock
    PROVE  inc_lock_count' = inc_lock_count - Held(Top)
<1>1. Held(Top) = 1 /\ inc_lock_count \in Nat
  BY Numbers DEF Held, IInv
<1>2. Depth \in 1..Depth /\ Top = stack[Depth]
  BY Numbers DEF IInv
<1>3. inc_lock_count > 0
  BY <1>2, LockCounted
<1> QED
  BY <1>1, <1>3 DEF inc_unlock

\* The first account is at work on its maildrop only now, so no other call is.
LEMMA RemoteDoneStep ==
    ASSUME IInv, RemoteDone
    PROVE  IInv'
<1> DEFINE f == Frame("inc", "sessions", Top.pending, <<>>)
<1>1. /\ stack # <<>> /\ Depth \in Nat /\ Depth >= 1 /\ Top \in Call
      /\ Top = stack[Depth] /\ Top.kind = "inc" /\ Top.phase = "remote"
  BY Numbers DEF RemoteDone, AtTop, IInv
<1>2. f \in Call /\ f.kind = "inc" /\ f.phase = "sessions" /\ Replace(f)
  <2>1. <<>> \in Seq(AccountSet)
    OBVIOUS
  <2> QED
    BY <1>1, <2>1 DEF Frame, Call, RemoteDone
<1> HIDE DEF f
<1>3. /\ Depth' = Depth /\ stack'[Depth] = f
      /\ \A i \in 1..(Depth - 1) : stack'[i] = stack[i]
  BY <1>1, <1>2, ReplaceCounts DEF IInv, Replace
<1>4. \A i \in 1..(Depth - 1) : stack[i].queue = <<>>
  BY <1>1 DEF IInv, FramesOK
<1>5. FramesOK'
  BY <1>1, <1>2, <1>3 DEF IInv, FramesOK
<1>6. Exclusive'
  BY <1>1, <1>3, <1>4 DEF Exclusive, Retrieving
<1>7. Held(Top) = 0 /\ Held(f) = 0
  BY <1>1, <1>2 DEF Held, HoldsLock
<1>8. inc_lock_count' = inc_lock_count - Held(Top) + Held(f)
  BY <1>7, Numbers DEF RemoteDone, IInv
<1> QED
  BY <1>1, <1>2, <1>5, <1>6, <1>8, ReplaceStep DEF RemoteDone

LEMMA SessionDoneStep ==
    ASSUME IInv, SessionDone
    PROVE  IInv'
<1>1. /\ stack # <<>> /\ Top \in Call
      /\ Top.kind \in {"inc", "auth"} /\ Top.phase = "sessions" /\ Top.queue # <<>>
  BY Numbers DEF SessionDone, AtTop, IInv
<1>2. PICK rest \in {Tail(Top.queue), <<>>} : Replace([Top EXCEPT !.queue = rest])
  BY DEF SessionDone
<1> DEFINE f == [Top EXCEPT !.queue = rest]
<1>3. f \in Call /\ f.kind = Top.kind /\ f.phase = "sessions"
  <2>1. Top.queue \in Seq(AccountSet)
    BY <1>1 DEF Call
  <2>2. Tail(Top.queue) \in Seq(AccountSet) /\ <<>> \in Seq(AccountSet)
    BY <1>1, <2>1
  <2> QED
    BY <1>1, <2>2 DEF Call
<1>4. Replace(f)
  BY <1>2
<1> HIDE DEF f
<1>5. FramesOK' /\ Exclusive'
  BY <1>1, <1>3, <1>4, ReplaceFrames DEF Replace
<1>6. Held(Top) = 0 /\ Held(f) = 0
  BY <1>1, <1>3 DEF Held, HoldsLock
<1>7. inc_lock_count' = inc_lock_count - Held(Top) + Held(f)
  BY <1>6, Numbers DEF SessionDone, IInv
<1> QED
  BY <1>1, <1>3, <1>4, <1>5, <1>7, ReplaceStep DEF SessionDone

\* The main window is unlocked, and the timer set again.
LEMMA IncDoneStep ==
    ASSUME IInv, IncDone
    PROVE  IInv'
<1>1. stack # <<>> /\ Locker(Top) /\ Held(Top) = 0 /\ UiHeld(Top) = 1
  BY DEF IncDone, AtTop, Locker, Held, UiHeld, HoldsLock
<1>2. /\ stack' \in Seq(Call) /\ Depth' = Depth - 1 /\ Depth <= MaxDepth
      /\ Cardinality(Holders)' = Cardinality(Holders)
      /\ Cardinality(Lockers)' = Cardinality(Lockers) - 1
      /\ Cardinality(Lockers) >= 1
  BY <1>1, ReturnCounts, Numbers DEF IInv, IncDone
<1>3. /\ Cardinality(Lockers) \in Nat /\ leaked \in Nat
      /\ ui_lock = Cardinality(Lockers) + leaked
      /\ Depth \in Nat /\ MaxDepth \in Nat
  BY Numbers, DepthAssumption DEF IInv, LocksBalanced, TypeOK
<1>4. ui_lock' = Cardinality(Lockers)' + leaked /\ ui_lock' \in Nat
  BY <1>2, <1>3 DEF IncDone
<1>5. Depth' <= MaxDepth
  BY <1>2, <1>3
<1>6. timer' \in {"off", "interval", "second"}
  BY DEF IncDone, TimerFor
<1>7. TypeOK'
  BY <1>2, <1>4, <1>5, <1>6 DEF IInv, TypeOK, IncDone
<1>8. LocksBalanced'
  BY <1>2, <1>4 DEF IInv, LocksBalanced, IncDone
<1>9. AutocheckArmed'
  BY DEF AutocheckArmed, IncDone, TimerFor
<1>10. FramesOK' /\ Exclusive'
  BY <1>1, ReturnFrames DEF IncDone
<1> QED
  BY <1>7, <1>8, <1>9, <1>10 DEF IInv

\* A call that sends is in another phase, with its lock taken or given back.
LEMMA PhaseStep ==
    ASSUME IInv, stack # <<>>, Top.kind \in {"queue", "compose"},
           NEW phase \in {"begin", "connect", "sending", "saving"},
           Replace([Top EXCEPT !.phase = phase]),
           UNCHANGED <<inc_is_running, ui_lock, leaked, timer, autochk_newmail,
                       online_mode, settings>>,
           inc_lock_count' = inc_lock_count - Held(Top)
                                + Held([Top EXCEPT !.phase = phase])
    PROVE  IInv'
<1> DEFINE f == [Top EXCEPT !.phase = phase]
<1>1. Top \in Call
  BY Numbers DEF IInv
<1>2. f \in Call /\ f.kind = Top.kind /\ f.queue = Top.queue
  BY <1>1 DEF Call
<1>3. Replace(f) /\ inc_lock_count' = inc_lock_count - Held(Top) + Held(f)
  OBVIOUS
<1> HIDE DEF f
<1>4. FramesOK' /\ Exclusive'
  BY <1>2, <1>3, ReplaceFrames DEF Replace
<1> QED
  BY <1>2, <1>3, <1>4, ReplaceStep

\* Every way out of a call that sends.
LEMMA LeaveStep ==
    ASSUME IInv, stack # <<>>, Top.kind \in {"queue", "compose"}, Leave,
           UNCHANGED <<inc_is_running, ui_lock, leaked, timer, autochk_newmail,
                       online_mode, settings>>,
           inc_lock_count' = inc_lock_count - Held(Top)
    PROVE  IInv'
<1>1. CASE Return
  BY <1>1, ReturnStep DEF Locker
<1>2. CASE Replace([Top EXCEPT !.phase = "begin"])
  <2>1. Top \in Call /\ inc_lock_count \in Nat /\ Held(Top) \in {0, 1}
    BY Numbers DEF IInv, Held
  <2>2. Held([Top EXCEPT !.phase = "begin"]) = 0
    BY <2>1 DEF Held, HoldsLock, Call
  <2>3. inc_lock_count' = inc_lock_count - Held(Top)
                             + Held([Top EXCEPT !.phase = "begin"])
    BY <2>1, <2>2
  <2> QED
    BY <1>2, <2>3, PhaseStep
<1> QED
  BY <1>1, <1>2 DEF Leave

LEMMA SendSteps ==
    ASSUME IInv,
           \/ NoLogin \/ LoginFailed \/ Connect
           \/ SendFailed \/ SendDone \/ Saved
    PROVE  IInv'
<1>0. inc_lock_count \in Nat /\ (stack # <<>> => Top \in Call)
  BY Numbers DEF IInv
<1> DEFINE In(phase) == [Top EXCEPT !.phase = phase]
<1>1. CASE NoLogin
  <2>1. Top.kind \in {"queue", "compose"} /\ stack # <<>> /\ Replace(In("connect"))
    BY <1>1 DEF NoLogin, AtTop
  <2>2. Held(Top) = 0 /\ Held(In("connect")) = 0
    BY <1>0, <1>1, <2>1 DEF NoLogin, AtTop, Held, HoldsLock, Call
  <2>3. inc_lock_count' = inc_lock_count - Held(Top) + Held(In("connect"))
    BY <1>0, <1>1, <2>2 DEF NoLogin
  <2> QED
    BY <1>1, <2>1, <2>3, PhaseStep DEF NoLogin
<1>2. CASE LoginFailed
  <2>1. Top.kind \in {"queue", "compose"} /\ stack # <<>> /\ Held(Top) = 0
    BY <1>2 DEF LoginFailed, AtTop, Held, HoldsLock
  <2>2. inc_lock_count' = inc_lock_count - Held(Top)
    BY <1>0, <1>2, <2>1 DEF LoginFailed
  <2> QED
    BY <1>2, <2>1, <2>2, LeaveStep DEF LoginFailed
<1>3. CASE Connect
  <2>1. Top.kind \in {"queue", "compose"} /\ stack # <<>> /\ Replace(In("sending"))
    BY <1>3 DEF Connect, AtTop
  <2>2. Held(Top) = 0 /\ Held(In("sending")) = 1
    BY <1>0, <1>3, <2>1 DEF Connect, AtTop, Held, HoldsLock, Call
  <2>3. inc_lock_count' = inc_lock_count - Held(Top) + Held(In("sending"))
    BY <1>0, <1>3, <2>2 DEF Connect, inc_lock
  <2> QED
    BY <1>3, <2>1, <2>3, PhaseStep DEF Connect
<1>4. CASE SendFailed
  <2>1. Top.kind \in {"queue", "compose"} /\ stack # <<>> /\ HoldsLock(Top)
    BY <1>4 DEF SendFailed, AtTop, HoldsLock
  <2>2. inc_lock_count' = inc_lock_count - Held(Top)
    BY <1>4, <2>1, Unlock DEF SendFailed
  <2> QED
    BY <1>4, <2>1, <2>2, LeaveStep DEF SendFailed
<1>5. CASE SendDone
  <2>1. /\ Top.kind \in {"queue", "compose"} /\ stack # <<>>
        /\ HoldsLock(Top) /\ Replace(In("saving"))
    BY <1>5 DEF SendDone, AtTop, HoldsLock
  <2>2. Held(Top) = 1
    BY <2>1 DEF Held
  <2>3. Held(In("saving")) = IF Top.kind = "queue" THEN 0 ELSE 1
    BY <1>0, <2>1 DEF Held, HoldsLock, Call
  <2>4. inc_lock_count' = inc_lock_count - Held(Top) + Held(In("saving"))
    <3>1. CASE Top.kind = "queue"
      BY <1>0, <1>5, <2>1, <2>2, <2>3, <3>1, Unlock DEF SendDone
    <3>2. CASE Top.kind # "queue"
      BY <1>0, <1>5, <2>1, <2>2, <2>3, <3>2 DEF SendDone
    <3> QED
      BY <3>1, <3>2
  <2> QED
    BY <1>5, <2>1, <2>4, PhaseStep DEF SendDone
<1>6. CASE Saved
  <2>1. Top.kind \in {"queue", "compose"} /\ Top.phase = "saving" /\ stack # <<>>
    BY <1>6 DEF Saved, AtTop
  <2>2. inc_lock_count' = inc_lock_count - Held(Top)
    <3>1. CASE Top.kind = "compose"
      BY <1>6, <2>1, <3>1, Unlock DEF Saved, HoldsLock
    <3>2. CASE Top.kind # "compose"
      <4>1. Held(Top) = 0
        BY <2>1, <3>2 DEF Held, HoldsLock
      <4> QED
        BY <1>0, <1>6, <3>2, <4>1 DEF Saved
    <3> QED
      BY <3>1, <3>2
  <2> QED
    BY <1>6, <2>1, <2>2, LeaveStep DEF Saved
<1> QED
  BY <1>1, <1>2, <1>3, <1>4, <1>5, <1>6

\* The login that returns early: it leaves a lock and inc_is_running behind.
LEMMA GivesUpStep ==
    ASSUME IInv, LoginGivesUp
    PROVE  IInv'
<1>1. /\ stack # <<>> /\ Top.kind \in {"queue", "compose"} /\ Top.phase = "begin"
      /\ Top \in Call /\ Leave
      /\ Depth \in Nat /\ MaxDepth \in Nat /\ Depth <= MaxDepth
  BY Numbers, DepthAssumption DEF LoginGivesUp, AtTop, IInv
<1>2. ~Locker(Top) /\ Held(Top) = 0 /\ UiHeld(Top) = 0
  BY <1>1 DEF Locker, Held, UiHeld, HoldsLock
<1>3. /\ stack' \in Seq(Call) /\ Depth' <= MaxDepth /\ Lockers' = Lockers
      /\ Cardinality(Holders)' = Cardinality(Holders)
      /\ FramesOK' /\ Exclusive'
  <2>1. CASE Return
    <3>1. FramesOK' /\ Exclusive'
      BY <1>1, <2>1, ReturnFrames
    <3>2. Depth \notin Lockers
      BY <1>2 DEF Lockers, Locker, Top
    <3>3. /\ stack' \in Seq(Call) /\ Depth' = Depth - 1 /\ Lockers' = Lockers \ {Depth}
          /\ Cardinality(Holders)' = Cardinality(Holders) - Held(Top)
          /\ Cardinality(Holders) \in Nat
      BY <1>1, <2>1, ReturnCounts, Numbers DEF IInv
    <3> QED
      BY <1>1, <1>2, <3>1, <3>2, <3>3
  <2>2. CASE Replace([Top EXCEPT !.phase = "begin"])
    <3>1. [Top EXCEPT !.phase = "begin"] = Top
      BY <1>1 DEF Call
    <3>2. stack' = [stack EXCEPT ![Depth] = Top]
      BY <2>2, <3>1 DEF Replace
    <3>3. stack' = stack
      BY <1>1, <3>2, Numbers DEF IInv
    <3> QED
      BY <1>1, <3>3, SameStack, Numbers DEF IInv
  <2> QED
    BY <1>1, <2>1, <2>2 DEF Leave
<1>4. /\ inc_is_running' = TRUE /\ timer' = "off" /\ ui_lock' = ui_lock + 1
      /\ leaked' = leaked + 1 /\ online_mode' \in BOOLEAN
      /\ UNCHANGED <<inc_lock_count, autochk_newmail, settings>>
  BY DEF LoginGivesUp, MayGoOnline
<1>5. TypeOK'
  BY <1>3, <1>4 DEF IInv, TypeOK
<1>6. LocksBalanced'
  BY <1>3, <1>4, Numbers DEF IInv, LocksBalanced, TypeOK
<1>7. AutocheckArmed'
  BY <1>4 DEF AutocheckArmed
<1> QED
  BY <1>3, <1>5, <1>6, <1>7 DEF IInv

LEMMA WindowSteps ==
    ASSUME IInv, Rpop3Done \/ CloseDialog
    PROVE  IInv'
<1>1. CASE Rpop3Done
  <2>1. stack # <<>> /\ ~Locker(Top) /\ HoldsLock(Top)
    BY <1>1 DEF Rpop3Done, AtTop, Locker, HoldsLock
  <2>2. inc_lock_count' = inc_lock_count - Held(Top)
    BY <1>1, <2>1, Unlock DEF Rpop3Done
  <2> QED
    BY <1>1, <2>1, <2>2, ReturnStep DEF Rpop3Done
<1>2. CASE CloseDialog
  <2>1. stack # <<>> /\ ~Locker(Top) /\ HoldsLock(Top)
    BY <1>2 DEF CloseDialog, AtTop, Locker, HoldsLock
  <2>2. inc_lock_count' = inc_lock_count - Held(Top)
    BY <1>2, <2>1, Unlock DEF CloseDialog
  <2> QED
    BY <1>2, <2>1, <2>2, ReturnStep DEF CloseDialog
<1> QED
  BY <1>1, <1>2

LEMMA StepInv == IInv /\ [Next]_vars => IInv'
<1> SUFFICES ASSUME IInv, [Next]_vars PROVE IInv'
  OBVIOUS
<1>1. ASSUME NEW job \in Jobs, Receive(job) PROVE IInv'
  BY <1>1, StartStep DEF Receive
<1>2. CASE AutocheckStarts
  BY <1>2, StartStep DEF AutocheckStarts, Jobs
<1>3. CASE RemoteDone
  BY <1>3, RemoteDoneStep
<1>4. CASE SessionDone
  BY <1>4, SessionDoneStep
<1>5. CASE IncDone
  BY <1>5, IncDoneStep
<1>6. CASE Send \/ SendQueue \/ OpenDialog
  BY <1>6, CallSteps
<1>7. ASSUME NEW a \in AccountSet, Login(a) \/ Rpop3(a) PROVE IInv'
  BY <1>7, LoginStep, Rpop3Step
<1>8. CASE NoLogin \/ LoginFailed \/ Connect \/ SendFailed \/ SendDone \/ Saved
  BY <1>8, SendSteps
<1>9. CASE Rpop3Done \/ CloseDialog
  BY <1>9, WindowSteps
<1>12. CASE LoginGivesUp
  BY <1>12, GivesUpStep
<1>10. CASE \/ AutocheckLocked \/ AutocheckInVain
            \/ OpenSettings \/ ApplySettings \/ CancelSettings
            \/ GoOffline \/ GoOnline
  BY <1>10, QuietSteps
<1>11. CASE UNCHANGED vars
  <2>1. /\ stack' = stack /\ inc_is_running' = inc_is_running
        /\ inc_lock_count' = inc_lock_count /\ ui_lock' = ui_lock
        /\ timer' = timer /\ autochk_newmail' = autochk_newmail
        /\ online_mode' = online_mode /\ settings' = settings /\ leaked' = leaked
    BY <1>11 DEF vars
  <2>2. /\ FramesOK' /\ Exclusive' /\ Holders' = Holders /\ Lockers' = Lockers
        /\ Depth' = Depth
    BY <2>1, SameStack
  <2>3. TypeOK'
    BY <2>1, <2>2 DEF IInv, TypeOK
  <2>4. LocksBalanced'
    BY <2>1, <2>2 DEF IInv, LocksBalanced
  <2>5. AutocheckArmed'
    BY <2>1, <2>2 DEF IInv, AutocheckArmed
  <2> QED
    BY <2>2, <2>3, <2>4, <2>5 DEF IInv
<1> QED
  BY <1>1, <1>2, <1>3, <1>4, <1>5, <1>6, <1>7, <1>8, <1>9, <1>10, <1>11,
     <1>12 DEF Next

LEMMA Invariance == Spec => []IInv
BY InitInv, StepInv, PTL DEF Spec

-----------------------------------------------------------------------------
\* The stack of calls, the locks, the timer and the settings keep their types.
THEOREM TypeCorrect == Spec => []TypeOK
<1>1. IInv => TypeOK
  BY DEF IInv
<1> QED
  BY <1>1, Invariance, PTL

\* However calls nest in each other's main loops, one at a time retrieves mail,
\* a login before sending apart (inc_is_active, inc_lock_count).
THEOREM OneRetrieval == Spec => []Exclusive
<1>1. IInv => Exclusive
  BY DEF IInv
<1> QED
  BY <1>1, Invariance, PTL

\* inc_lock and inc_unlock, main_window_lock and main_window_unlock are paired
\* on every path, failures included, and inc_is_running is reset in the end; the
\* logins that return early (inc.c:662) are what is left over.
THEOREM LocksArePaired == Spec => []LocksBalanced
<1>1. IInv => LocksBalanced
  BY DEF IInv
<1> QED
  BY <1>1, Invariance, PTL

\* The automatic check is never forgotten (inc_autocheck_timer_set).
THEOREM AutocheckIsArmed == Spec => []AutocheckArmed
<1>1. IInv => AutocheckArmed
  BY DEF IInv
<1> QED
  BY <1>1, Invariance, PTL

=============================================================================
