-------------------------- MODULE ComposingProofs --------------------------
(***************************************************************************)
(* Theorems about Composing, for any windows, messages and edits.          *)
(***************************************************************************)
EXTENDS Composing, TLAPS, SequenceTheorems, FiniteSetTheorems

Depth == Len(calls)

\* The windows with a call, and those that a call has locked.
Called == {calls[k].win : k \in 1..Depth}
Held == {calls[k].win : k \in {n \in 1..Depth : calls[n].at \notin Questions}}

Typed ==
    /\ windows \in [Windows -> Compose \cup {NoWindow}]
    /\ files \in [Ids -> Message \cup {NoFile}]
    /\ calls \in Seq(Call)
    /\ edits \in 0..MaxEdits /\ given \subseteq 1..edits /\ failed \in BOOLEAN

TextsOK ==
    /\ \A i \in Files : files[i].text \subseteq 1..edits
    /\ \A w \in Open :
          /\ windows[w].text \subseteq 1..edits
          /\ windows[w].editor = NoEditor \/ windows[w].editor \subseteq 1..edits

LinksOK ==
    /\ \A w \in Open : windows[w].target \in Files \cup {NoTarget}
    /\ Called \subseteq Open

\* Calls that do not run the main loop are on top, and only the timer's saving
\* comes above another call of the same window, which is a question.
CallsOK ==
    /\ \A k \in 1..Depth : k < Depth => calls[k].at \in Questions \cup {"sending"}
    /\ \A j, k \in 1..Depth :
          j < k /\ calls[j].win = calls[k].win
          => calls[j].at \in Questions /\ calls[k].action = "keep"

LockOK == \A w \in Open : windows[w].lock_count = 1 <=> w \in Held

\* The message that was just added is not one that a window edits again.
SavedOK ==
    Saving /\ Top.action # "send"
    => Top.id \in Files /\ \A w \in Open : windows[w].target # Top.id

Inv == Typed /\ TextsOK /\ LinksOK /\ CallsOK /\ LockOK /\ SavedOK

-----------------------------------------------------------------------------
\* The calls: one more, the one on top goes on, or returns.

LEMMA TopType ==
    ASSUME Typed
    PROVE  /\ Depth \in Nat
           /\ \A k \in 1..Depth : calls[k] \in Call
           /\ calls # <<>> => Depth \in 1..Depth /\ Top \in Call /\ Top = calls[Depth]
           /\ calls = <<>> <=> Depth = 0
BY DEF Typed, Depth, Top

LEMMA Pushed ==
    ASSUME Typed, NEW r \in Call, calls' = Append(calls, r)
    PROVE  /\ calls' \in Seq(Call) /\ calls' # <<>> /\ Depth' = Depth + 1
           /\ Top' = r /\ calls'[Depth + 1] = r
           /\ \A k \in 1..Depth : calls'[k] = calls[k]
BY DEF Typed, Depth, Top

LEMMA ReturnedType ==
    ASSUME Typed, calls # <<>>
    PROVE  /\ Returned \in Seq(Call) /\ Len(Returned) = Depth - 1 /\ Depth \in Nat \ {0}
           /\ \A k \in 1..(Depth - 1) : Returned[k] = calls[k]
<1> DEFINE n == Depth - 1
<1>1. calls \in Seq(Call) /\ Depth \in Nat \ {0} /\ n \in Nat
    BY DEF Typed, Depth
<1>2. \A k \in 1..n : calls[k] \in Call
    BY <1>1 DEF Depth
<1> HIDE DEF n
<1>3. /\ SubSeq(calls, 1, n) \in Seq(Call) /\ Len(SubSeq(calls, 1, n)) = n
      /\ \A k \in 1..n : SubSeq(calls, 1, n)[k] = calls[k]
    BY <1>1, <1>2
<1>4. QED
    BY <1>1, <1>3 DEF Returned, Depth, n

LEMMA Popped ==
    ASSUME Typed, calls # <<>>, calls' = Returned
    PROVE  /\ calls' \in Seq(Call) /\ Depth' = Depth - 1
           /\ \A k \in 1..(Depth - 1) : calls'[k] = calls[k]
           /\ calls' # <<>> => Depth - 1 \in 1..Depth /\ Top' = calls[Depth - 1]
<1>1. /\ Returned \in Seq(Call) /\ Len(Returned) = Depth - 1 /\ Depth \in Nat \ {0}
      /\ \A k \in 1..(Depth - 1) : Returned[k] = calls[k]
    BY ReturnedType
<1>2. calls' \in Seq(Call) /\ Depth' = Depth - 1
    BY <1>1 DEF Depth
<1>3. calls' # <<>> => Depth - 1 \in 1..(Depth - 1) /\ Depth - 1 \in 1..Depth
    BY <1>1, <1>2 DEF Depth
<1>4. calls' # <<>> => Top' = calls'[Depth - 1]
    BY <1>2 DEF Top, Depth
<1>5. QED
    BY <1>1, <1>2, <1>3, <1>4

LEMMA WentOn ==
    ASSUME Typed, calls # <<>>, NEW r \in Call, calls' = Append(Returned, r)
    PROVE  /\ calls' \in Seq(Call) /\ calls' # <<>> /\ Depth' = Depth
           /\ Top' = r /\ calls'[Depth] = r
           /\ \A k \in 1..(Depth - 1) : calls'[k] = calls[k]
<1>1. /\ Returned \in Seq(Call) /\ Len(Returned) = Depth - 1 /\ Depth \in Nat \ {0}
      /\ \A k \in 1..(Depth - 1) : Returned[k] = calls[k]
    BY ReturnedType
<1>2. /\ calls' \in Seq(Call) /\ Len(calls') = Depth /\ calls'[Depth] = r
      /\ \A k \in 1..(Depth - 1) : calls'[k] = Returned[k]
    BY <1>1
<1>3. QED
    BY <1>1, <1>2 DEF Depth, Top

-----------------------------------------------------------------------------
\* What that does to the windows that are called and held.

LEMMA PushedHolds ==
    ASSUME Typed, NEW r \in Call, calls' = Append(calls, r)
    PROVE  /\ Called' = Called \cup {r.win}
           /\ r.at \in Questions => Held' = Held
           /\ r.at \notin Questions => Held' = Held \cup {r.win}
<1>1. /\ Depth \in Nat /\ Depth' = Depth + 1 /\ calls'[Depth + 1] = r
      /\ \A k \in 1..Depth : calls'[k] = calls[k]
    BY TopType, Pushed
<1>2. \A k : k \in 1..Depth' <=> k \in 1..Depth \/ k = Depth + 1
    BY <1>1
<1>3. QED
    BY <1>1, <1>2 DEF Called, Held

\* The top call's window is called, and held, by no other one.
LEMMA PoppedHolds ==
    ASSUME Typed, CallsOK, calls # <<>>, calls' = Returned
    PROVE  /\ Called \subseteq Called' \cup {Top.win} /\ Called' \subseteq Called
           /\ Top.win \in Called
           /\ Top.action # "keep" => Top.win \notin Called'
           /\ Top.at \in Questions => Held' = Held
           /\ Top.at \notin Questions => Held' = Held \ {Top.win} /\ Top.win \in Held
<1>1. /\ Depth \in Nat \ {0} /\ Depth' = Depth - 1 /\ Top = calls[Depth]
      /\ \A k \in 1..(Depth - 1) : calls'[k] = calls[k]
    BY TopType, Popped
<1>2. \A k : k \in 1..Depth <=> k \in 1..Depth' \/ k = Depth
    BY <1>1
<1>3. \A k \in 1..Depth' : k \in 1..Depth /\ calls'[k] = calls[k]
    BY <1>1, <1>2
<1>4. \A k \in 1..Depth' : calls[k].win = Top.win
          => calls[k].at \in Questions /\ Top.action = "keep"
    BY <1>1, <1>2 DEF CallsOK
<1>5. QED
    BY <1>1, <1>2, <1>3, <1>4 DEF Called, Held

LEMMA WentOnHolds ==
    ASSUME Typed, CallsOK, calls # <<>>, NEW r \in Call, calls' = Append(Returned, r),
           r.win = Top.win
    PROVE  /\ Called' = Called /\ Top.win \in Called
           /\ (Top.at \in Questions <=> r.at \in Questions) => Held' = Held
           /\ Top.at \in Questions /\ r.at \notin Questions => Held' = Held \cup {Top.win}
<1>1. /\ Depth \in Nat \ {0} /\ Depth' = Depth /\ Top = calls[Depth] /\ calls'[Depth] = r
      /\ \A k \in 1..(Depth - 1) : calls'[k] = calls[k]
    BY TopType, WentOn
<1>2. \A k : k \in 1..Depth <=> k \in 1..(Depth - 1) \/ k = Depth
    BY <1>1
<1>3. \A k \in 1..Depth : calls'[k].win = calls[k].win
    BY <1>1, <1>2
<1>4. Called' = Called /\ Top.win \in Called
    <2>1. Depth \in 1..Depth /\ 1..Depth' = 1..Depth
        BY <1>1
    <2>2. Called' = {calls[k].win : k \in 1..Depth}
        BY <1>3, <2>1 DEF Called
    <2>3. QED
        BY <1>1, <2>1, <2>2 DEF Called
<1>5. ASSUME Top.at \in Questions <=> r.at \in Questions PROVE Held' = Held
    <2>1. \A k \in 1..Depth : calls'[k].at \in Questions <=> calls[k].at \in Questions
        BY <1>1, <1>2, <1>5
    <2>2. 1..Depth' = 1..Depth
        BY <1>1
    <2>3. QED
        BY <1>3, <2>1, <2>2 DEF Held
<1>6. ASSUME Top.at \in Questions, r.at \notin Questions PROVE Held' = Held \cup {Top.win}
    <2>1. Depth \in 1..Depth /\ 1..Depth' = 1..Depth
        BY <1>1
    <2>2. \A k \in 1..Depth : calls'[k].at \notin Questions
                             <=> calls[k].at \notin Questions \/ k = Depth
        BY <1>1, <1>2, <1>6
    <2>3. Held' = {calls[k].win :
                      k \in {n \in 1..Depth : calls[n].at \notin Questions \/ n = Depth}}
        BY <1>3, <2>1, <2>2 DEF Held
    <2>4. QED
        BY <1>1, <2>1, <2>3 DEF Held
<1>7. QED
    BY <1>4, <1>5, <1>6

LEMMA SameHolds ==
    ASSUME calls' = calls
    PROVE  /\ Called' = Called /\ Held' = Held /\ Depth' = Depth
           /\ CallsOK => CallsOK'
BY DEF Called, Held, Depth, CallsOK

LEMMA PushedOK ==
    ASSUME Typed, CallsOK, MainLoop, NEW r \in Call, calls' = Append(calls, r),
           \A k \in 1..Depth : calls[k].win = r.win
               => calls[k].at \in Questions /\ r.action = "keep"
    PROVE  CallsOK'
<1>1. /\ Depth \in Nat /\ Depth' = Depth + 1 /\ calls'[Depth + 1] = r
      /\ \A k \in 1..Depth : calls'[k] = calls[k]
    BY TopType, Pushed
<1>2. \A k \in 1..Depth : calls[k].at \in Questions \cup {"sending"}
    BY <1>1, TopType DEF CallsOK, MainLoop
<1>3. ASSUME NEW k \in 1..Depth', k < Depth'
      PROVE  calls'[k].at \in Questions \cup {"sending"}
    <2>1. k \in 1..Depth
        BY <1>1, <1>3
    <2>2. QED
        BY <1>1, <1>2, <2>1
<1>4. ASSUME NEW j \in 1..Depth', NEW k \in 1..Depth', j < k, calls'[j].win = calls'[k].win
      PROVE  calls'[j].at \in Questions /\ calls'[k].action = "keep"
    <2>1. j \in 1..Depth /\ (k \in 1..Depth \/ k = Depth + 1)
        BY <1>1, <1>4
    <2>2. QED
        BY <1>1, <1>4, <2>1 DEF CallsOK
<1>5. QED
    BY <1>3, <1>4 DEF CallsOK

LEMMA PoppedOK ==
    ASSUME Typed, CallsOK, calls # <<>>, calls' = Returned
    PROVE  CallsOK' /\ ~Saving'
<1>1. /\ Depth \in Nat \ {0} /\ Depth' = Depth - 1
      /\ \A k \in 1..(Depth - 1) : calls'[k] = calls[k]
      /\ calls' # <<>> => Depth - 1 \in 1..Depth /\ Top' = calls[Depth - 1]
    BY TopType, Popped
<1>2. \A k \in 1..Depth' : k \in 1..Depth /\ k < Depth /\ calls'[k] = calls[k]
    BY <1>1
<1>3. CallsOK'
    BY <1>2 DEF CallsOK
<1>4. calls' # <<>> => Top'.at \in Questions \cup {"sending"}
    BY <1>1 DEF CallsOK
<1>5. QED
    BY <1>3, <1>4 DEF Saving, Questions

LEMMA WentOnOK ==
    ASSUME Typed, CallsOK, calls # <<>>, NEW r \in Call, calls' = Append(Returned, r),
           r.win = Top.win, r.action = Top.action \/ Top.action # "keep"
    PROVE  CallsOK'
<1>1. /\ Depth \in Nat \ {0} /\ Depth' = Depth /\ Top = calls[Depth] /\ calls'[Depth] = r
      /\ \A k \in 1..(Depth - 1) : calls'[k] = calls[k]
    BY TopType, WentOn
<1>2. \A k : k \in 1..Depth <=> k \in 1..(Depth - 1) \/ k = Depth
    BY <1>1
<1>3. ASSUME NEW k \in 1..Depth', k < Depth'
      PROVE  calls'[k].at \in Questions \cup {"sending"}
    <2>1. k \in 1..(Depth - 1) /\ k \in 1..Depth /\ k < Depth
        BY <1>1, <1>3
    <2>2. QED
        BY <1>1, <2>1 DEF CallsOK
<1>4. ASSUME NEW j \in 1..Depth', NEW k \in 1..Depth', j < k, calls'[j].win = calls'[k].win
      PROVE  calls'[j].at \in Questions /\ calls'[k].action = "keep"
    <2>1. j \in 1..(Depth - 1) /\ j \in 1..Depth /\ k \in 1..Depth
        BY <1>1, <1>4
    <2>2. calls[j].win = calls[k].win
        BY <1>1, <1>2, <1>4, <2>1
    <2>3. calls[j].at \in Questions /\ calls[k].action = "keep"
        BY <1>4, <2>1, <2>2 DEF CallsOK
    <2>4. QED
        BY <1>1, <1>2, <2>1, <2>3
<1>5. QED
    BY <1>3, <1>4 DEF CallsOK

-----------------------------------------------------------------------------
\* The windows: one is opened or changes, one goes, or a message goes.

Set(w, c) == windows' = [windows EXCEPT ![w] = c]

LEMMA OpenType ==
    ASSUME Typed
    PROVE  /\ \A w \in Open : windows[w] \in Compose /\ w \in Windows
           /\ \A w \in Windows : w \in Open <=> windows[w] # NoWindow
           /\ \A i \in Files : files[i] \in Message /\ i \in Ids /\ i # NoTarget
           /\ \A i \in Ids : i \in Files <=> files[i] # NoFile
BY NothingAssumption DEF Typed, Open, Files, NoTarget

LEMMA WindowSet ==
    ASSUME Typed, NEW w \in Windows, NEW c \in Compose, Set(w, c)
    PROVE  /\ windows' \in [Windows -> Compose \cup {NoWindow}]
           /\ Open' = Open \cup {w} /\ windows'[w] = c
           /\ \A v \in Windows : v # w => windows'[v] = windows[v]
BY NothingAssumption DEF Typed, Set, Open

LEMMA WindowGone ==
    ASSUME Typed, NEW w \in Windows, windows' = Destroyed(w)
    PROVE  /\ windows' \in [Windows -> Compose \cup {NoWindow}]
           /\ Open' = Open \ {w}
           /\ \A v \in Open' : windows'[v] = windows[v]
BY DEF Typed, Destroyed, Open

LEMMA FileGone ==
    ASSUME Typed, NEW i \in Files, Removed(i)
    PROVE  /\ windows' \in [Windows -> Compose \cup {NoWindow}] /\ Open' = Open
           /\ files' \in [Ids -> Message \cup {NoFile}] /\ Files' = Files \ {i}
           /\ \A j \in Files' : files'[j] = files[j]
           /\ \A w \in Open :
                /\ windows'[w].target = IF windows[w].target = i THEN NoTarget
                                                                 ELSE windows[w].target
                /\ windows'[w].text = windows[w].text
                /\ windows'[w].modified = windows[w].modified
                /\ windows'[w].lock_count = windows[w].lock_count
                /\ windows'[w].editor = windows[w].editor
<1>1. files' = [files EXCEPT ![i] = NoFile] /\ windows' = Without(i, windows)
    BY DEF Removed
<1>2. i \in Ids /\ \A w \in Open : windows[w] \in Compose
    BY OpenType
<1>3. \A w \in Open : [windows[w] EXCEPT !.target = NoTarget] \in Compose
    BY <1>2 DEF Compose
<1>4. \A w \in Windows : windows'[w] =
          IF windows[w] # NoWindow /\ windows[w].target = i
          THEN [windows[w] EXCEPT !.target = NoTarget] ELSE windows[w]
    BY <1>1 DEF Without
<1>5. /\ DOMAIN windows' = Windows /\ windows' = [w \in Windows |-> windows'[w]]
      /\ \A w \in Windows : windows'[w] \in Compose \cup {NoWindow}
    BY <1>1, <1>3, <1>4 DEF Typed, Open, Without
<1>6. Open' = Open
    BY <1>3, <1>4, NothingAssumption DEF Open
<1>7. files' \in [Ids -> Message \cup {NoFile}] /\ Files' = Files \ {i}
      /\ \A j \in Files' : files'[j] = files[j]
    BY <1>1, <1>2 DEF Typed, Files
<1>8. \A w \in Open :
         /\ windows'[w].target = IF windows[w].target = i THEN NoTarget
                                                          ELSE windows[w].target
         /\ windows'[w].text = windows[w].text
         /\ windows'[w].modified = windows[w].modified
         /\ windows'[w].lock_count = windows[w].lock_count
         /\ windows'[w].editor = windows[w].editor
    BY <1>2, <1>4, OpenType DEF Compose
<1>9. QED
    BY <1>5, <1>6, <1>7, <1>8

\* A window's lock is all that changes.
LEMMA Relocked ==
    ASSUME Typed, NEW w \in Open, NEW n \in 0..1,
           Set(w, [windows[w] EXCEPT !.lock_count = n])
    PROVE  /\ windows' \in [Windows -> Compose \cup {NoWindow}] /\ Open' = Open
           /\ windows'[w].lock_count = n
           /\ \A v \in Open : v # w => windows'[v] = windows[v]
           /\ \A v \in Open : /\ windows'[v].target = windows[v].target
                              /\ windows'[v].text = windows[v].text
                              /\ windows'[v].modified = windows[v].modified
                              /\ windows'[v].editor = windows[v].editor
<1> DEFINE c == [windows[w] EXCEPT !.lock_count = n]
<1>1. w \in Windows /\ windows[w] \in Compose
    BY OpenType
<1>2. /\ c \in Compose /\ c.lock_count = n /\ c.target = windows[w].target
      /\ c.text = windows[w].text /\ c.modified = windows[w].modified
      /\ c.editor = windows[w].editor
    BY <1>1 DEF Compose
<1>3. Set(w, c)
    OBVIOUS
<1> HIDE DEF c
<1>4. /\ windows' \in [Windows -> Compose \cup {NoWindow}]
      /\ Open' = Open \cup {w} /\ windows'[w] = c
      /\ \A v \in Windows : v # w => windows'[v] = windows[v]
    BY <1>1, <1>2, <1>3, WindowSet
<1>5. Open \subseteq Windows
    BY DEF Open
<1>6. QED
    BY <1>2, <1>4, <1>5

LEMMA LockedSet ==
    ASSUME Typed, NEW w \in Open, CanSave(w), windows' = Locked(w)
    PROVE  Set(w, [windows[w] EXCEPT !.lock_count = 1])
BY OpenType DEF Typed, CanSave, Locked, Set, Compose

LEMMA UnlockedSet ==
    ASSUME Typed, NEW w \in Open, windows[w].lock_count = 1, windows' = Unlocked(w)
    PROVE  Set(w, [windows[w] EXCEPT !.lock_count = 0])
BY OpenType DEF Typed, Unlocked, Set, Compose

\* Calls of locked windows.
LEMMA CanSaveFree ==
    ASSUME Inv, NEW w, CanSave(w)
    PROVE  w \in Open /\ w \in Windows /\ w \notin Held
BY OpenType DEF Inv, LockOK, CanSave, Open

LEMMA UsableFree ==
    ASSUME Inv, NEW w, Usable(w)
    PROVE  /\ w \in Open /\ w \in Windows /\ w \notin Called /\ w \notin Held
           /\ MainLoop /\ ~Saving
<1>1. \A k \in 1..Depth : calls[k].at = "sending" /\ calls[k].win # w
    BY DEF Usable, Input, Busy, Depth
<1>2. calls # <<>> => Top.at = "sending"
    BY <1>1, TopType DEF Inv
<1>3. QED
    BY <1>1, <1>2 DEF Usable, Open, Called, Held, MainLoop, Saving

LEMMA InputFree ==
    ASSUME Inv, Input
    PROVE  MainLoop /\ ~Saving
<1>1. calls # <<>> => Top.at = "sending"
    BY TopType DEF Inv, Input, Depth
<1>2. QED
    BY <1>1 DEF MainLoop, Saving

LEMMA CalledOpen ==
    ASSUME Inv, calls # <<>>
    PROVE  /\ Top \in Call /\ Top.win \in Open /\ Top.win \in Windows
           /\ Top.at \notin Questions => windows[Top.win].lock_count = 1
<1>1. Top \in Call /\ Depth \in 1..Depth /\ Top = calls[Depth]
    BY TopType DEF Inv
<1>2. Top.win \in Called
    BY <1>1 DEF Called
<1>3. Top.at \notin Questions => Top.win \in Held
    BY <1>1 DEF Held
<1>4. QED
    BY <1>1, <1>2, <1>3 DEF Inv, LinksOK, LockOK, Open

-----------------------------------------------------------------------------
\* Each action keeps the invariant.

\* A window is opened or changes, and no call does.
LEMMA ChangeSafe ==
    ASSUME Inv, NEW w \in Windows, NEW c \in Compose, Set(w, c),
           files' = files, calls' = calls, given' = given, failed' \in {failed, TRUE},
           edits' \in 0..MaxEdits, edits <= edits',
           c.text \subseteq 1..edits', c.editor = NoEditor \/ c.editor \subseteq 1..edits',
           c.target \in Files \cup {NoTarget},
           w \in Open => c.lock_count = windows[w].lock_count,
           w \notin Open => c.lock_count = 0,
           Saving => w \in Open /\ c.target = windows[w].target
    PROVE  Inv'
<1>1. /\ windows' \in [Windows -> Compose \cup {NoWindow}]
      /\ Open' = Open \cup {w} /\ windows'[w] = c
      /\ \A v \in Windows : v # w => windows'[v] = windows[v]
    BY WindowSet DEF Inv
<1>2. Open \subseteq Windows /\ Files' = Files /\ edits \in 0..MaxEdits
    BY DEF Open, Files, Inv, Typed
<1>3. 1..edits \subseteq 1..edits'
    BY <1>2, MaxEditsAssumption
<1>4. Called' = Called /\ Held' = Held /\ CallsOK'
    BY SameHolds DEF Inv
<1>5. Typed'
    BY <1>1, <1>3 DEF Inv, Typed
<1>6. TextsOK'
    BY <1>1, <1>2, <1>3 DEF Inv, TextsOK
<1>7. LinksOK'
    BY <1>1, <1>2, <1>4 DEF Inv, LinksOK
<1>8. LockOK'
    <2>1. Held \subseteq Open
        BY DEF Inv, LinksOK, Called, Held
    <2>2. QED
        BY <1>1, <1>2, <1>4, <2>1 DEF Inv, LockOK
<1>9. SavedOK'
    <2>1. Saving' = Saving /\ Top' = Top
        BY DEF Saving, Top
    <2>2. QED
        BY <1>1, <1>2, <2>1 DEF Inv, SavedOK
<1>10. QED
    BY <1>4, <1>5, <1>6, <1>7, <1>8, <1>9 DEF Inv

LEMMA ChangesSafe ==
    ASSUME Inv, NEW w \in Windows,
           New(w) \/ (\E i \in Ids : Reedit(w, i)) \/ ReeditSent(w) \/ Type(w)
               \/ StartEditor(w) \/ EditorEdits(w) \/ EditorExits(w)
    PROVE  Inv'
<1> USE DEF Edited
<1>1. /\ edits \in 0..MaxEdits /\ edits <= edits /\ edits \in Nat
      /\ given \subseteq 1..edits /\ 1..edits \in Texts /\ failed \in BOOLEAN
    BY MaxEditsAssumption DEF Inv, Typed, Texts
<1>2. w \in Open => /\ windows[w] \in Compose
                    /\ windows[w].target \in Files \cup {NoTarget}
                    /\ windows[w].text \subseteq 1..edits
                    /\ windows[w].editor = NoEditor \/ windows[w].editor \subseteq 1..edits
    BY OpenType DEF Inv, LinksOK, TextsOK
<1>3. ASSUME NEW target \in Files \cup {NoTarget}, NEW text \in SUBSET (1..edits),
             Input, w \notin Open, Edited(w, compose_create(target, text)),
             UNCHANGED <<files, calls, edits, given>>, failed' \in {failed, TRUE}
      PROVE  Inv'
    <2> DEFINE c == compose_create(target, text)
    <2>1. /\ c \in Compose /\ c.text = text /\ c.target = target /\ c.editor = NoEditor
          /\ c.lock_count = 0
        BY <1>1 DEF compose_create, Compose, Texts, Files
    <2>2. Set(w, c) /\ ~Saving
        BY <1>3, InputFree DEF Set
    <2> HIDE DEF c
    <2>3. QED
        BY <1>1, <1>3, <2>1, <2>2, ChangeSafe
<1>4. ASSUME w \in Open, NEW c \in Compose, Set(w, c), edits' \in {edits, edits + 1},
             edits' \in 0..MaxEdits, UNCHANGED <<files, calls, given>>, failed' \in {failed, TRUE},
             c.text \subseteq 1..edits', c.editor = NoEditor \/ c.editor \subseteq 1..edits',
             c.target = windows[w].target, c.lock_count = windows[w].lock_count
      PROVE  Inv'
    <2>1. edits <= edits'
        BY <1>1, <1>4
    <2>2. QED
        BY <1>2, <1>4, <2>1, ChangeSafe
<1>5. ASSUME edits < MaxEdits
      PROVE  /\ edits + 1 \in 0..MaxEdits
             /\ \A text \in SUBSET (1..edits) :
                   text \cup {edits + 1} \in Texts /\ text \cup {edits + 1} \in SUBSET (1..(edits + 1))
    BY <1>1, <1>5, MaxEditsAssumption DEF Texts
<1>6. CASE New(w)
    BY <1>3, <1>6 DEF New
<1>7. ASSUME NEW i \in Ids, Reedit(w, i) PROVE Inv'
    <2>1. /\ Input /\ w \notin Open /\ i \in Files
          /\ UNCHANGED <<files, calls, edits, given>>
        BY <1>7 DEF Reedit
    <2>2. PICK text \in Read(files[i].text) :
             Edited(w, compose_create(i, text)) /\ failed' = (failed \/ text # files[i].text)
        BY <1>7, Zenon DEF Reedit
    <2>3. text \in SUBSET (1..edits)
        <3>1. files[i].text \subseteq 1..edits
            BY <2>1 DEF Inv, TextsOK
        <3>2. QED
            BY <3>1 DEF Read
    <2>4. failed' \in {failed, TRUE}
        BY <1>1, <2>2
    <2>5. QED
        BY <1>3, <2>1, <2>2, <2>3, <2>4
<1>8. CASE ReeditSent(w)
    BY <1>1, <1>3, <1>8 DEF ReeditSent
<1>9. CASE Type(w)
    <2> DEFINE c == [windows[w] EXCEPT !.text = @ \cup {edits + 1}, !.modified = TRUE]
    <2>1. w \in Open
        BY <1>9 DEF Type, Usable, TypingMeanwhile
    <2>2. edits' = edits + 1 /\ edits < MaxEdits
        BY <1>9 DEF Type
    <2>3. /\ c \in Compose /\ c.text = windows[w].text \cup {edits + 1}
          /\ c.target = windows[w].target /\ c.lock_count = windows[w].lock_count
          /\ c.editor = windows[w].editor
        BY <1>2, <1>5, <2>1, <2>2 DEF Compose
    <2>4. Set(w, c) /\ UNCHANGED <<files, calls, given, failed>>
        BY <1>9 DEF Type, Set
    <2> HIDE DEF c
    <2>5. 1..edits \subseteq 1..(edits + 1)
        BY <1>1
    <2>6. QED
        BY <1>2, <1>4, <1>5, <2>1, <2>2, <2>3, <2>4, <2>5
<1>10. CASE StartEditor(w)
    <2> DEFINE c == [windows[w] EXCEPT !.editor = {}]
    <2>1. w \in Open
        BY <1>10 DEF StartEditor, Usable
    <2>2. /\ c \in Compose /\ c.text = windows[w].text /\ c.editor = {}
          /\ c.target = windows[w].target /\ c.lock_count = windows[w].lock_count
        BY <1>2, <2>1 DEF Compose, Texts
    <2>3. Set(w, c) /\ UNCHANGED <<files, calls, edits, given, failed>>
        BY <1>10 DEF StartEditor, Set
    <2> HIDE DEF c
    <2>4. QED
        BY <1>1, <1>2, <1>4, <2>1, <2>2, <2>3
<1>11. CASE EditorEdits(w)
    <2> DEFINE c == [windows[w] EXCEPT !.editor = @ \cup {edits + 1}]
    <2>1. w \in Open /\ windows[w].editor \subseteq 1..edits
        BY <1>2, <1>11 DEF EditorEdits
    <2>2. edits' = edits + 1 /\ edits < MaxEdits
        BY <1>11 DEF EditorEdits
    <2>3. /\ c \in Compose /\ c.text = windows[w].text
          /\ c.target = windows[w].target /\ c.lock_count = windows[w].lock_count
          /\ c.editor = windows[w].editor \cup {edits + 1}
        BY <1>2, <1>5, <2>1, <2>2 DEF Compose
    <2>4. Set(w, c) /\ UNCHANGED <<files, calls, given, failed>>
        BY <1>11 DEF EditorEdits, Set
    <2> HIDE DEF c
    <2>5. 1..edits \subseteq 1..(edits + 1)
        BY <1>1
    <2>6. QED
        BY <1>2, <1>4, <1>5, <2>1, <2>2, <2>3, <2>4, <2>5
<1>12. CASE EditorExits(w)
    <2>1. w \in Open /\ windows[w].editor \subseteq 1..edits
        BY <1>2, <1>12 DEF EditorExits
    <2>2. PICK text \in Read(Whole(windows[w])) :
             /\ Edited(w, [windows[w] EXCEPT !.text = text, !.modified = TRUE,
                                             !.editor = NoEditor])
             /\ failed' = (failed \/ text # Whole(windows[w]))
        BY <1>12 DEF EditorExits
    <2>3. text \in Texts /\ text \subseteq 1..edits
        BY <1>1, <1>2, <2>1 DEF Texts, Read, Whole
    <2> DEFINE c == [windows[w] EXCEPT !.text = text, !.modified = TRUE, !.editor = NoEditor]
    <2>4. /\ c \in Compose /\ c.text = text
          /\ c.target = windows[w].target /\ c.lock_count = windows[w].lock_count
          /\ c.editor = NoEditor
        BY <1>2, <2>1, <2>3 DEF Compose
    <2>5. Set(w, c) /\ UNCHANGED <<files, calls, edits, given>> /\ failed' \in {failed, TRUE}
        BY <1>1, <1>12, <2>2 DEF EditorExits, Set
    <2> HIDE DEF c
    <2>6. QED
        BY <1>1, <1>2, <1>4, <2>1, <2>3, <2>4, <2>5
<1>13. QED
    BY <1>6, <1>7, <1>8, <1>9, <1>10, <1>11, <1>12

\* The new message, and nothing else, comes to the files.
LEMMA FileAdded ==
    ASSUME Inv, NEW w \in Open, NEW folder \in Folders, NEW i \in FreeIds,
           files' = [files EXCEPT ![i] = [folder |-> folder, text |-> windows[w].text]]
    PROVE  /\ files' \in [Ids -> Message \cup {NoFile}]
           /\ Files' = Files \cup {i} /\ i \in Ids /\ i \notin Files /\ i # NoTarget
           /\ files'[i].text = windows[w].text
           /\ \A j \in Files : files'[j] = files[j]
<1> DEFINE m == [folder |-> folder, text |-> windows[w].text]
<1>1. m \in Message /\ m.text = windows[w].text
    BY OpenType DEF Inv, Compose, Message
<1>2. i \in Ids /\ i \notin Files /\ files' = [files EXCEPT ![i] = m]
    BY DEF FreeIds
<1> HIDE DEF m
<1>3. i # NoTarget
    BY <1>2, NothingAssumption DEF NoTarget
<1>4. QED
    BY <1>1, <1>2, <1>3, NothingAssumption DEF Inv, Typed, Files

\* What is common to saving above the other calls and in place of a question.
LEMMA AddSafe ==
    ASSUME Inv, NEW w \in Open, NEW folder \in Folders, NEW action \in {"keep", "quit"},
           NEW under, CanSave(w), Add(w, folder, action, under),
           \/ /\ under = calls /\ MainLoop
              /\ \A k \in 1..Depth : calls[k].win = w
                    => calls[k].at \in Questions /\ action = "keep"
           \/ under = Returned /\ At("save?") /\ w = Top.win
    PROVE  Inv'
<1>1. PICK i \in FreeIds :
          /\ files' = [files EXCEPT ![i] = [folder |-> folder, text |-> windows[w].text]]
          /\ windows' = Locked(w)
          /\ calls' = Append(under, [win |-> w, at |-> "remove", action |-> action, id |-> i])
          /\ UNCHANGED <<edits, given, failed>>
    BY DEF Add
<1> DEFINE r == [win |-> w, at |-> "remove", action |-> action, id |-> i]
<1>2. w \in Windows /\ i \in Ids
    BY <1>1 DEF Open, FreeIds
<1>3. /\ r \in Call /\ r.win = w /\ r.at = "remove" /\ r.at \notin Questions
      /\ r.action = action /\ r.id = i
    BY <1>2 DEF Call, SaveCall, Questions
<1>4. calls' = Append(under, r)
    BY <1>1
<1> HIDE DEF r
<1>5. /\ files' \in [Ids -> Message \cup {NoFile}]
      /\ Files' = Files \cup {i} /\ i \notin Files /\ i # NoTarget
      /\ files'[i].text = windows[w].text
      /\ \A j \in Files : files'[j] = files[j]
    BY <1>1, FileAdded
<1>6. /\ windows' \in [Windows -> Compose \cup {NoWindow}] /\ Open' = Open
      /\ windows'[w].lock_count = 1
      /\ \A v \in Open : v # w => windows'[v] = windows[v]
      /\ \A v \in Open : /\ windows'[v].target = windows[v].target
                         /\ windows'[v].text = windows[v].text
                         /\ windows'[v].editor = windows[v].editor
    <2>1. 1 \in 0..1 /\ Set(w, [windows[w] EXCEPT !.lock_count = 1])
        BY <1>1, LockedSet DEF Inv
    <2>2. QED
        BY <2>1, Relocked DEF Inv
<1>7. /\ calls' \in Seq(Call) /\ calls' # <<>> /\ Top' = r /\ CallsOK'
      /\ Called' \subseteq Called \cup {w} /\ Held' = Held \cup {w}
    <2>1. CASE under = calls /\ MainLoop
               /\ \A k \in 1..Depth : calls[k].win = w
                    => calls[k].at \in Questions /\ action = "keep"
        BY <1>3, <1>4, <2>1, Pushed, PushedHolds, PushedOK DEF Inv
    <2>2. CASE under = Returned /\ At("save?") /\ w = Top.win
        <3>1. calls # <<>> /\ Top.at = "save?" /\ Top.at \in Questions /\ Top \in Call
            BY <2>2, TopType DEF At, Questions, Inv
        <3>2. Top.action # "keep"
            BY <3>1 DEF Call, SendCall, SaveCall, CloseCall
        <3>3. QED
            BY <1>3, <1>4, <2>2, <3>1, <3>2, WentOn, WentOnHolds, WentOnOK DEF Inv
    <2>3. QED
        BY <2>1, <2>2
<1>8. Typed'
    BY <1>1, <1>5, <1>6, <1>7 DEF Inv, Typed
<1>9. TextsOK'
    BY <1>1, <1>5, <1>6 DEF Inv, TextsOK
<1>10. LinksOK'
    BY <1>5, <1>6, <1>7 DEF Inv, LinksOK
<1>11. LockOK'
    BY <1>6, <1>7 DEF Inv, LockOK
<1>12. SavedOK'
    BY <1>3, <1>5, <1>6, <1>7 DEF Inv, SavedOK, LinksOK
<1>13. QED
    BY <1>7, <1>8, <1>9, <1>10, <1>11, <1>12 DEF Inv

LEMMA AddsSafe ==
    ASSUME Inv, NEW w \in Windows,
           SaveAndKeep(w) \/ SaveAndQuit(w) \/ Autosave(w) \/ SendLater(w) \/ SaveAndClose
    PROVE  Inv'
<1>1. ASSUME Usable(w), CanSave(w), NEW folder \in Folders, NEW action \in {"keep", "quit"},
             Add(w, folder, action, calls)
      PROVE  Inv'
    <2>1. w \in Open /\ MainLoop /\ \A k \in 1..Depth : calls[k].win # w
        BY <1>1, UsableFree DEF Called
    <2>2. QED
        BY <1>1, <2>1, AddSafe
<1>2. "draft" \in Folders /\ "queue" \in Folders
    BY DEF Folders
<1>3. CASE SaveAndKeep(w)
    BY <1>1, <1>2, <1>3 DEF SaveAndKeep
<1>4. CASE SaveAndQuit(w)
    BY <1>1, <1>2, <1>4 DEF SaveAndQuit
<1>5. CASE SendLater(w)
    BY <1>1, <1>2, <1>5 DEF SendLater
<1>6. CASE Autosave(w)
    <2>1. w \in Open /\ w \notin Held /\ CanSave(w) /\ MainLoop /\ Add(w, "draft", "keep", calls)
        BY <1>6, CanSaveFree DEF Autosave
    <2>2. \A k \in 1..Depth : calls[k].win = w => calls[k].at \in Questions
        BY <2>1 DEF Held
    <2>3. QED
        BY <1>2, <2>1, <2>2, AddSafe
<1>7. CASE SaveAndClose
    <2>1. Top.win \in Open /\ At("save?") /\ CanSave(Top.win)
          /\ Add(Top.win, "draft", "quit", Returned)
        BY <1>7, CalledOpen DEF SaveAndClose, At
    <2>2. QED
        BY <1>2, <2>1, AddSafe
<1>8. QED
    BY <1>3, <1>4, <1>5, <1>6, <1>7

LEMMA FrameType ==
    ASSUME NEW w \in Windows
    PROVE  /\ Frame(w, "sending", "send") \in Call
           /\ \A at \in Questions : Frame(w, at, "close") \in Call
           /\ \A at, action : /\ Frame(w, at, action).win = w
                              /\ Frame(w, at, action).at = at
                              /\ Frame(w, at, action).action = action
<1>1. /\ Frame(w, "sending", "send") \in SendCall
      /\ \A at \in Questions : Frame(w, at, "close") \in CloseCall
    BY DEF Frame, SendCall, CloseCall
<1>2. \A at, action : /\ Frame(w, at, action).win = w
                      /\ Frame(w, at, action).at = at
                      /\ Frame(w, at, action).action = action
    BY DEF Frame
<1>3. QED
    BY <1>1, <1>2 DEF Call

LEMMA SendSafe ==
    ASSUME Inv, NEW w \in Windows, Send(w)
    PROVE  Inv'
<1> DEFINE r == Frame(w, "sending", "send")
<1>1. /\ Usable(w) /\ CanSave(w) /\ windows' = Locked(w) /\ calls' = Append(calls, r)
      /\ UNCHANGED <<files, edits, given, failed>>
    BY DEF Send
<1>2. /\ r \in Call /\ r.win = w /\ r.at = "sending" /\ r.at \notin Questions
      /\ r.action = "send"
    <2>1. "sending" \notin Questions
        BY DEF Questions
    <2>2. QED
        BY <2>1, FrameType
<1> HIDE DEF r
<1>3. /\ w \in Open /\ w \notin Called /\ MainLoop
      /\ \A k \in 1..Depth : calls[k].win # w
    BY <1>1, UsableFree DEF Called
<1>4. /\ windows' \in [Windows -> Compose \cup {NoWindow}] /\ Open' = Open
      /\ windows'[w].lock_count = 1
      /\ \A v \in Open : v # w => windows'[v] = windows[v]
      /\ \A v \in Open : /\ windows'[v].target = windows[v].target
                         /\ windows'[v].text = windows[v].text
                         /\ windows'[v].editor = windows[v].editor
    <2>1. 1 \in 0..1 /\ Set(w, [windows[w] EXCEPT !.lock_count = 1])
        BY <1>1, <1>3, LockedSet DEF Inv
    <2>2. QED
        BY <1>3, <2>1, Relocked DEF Inv
<1>5. /\ calls' \in Seq(Call) /\ Top' = r /\ CallsOK'
      /\ Called' = Called \cup {w} /\ Held' = Held \cup {w}
    BY <1>1, <1>2, <1>3, Pushed, PushedHolds, PushedOK DEF Inv
<1>6. Typed' /\ Files' = Files
    BY <1>1, <1>4, <1>5 DEF Inv, Typed, Files
<1>7. TextsOK'
    BY <1>1, <1>4, <1>6 DEF Inv, TextsOK
<1>8. LinksOK'
    BY <1>3, <1>4, <1>5, <1>6 DEF Inv, LinksOK
<1>9. LockOK'
    BY <1>4, <1>5 DEF Inv, LockOK
<1>10. SavedOK'
    BY <1>2, <1>5 DEF SavedOK, Saving
<1>11. QED
    BY <1>5, <1>6, <1>7, <1>8, <1>9, <1>10 DEF Inv

\* A window goes that no call below has.
LEMMA DestroyedSafe ==
    ASSUME Inv, NEW w \in Open, windows' = Destroyed(w), UNCHANGED <<files, edits, failed>>,
           given' \subseteq 1..edits, ~Saving', calls' \in Seq(Call), CallsOK',
           Called' \subseteq Called, w \notin Called', Held' \ {w} = Held \ {w}
    PROVE  Inv'
<1>1. /\ windows' \in [Windows -> Compose \cup {NoWindow}] /\ Open' = Open \ {w}
      /\ \A v \in Open' : windows'[v] = windows[v]
    BY WindowGone DEF Inv, Open
<1>2. Typed' /\ Files' = Files
    BY <1>1 DEF Inv, Typed, Files
<1>3. TextsOK'
    BY <1>1, <1>2 DEF Inv, TextsOK
<1>4. LinksOK'
    BY <1>1, <1>2 DEF Inv, LinksOK
<1>5. LockOK'
    BY <1>1 DEF Inv, LockOK
<1>6. SavedOK'
    BY DEF SavedOK
<1>7. QED
    BY <1>2, <1>3, <1>4, <1>5, <1>6 DEF Inv

\* A question is put, in place of another one or not, and an editor may be gone.
LEMMA AskedSafe ==
    ASSUME Inv, NEW w \in Open, NEW at \in Questions, UNCHANGED <<files, edits, failed>>,
           given' \subseteq 1..edits,
           Set(w, windows[w]) \/ Set(w, [windows[w] EXCEPT !.editor = NoEditor]),
           \/ calls' = Append(calls, Frame(w, at, "close")) /\ MainLoop /\ w \notin Called
           \/ /\ calls # <<>> /\ Top.at \in Questions /\ w = Top.win
              /\ calls' = Append(Returned, Frame(w, at, "close"))
    PROVE  Inv'
<1> DEFINE r == Frame(w, at, "close")
<1>1. /\ r \in Call /\ r.win = w /\ r.at \in Questions /\ r.at \notin {"remove", "finish"}
      /\ r.action = "close"
    <2>1. w \in Windows /\ "remove" \notin Questions /\ "finish" \notin Questions
        BY DEF Open, Questions
    <2>2. QED
        BY <2>1, FrameType
<1>2. calls' = Append(calls, r) \/ calls' = Append(Returned, r)
    OBVIOUS
<1> HIDE DEF r
<1>3. PICK c \in Compose : /\ Set(w, c) /\ c.text = windows[w].text
                           /\ c.target = windows[w].target
                           /\ c.lock_count = windows[w].lock_count
                           /\ c.editor = NoEditor \/ c.editor = windows[w].editor
    <2>1. windows[w] \in Compose
        BY OpenType DEF Inv
    <2>2. CASE Set(w, windows[w])
        BY <2>1, <2>2
    <2>3. CASE Set(w, [windows[w] EXCEPT !.editor = NoEditor])
        <3> DEFINE c == [windows[w] EXCEPT !.editor = NoEditor]
        <3>1. /\ c \in Compose /\ c.text = windows[w].text /\ c.target = windows[w].target
              /\ c.lock_count = windows[w].lock_count /\ c.editor = NoEditor
            BY <2>1 DEF Compose
        <3>2. QED
            BY <2>3, <3>1
    <2>4. QED
        BY <2>2, <2>3
<1>4. /\ windows' \in [Windows -> Compose \cup {NoWindow}]
      /\ Open' = Open /\ windows'[w] = c
      /\ \A v \in Open : v # w => windows'[v] = windows[v]
    BY <1>3, WindowSet DEF Inv, Open
<1>5. calls' \in Seq(Call) /\ Top' = r /\ CallsOK' /\ Called' = Called \cup {w} /\ Held' = Held
    <2>1. CASE calls' = Append(calls, r) /\ MainLoop /\ w \notin Called
        <3>1. \A k \in 1..Depth : calls[k].win # w
            BY <2>1 DEF Called
        <3>2. QED
            BY <1>1, <2>1, <3>1, Pushed, PushedHolds, PushedOK DEF Inv
    <2>2. CASE /\ calls # <<>> /\ Top.at \in Questions /\ w = Top.win
               /\ calls' = Append(Returned, r)
        <3>1. Top.action # "keep"
            BY <2>2, TopType DEF Inv, Call, SendCall, SaveCall, CloseCall, Questions
        <3>2. QED
            BY <1>1, <2>2, <3>1, WentOn, WentOnHolds, WentOnOK DEF Inv
    <2>3. QED
        BY <2>1, <2>2 DEF r
<1>6. Typed' /\ Files' = Files
    BY <1>4, <1>5 DEF Inv, Typed, Files
<1>7. TextsOK'
    BY <1>3, <1>4, <1>6 DEF Inv, TextsOK
<1>8. LinksOK'
    BY <1>3, <1>4, <1>5, <1>6 DEF Inv, LinksOK
<1>9. LockOK'
    BY <1>3, <1>4, <1>5 DEF Inv, LockOK
<1>10. SavedOK'
    BY <1>1, <1>5 DEF SavedOK, Saving
<1>11. QED
    BY <1>5, <1>6, <1>7, <1>8, <1>9, <1>10 DEF Inv

\* The call on top returns, and its window is unlocked.
LEMMA UnlockedSafe ==
    ASSUME Inv, calls # <<>>, Top.at \notin Questions, calls' = Returned,
           UNCHANGED <<files, edits, given>>, failed' \in BOOLEAN,
           NEW c \in Compose, Set(Top.win, c), c.lock_count = 0,
           c.text = windows[Top.win].text, c.editor = windows[Top.win].editor,
           c.target \in Files \cup {NoTarget}
    PROVE  Inv'
<1>1. Top \in Call /\ Top.win \in Open /\ Top.win \in Windows
    BY CalledOpen
<1>2. /\ windows' \in [Windows -> Compose \cup {NoWindow}]
      /\ Open' = Open /\ windows'[Top.win] = c
      /\ \A v \in Open : v # Top.win => windows'[v] = windows[v]
    BY <1>1, WindowSet DEF Inv, Open
<1>3. /\ calls' \in Seq(Call) /\ CallsOK' /\ ~Saving'
      /\ Called' \subseteq Called /\ Held' = Held \ {Top.win}
    BY Popped, PoppedHolds, PoppedOK DEF Inv
<1>4. Typed' /\ Files' = Files
    BY <1>2, <1>3 DEF Inv, Typed, Files
<1>5. TextsOK'
    BY <1>1, <1>2, <1>4 DEF Inv, TextsOK
<1>6. LinksOK'
    BY <1>1, <1>2, <1>3, <1>4 DEF Inv, LinksOK
<1>7. LockOK'
    BY <1>2, <1>3 DEF Inv, LockOK
<1>8. SavedOK'
    BY <1>3 DEF SavedOK
<1>9. QED
    BY <1>3, <1>4, <1>5, <1>6, <1>7, <1>8 DEF Inv

\* What unlocks a window, as a new value of it.
LEMMA UnlockedType ==
    ASSUME Inv, calls # <<>>, Top.at \notin Questions
    PROVE  /\ Unlocked(Top.win) =
                 [windows EXCEPT ![Top.win] = [windows[Top.win] EXCEPT !.lock_count = 0]]
           /\ windows[Top.win] \in Compose /\ Top.win \in Windows /\ Top.win \in Open
           /\ windows \in [Windows -> Compose \cup {NoWindow}]
<1>1. Top.win \in Open /\ Top.win \in Windows /\ windows[Top.win].lock_count = 1
      /\ windows[Top.win] \in Compose
    BY CalledOpen, OpenType DEF Inv
<1>2. QED
    BY <1>1 DEF Inv, Typed, Unlocked, Compose

LEMMA NotSentSafe ==
    ASSUME Inv, NotSent \/ (FinishSent /\ windows' = Unlocked(Top.win))
    PROVE  Inv'
<1> DEFINE c == [windows[Top.win] EXCEPT !.lock_count = 0]
<1>1. calls # <<>> /\ Top.at \notin Questions /\ calls' = Returned
      /\ windows' = Unlocked(Top.win) /\ UNCHANGED <<files, edits, given, failed>>
    BY DEF NotSent, FinishSent, At, Questions
<1>2. Set(Top.win, c) /\ windows[Top.win] \in Compose
    BY <1>1, UnlockedType DEF Set
<1>3. /\ c \in Compose /\ c.lock_count = 0 /\ c.text = windows[Top.win].text
      /\ c.editor = windows[Top.win].editor /\ c.target = windows[Top.win].target
    BY <1>2 DEF Compose
<1> HIDE DEF c
<1>4. c.target \in Files \cup {NoTarget} /\ failed' \in BOOLEAN
    BY <1>1, <1>3, UnlockedType DEF Inv, LinksOK, Typed
<1>5. QED
    BY <1>1, <1>2, <1>3, <1>4, UnlockedSafe

LEMMA FinishKeepSafe ==
    ASSUME Inv, FinishKeep
    PROVE  Inv'
<1>1. /\ calls # <<>> /\ Top.at = "finish" /\ Top.at \notin Questions /\ Top.action = "keep"
      /\ calls' = Returned /\ UNCHANGED <<files, edits, given>>
    BY DEF FinishKeep, At, Questions
<1>2. /\ Unlocked(Top.win) =
            [windows EXCEPT ![Top.win] = [windows[Top.win] EXCEPT !.lock_count = 0]]
      /\ windows[Top.win] \in Compose /\ Top.win \in Open /\ Top.win \in Windows
      /\ windows \in [Windows -> Compose \cup {NoWindow}]
    BY <1>1, UnlockedType
<1>3. Top.id \in Files /\ Top.id \in Ids
    BY <1>1, OpenType DEF Inv, SavedOK, Saving
<1>4. CASE windows' = [Unlocked(Top.win) EXCEPT ![Top.win].target = Top.id,
                                                ![Top.win].modified = FALSE]
           /\ UNCHANGED failed
    <2> DEFINE c == [windows[Top.win] EXCEPT !.lock_count = 0, !.target = Top.id,
                                             !.modified = FALSE]
    <2>1. Set(Top.win, c)
        BY <1>2, <1>4 DEF Set, Compose
    <2>2. /\ c = [windows[Top.win] EXCEPT !.lock_count = 0, !.target = Top.id,
                                            !.modified = FALSE]
          /\ 0 \in 0..1 /\ FALSE \in BOOLEAN /\ Top.id \in Ids \cup {NoTarget}
        BY <1>3
    <2> HIDE DEF c
    <2>3. /\ c \in Compose /\ c.lock_count = 0 /\ c.text = windows[Top.win].text
          /\ c.editor = windows[Top.win].editor /\ c.target = Top.id
        BY <1>2, <2>2 DEF Compose
    <2>4. c.target \in Files \cup {NoTarget} /\ failed' \in BOOLEAN
        BY <1>3, <1>4, <2>3 DEF Inv, Typed
    <2>5. QED
        BY <1>1, <2>1, <2>3, <2>4, UnlockedSafe
<1>5. CASE windows' = Unlocked(Top.win) /\ failed' = TRUE
    <2> DEFINE c == [windows[Top.win] EXCEPT !.lock_count = 0]
    <2>1. Set(Top.win, c)
        BY <1>2, <1>5 DEF Set
    <2>2. /\ c \in Compose /\ c.lock_count = 0 /\ c.text = windows[Top.win].text
          /\ c.editor = windows[Top.win].editor /\ c.target = windows[Top.win].target
        BY <1>2 DEF Compose
    <2> HIDE DEF c
    <2>3. c.target \in Files \cup {NoTarget} /\ failed' \in BOOLEAN
        BY <1>2, <1>5, <2>2 DEF Inv, LinksOK
    <2>4. QED
        BY <1>1, <2>1, <2>2, <2>3, UnlockedSafe
<1>6. QED
    BY <1>4, <1>5 DEF FinishKeep

LEMMA QuitSafe ==
    ASSUME Inv, FinishQuit \/ (FinishSent /\ windows' = Destroyed(Top.win))
                \/ CloseWithoutSaving
    PROVE  Inv'
<1>1. /\ calls # <<>> /\ calls' = Returned /\ Top.at \in {"save?", "finish"}
      /\ windows' = Destroyed(Top.win) /\ UNCHANGED <<files, edits, failed>>
    BY DEF FinishQuit, FinishSent, CloseWithoutSaving, At
<1>2. Top \in Call /\ Top.win \in Open /\ windows[Top.win].text \subseteq 1..edits
    BY <1>1, CalledOpen DEF Inv, TextsOK
<1>3. Top.action # "keep"
    BY <1>2 DEF FinishQuit, FinishSent, CloseWithoutSaving, At, Call, SendCall, SaveCall,
                CloseCall
<1>4. given' \subseteq 1..edits
    BY <1>2 DEF FinishQuit, FinishSent, CloseWithoutSaving, Inv, Typed
<1>5. /\ calls' \in Seq(Call) /\ CallsOK' /\ ~Saving' /\ Called' \subseteq Called
      /\ Top.win \notin Called' /\ Held' \ {Top.win} = Held \ {Top.win}
    BY <1>1, <1>3, Popped, PoppedHolds, PoppedOK DEF Inv
<1>6. QED
    BY <1>1, <1>2, <1>4, <1>5, DestroyedSafe

\* The call on top goes on with the same window, held as before.
LEMMA GoneOnSafe ==
    ASSUME Inv, calls # <<>>, Top.at \notin Questions, NEW r \in Call,
           calls' = Append(Returned, r), r.win = Top.win, r.action = Top.action,
           r.at \notin Questions, r.action # "send" => r.id = Top.id /\ Saving,
           UNCHANGED edits, given' \subseteq 1..edits, failed' \in BOOLEAN,
           \/ UNCHANGED <<windows, files>>
           \/ \E i \in Files : /\ Removed(i)
                               /\ Top.action # "send" => i # Top.id
    PROVE  Inv'
<1>1. /\ windows' \in [Windows -> Compose \cup {NoWindow}] /\ Open' = Open
      /\ files' \in [Ids -> Message \cup {NoFile}] /\ Files' \subseteq Files
      /\ \A j \in Files' : files'[j] = files[j]
      /\ \A w \in Open :
           /\ windows'[w].target = windows[w].target \/ windows'[w].target = NoTarget
           /\ windows'[w].target \in Files' \cup {NoTarget}
           /\ windows'[w].text = windows[w].text
           /\ windows'[w].lock_count = windows[w].lock_count
           /\ windows'[w].editor = windows[w].editor
      /\ Top.action # "send" /\ Top.id \in Files => Top.id \in Files'
    <2>1. CASE UNCHANGED <<windows, files>>
        BY <2>1 DEF Inv, Typed, LinksOK, Open, Files
    <2>2. CASE \E i \in Files : Removed(i) /\ (Top.action # "send" => i # Top.id)
        <3>1. PICK i \in Files : Removed(i) /\ (Top.action # "send" => i # Top.id)
            BY <2>2
        <3>2. QED
            BY <3>1, FileGone DEF Inv, LinksOK
    <2>3. QED
        BY <2>1, <2>2
<1>2. /\ calls' \in Seq(Call) /\ CallsOK' /\ Top' = r
      /\ Called' = Called /\ Held' = Held
    BY WentOn, WentOnHolds, WentOnOK DEF Inv
<1>3. Typed'
    BY <1>1, <1>2 DEF Inv, Typed
<1>4. TextsOK'
    BY <1>1 DEF Inv, TextsOK
<1>5. LinksOK'
    BY <1>1, <1>2 DEF Inv, LinksOK
<1>6. LockOK'
    BY <1>1, <1>2 DEF Inv, LockOK
<1>7. SavedOK'
    <2>1. r.action # "send" => /\ Top.id \in Files /\ Top.id # NoTarget
                               /\ \A w \in Open : windows[w].target # Top.id
        BY OpenType DEF Inv, SavedOK
    <2>2. QED
        BY <1>1, <1>2, <2>1 DEF SavedOK
<1>8. QED
    BY <1>2, <1>3, <1>4, <1>5, <1>6, <1>7 DEF Inv

LEMMA RemoveTargetSafe ==
    ASSUME Inv, RemoveTarget
    PROVE  Inv'
<1> DEFINE r == [Top EXCEPT !.at = "finish"]
           target == windows[Top.win].target
<1>1. calls # <<>> /\ Top.at = "remove" /\ Top.at \notin Questions /\ Saving
      /\ calls' = Append(Returned, r) /\ UNCHANGED <<edits, given>>
    BY DEF RemoveTarget, At, Questions, Saving, Replaced
<1>2. /\ \/ UNCHANGED <<windows, files>>
         \/ target # NoTarget /\ Removed(target)
      /\ failed' \in BOOLEAN
    BY DEF RemoveTarget, Inv, Typed
<1>3. Top \in Call /\ Top.win \in Open
    BY <1>1, CalledOpen
<1>4. /\ r \in Call /\ r.win = Top.win /\ r.at \notin Questions /\ r.action = Top.action
      /\ r.action # "send" => r.id = Top.id
    BY <1>1, <1>3 DEF Call, SendCall, SaveCall, CloseCall, Questions
<1> HIDE DEF r
<1>5. target # NoTarget => target \in Files /\ (Top.action # "send" => target # Top.id)
    BY <1>1, <1>3 DEF Inv, LinksOK, SavedOK
<1>6. given' \subseteq 1..edits
    BY <1>1 DEF Inv, Typed
<1>7. QED
    BY <1>1, <1>2, <1>4, <1>5, <1>6, GoneOnSafe

LEMMA SentSafe ==
    ASSUME Inv, Sent
    PROVE  Inv'
<1> DEFINE r == [Top EXCEPT !.at = "remove"]
<1>1. calls # <<>> /\ Top.at = "sending" /\ Top.at \notin Questions
      /\ calls' = Append(Returned, r) /\ UNCHANGED <<windows, files, edits, failed>>
      /\ given' = given \cup windows[Top.win].text
    BY DEF Sent, At, Questions, Replaced
<1>2. Top \in Call /\ Top.win \in Open
    BY <1>1, CalledOpen
<1>3. /\ r \in Call /\ r.win = Top.win /\ r.at \notin Questions /\ r.action = Top.action
      /\ r.action = "send"
    BY <1>1, <1>2 DEF Call, SendCall, SaveCall, CloseCall, Questions
<1> HIDE DEF r
<1>4. given' \subseteq 1..edits /\ failed' \in BOOLEAN
    BY <1>1, <1>2 DEF Inv, Typed, TextsOK
<1>5. QED
    BY <1>1, <1>3, <1>4, GoneOnSafe

LEMMA CloseSafe ==
    ASSUME Inv, NEW w \in Windows, Close(w)
    PROVE  Inv'
<1>1. /\ Usable(w) /\ UNCHANGED <<files, edits, given, failed>>
      /\ w \in Open /\ w \notin Called /\ MainLoop /\ ~Saving
    BY UsableFree DEF Close
<1>2. given' \subseteq 1..edits /\ calls \in Seq(Call)
      /\ windows \in [Windows -> Compose \cup {NoWindow}]
    BY <1>1 DEF Inv, Typed
<1>3. CASE windows[w].editor # NoEditor
    <2>1. Set(w, windows[w]) /\ "kill editor?" \in Questions
          /\ calls' = Append(calls, Frame(w, "kill editor?", "close"))
        BY <1>2, <1>3 DEF Close, Set, Questions
    <2>2. QED
        BY <1>1, <1>2, <2>1, AskedSafe
<1>4. CASE windows[w].editor = NoEditor /\ windows[w].modified
    <2>1. Set(w, windows[w]) /\ "save?" \in Questions
          /\ calls' = Append(calls, Frame(w, "save?", "close"))
        BY <1>4 DEF Close, Ask, Edited, Set, Questions
    <2>2. QED
        BY <1>1, <1>2, <2>1, AskedSafe
<1>5. CASE windows[w].editor = NoEditor /\ ~windows[w].modified
    <2>1. windows' = Destroyed(w) /\ calls' = calls
        BY <1>5 DEF Close, Ask
    <2>2. calls' \in Seq(Call) /\ CallsOK' /\ ~Saving' /\ Called' = Called /\ Held' = Held
        BY <1>1, <1>2, <2>1, SameHolds DEF Inv, Saving, Top
    <2>3. QED
        BY <1>1, <1>2, <2>1, <2>2, DestroyedSafe
<1>6. QED
    BY <1>3, <1>4, <1>5

LEMMA KillEditorSafe ==
    ASSUME Inv, KillEditor
    PROVE  Inv'
<1> DEFINE w == Top.win
           c == [windows[w] EXCEPT !.editor = NoEditor]
<1>1. /\ calls # <<>> /\ Top.at = "kill editor?" /\ Top.at \in Questions
      /\ given' = (IF windows[w].editor = NoEditor THEN given
                                                   ELSE given \cup windows[w].editor)
      /\ Ask(w, c, Returned) /\ UNCHANGED <<files, edits, failed>>
    BY DEF KillEditor, At, Questions
<1>2. Top \in Call /\ w \in Open /\ w \in Windows /\ windows[w] \in Compose
    BY <1>1, CalledOpen, OpenType DEF Inv
<1>3. Top.action # "keep"
    BY <1>1, <1>2 DEF Call, SendCall, SaveCall, CloseCall
<1>4. given' \subseteq 1..edits
    BY <1>1, <1>2 DEF Inv, Typed, TextsOK
<1>5. c.modified = windows[w].modified
    BY <1>2 DEF Compose
<1>6. CASE windows[w].modified
    <2>1. Set(w, c) /\ "save?" \in Questions
          /\ calls' = Append(Returned, Frame(w, "save?", "close"))
        BY <1>1, <1>5, <1>6 DEF Ask, Edited, Set, Questions
    <2>2. QED
        BY <1>1, <1>2, <1>4, <2>1, AskedSafe
<1>7. CASE ~windows[w].modified
    <2>1. windows' = Destroyed(w) /\ calls' = Returned
        BY <1>1, <1>5, <1>7 DEF Ask
    <2>2. /\ calls' \in Seq(Call) /\ CallsOK' /\ ~Saving' /\ Called' \subseteq Called
          /\ w \notin Called' /\ Held' = Held
        BY <1>1, <1>3, <2>1, Popped, PoppedHolds, PoppedOK DEF Inv
    <2>3. QED
        BY <1>1, <1>2, <1>4, <2>1, <2>2, DestroyedSafe
<1>8. QED
    BY <1>6, <1>7

LEMMA CancelSafe ==
    ASSUME Inv, Cancel
    PROVE  Inv'
<1>1. calls # <<>> /\ Top.at \in Questions /\ calls' = Returned
      /\ UNCHANGED <<windows, files, edits, given, failed>>
    BY DEF Cancel
<1>2. /\ calls' \in Seq(Call) /\ CallsOK' /\ ~Saving'
      /\ Called' \subseteq Called /\ Held' = Held
    BY <1>1, Popped, PoppedHolds, PoppedOK DEF Inv
<1>3. Open' = Open /\ Files' = Files
    BY <1>1 DEF Open, Files
<1>4. Typed' /\ TextsOK' /\ LinksOK' /\ LockOK'
    BY <1>1, <1>2, <1>3 DEF Inv, Typed, TextsOK, LinksOK, LockOK
<1>5. SavedOK'
    BY <1>2 DEF SavedOK
<1>6. QED
    BY <1>2, <1>4, <1>5 DEF Inv

LEMMA GoneSafe ==
    ASSUME Inv, NEW i \in Ids, Gone(i)
    PROVE  Inv'
<1>1. /\ MainLoop /\ i \in Files /\ Removed(i) /\ given' = given \cup files[i].text
      /\ UNCHANGED <<calls, edits, failed>>
    BY DEF Gone
<1>2. /\ windows' \in [Windows -> Compose \cup {NoWindow}] /\ Open' = Open
      /\ files' \in [Ids -> Message \cup {NoFile}] /\ Files' = Files \ {i}
      /\ \A j \in Files' : files'[j] = files[j]
      /\ \A w \in Open :
           /\ windows'[w].target = IF windows[w].target = i THEN NoTarget
                                                            ELSE windows[w].target
           /\ windows'[w].text = windows[w].text
           /\ windows'[w].lock_count = windows[w].lock_count
           /\ windows'[w].editor = windows[w].editor
    BY <1>1, FileGone DEF Inv
<1>3. CallsOK' /\ Called' = Called /\ Held' = Held
    BY <1>1, SameHolds DEF Inv
<1>4. Typed'
    BY <1>1, <1>2 DEF Inv, Typed, TextsOK
<1>5. TextsOK'
    BY <1>1, <1>2 DEF Inv, TextsOK
<1>6. LinksOK'
    BY <1>2, <1>3 DEF Inv, LinksOK
<1>7. LockOK'
    BY <1>2, <1>3 DEF Inv, LockOK
<1>8. SavedOK'
    BY <1>1 DEF SavedOK, Saving, MainLoop, Top, Questions
<1>9. QED
    BY <1>3, <1>4, <1>5, <1>6, <1>7, <1>8 DEF Inv

LEMMA EmptyCalls ==
    ASSUME calls = <<>>
    PROVE  Depth = 0 /\ Called = {} /\ Held = {} /\ CallsOK /\ ~Saving
<1>1. Depth = 0 /\ 1..Depth = {}
    BY DEF Depth
<1>2. QED
    BY <1>1 DEF Called, Held, CallsOK, Saving

LEMMA CrashSafe ==
    ASSUME Inv, Crash
    PROVE  Inv'
<1>1. calls' = <<>> /\ windows' = [w \in Windows |-> NoWindow]
      /\ UNCHANGED <<files, edits, given>> /\ failed' = (failed \/ Saving)
    BY DEF Crash
<1>2. 1..Depth' = {}
    BY <1>1 DEF Depth
<1>3. Called' = {} /\ Held' = {} /\ CallsOK' /\ ~Saving'
    BY <1>1, <1>2 DEF Called, Held, CallsOK, Saving
<1>4. Open' = {} /\ Files' = Files
    BY <1>1 DEF Open, Files
<1>5. Typed'
    BY <1>1 DEF Inv, Typed
<1>6. TextsOK' /\ LinksOK' /\ LockOK' /\ SavedOK'
    BY <1>1, <1>3, <1>4 DEF Inv, TextsOK, LinksOK, LockOK, SavedOK
<1>7. QED
    BY <1>3, <1>5, <1>6 DEF Inv

-----------------------------------------------------------------------------
\* The theorems.

LEMMA InitSafe ==
    ASSUME Init
    PROVE  Inv
<1>1. Open = {} /\ Files = {} /\ 1..edits = {} /\ edits \in 0..MaxEdits
    BY MaxEditsAssumption DEF Init, Open, Files
<1>2. Called = {} /\ Held = {} /\ CallsOK /\ ~Saving
    BY EmptyCalls DEF Init
<1>3. Typed
    <2>1. windows \in [Windows -> Compose \cup {NoWindow}]
        BY DEF Init
    <2>2. files \in [Ids -> Message \cup {NoFile}]
        BY DEF Init
    <2>3. calls \in Seq(Call)
        BY DEF Init
    <2>4. QED
        BY <1>1, <2>1, <2>2, <2>3 DEF Init, Typed
<1>4. TextsOK /\ LinksOK /\ LockOK /\ SavedOK
    BY <1>1, <1>2 DEF TextsOK, LinksOK, LockOK, SavedOK
<1>5. QED
    BY <1>2, <1>3, <1>4 DEF Inv

LEMMA StutterSafe ==
    ASSUME Inv, UNCHANGED vars
    PROVE  Inv'
<1>1. UNCHANGED <<windows, files, calls, edits, given, failed>>
    BY DEF vars
<1>2. Open' = Open /\ Files' = Files /\ Saving' = Saving /\ Top' = Top
    BY <1>1 DEF Open, Files, Saving, Top
<1>3. Called' = Called /\ Held' = Held /\ CallsOK'
    BY <1>1, SameHolds DEF Inv
<1>4. Typed' /\ TextsOK'
    BY <1>1, <1>2 DEF Inv, Typed, TextsOK
<1>5. LinksOK' /\ LockOK' /\ SavedOK'
    BY <1>1, <1>2, <1>3 DEF Inv, LinksOK, LockOK, SavedOK
<1>6. QED
    BY <1>3, <1>4, <1>5 DEF Inv

LEMMA NextSafe ==
    ASSUME Inv, [Next]_vars
    PROVE  Inv'
<1>1. ASSUME NEW w \in Windows, Window(w) PROVE Inv'
    BY <1>1, ChangesSafe, AddsSafe, SendSafe, CloseSafe DEF Window
<1>2. CASE RemoveTarget
    BY <1>2, RemoveTargetSafe
<1>3. CASE Sent
    BY <1>3, SentSafe
<1>4. CASE KillEditor
    BY <1>4, KillEditorSafe
<1>5. CASE Cancel
    BY <1>5, CancelSafe
<1>6. CASE SaveAndClose
    <2>1. Top.win \in Windows
        BY <1>6, CalledOpen DEF SaveAndClose, At
    <2>2. QED
        BY <1>6, <2>1, AddsSafe
<1>7. CASE FinishQuit \/ CloseWithoutSaving
    BY <1>7, QuitSafe
<1>8. CASE FinishKeep
    BY <1>8, FinishKeepSafe
<1>9. CASE NotSent
    BY <1>9, NotSentSafe
<1>10. CASE FinishSent
    <2>1. windows' \in {Destroyed(Top.win), Unlocked(Top.win)}
        BY <1>10 DEF FinishSent
    <2>2. QED
        BY <1>10, <2>1, QuitSafe, NotSentSafe
<1>11. ASSUME NEW i \in Ids, Gone(i) PROVE Inv'
    BY <1>11, GoneSafe
<1>12. CASE Crash
    BY <1>12, CrashSafe
<1>13. CASE UNCHANGED vars
    BY <1>13, StutterSafe
<1>14. QED
    BY <1>1, <1>2, <1>3, <1>4, <1>5, <1>6, <1>7, <1>8, <1>9, <1>10, <1>11, <1>12, <1>13
       DEF Next, Returning

LEMMA InvHolds == Spec => []Inv
<1>1. Init => Inv
    BY InitSafe
<1>2. Inv /\ [Next]_vars => Inv'
    BY NextSafe
<1>3. QED
    BY <1>1, <1>2, PTL DEF Spec

\* compose_lock counts: there is one call at most that has locked a window.
LEMMA LocksCount ==
    ASSUME Inv, NEW w \in Open
    PROVE  windows[w].lock_count = Locks(w)
<1> DEFINE S == {k \in 1..Depth : calls[k].win = w /\ calls[k].at \notin Questions}
<1>1. Locks(w) = Cardinality(S)
    BY DEF Locks, Depth
<1>2. windows[w].lock_count \in 0..1
    BY OpenType DEF Inv, Compose
<1>3. CASE S = {}
    <2>1. w \notin Held
        BY <1>3 DEF Held
    <2>2. Cardinality(S) = 0
        BY <1>3, FS_EmptySet
    <2>3. QED
        BY <1>1, <1>2, <2>1, <2>2 DEF Inv, LockOK
<1>4. CASE S # {}
    <2>1. PICK k \in S : TRUE
        BY <1>4
    <2>2. w \in Held
        BY <2>1 DEF Held
    <2>3. ASSUME NEW n \in S, n # k PROVE FALSE
        <3>1. n \in Int /\ k \in Int /\ (n < k \/ k < n)
            BY <2>1, <2>3, TopType DEF Inv
        <3>2. QED
            BY <2>1, <3>1 DEF Inv, CallsOK
    <2>4. S = {k}
        BY <2>1, <2>3
    <2>5. Cardinality(S) = 1
        BY <2>4, FS_Singleton
    <2>6. QED
        BY <1>1, <2>2, <2>5 DEF Inv, LockOK
<1>5. QED
    BY <1>3, <1>4

\* The windows and messages are well formed, every window is locked once by each
\* call that saves or sends it, and no call has a window that is gone.
THEOREM TypeCorrect == Spec => []TypeOK
<1>1. Inv => TypeOK
    <2> SUFFICES ASSUME Inv PROVE TypeOK
        OBVIOUS
    <2>1. \A w \in Open : windows[w].lock_count = Locks(w)
        BY LocksCount
    <2>2. \A k \in 1..Len(calls) : calls[k].win \in Open
        BY DEF Inv, LinksOK, Called, Depth
    <2>3. QED
        BY <2>1, <2>2 DEF TypeOK, Inv, Typed, TextsOK, LinksOK
<1>2. QED
    BY <1>1, InvHolds, PTL

-----------------------------------------------------------------------------
\* What has been written is kept.

\* As long as nobody types into a window while it is saved, and what is read into
\* one can be read.
Careful == Hazards = {}

Texted == [w \in Windows |-> WindowText(w)]
Saved == {files[i].text : i \in Files}

\* The windows of calls that are not begun with an editor at work.
Closing ==
    {calls[k].win : k \in
        {n \in 1..Depth : calls[n].at # "kill editor?" /\ calls[n].action # "keep"}}

EditorOK == \A w \in Closing : windows[w].editor = NoEditor

\* What a window has is in the message it edits again, and more; without that
\* more, the text is kept elsewhere.
TargetOK ==
    \A w \in Open :
        windows[w].target # NoTarget => files[windows[w].target].text \subseteq windows[w].text
ModifiedOK ==
    \A w \in Open : windows[w].modified \/ Written!Kept(windows[w].text, Saved, given)

\* The message that was just added has the text, or it was sent.
SavedTextOK ==
    Saving => IF Top.action = "send" THEN windows[Top.win].text \subseteq given
              ELSE files[Top.id].text = windows[Top.win].text

KeepInv == Inv /\ EditorOK /\ TargetOK /\ ModifiedOK /\ SavedTextOK

WrittenStep == [Written!Next]_(Written!vars)

-----------------------------------------------------------------------------
\* Which calls close a window.

LEMMA ClosingCalled ==
    ASSUME Inv
    PROVE  Closing \subseteq Called /\ Closing \subseteq Open
BY DEF Closing, Called, Inv, LinksOK

LEMMA TopCloses ==
    ASSUME Inv, calls # <<>>, Top.at # "kill editor?", Top.action # "keep"
    PROVE  Top.win \in Closing
BY TopType DEF Inv, Closing

LEMMA SameCloses ==
    ASSUME calls' = calls
    PROVE  Closing' = Closing
BY DEF Closing, Depth

LEMMA PushedCloses ==
    ASSUME Typed, NEW r \in Call, calls' = Append(calls, r)
    PROVE  /\ Closing' \subseteq Closing \cup {r.win}
           /\ r.at = "kill editor?" \/ r.action = "keep" => Closing' = Closing
<1>1. /\ Depth \in Nat /\ Depth' = Depth + 1 /\ calls'[Depth + 1] = r
      /\ \A k \in 1..Depth : calls'[k] = calls[k]
    BY TopType, Pushed
<1>2. \A k : k \in 1..Depth' <=> k \in 1..Depth \/ k = Depth + 1
    BY <1>1
<1>3. QED
    BY <1>1, <1>2 DEF Closing

LEMMA PoppedCloses ==
    ASSUME Typed, calls # <<>>, calls' = Returned
    PROVE  Closing' \subseteq Closing
<1>1. /\ Depth \in Nat \ {0} /\ Depth' = Depth - 1
      /\ \A k \in 1..(Depth - 1) : calls'[k] = calls[k]
    BY TopType, Popped
<1>2. \A k \in 1..Depth' : k \in 1..Depth /\ calls'[k] = calls[k]
    BY <1>1
<1>3. QED
    BY <1>2 DEF Closing

LEMMA WentOnCloses ==
    ASSUME Typed, calls # <<>>, NEW r \in Call, calls' = Append(Returned, r)
    PROVE  /\ Closing' \subseteq Closing \cup {r.win}
           /\ r.at = "kill editor?" \/ r.action = "keep" => Closing' \subseteq Closing
<1>1. /\ Depth \in Nat \ {0} /\ Depth' = Depth /\ calls'[Depth] = r
      /\ \A k \in 1..(Depth - 1) : calls'[k] = calls[k]
    BY TopType, WentOn
<1>2. \A k \in 1..Depth' :
         (k \in 1..Depth /\ calls'[k] = calls[k]) \/ calls'[k] = r
    <2>1. \A k \in 1..Depth' : k \in 1..(Depth - 1) \/ k = Depth
        BY <1>1
    <2>2. \A k \in 1..(Depth - 1) : k \in 1..Depth
        BY <1>1
    <2>3. QED
        BY <1>1, <2>1, <2>2
<1>3. ASSUME NEW w \in Closing'
      PROVE  w \in Closing \/ (w = r.win /\ r.at # "kill editor?" /\ r.action # "keep")
    <2>1. PICK k \in 1..Depth' : /\ w = calls'[k].win
                                 /\ calls'[k].at # "kill editor?" /\ calls'[k].action # "keep"
        BY DEF Closing
    <2>2. QED
        BY <1>2, <2>1 DEF Closing
<1>4. QED
    BY <1>3

-----------------------------------------------------------------------------
\* Steps of Writing, from what changes in the windows and messages.

LEMMA TextedType ==
    ASSUME Inv
    PROVE  /\ \A w \in Windows : Texted[w] = WindowText(w)
           /\ \A w \in Windows : w \notin Open => Texted[w] = NoText
           /\ \A w \in Open :
                /\ Texted[w] # NoText /\ Texted[w] \subseteq 1..edits
                /\ windows[w].text \subseteq Texted[w]
                /\ windows[w].editor = NoEditor => Texted[w] = windows[w].text
                /\ windows[w].editor # NoEditor
                     => Texted[w] = windows[w].text \cup windows[w].editor
<1>1. \A w \in Open : w \in Windows /\ windows[w] \in Compose
    BY OpenType DEF Inv
<1>2. ASSUME NEW w \in Open
      PROVE  /\ WindowText(w) \subseteq 1..edits
             /\ windows[w].text \subseteq WindowText(w)
             /\ windows[w].editor = NoEditor => WindowText(w) = windows[w].text
             /\ windows[w].editor # NoEditor
                  => WindowText(w) = windows[w].text \cup windows[w].editor
    BY DEF WindowText, Inv, TextsOK
<1>3. 1..edits \subseteq 1..MaxEdits
    BY MaxEditsAssumption DEF Inv, Typed
<1>4. \A w \in Open : WindowText(w) # NoText
    BY <1>2, <1>3, NothingAssumption DEF Texts
<1>5. \A w \in Windows : Texted[w] = WindowText(w)
    BY DEF Texted
<1>6. QED
    BY <1>1, <1>2, <1>4, <1>5 DEF WindowText

\* The texts of the other windows stay.
LEMMA TextedOthers ==
    ASSUME NEW w, \A v \in Windows \ {w} :
               /\ v \in Open' <=> v \in Open
               /\ v \in Open => /\ windows'[v].text = windows[v].text
                                /\ windows'[v].editor = windows[v].editor
    PROVE  /\ \A v \in Windows \ {w} : Texted'[v] = Texted[v]
           /\ w \in Windows => Texted' = [Texted EXCEPT ![w] = Texted'[w]]
<1>1. \A v \in Windows \ {w} : WindowText(v)' = WindowText(v)
    BY DEF WindowText
<1>2. QED
    BY <1>1 DEF Texted

LEMMA TextedSame ==
    ASSUME Open' = Open,
           \A v \in Open : /\ windows'[v].text = windows[v].text
                           /\ windows'[v].editor = windows[v].editor
    PROVE  Texted' = Texted
BY DEF Texted, WindowText

LEMMA StepStutters ==
    ASSUME Texted' = Texted, Saved' = Saved, given' = given
    PROVE  WrittenStep
BY DEF WrittenStep, Written!vars, Texted, Saved

LEMMA StepOpens ==
    ASSUME NEW w \in Windows, Texted[w] = NoText, Texted' = [Texted EXCEPT ![w] = Texted'[w]],
           Texted'[w] \in Saved \cup SUBSET given, Saved' = Saved, given' = given
    PROVE  WrittenStep
<1>1. Written!Open(w)
    BY DEF Written!Open, Texted, Saved
<1>2. QED
    BY <1>1 DEF WrittenStep, Written!Next

LEMMA StepSaves ==
    ASSUME NEW w \in Windows, Texted[w] # NoText, Texted' = Texted, given' = given,
           NEW text \in SUBSET Texted[w], Saved' = Saved \cup {text}
    PROVE  WrittenStep
<1>1. Written!Save(w)
    BY DEF Written!Save, Texted, Saved
<1>2. QED
    BY <1>1 DEF WrittenStep, Written!Next

LEMMA StepFinishes ==
    ASSUME Texted' = Texted, given \subseteq given', Saved' \subseteq Saved,
           \A text \in Saved : Written!Kept(text, Saved', given')
    PROVE  WrittenStep
<1>1. Written!Finish
    BY DEF Written!Finish, Texted, Saved
<1>2. QED
    BY <1>1 DEF WrittenStep, Written!Next

LEMMA StepLeaves ==
    ASSUME NEW w \in Windows, Texted[w] # NoText, Texted' = [Texted EXCEPT ![w] = Texted'[w]],
           Texted'[w] = NoText, Saved' = Saved, given \subseteq given',
           Written!Kept(Texted[w], Saved, given')
    PROVE  WrittenStep
<1>1. Written!Leave(w)
    BY DEF Written!Leave, Texted, Saved
<1>2. QED
    BY <1>1 DEF WrittenStep, Written!Next

LEMMA StepDrops ==
    ASSUME NEW w \in Windows, Texted[w] # NoText, Texted' = [Texted EXCEPT ![w] = Texted'[w]],
           Texted'[w] # NoText, Texted'[w] \subseteq Texted[w], Saved' = Saved,
           given \subseteq given', Texted[w] \subseteq Texted'[w] \cup given'
    PROVE  WrittenStep
<1>1. Written!Kept(Texted[w], {Texted'[w]}, given')
    BY DEF Written!Kept
<1>2. Written!Leave(w)
    BY <1>1 DEF Written!Leave, Texted, Saved
<1>3. QED
    BY <1>2 DEF WrittenStep, Written!Next

\* A new edit is in no window and in no message.
LEMMA StepWrites ==
    ASSUME Inv, NEW w \in Open, Texted' = [Texted EXCEPT ![w] = Texted'[w]],
           Texted'[w] # NoText, Texted'[w] = Texted[w] \cup {edits + 1},
           Saved' = Saved, given' = given
    PROVE  WrittenStep
<1>1. edits \in Nat /\ edits + 1 \notin 1..edits /\ w \in Windows
    BY MaxEditsAssumption DEF Inv, Typed, Open
<1>2. \A text \in Written!Opened \cup Saved \cup {given} : edits + 1 \notin text
    <2>1. \A v \in Windows : Texted[v] # NoText => Texted[v] \subseteq 1..edits
        BY TextedType
    <2>2. \A text \in Written!Opened : text \subseteq 1..edits
        BY <2>1 DEF Written!Opened, Texted
    <2>3. \A text \in Saved : text \subseteq 1..edits
        BY DEF Saved, Inv, TextsOK
    <2>4. QED
        BY <1>1, <2>2, <2>3 DEF Inv, Typed
<1>3. (Texted'[w] \ Texted[w]) \cap UNION (Written!Opened \cup Saved \cup {given}) = {}
    BY <1>2
<1>4. Texted[w] # NoText
    BY TextedType
<1>5. Written!Write(w)
    BY <1>1, <1>3, <1>4 DEF Written!Write, Texted, Saved
<1>6. QED
    BY <1>1, <1>5 DEF WrittenStep, Written!Next

-----------------------------------------------------------------------------
\* Each action keeps what has been written.

LEMMA KeptStays ==
    ASSUME given \subseteq given', \A text \in Saved : Written!Kept(text, Saved', given'),
           NEW text, Written!Kept(text, Saved, given)
    PROVE  Written!Kept(text, Saved', given')
BY DEF Written!Kept

LEMMA KeptNow ==
    /\ \A text \in Saved : Written!Kept(text, Saved, given)
    /\ \A text : text \subseteq given => Written!Kept(text, Saved, given)
BY DEF Written!Kept

LEMMA SameSaved ==
    ASSUME files' = files
    PROVE  Files' = Files /\ Saved' = Saved
BY DEF Files, Saved

LEMMA TextedNext ==
    ASSUME Inv'
    PROVE  \A w \in Open' : Texted'[w] # NoText
<1>1. \A w \in Open' : WindowText(w)' \subseteq 1..edits'
    BY DEF WindowText, Inv, TextsOK
<1>2. 1..edits' \subseteq 1..MaxEdits
    BY MaxEditsAssumption DEF Inv, Typed
<1>3. \A w \in Open' : WindowText(w)' # NoText
    BY <1>1, <1>2, NothingAssumption DEF Texts
<1>4. QED
    BY <1>3 DEF Texted, Open

LEMMA ChangeKeeps ==
    ASSUME KeepInv, NEW w \in Windows, NEW c \in Compose, Set(w, c),
           files' = files, calls' = calls, given' = given,
           c.target # NoTarget => files[c.target].text \subseteq c.text,
           c.modified \/ Written!Kept(c.text, Saved, given),
           w \in Closing => c.editor = NoEditor,
           Saving => w \in Open /\ c.text = windows[w].text
    PROVE  /\ EditorOK' /\ TargetOK' /\ ModifiedOK' /\ SavedTextOK' /\ Saved' = Saved
           /\ Texted' = [Texted EXCEPT ![w] = Texted'[w]]
           /\ Texted'[w] = c.text \cup (IF c.editor = NoEditor THEN {} ELSE c.editor)
<1>1. /\ windows' \in [Windows -> Compose \cup {NoWindow}]
      /\ Open' = Open \cup {w} /\ windows'[w] = c
      /\ \A v \in Windows : v # w => windows'[v] = windows[v]
    BY WindowSet DEF KeepInv, Inv
<1>2. Open \subseteq Windows /\ Files' = Files /\ Saved' = Saved /\ Closing' = Closing
    BY SameSaved, SameCloses DEF Open
<1>3. EditorOK'
    BY <1>1, <1>2, ClosingCalled DEF KeepInv, EditorOK
<1>4. TargetOK'
    BY <1>1, <1>2 DEF KeepInv, TargetOK
<1>5. ModifiedOK'
    BY <1>1, <1>2 DEF KeepInv, ModifiedOK
<1>6. SavedTextOK'
    <2>1. Saving' = Saving /\ Top' = Top
        BY DEF Saving, Top
    <2>2. Saving => Top.win \in Windows
        BY CalledOpen DEF KeepInv, Saving
    <2>3. QED
        BY <1>1, <2>1, <2>2 DEF KeepInv, SavedTextOK
<1>7. Texted' = [Texted EXCEPT ![w] = Texted'[w]]
    BY <1>1, <1>2, TextedOthers
<1>8. Texted'[w] = c.text \cup (IF c.editor = NoEditor THEN {} ELSE c.editor)
    BY <1>1 DEF Texted, WindowText
<1>9. QED
    BY <1>2, <1>3, <1>4, <1>5, <1>6, <1>7, <1>8

LEMMA OpenedKeeps ==
    ASSUME KeepInv, Careful, NEW w \in Windows,
           New(w) \/ (\E i \in Ids : Reedit(w, i)) \/ ReeditSent(w)
    PROVE  KeepInv' /\ WrittenStep
<1>1. Inv'
    BY ChangesSafe DEF KeepInv
<1>2. edits \in 0..MaxEdits /\ given \subseteq 1..edits /\ 1..edits \in Texts
    BY MaxEditsAssumption DEF KeepInv, Inv, Typed, Texts
<1>3. ASSUME NEW target \in Files \cup {NoTarget}, NEW text \in Saved \cup SUBSET given,
             target # NoTarget => files[target].text = text,
             Input, w \notin Open, Edited(w, compose_create(target, text)),
             UNCHANGED <<files, calls, edits, given>>
      PROVE  KeepInv' /\ WrittenStep
    <2> DEFINE c == compose_create(target, text)
    <2>1. text \subseteq 1..edits /\ text \in Texts /\ Written!Kept(text, Saved, given)
        BY <1>2, KeptNow DEF Saved, KeepInv, Inv, TextsOK, Texts
    <2>2. /\ c \in Compose /\ c.text = text /\ c.target = target /\ c.editor = NoEditor
        BY <2>1 DEF compose_create, Compose, Files
    <2>3. Set(w, c) /\ ~Saving /\ w \notin Closing
        BY <1>3, InputFree, ClosingCalled DEF Set, Edited, KeepInv
    <2> HIDE DEF c
    <2>4. /\ EditorOK' /\ TargetOK' /\ ModifiedOK' /\ SavedTextOK' /\ Saved' = Saved
          /\ Texted' = [Texted EXCEPT ![w] = Texted'[w]] /\ Texted'[w] = text
        BY <1>3, <2>1, <2>2, <2>3, ChangeKeeps
    <2>5. Texted[w] = NoText
        BY <1>3, TextedType DEF KeepInv
    <2>6. WrittenStep
        BY <1>3, <2>4, <2>5, StepOpens
    <2>7. QED
        BY <1>1, <2>4, <2>6 DEF KeepInv
<1>4. CASE New(w)
    BY <1>3, <1>4 DEF New
<1>5. ASSUME NEW i \in Ids, Reedit(w, i) PROVE KeepInv' /\ WrittenStep
    <2>1. /\ Input /\ w \notin Open /\ i \in Files
          /\ UNCHANGED <<files, calls, edits, given>>
        BY <1>5 DEF Reedit
    <2>2. Edited(w, compose_create(i, files[i].text))
        BY <1>5 DEF Reedit, Read, Careful
    <2>3. files[i].text \in Saved
        BY <2>1 DEF Saved
    <2>4. QED
        BY <1>3, <2>1, <2>2, <2>3
<1>6. CASE ReeditSent(w)
    BY <1>3, <1>6 DEF ReeditSent
<1>7. QED
    BY <1>4, <1>5, <1>6

LEMMA ChangesKeep ==
    ASSUME KeepInv, Careful, NEW w \in Windows,
           Type(w) \/ StartEditor(w) \/ EditorEdits(w) \/ EditorExits(w)
    PROVE  KeepInv' /\ WrittenStep
<1> USE DEF Edited
<1>1. Inv'
    BY ChangesSafe DEF KeepInv
<1>2. w \in Open
    BY DEF Type, StartEditor, EditorEdits, EditorExits, Usable, TypingMeanwhile
<1>3. /\ windows[w] \in Compose /\ edits \in 0..MaxEdits /\ 1..edits \in Texts
      /\ windows[w].text \subseteq 1..edits
      /\ windows[w].editor # NoEditor => windows[w].editor \subseteq 1..edits
      /\ windows[w].target # NoTarget => files[windows[w].target].text \subseteq windows[w].text
      /\ windows[w].modified \/ Written!Kept(windows[w].text, Saved, given)
      /\ w \in Closing => windows[w].editor = NoEditor
    BY <1>2, OpenType, MaxEditsAssumption
       DEF KeepInv, TargetOK, ModifiedOK, EditorOK, Inv, Typed, TextsOK, Texts
<1>4. edits < MaxEdits => \A text \in SUBSET (1..edits) : text \cup {edits + 1} \in Texts
    BY <1>3, MaxEditsAssumption DEF Texts
<1>5. /\ Texted[w] # NoText
      /\ windows[w].editor = NoEditor => Texted[w] = windows[w].text
      /\ windows[w].editor # NoEditor => Texted[w] = windows[w].text \cup windows[w].editor
    BY <1>2, TextedType DEF KeepInv
<1>6. w \in Open' => Texted'[w] # NoText
    BY <1>1, TextedNext
<1>7. CASE Type(w)
    <2> DEFINE c == [windows[w] EXCEPT !.text = @ \cup {edits + 1}, !.modified = TRUE]
    <2>1. Usable(w) /\ edits < MaxEdits /\ given' = given
        BY <1>7 DEF Type, TypingMeanwhile, Careful
    <2>2. w \notin Closing /\ ~Saving
        BY <2>1, UsableFree, ClosingCalled DEF KeepInv
    <2>3. /\ c \in Compose /\ c.text = windows[w].text \cup {edits + 1} /\ c.modified
          /\ c.target = windows[w].target /\ c.editor = windows[w].editor
        BY <1>3, <1>4, <2>1 DEF Compose
    <2>4. Set(w, c) /\ UNCHANGED <<files, calls, given, failed>>
        BY <1>7 DEF Type, Set
    <2> HIDE DEF c
    <2>5. /\ EditorOK' /\ TargetOK' /\ ModifiedOK' /\ SavedTextOK' /\ Saved' = Saved
          /\ Texted' = [Texted EXCEPT ![w] = Texted'[w]]
          /\ Texted'[w] = c.text \cup (IF c.editor = NoEditor THEN {} ELSE c.editor)
        BY <1>3, <2>2, <2>3, <2>4, ChangeKeeps
    <2>6. Texted'[w] = Texted[w] \cup {edits + 1} /\ w \in Open'
        BY <1>5, <2>3, <2>4, <2>5, WindowSet DEF KeepInv, Inv
    <2>7. WrittenStep
        BY <1>2, <1>6, <2>1, <2>5, <2>6, StepWrites DEF KeepInv
    <2>8. QED
        BY <1>1, <2>5, <2>7 DEF KeepInv
<1>8. CASE StartEditor(w)
    <2> DEFINE c == [windows[w] EXCEPT !.editor = {}]
    <2>1. w \notin Closing /\ ~Saving /\ windows[w].editor = NoEditor
        BY <1>8, UsableFree, ClosingCalled DEF KeepInv, StartEditor
    <2>2. /\ c \in Compose /\ c.text = windows[w].text /\ c.modified = windows[w].modified
          /\ c.target = windows[w].target /\ c.editor = {}
        BY <1>3 DEF Compose, Texts
    <2>3. Set(w, c) /\ UNCHANGED <<files, calls, given, failed>>
        BY <1>8 DEF StartEditor, Set
    <2> HIDE DEF c
    <2>4. /\ c.target # NoTarget => files[c.target].text \subseteq c.text
          /\ c.modified \/ Written!Kept(c.text, Saved, given)
        BY <1>3, <2>2
    <2>5. /\ EditorOK' /\ TargetOK' /\ ModifiedOK' /\ SavedTextOK' /\ Saved' = Saved
          /\ Texted' = [Texted EXCEPT ![w] = Texted'[w]]
          /\ Texted'[w] = c.text \cup (IF c.editor = NoEditor THEN {} ELSE c.editor)
        BY <2>1, <2>4, <2>2, <2>3, ChangeKeeps
    <2>6. Texted'[w] = Texted[w]
        BY <1>5, <2>1, <2>2, <2>5
    <2>7. WrittenStep
        BY <2>3, <2>5, <2>6, StepStutters DEF Texted
    <2>8. QED
        BY <1>1, <2>5, <2>7 DEF KeepInv
<1>9. CASE EditorEdits(w)
    <2> DEFINE c == [windows[w] EXCEPT !.editor = @ \cup {edits + 1}]
    <2>1. windows[w].editor # NoEditor /\ w \notin Closing /\ edits < MaxEdits
        BY <1>3, <1>9 DEF EditorEdits
    <2>2. /\ c \in Compose /\ c.text = windows[w].text /\ c.modified = windows[w].modified
          /\ c.target = windows[w].target /\ c.editor = windows[w].editor \cup {edits + 1}
        BY <1>3, <1>4, <2>1 DEF Compose
    <2>3. Set(w, c) /\ UNCHANGED <<files, calls, given, failed>>
        BY <1>9 DEF EditorEdits, Set
    <2> HIDE DEF c
    <2>4. /\ EditorOK' /\ TargetOK' /\ ModifiedOK' /\ SavedTextOK' /\ Saved' = Saved
          /\ Texted' = [Texted EXCEPT ![w] = Texted'[w]]
          /\ Texted'[w] = c.text \cup (IF c.editor = NoEditor THEN {} ELSE c.editor)
        BY <1>2, <1>3, <2>1, <2>2, <2>3, ChangeKeeps
    <2>5. c.editor # NoEditor
        BY <1>3, <1>4, <2>1, <2>2, NothingAssumption
    <2>6. Texted'[w] = Texted[w] \cup {edits + 1} /\ w \in Open'
        BY <1>5, <2>1, <2>2, <2>3, <2>4, <2>5, WindowSet DEF KeepInv, Inv
    <2>7. WrittenStep
        BY <1>2, <1>6, <2>3, <2>4, <2>6, StepWrites DEF KeepInv
    <2>8. QED
        BY <1>1, <2>4, <2>7 DEF KeepInv
<1>10. CASE EditorExits(w)
    <2> DEFINE c == [windows[w] EXCEPT !.text = Whole(windows[w]), !.modified = TRUE,
                                       !.editor = NoEditor]
    <2>1. windows[w].editor # NoEditor /\ ~Saving
        BY <1>10 DEF EditorExits, MainLoop, Saving, Questions
    <2>2. /\ Whole(windows[w]) = windows[w].text \cup windows[w].editor
          /\ Whole(windows[w]) \in Texts
        BY <1>3, <2>1 DEF Texts, Whole
    <2>3. /\ c \in Compose /\ c.text = windows[w].text \cup windows[w].editor /\ c.modified
          /\ c.target = windows[w].target /\ c.editor = NoEditor
        BY <1>3, <2>2 DEF Compose
    <2>4. Set(w, c) /\ UNCHANGED <<files, calls, given>>
        BY <1>10 DEF EditorExits, Read, Careful, Set
    <2> HIDE DEF c
    <2>5. /\ EditorOK' /\ TargetOK' /\ ModifiedOK' /\ SavedTextOK' /\ Saved' = Saved
          /\ Texted' = [Texted EXCEPT ![w] = Texted'[w]]
          /\ Texted'[w] = c.text \cup (IF c.editor = NoEditor THEN {} ELSE c.editor)
        BY <1>3, <2>1, <2>3, <2>4, ChangeKeeps
    <2>6. Texted'[w] = Texted[w]
        BY <1>5, <2>1, <2>3, <2>5
    <2>7. WrittenStep
        BY <2>4, <2>5, <2>6, StepStutters DEF Texted
    <2>8. QED
        BY <1>1, <2>5, <2>7 DEF KeepInv
<1>11. QED
    BY <1>7, <1>8, <1>9, <1>10

\* The lock of a window is all that changes of it.
LEMMA LocksOnly ==
    ASSUME KeepInv, NEW w \in Open, NEW n \in 0..1, Set(w, [windows[w] EXCEPT !.lock_count = n])
    PROVE  /\ Texted' = Texted /\ Open' = Open
           /\ \A v \in Open : /\ windows'[v].target = windows[v].target
                              /\ windows'[v].text = windows[v].text
                              /\ windows'[v].modified = windows[v].modified
                              /\ windows'[v].editor = windows[v].editor
BY Relocked, TextedSame DEF KeepInv, Inv

LEMMA AddKeeps ==
    ASSUME KeepInv, NEW w \in Open, NEW folder \in Folders, NEW action \in {"keep", "quit"},
           NEW under, CanSave(w), Add(w, folder, action, under), Inv',
           action = "quit" => windows[w].editor = NoEditor,
           under = calls \/ (under = Returned /\ calls # <<>>)
    PROVE  KeepInv' /\ WrittenStep
<1>1. PICK i \in FreeIds :
          /\ files' = [files EXCEPT ![i] = [folder |-> folder, text |-> windows[w].text]]
          /\ windows' = Locked(w)
          /\ calls' = Append(under, [win |-> w, at |-> "remove", action |-> action, id |-> i])
          /\ UNCHANGED <<edits, given, failed>>
    BY DEF Add
<1> DEFINE r == [win |-> w, at |-> "remove", action |-> action, id |-> i]
<1>2. w \in Windows /\ i \in Ids
    BY <1>1 DEF Open, FreeIds
<1>3. /\ r \in Call /\ r.win = w /\ r.action = action /\ r.action # "send" /\ r.id = i
    BY <1>2 DEF Call, SaveCall
<1>4. calls' = Append(under, r)
    BY <1>1
<1> HIDE DEF r
<1>5. /\ Files' = Files \cup {i} /\ i \notin Files
      /\ files'[i].text = windows[w].text
      /\ \A j \in Files : files'[j] = files[j]
    BY <1>1, FileAdded DEF KeepInv
<1>6. Saved' = Saved \cup {windows[w].text}
    BY <1>5 DEF Saved
<1>7. /\ Texted' = Texted /\ Open' = Open
      /\ \A v \in Open : /\ windows'[v].target = windows[v].target
                         /\ windows'[v].text = windows[v].text
                         /\ windows'[v].modified = windows[v].modified
                         /\ windows'[v].editor = windows[v].editor
    <2>1. 1 \in 0..1 /\ Set(w, [windows[w] EXCEPT !.lock_count = 1])
        BY <1>1, LockedSet DEF KeepInv, Inv
    <2>2. QED
        BY <2>1, LocksOnly
<1>8. Top' = r /\ Closing' \subseteq Closing \cup {w} /\ (action = "keep" => Closing' \subseteq Closing)
    <2>1. CASE under = calls
        BY <1>3, <1>4, <2>1, Pushed, PushedCloses DEF KeepInv, Inv
    <2>2. CASE under = Returned /\ calls # <<>>
        BY <1>3, <1>4, <2>2, WentOn, WentOnCloses DEF KeepInv, Inv
    <2>3. QED
        BY <2>1, <2>2
<1>9. EditorOK'
    BY <1>7, <1>8, ClosingCalled DEF KeepInv, EditorOK
<1>10. TargetOK'
    BY <1>5, <1>7 DEF KeepInv, TargetOK, Inv, LinksOK
<1>11. ModifiedOK'
    <2>1. \A text : Written!Kept(text, Saved, given) => Written!Kept(text, Saved', given')
        BY <1>1, <1>6 DEF Written!Kept
    <2>2. QED
        BY <1>7, <2>1 DEF KeepInv, ModifiedOK
<1>12. SavedTextOK'
    BY <1>3, <1>5, <1>7, <1>8 DEF SavedTextOK
<1>13. WrittenStep
    <2>1. Texted[w] # NoText /\ windows[w].text \in SUBSET Texted[w]
        BY TextedType DEF KeepInv
    <2>2. QED
        BY <1>1, <1>2, <1>6, <1>7, <2>1, StepSaves
<1>14. QED
    BY <1>9, <1>10, <1>11, <1>12, <1>13 DEF KeepInv

LEMMA AddsKeep ==
    ASSUME KeepInv, NEW w \in Windows,
           SaveAndKeep(w) \/ SaveAndQuit(w) \/ Autosave(w) \/ SendLater(w) \/ SaveAndClose
    PROVE  KeepInv' /\ WrittenStep
<1>1. Inv' /\ "draft" \in Folders /\ "queue" \in Folders
    BY AddsSafe DEF KeepInv, Folders
<1>2. CASE SaveAndKeep(w)
    BY <1>1, <1>2, AddKeeps DEF SaveAndKeep, CanSave
<1>3. CASE SaveAndQuit(w)
    BY <1>1, <1>3, AddKeeps DEF SaveAndQuit, CanSave
<1>4. CASE SendLater(w)
    BY <1>1, <1>4, AddKeeps DEF SendLater, CanSave
<1>5. CASE Autosave(w)
    BY <1>1, <1>5, AddKeeps DEF Autosave, CanSave
<1>6. CASE SaveAndClose
    <2>1. /\ calls # <<>> /\ Top.at = "save?" /\ CanSave(Top.win)
          /\ Add(Top.win, "draft", "quit", Returned)
        BY <1>6 DEF SaveAndClose, At
    <2>2. Top \in Call /\ Top.win \in Open
        BY <2>1, CalledOpen DEF KeepInv
    <2>3. Top.action # "keep"
        BY <2>1, <2>2 DEF Call, SendCall, SaveCall, CloseCall
    <2>4. windows[Top.win].editor = NoEditor
        BY <2>1, <2>3, TopCloses DEF KeepInv, EditorOK
    <2>5. QED
        BY <1>1, <2>1, <2>2, <2>4, AddKeeps
<1>7. QED
    BY <1>2, <1>3, <1>4, <1>5, <1>6

\* The call on top goes on or returns, and no window goes.
LEMMA ReturnKeeps ==
    ASSUME KeepInv, Inv', calls # <<>>, Open' = Open, UNCHANGED <<files, edits>>,
           given \subseteq given',
           \A v \in Open : /\ windows'[v].text = windows[v].text
                           /\ windows'[v].editor = windows[v].editor
                           /\ \/ /\ windows'[v].target = windows[v].target
                                 /\ windows'[v].modified = windows[v].modified
                              \/ /\ v = Top.win /\ windows'[v].target \in Files
                                 /\ files[windows'[v].target].text = windows[v].text,
           Closing' \subseteq Closing, SavedTextOK'
    PROVE  KeepInv' /\ WrittenStep
<1>1. Texted' = Texted /\ Saved' = Saved /\ Files' = Files
    BY TextedSame, SameSaved
<1>2. EditorOK'
    BY ClosingCalled DEF KeepInv, EditorOK
<1>3. TargetOK'
    BY DEF KeepInv, TargetOK
<1>4. /\ \A text \in Saved : Written!Kept(text, Saved', given')
      /\ \A text : Written!Kept(text, Saved, given) => Written!Kept(text, Saved', given')
    BY <1>1 DEF Written!Kept
<1>5. ModifiedOK'
    <2>1. ASSUME NEW v \in Open
          PROVE  windows'[v].modified \/ Written!Kept(windows'[v].text, Saved', given')
        <3>1. CASE /\ v = Top.win /\ windows'[v].target \in Files
                   /\ files[windows'[v].target].text = windows[v].text
            <4>1. windows'[v].text \in Saved
                BY <3>1 DEF Saved
            <4>2. QED
                BY <1>4, <4>1
        <3>2. CASE windows'[v].modified = windows[v].modified
            BY <1>4, <3>2 DEF KeepInv, ModifiedOK
        <3>3. QED
            BY <3>1, <3>2
    <2>2. QED
        BY <2>1 DEF ModifiedOK
<1>6. WrittenStep
    BY <1>1, <1>4, StepFinishes
<1>7. QED
    BY <1>2, <1>3, <1>5, <1>6 DEF KeepInv

LEMMA UnlockedKeeps ==
    ASSUME KeepInv, NotSent \/ (FinishSent /\ windows' = Unlocked(Top.win))
    PROVE  KeepInv' /\ WrittenStep
<1>1. calls # <<>> /\ Top.at \notin Questions /\ calls' = Returned
      /\ windows' = Unlocked(Top.win) /\ UNCHANGED <<files, edits, given, failed>>
    BY DEF NotSent, FinishSent, At, Questions
<1>2. Inv' /\ ~Saving' /\ Closing' \subseteq Closing /\ given \subseteq given'
    BY <1>1, NotSentSafe, PoppedOK, PoppedCloses DEF KeepInv, Inv
<1>3. Top.win \in Open /\ 0 \in 0..1 /\ Set(Top.win, [windows[Top.win] EXCEPT !.lock_count = 0])
    BY <1>1, UnlockedType DEF KeepInv, Set
<1>4. /\ Open' = Open
      /\ \A v \in Open : /\ windows'[v].target = windows[v].target
                         /\ windows'[v].text = windows[v].text
                         /\ windows'[v].modified = windows[v].modified
                         /\ windows'[v].editor = windows[v].editor
    BY <1>3, LocksOnly
<1>5. QED
    BY <1>1, <1>2, <1>4, ReturnKeeps DEF SavedTextOK

LEMMA CancelKeeps ==
    ASSUME KeepInv, Cancel
    PROVE  KeepInv' /\ WrittenStep
<1>1. calls # <<>> /\ calls' = Returned /\ UNCHANGED <<windows, files, edits, given, failed>>
    BY DEF Cancel
<1>2. Inv' /\ ~Saving' /\ Closing' \subseteq Closing /\ given \subseteq given' /\ Open' = Open
    BY <1>1, CancelSafe, PoppedOK, PoppedCloses DEF KeepInv, Inv, Open
<1>3. QED
    BY <1>1, <1>2, ReturnKeeps DEF SavedTextOK

LEMMA FinishKeepKeeps ==
    ASSUME KeepInv, FinishKeep
    PROVE  KeepInv' /\ WrittenStep
<1>1. /\ calls # <<>> /\ Top.at = "finish" /\ Top.at \notin Questions /\ Top.action = "keep"
      /\ calls' = Returned /\ UNCHANGED <<files, edits, given>> /\ Saving
    BY DEF FinishKeep, At, Questions, Saving
<1>2. Inv' /\ ~Saving' /\ Closing' \subseteq Closing /\ given \subseteq given'
    BY <1>1, FinishKeepSafe, PoppedOK, PoppedCloses DEF KeepInv, Inv
<1>3. /\ Unlocked(Top.win) =
            [windows EXCEPT ![Top.win] = [windows[Top.win] EXCEPT !.lock_count = 0]]
      /\ windows[Top.win] \in Compose /\ Top.win \in Open /\ Top.win \in Windows
      /\ windows \in [Windows -> Compose \cup {NoWindow}]
    BY <1>1, UnlockedType DEF KeepInv
<1>4. Top.id \in Files /\ Top.id \in Ids /\ files[Top.id].text = windows[Top.win].text
    BY <1>1, OpenType DEF KeepInv, SavedTextOK, Inv, SavedOK
<1>5. CASE windows' = [Unlocked(Top.win) EXCEPT ![Top.win].target = Top.id,
                                                ![Top.win].modified = FALSE]
    <2> DEFINE c == [windows[Top.win] EXCEPT !.lock_count = 0, !.target = Top.id,
                                             !.modified = FALSE]
    <2>1. Set(Top.win, c)
        BY <1>3, <1>5 DEF Set, Compose
    <2>2. /\ c = [windows[Top.win] EXCEPT !.lock_count = 0, !.target = Top.id,
                                            !.modified = FALSE]
          /\ 0 \in 0..1 /\ FALSE \in BOOLEAN /\ Top.id \in Ids \cup {NoTarget}
        BY <1>4
    <2> HIDE DEF c
    <2>3. /\ c \in Compose /\ c.text = windows[Top.win].text
          /\ c.editor = windows[Top.win].editor /\ c.target = Top.id
        BY <1>3, <2>2 DEF Compose
    <2>4. /\ Open' = Open /\ windows'[Top.win] = c
          /\ \A v \in Open : v # Top.win => windows'[v] = windows[v]
        BY <1>3, <2>1, <2>3, WindowSet DEF KeepInv, Inv, Open
    <2>5. QED
        BY <1>1, <1>2, <1>4, <2>3, <2>4, ReturnKeeps DEF SavedTextOK
<1>6. CASE windows' = Unlocked(Top.win)
    <2>1. 0 \in 0..1 /\ Set(Top.win, [windows[Top.win] EXCEPT !.lock_count = 0])
        BY <1>3, <1>6 DEF Set
    <2>2. /\ Open' = Open
          /\ \A v \in Open : /\ windows'[v].target = windows[v].target
                             /\ windows'[v].text = windows[v].text
                             /\ windows'[v].modified = windows[v].modified
                             /\ windows'[v].editor = windows[v].editor
        BY <1>3, <2>1, LocksOnly
    <2>3. QED
        BY <1>1, <1>2, <2>2, ReturnKeeps DEF SavedTextOK
<1>7. QED
    BY <1>5, <1>6 DEF FinishKeep

LEMMA SentKeeps ==
    ASSUME KeepInv, Sent
    PROVE  KeepInv' /\ WrittenStep
<1> DEFINE r == [Top EXCEPT !.at = "remove"]
<1>1. calls # <<>> /\ Top.at = "sending" /\ Top.at \notin Questions
      /\ calls' = Append(Returned, r) /\ UNCHANGED <<windows, files, edits, failed>>
      /\ given' = given \cup windows[Top.win].text
    BY DEF Sent, At, Questions, Replaced
<1>2. Top \in Call /\ Top.win \in Open
    BY <1>1, CalledOpen DEF KeepInv
<1>3. r \in Call /\ r.win = Top.win /\ r.action = "send" /\ Top.action = "send"
    BY <1>1, <1>2 DEF Call, SendCall, SaveCall, CloseCall, Questions
<1> HIDE DEF r
<1>4. Inv' /\ Top' = r /\ Closing' \subseteq Closing \cup {Top.win} /\ Open' = Open
    BY <1>1, <1>3, SentSafe, WentOn, WentOnCloses DEF KeepInv, Inv, Open
<1>5. Top.win \in Closing
    BY <1>1, <1>3, TopCloses DEF KeepInv
<1>6. SavedTextOK'
    BY <1>1, <1>3, <1>4 DEF SavedTextOK
<1>7. Closing' \subseteq Closing /\ given \subseteq given'
    BY <1>1, <1>4, <1>5
<1>8. QED
    BY <1>1, <1>4, <1>6, <1>7, ReturnKeeps

\* A message goes when its text is in another one, or was sent or given up.
LEMMA RemovedKeeps ==
    ASSUME KeepInv, Inv', NEW i \in Files, Removed(i), given \subseteq given',
           files[i].text \subseteq given' \/ \E j \in Files \ {i} : files[i].text \subseteq files[j].text,
           Closing' \subseteq Closing, SavedTextOK'
    PROVE  KeepInv' /\ WrittenStep
<1>1. /\ Open' = Open /\ Files' = Files \ {i}
      /\ \A j \in Files' : files'[j] = files[j]
      /\ \A w \in Open :
           /\ windows'[w].target = IF windows[w].target = i THEN NoTarget
                                                            ELSE windows[w].target
           /\ windows'[w].text = windows[w].text
           /\ windows'[w].modified = windows[w].modified
           /\ windows'[w].editor = windows[w].editor
    BY FileGone DEF KeepInv, Inv
<1>2. Texted' = Texted /\ Saved' \subseteq Saved
    BY <1>1, TextedSame DEF Saved
<1>3. \A text \in Saved : Written!Kept(text, Saved', given')
    <2>1. \A j \in Files \ {i} : files[j].text \in Saved'
        BY <1>1 DEF Saved
    <2>2. Written!Kept(files[i].text, Saved', given')
        BY <2>1 DEF Written!Kept
    <2>3. \A j \in Files \ {i} : Written!Kept(files[j].text, Saved', given')
        BY <2>1 DEF Written!Kept
    <2>4. QED
        BY <2>2, <2>3 DEF Saved
<1>4. EditorOK'
    BY <1>1, ClosingCalled DEF KeepInv, EditorOK
<1>5. TargetOK'
    BY <1>1 DEF KeepInv, TargetOK, Inv, LinksOK
<1>6. ModifiedOK'
    BY <1>1, <1>3, KeptStays DEF KeepInv, ModifiedOK
<1>7. WrittenStep
    BY <1>2, <1>3, StepFinishes
<1>8. QED
    BY <1>4, <1>5, <1>6, <1>7 DEF KeepInv

LEMMA RemoveTargetKeeps ==
    ASSUME KeepInv, RemoveTarget
    PROVE  KeepInv' /\ WrittenStep
<1> DEFINE r == [Top EXCEPT !.at = "finish"]
           target == windows[Top.win].target
<1>1. calls # <<>> /\ Top.at = "remove" /\ Saving
      /\ calls' = Append(Returned, r) /\ UNCHANGED <<edits, given>>
    BY DEF RemoveTarget, At, Saving, Replaced
<1>2. Top \in Call /\ Top.win \in Open
    BY <1>1, CalledOpen DEF KeepInv
<1>3. /\ r \in Call /\ r.win = Top.win /\ r.action = Top.action
      /\ r.action # "send" => r.id = Top.id
    BY <1>1, <1>2 DEF Call, SendCall, SaveCall, CloseCall, Questions
<1> HIDE DEF r
<1>4. Inv' /\ Top' = r /\ given \subseteq given' /\ Closing' \subseteq Closing
    <2>1. Top.action # "keep" => Top.win \in Closing
        BY <1>1, TopCloses DEF KeepInv
    <2>2. QED
        BY <1>1, <1>3, <2>1, RemoveTargetSafe, WentOn, WentOnCloses DEF KeepInv, Inv
<1>5. /\ Top.action = "send" => windows[Top.win].text \subseteq given
      /\ Top.action # "send" => /\ Top.id \in Files /\ target # Top.id
                                /\ files[Top.id].text = windows[Top.win].text
    BY <1>1, <1>2 DEF KeepInv, SavedTextOK, Inv, SavedOK
<1>6. CASE UNCHANGED <<windows, files>>
    <2>1. Open' = Open /\ SavedTextOK'
        BY <1>1, <1>3, <1>4, <1>5, <1>6 DEF Open, SavedTextOK
    <2>2. QED
        BY <1>1, <1>4, <1>6, <2>1, ReturnKeeps
<1>7. CASE target # NoTarget /\ Removed(target)
    <2>1. target \in Files /\ files[target].text \subseteq windows[Top.win].text
        BY <1>2, <1>7 DEF KeepInv, TargetOK, Inv, LinksOK
    <2>2. \/ files[target].text \subseteq given'
          \/ \E j \in Files \ {target} : files[target].text \subseteq files[j].text
        BY <1>4, <1>5, <2>1
    <2>3. SavedTextOK'
        BY <1>1, <1>2, <1>3, <1>4, <1>5, <1>7, <2>1, FileGone DEF SavedTextOK, KeepInv, Inv
    <2>4. QED
        BY <1>4, <1>7, <2>1, <2>2, <2>3, RemovedKeeps
<1>8. QED
    BY <1>6, <1>7 DEF RemoveTarget

LEMMA GoneKeeps ==
    ASSUME KeepInv, NEW i \in Ids, Gone(i)
    PROVE  KeepInv' /\ WrittenStep
<1>1. /\ MainLoop /\ i \in Files /\ Removed(i) /\ given' = given \cup files[i].text
      /\ UNCHANGED <<calls, edits, failed>>
    BY DEF Gone
<1>2. Inv' /\ Closing' = Closing
    BY <1>1, GoneSafe, SameCloses DEF KeepInv
<1>3. SavedTextOK'
    BY <1>1 DEF SavedTextOK, Saving, MainLoop, Top, Questions
<1>4. QED
    BY <1>1, <1>2, <1>3, RemovedKeeps

\* A window goes when its text was saved, sent or given up.
LEMMA DestroyedKeeps ==
    ASSUME KeepInv, Inv', NEW w \in Open, windows' = Destroyed(w), files' = files,
           given \subseteq given', Written!Kept(Texted[w], Saved, given'),
           Closing' \subseteq Closing \ {w}, ~Saving'
    PROVE  KeepInv' /\ WrittenStep
<1>1. /\ w \in Windows /\ Open' = Open \ {w} /\ \A v \in Open' : windows'[v] = windows[v]
    BY WindowGone DEF KeepInv, Inv, Open
<1>2. Files' = Files /\ Saved' = Saved
    BY SameSaved
<1>3. EditorOK'
    BY <1>1, ClosingCalled DEF KeepInv, EditorOK
<1>4. TargetOK'
    BY <1>1 DEF KeepInv, TargetOK
<1>5. ModifiedOK'
    <2>1. \A text \in Saved : Written!Kept(text, Saved', given')
        BY <1>2 DEF Written!Kept
    <2>2. \A text : Written!Kept(text, Saved, given) => Written!Kept(text, Saved', given')
        BY <2>1, KeptStays
    <2>3. QED
        BY <1>1, <2>2 DEF KeepInv, ModifiedOK
<1>6. SavedTextOK'
    BY DEF SavedTextOK
<1>7. Texted' = [Texted EXCEPT ![w] = Texted'[w]]
    <2>1. Open \subseteq Windows
        BY DEF Open
    <2>2. QED
        BY <1>1, <2>1, TextedOthers
<1>8. Texted[w] # NoText /\ Texted'[w] = NoText
    BY <1>1, TextedType DEF KeepInv, Texted, WindowText
<1>9. WrittenStep
    BY <1>1, <1>2, <1>7, <1>8, StepLeaves
<1>10. QED
    BY <1>3, <1>4, <1>5, <1>6, <1>9 DEF KeepInv

LEMMA QuitKeeps ==
    ASSUME KeepInv, FinishQuit \/ (FinishSent /\ windows' = Destroyed(Top.win))
                    \/ CloseWithoutSaving
    PROVE  KeepInv' /\ WrittenStep
<1> DEFINE w == Top.win
<1>1. /\ calls # <<>> /\ calls' = Returned /\ Top.at \in {"save?", "finish"}
      /\ windows' = Destroyed(w) /\ UNCHANGED <<files, edits, failed>>
    BY DEF FinishQuit, FinishSent, CloseWithoutSaving, At
<1>2. Top \in Call /\ w \in Open
    BY <1>1, CalledOpen DEF KeepInv
<1>3. Top.action # "keep"
    BY <1>2 DEF FinishQuit, FinishSent, CloseWithoutSaving, At, Call, SendCall, SaveCall,
                CloseCall
<1>4. Texted[w] = windows[w].text
    BY <1>1, <1>2, <1>3, TopCloses, TextedType DEF KeepInv, EditorOK
<1>5. Inv' /\ ~Saving' /\ Closing' \subseteq Closing \ {w}
    <2>1. Called' \subseteq Called /\ w \notin Called'
        BY <1>1, <1>3, PoppedHolds DEF KeepInv, Inv
    <2>2. Closing' \subseteq Called'
        BY DEF Closing, Called
    <2>3. QED
        BY <1>1, <2>1, <2>2, QuitSafe, PoppedOK, PoppedCloses DEF KeepInv, Inv
<1>6. given \subseteq given' /\ Written!Kept(windows[w].text, Saved, given')
    <2>1. CASE FinishQuit
        <3>1. Saving /\ Top.action = "quit" /\ given' = given
            BY <2>1 DEF FinishQuit, Saving, At
        <3>2. Top.id \in Files /\ files[Top.id].text = windows[w].text
            BY <3>1 DEF KeepInv, SavedTextOK, Inv, SavedOK
        <3>3. windows[w].text \in Saved
            BY <3>2 DEF Saved
        <3>4. QED
            BY <3>1, <3>3, KeptNow
    <2>2. CASE FinishSent
        <3>1. Saving /\ Top.action = "send" /\ given' = given
            BY <2>2 DEF FinishSent, Saving, At
        <3>2. QED
            BY <3>1, KeptNow DEF KeepInv, SavedTextOK
    <2>3. CASE CloseWithoutSaving
        <3>1. given' = given \cup windows[w].text
            BY <2>3 DEF CloseWithoutSaving
        <3>2. QED
            BY <3>1 DEF Written!Kept
    <2>4. QED
        BY <2>1, <2>2, <2>3
<1>7. QED
    BY <1>1, <1>2, <1>4, <1>5, <1>6, DestroyedKeeps

\* A question is put; what the editor had, if it was killed, is given up.
LEMMA AskedKeeps ==
    ASSUME KeepInv, Inv', NEW w \in Open, NEW at \in Questions, UNCHANGED <<files, edits, failed>>,
           given \subseteq given',
           \/ Set(w, windows[w]) /\ (at = "save?" => windows[w].editor = NoEditor)
           \/ /\ Set(w, [windows[w] EXCEPT !.editor = NoEditor])
              /\ windows[w].editor = NoEditor \/ windows[w].editor \subseteq given',
           \/ calls' = Append(calls, Frame(w, at, "close"))
           \/ calls # <<>> /\ calls' = Append(Returned, Frame(w, at, "close"))
    PROVE  KeepInv' /\ WrittenStep
<1> DEFINE r == Frame(w, at, "close")
<1>1. w \in Windows /\ windows[w] \in Compose
    BY OpenType DEF KeepInv, Inv
<1>2. r \in Call /\ r.win = w /\ r.at = at /\ r.at \notin {"remove", "finish"}
    <2>1. "remove" \notin Questions /\ "finish" \notin Questions
        BY DEF Questions
    <2>2. QED
        BY <1>1, <2>1, FrameType
<1>3. calls' = Append(calls, r) \/ (calls # <<>> /\ calls' = Append(Returned, r))
    OBVIOUS
<1> HIDE DEF r
<1>4. PICK c \in Compose : /\ Set(w, c) /\ c.text = windows[w].text
                           /\ c.target = windows[w].target
                           /\ c.modified = windows[w].modified
                           /\ at = "save?" => c.editor = NoEditor
                           /\ \/ c.editor = windows[w].editor
                              \/ /\ c.editor = NoEditor
                                 /\ windows[w].editor \subseteq given'
    <2>1. CASE Set(w, windows[w]) /\ (at = "save?" => windows[w].editor = NoEditor)
        BY <1>1, <2>1
    <2>2. CASE /\ Set(w, [windows[w] EXCEPT !.editor = NoEditor])
               /\ windows[w].editor = NoEditor \/ windows[w].editor \subseteq given'
        <3> DEFINE c == [windows[w] EXCEPT !.editor = NoEditor]
        <3>1. /\ c \in Compose /\ c.text = windows[w].text /\ c.target = windows[w].target
              /\ c.modified = windows[w].modified /\ c.editor = NoEditor
            BY <1>1 DEF Compose
        <3>2. QED
            BY <2>2, <3>1
    <2>3. QED
        BY <2>1, <2>2
<1>5. /\ Open' = Open /\ windows'[w] = c
      /\ \A v \in Open : v # w => windows'[v] = windows[v]
    BY <1>1, <1>4, WindowSet DEF KeepInv, Inv, Open
<1>6. /\ Top' = r /\ Closing' \subseteq Closing \cup {w}
      /\ at = "kill editor?" => Closing' \subseteq Closing
    BY <1>2, <1>3, Pushed, PushedCloses, WentOn, WentOnCloses DEF KeepInv, Inv
<1>7. Files' = Files /\ Saved' = Saved
    BY SameSaved
<1>8. EditorOK'
    <2>1. \A v \in Closing : windows'[v].editor = NoEditor
        BY <1>4, <1>5, ClosingCalled DEF KeepInv, EditorOK
    <2>2. CASE at = "kill editor?"
        BY <1>6, <2>1, <2>2 DEF EditorOK
    <2>3. CASE at = "save?"
        BY <1>4, <1>5, <1>6, <2>1, <2>3 DEF EditorOK
    <2>4. QED
        BY <2>2, <2>3 DEF Questions
<1>9. TargetOK'
    BY <1>4, <1>5 DEF KeepInv, TargetOK
<1>10. ModifiedOK'
    <2>1. \A text : Written!Kept(text, Saved, given) => Written!Kept(text, Saved', given')
        BY <1>7 DEF Written!Kept
    <2>2. QED
        BY <1>4, <1>5, <2>1 DEF KeepInv, ModifiedOK
<1>11. SavedTextOK'
    BY <1>2, <1>6 DEF SavedTextOK, Saving
<1>12. /\ Texted[w] # NoText /\ Texted'[w] # NoText
       /\ Texted' = [Texted EXCEPT ![w] = Texted'[w]]
       /\ Texted'[w] = c.text \cup (IF c.editor = NoEditor THEN {} ELSE c.editor)
       /\ Texted[w] = c.text \cup (IF windows[w].editor = NoEditor THEN {} ELSE windows[w].editor)
    <2>1. Open \subseteq Windows
        BY DEF Open
    <2>2. Texted' = [Texted EXCEPT ![w] = Texted'[w]]
        BY <1>1, <1>5, <2>1, TextedOthers
    <2>3. Texted[w] # NoText /\ Texted'[w] # NoText
        BY <1>5, TextedType, TextedNext DEF KeepInv
    <2>4. QED
        BY <1>1, <1>4, <1>5, <2>2, <2>3 DEF Texted, WindowText
<1>13. WrittenStep
    <2>1. Texted'[w] \subseteq Texted[w] /\ Texted[w] \subseteq Texted'[w] \cup given'
        BY <1>4, <1>12
    <2>2. QED
        BY <1>1, <1>7, <1>12, <2>1, StepDrops
<1>14. QED
    BY <1>8, <1>9, <1>10, <1>11, <1>13 DEF KeepInv

LEMMA CloseKeeps ==
    ASSUME KeepInv, NEW w \in Windows, Close(w)
    PROVE  KeepInv' /\ WrittenStep
<1>1. /\ Usable(w) /\ UNCHANGED <<files, edits, given, failed>> /\ given \subseteq given'
      /\ w \in Open /\ w \notin Called /\ ~Saving
    BY UsableFree DEF Close, KeepInv
<1>2. Inv' /\ windows \in [Windows -> Compose \cup {NoWindow}]
    BY CloseSafe DEF KeepInv, Inv, Typed
<1>3. CASE windows[w].editor # NoEditor
    <2>1. Set(w, windows[w]) /\ "kill editor?" \in Questions /\ "kill editor?" # "save?"
          /\ calls' = Append(calls, Frame(w, "kill editor?", "close"))
        BY <1>2, <1>3 DEF Close, Set, Questions
    <2>2. QED
        BY <1>1, <1>2, <2>1, AskedKeeps
<1>4. CASE windows[w].editor = NoEditor /\ windows[w].modified
    <2>1. Set(w, windows[w]) /\ "save?" \in Questions
          /\ calls' = Append(calls, Frame(w, "save?", "close"))
        BY <1>4 DEF Close, Ask, Edited, Set, Questions
    <2>2. QED
        BY <1>1, <1>2, <1>4, <2>1, AskedKeeps
<1>5. CASE windows[w].editor = NoEditor /\ ~windows[w].modified
    <2>1. windows' = Destroyed(w) /\ calls' = calls
        BY <1>5 DEF Close, Ask
    <2>2. ~Saving' /\ Closing' \subseteq Closing \ {w}
        BY <1>1, <2>1, SameCloses, ClosingCalled DEF KeepInv, Saving, Top
    <2>3. Written!Kept(Texted[w], Saved, given')
        BY <1>1, <1>5, TextedType DEF KeepInv, ModifiedOK
    <2>4. QED
        BY <1>1, <1>2, <2>1, <2>2, <2>3, DestroyedKeeps
<1>6. QED
    BY <1>3, <1>4, <1>5

LEMMA KillEditorKeeps ==
    ASSUME KeepInv, KillEditor
    PROVE  KeepInv' /\ WrittenStep
<1> DEFINE w == Top.win
           c == [windows[w] EXCEPT !.editor = NoEditor]
<1>1. /\ calls # <<>> /\ Top.at = "kill editor?"
      /\ given' = (IF windows[w].editor = NoEditor THEN given
                                                   ELSE given \cup windows[w].editor)
      /\ Ask(w, c, Returned) /\ UNCHANGED <<files, edits, failed>>
    BY DEF KillEditor, At
<1>2. Top \in Call /\ w \in Open /\ windows[w] \in Compose
    BY <1>1, CalledOpen, OpenType DEF KeepInv, Inv
<1>3. Top.action # "keep"
    BY <1>1, <1>2 DEF Call, SendCall, SaveCall, CloseCall
<1>4. Inv' /\ given \subseteq given' /\ c.modified = windows[w].modified
      /\ (windows[w].editor = NoEditor \/ windows[w].editor \subseteq given')
    BY <1>1, <1>2, KillEditorSafe DEF KeepInv, Compose
<1>5. CASE windows[w].modified
    <2>1. Set(w, c) /\ "save?" \in Questions
          /\ calls' = Append(Returned, Frame(w, "save?", "close"))
        BY <1>1, <1>4, <1>5 DEF Ask, Edited, Set, Questions
    <2>2. QED
        BY <1>1, <1>2, <1>4, <2>1, AskedKeeps
<1>6. CASE ~windows[w].modified
    <2>1. windows' = Destroyed(w) /\ calls' = Returned
        BY <1>1, <1>4, <1>6 DEF Ask
    <2>2. ~Saving' /\ Closing' \subseteq Closing \ {w}
        <3>1. w \notin Called' /\ Closing' \subseteq Called'
            BY <1>1, <1>3, <2>1, PoppedHolds DEF KeepInv, Inv, Closing, Called
        <3>2. QED
            BY <1>1, <2>1, <3>1, PoppedOK, PoppedCloses DEF KeepInv, Inv
    <2>3. Written!Kept(Texted[w], Saved, given')
        <3>1. Written!Kept(windows[w].text, Saved, given)
            BY <1>2, <1>6 DEF KeepInv, ModifiedOK
        <3>2. Texted[w] \subseteq windows[w].text \cup given'
            BY <1>2, <1>4, TextedType DEF KeepInv
        <3>3. QED
            BY <1>4, <3>1, <3>2 DEF Written!Kept
    <2>4. QED
        BY <1>1, <1>2, <1>4, <2>1, <2>2, <2>3, DestroyedKeeps
<1>7. QED
    BY <1>5, <1>6

LEMMA SendKeeps ==
    ASSUME KeepInv, NEW w \in Windows, Send(w)
    PROVE  KeepInv' /\ WrittenStep
<1> DEFINE r == Frame(w, "sending", "send")
<1>1. /\ Usable(w) /\ CanSave(w) /\ windows' = Locked(w) /\ calls' = Append(calls, r)
      /\ windows[w].editor = NoEditor /\ w \in Open
      /\ UNCHANGED <<files, edits, given, failed>>
    BY DEF Send, CanSave
<1>2. r \in Call /\ r.win = w /\ r.at = "sending"
    BY FrameType
<1> HIDE DEF r
<1>3. Inv' /\ Top' = r /\ Closing' \subseteq Closing \cup {w}
    BY <1>1, <1>2, SendSafe, Pushed, PushedCloses DEF KeepInv, Inv, r
<1>4. /\ Texted' = Texted /\ Open' = Open
      /\ \A v \in Open : /\ windows'[v].target = windows[v].target
                         /\ windows'[v].text = windows[v].text
                         /\ windows'[v].modified = windows[v].modified
                         /\ windows'[v].editor = windows[v].editor
    <2>1. 1 \in 0..1 /\ Set(w, [windows[w] EXCEPT !.lock_count = 1])
        BY <1>1, LockedSet DEF KeepInv, Inv
    <2>2. QED
        BY <1>1, <2>1, LocksOnly
<1>5. Files' = Files /\ Saved' = Saved
    BY <1>1, SameSaved
<1>6. EditorOK'
    BY <1>1, <1>3, <1>4, ClosingCalled DEF KeepInv, EditorOK
<1>7. TargetOK' /\ ModifiedOK'
    BY <1>1, <1>4, <1>5 DEF KeepInv, TargetOK, ModifiedOK
<1>8. SavedTextOK'
    BY <1>2, <1>3 DEF SavedTextOK, Saving
<1>9. WrittenStep
    BY <1>1, <1>4, <1>5, StepStutters
<1>10. QED
    BY <1>3, <1>6, <1>7, <1>8, <1>9 DEF KeepInv

LEMMA CrashKeeps ==
    ASSUME KeepInv, Crash
    PROVE  KeepInv' /\ WrittenStep
<1>1. calls' = <<>> /\ windows' = [w \in Windows |-> NoWindow] /\ UNCHANGED <<files, given>>
    BY DEF Crash
<1>2. Open' = {} /\ 1..Depth' = {} /\ Inv'
    BY <1>1, CrashSafe DEF Open, Depth, KeepInv
<1>3. EditorOK' /\ TargetOK' /\ ModifiedOK' /\ SavedTextOK'
    BY <1>1, <1>2 DEF EditorOK, Closing, TargetOK, ModifiedOK, SavedTextOK, Saving
<1>4. Texted' = [w \in Windows |-> NoText] /\ Saved' = Saved
    BY <1>1, <1>2, SameSaved DEF Texted, WindowText
<1>5. Written!Crash
    BY <1>1, <1>4 DEF Written!Crash, Texted, Saved
<1>6. QED
    BY <1>2, <1>3, <1>5 DEF KeepInv, WrittenStep, Written!Next

LEMMA StutterKeeps ==
    ASSUME KeepInv, UNCHANGED vars
    PROVE  KeepInv' /\ WrittenStep
<1>1. UNCHANGED <<windows, files, calls, edits, given, failed>>
    BY DEF vars
<1>2. Open' = Open /\ Files' = Files /\ Saved' = Saved /\ Closing' = Closing
      /\ Saving' = Saving /\ Top' = Top /\ Inv'
    BY <1>1, SameSaved, SameCloses, StutterSafe DEF Open, Saving, Top, KeepInv
<1>3. EditorOK' /\ TargetOK' /\ ModifiedOK' /\ SavedTextOK'
    BY <1>1, <1>2 DEF KeepInv, EditorOK, TargetOK, ModifiedOK, SavedTextOK
<1>4. Texted' = Texted
    BY <1>1, <1>2, TextedSame
<1>5. WrittenStep
    BY <1>1, <1>2, <1>4, StepStutters
<1>6. QED
    BY <1>2, <1>3, <1>5 DEF KeepInv

LEMMA NextKeeps ==
    ASSUME KeepInv, Careful, [Next]_vars
    PROVE  KeepInv' /\ WrittenStep
<1>1. ASSUME NEW w \in Windows, Window(w) PROVE KeepInv' /\ WrittenStep
    BY <1>1, OpenedKeeps, ChangesKeep, AddsKeep, SendKeeps, CloseKeeps DEF Window
<1>2. CASE RemoveTarget
    BY <1>2, RemoveTargetKeeps
<1>3. CASE Sent
    BY <1>3, SentKeeps
<1>4. CASE KillEditor
    BY <1>4, KillEditorKeeps
<1>5. CASE Cancel
    BY <1>5, CancelKeeps
<1>6. CASE SaveAndClose
    <2>1. Top.win \in Windows
        BY <1>6, CalledOpen DEF SaveAndClose, At, KeepInv
    <2>2. QED
        BY <1>6, <2>1, AddsKeep
<1>7. CASE FinishQuit \/ CloseWithoutSaving
    BY <1>7, QuitKeeps
<1>8. CASE FinishKeep
    BY <1>8, FinishKeepKeeps
<1>9. CASE NotSent
    BY <1>9, UnlockedKeeps
<1>10. CASE FinishSent
    <2>1. windows' \in {Destroyed(Top.win), Unlocked(Top.win)}
        BY <1>10 DEF FinishSent
    <2>2. QED
        BY <1>10, <2>1, QuitKeeps, UnlockedKeeps
<1>11. ASSUME NEW i \in Ids, Gone(i) PROVE KeepInv' /\ WrittenStep
    BY <1>11, GoneKeeps
<1>12. CASE Crash
    BY <1>12, CrashKeeps
<1>13. CASE UNCHANGED vars
    BY <1>13, StutterKeeps
<1>14. QED
    BY <1>1, <1>2, <1>3, <1>4, <1>5, <1>6, <1>7, <1>8, <1>9, <1>10, <1>11, <1>12, <1>13
       DEF Next, Returning

LEMMA InitKeeps ==
    ASSUME Init
    PROVE  KeepInv /\ Written!Init
<1>1. Inv /\ Open = {} /\ Files = {} /\ 1..Depth = {} /\ ~Saving
    <2>1. Depth = 0 /\ ~Saving
        BY EmptyCalls DEF Init
    <2>2. 1..Depth = {}
        BY <2>1
    <2>3. Open = {} /\ Files = {}
        BY DEF Init, Open, Files
    <2>4. QED
        BY <2>1, <2>2, <2>3, InitSafe
<1>2. EditorOK /\ TargetOK /\ ModifiedOK /\ SavedTextOK
    BY <1>1 DEF EditorOK, Closing, TargetOK, ModifiedOK, SavedTextOK
<1>3. Written!Init
    <2>1. \A w \in Windows : WindowText(w) = NoText
        BY <1>1 DEF WindowText
    <2>2. Saved = {} /\ given = {}
        BY <1>1 DEF Saved, Init
    <2>3. QED
        BY <2>1, <2>2 DEF Written!Init, Saved
<1>4. QED
    BY <1>1, <1>2, <1>3 DEF KeepInv

\* Whatever is written stays in a window or a saved message until it was sent or
\* given up, if no window is typed into while it is saved and every file that is
\* read into one can be read: a message is removed when a newer one has its text,
\* and a window closes unasked when it is saved.
THEOREM TextKept == ASSUME Careful PROVE Spec => KeepsText
<1>1. Init => KeepInv
    BY InitKeeps
<1>2. KeepInv /\ [Next]_vars => KeepInv' /\ [Written!Next]_(Written!vars)
    BY NextKeeps DEF WrittenStep
<1>3. QED
    BY <1>1, <1>2, PTL DEF Spec, KeepsText

\* So Composing implements Writing, if nothing happens that Hazards names.
THEOREM WritingImplemented == ASSUME Careful PROVE Spec => Written!Spec
<1>1. Init => Written!Init
    BY InitKeeps
<1>2. Spec => [][Written!Next]_(Written!vars)
    BY TextKept DEF KeepsText
<1>3. QED
    BY <1>1, <1>2, PTL DEF Spec, Written!Spec

-----------------------------------------------------------------------------
\* Saving leaves one message.

\* A text that another one has all of is of no more use.
Covered(a, b) == a \subseteq b => a \subseteq given

\* The message that a window is saved in.
SavedIn(w, i) ==
    \/ windows[w].target = i
    \/ Saving /\ Top.action # "send" /\ Top.win = w /\ Top.id = i

\* The new message beside the one it replaces.
Replacing(i, j) ==
    /\ At("remove") /\ Top.action # "send"
    /\ {i, j} = {Top.id, windows[Top.win].target}

FilesTidy ==
    \A i, j \in Files :
        i # j /\ ~Replacing(i, j) => Covered(files[i].text, files[j].text)

WindowsTidy ==
    \A w \in Open :
        /\ \A i \in Files : ~SavedIn(w, i) => /\ Covered(files[i].text, windows[w].text)
                                              /\ Covered(windows[w].text, files[i].text)
        /\ \A v \in Open : v # w => Covered(windows[v].text, windows[w].text)

\* What was replaced is no longer what the window edits again.
ReplacedTidy == At("finish") /\ Top.action # "send" => windows[Top.win].target = NoTarget

\* The edits of an editor that is at work are nowhere else.
EditorsTidy ==
    \A w \in Open : windows[w].editor # NoEditor =>
        /\ windows[w].editor \cap given = {}
        /\ \A i \in Files : windows[w].editor \cap files[i].text = {}
        /\ \A v \in Open :
             /\ windows[w].editor \cap windows[v].text = {}
             /\ v # w /\ windows[v].editor # NoEditor
                  => windows[w].editor \cap windows[v].editor = {}

TidyInv ==
    /\ Inv /\ EditorsTidy
    /\ failed \/ (FilesTidy /\ WindowsTidy /\ ReplacedTidy)

-----------------------------------------------------------------------------
\* Each action keeps it tidy.

\* Windows and messages go, or what was sent and given up grows.
LEMMA LessTidy ==
    ASSUME TidyInv, Inv', given \subseteq given', Open' \subseteq Open, Files' \subseteq Files,
           \A i \in Files' : files'[i].text = files[i].text,
           \A v \in Open' :
               /\ windows'[v].text = windows[v].text
               /\ \/ windows'[v].editor = NoEditor
                  \/ /\ windows'[v].editor = windows[v].editor
                     /\ windows[v].editor # NoEditor => windows[v].editor \cap given' = {},
           failed => failed',
           ~failed' => /\ ReplacedTidy'
                       /\ \A v \in Open', i \in Files' : SavedIn(v, i) => SavedIn(v, i)'
                       /\ \A i, j \in Files' : Replacing(i, j) => Replacing(i, j)'
    PROVE  TidyInv'
<1>1. EditorsTidy'
    BY DEF TidyInv, EditorsTidy
<1>2. ASSUME ~failed' PROVE FilesTidy'
    BY <1>2 DEF TidyInv, FilesTidy, Covered
<1>3. ASSUME ~failed' PROVE WindowsTidy'
    <2>1. ASSUME NEW w \in Open', NEW i \in Files', ~SavedIn(w, i)'
          PROVE  /\ files'[i].text \subseteq windows'[w].text => files'[i].text \subseteq given'
                 /\ windows'[w].text \subseteq files'[i].text => windows'[w].text \subseteq given'
        <3>1. ~SavedIn(w, i)
            BY <1>3, <2>1
        <3>2. QED
            BY <1>3, <3>1 DEF TidyInv, WindowsTidy, Covered
    <2>2. ASSUME NEW w \in Open', NEW v \in Open', v # w
          PROVE  windows'[v].text \subseteq windows'[w].text => windows'[v].text \subseteq given'
        BY <1>3, <2>2 DEF TidyInv, WindowsTidy, Covered
    <2>3. QED
        BY <2>1, <2>2 DEF WindowsTidy, Covered
<1>4. QED
    BY <1>1, <1>2, <1>3 DEF TidyInv

\* A window is opened or its text changes.
LEMMA ChangeTidy ==
    ASSUME TidyInv, Inv', NEW w \in Windows, NEW c \in Compose, Set(w, c),
           UNCHANGED <<files, calls, given>>, failed' \in {failed, TRUE},
           Saving => w \in Open, w \in Open => c.target = windows[w].target,
           c.editor # NoEditor =>
               /\ c.editor \cap (given \cup c.text) = {}
               /\ \A i \in Files : c.editor \cap files[i].text = {}
               /\ \A v \in Open \ {w} :
                    /\ c.editor \cap windows[v].text = {}
                    /\ windows[v].editor # NoEditor => c.editor \cap windows[v].editor = {},
           \A v \in Open \ {w} : windows[v].editor # NoEditor
               => windows[v].editor \cap c.text = {},
           ~failed' =>
               /\ \A i \in Files : (w \in Open => ~SavedIn(w, i)) /\ i # c.target
                    => Covered(files[i].text, c.text) /\ Covered(c.text, files[i].text)
               /\ \A v \in Open \ {w} :
                    Covered(windows[v].text, c.text) /\ Covered(c.text, windows[v].text)
    PROVE  TidyInv'
<1>1. /\ Open' = Open \cup {w} /\ windows'[w] = c /\ Open \subseteq Windows
      /\ \A v \in Windows : v # w => windows'[v] = windows[v]
    BY WindowSet DEF TidyInv, Inv, Open
<1>2. Files' = Files /\ Saving' = Saving /\ Top' = Top /\ \A at : At(at)' <=> At(at)
    BY DEF Files, Saving, Top, At
<1>3. EditorsTidy'
    <2>1. ASSUME NEW u \in Open', windows'[u].editor # NoEditor
          PROVE  /\ windows'[u].editor \cap given' = {}
                 /\ \A i \in Files' : windows'[u].editor \cap files'[i].text = {}
                 /\ \A v \in Open' :
                      /\ windows'[u].editor \cap windows'[v].text = {}
                      /\ v # u /\ windows'[v].editor # NoEditor
                           => windows'[u].editor \cap windows'[v].editor = {}
        <3>1. CASE u = w
            BY <1>1, <1>2, <2>1, <3>1
        <3>2. CASE u # w
            BY <1>1, <1>2, <2>1, <3>2 DEF TidyInv, EditorsTidy
        <3>3. QED
            BY <3>1, <3>2
    <2>2. QED
        BY <2>1 DEF EditorsTidy
<1>4. Saving => Top.win \in Open
    BY CalledOpen DEF TidyInv, Saving
<1>5. ASSUME ~failed' PROVE FilesTidy' /\ ReplacedTidy'
    <2>1. Saving => windows'[Top.win].target = windows[Top.win].target
        BY <1>1, <1>4
    <2>2. (At("remove") => Saving) /\ (At("finish") => Saving)
        BY DEF At, Saving
    <2>3. \A i, j : Replacing(i, j)' <=> Replacing(i, j)
        BY <1>2, <2>1, <2>2 DEF Replacing
    <2>4. FilesTidy'
        BY <1>2, <1>5, <2>3 DEF TidyInv, FilesTidy, Covered
    <2>5. ReplacedTidy'
        BY <1>2, <1>5, <2>1, <2>2 DEF TidyInv, ReplacedTidy
    <2>6. QED
        BY <2>4, <2>5
<1>6. ASSUME ~failed' PROVE WindowsTidy'
    <2>1. ASSUME NEW u \in Open', NEW i \in Files', ~SavedIn(u, i)'
          PROVE  /\ files'[i].text \subseteq windows'[u].text => files'[i].text \subseteq given'
                 /\ windows'[u].text \subseteq files'[i].text => windows'[u].text \subseteq given'
        <3>1. CASE u = w
            <4>1. i # c.target /\ (w \in Open => ~SavedIn(w, i))
                BY <1>1, <1>2, <2>1, <3>1 DEF SavedIn
            <4>2. QED
                BY <1>1, <1>2, <1>6, <3>1, <4>1 DEF Covered
        <3>2. CASE u # w
            <4>1. u \in Open /\ ~SavedIn(u, i) /\ windows'[u] = windows[u]
                BY <1>1, <1>2, <2>1, <3>2 DEF SavedIn
            <4>2. QED
                BY <1>2, <1>6, <4>1 DEF TidyInv, WindowsTidy, Covered
        <3>3. QED
            BY <3>1, <3>2
    <2>2. ASSUME NEW u \in Open', NEW v \in Open', v # u
          PROVE  windows'[v].text \subseteq windows'[u].text => windows'[v].text \subseteq given'
        BY <1>1, <1>6, <2>2 DEF TidyInv, WindowsTidy, Covered
    <2>3. QED
        BY <2>1, <2>2 DEF WindowsTidy, Covered
<1>7. QED
    BY <1>3, <1>5, <1>6 DEF TidyInv

LEMMA OpenedTidy ==
    ASSUME TidyInv, NEW w \in Windows, New(w) \/ (\E i \in Ids : Reedit(w, i)) \/ ReeditSent(w)
    PROVE  TidyInv'
<1>1. Inv'
    BY ChangesSafe DEF TidyInv
<1>2. edits \in 0..MaxEdits /\ given \subseteq 1..edits /\ 1..edits \in Texts /\ failed \in BOOLEAN
    BY MaxEditsAssumption DEF TidyInv, Inv, Typed, Texts
<1>3. ASSUME NEW target \in Files \cup {NoTarget}, NEW text \in SUBSET (1..edits),
             Input, w \notin Open, Edited(w, compose_create(target, text)),
             UNCHANGED <<files, calls, edits, given>>,
             failed' \in {failed, TRUE},
             \A v \in Open : windows[v].editor # NoEditor => windows[v].editor \cap text = {},
             ~failed' =>
               /\ \A i \in Files : i # target
                    => Covered(files[i].text, text) /\ Covered(text, files[i].text)
               /\ \A v \in Open : Covered(windows[v].text, text) /\ Covered(text, windows[v].text)
      PROVE  TidyInv'
    <2> DEFINE c == compose_create(target, text)
    <2>1. /\ c \in Compose /\ c.text = text /\ c.target = target /\ c.editor = NoEditor
        BY <1>2 DEF compose_create, Compose, Files, Texts
    <2>2. Set(w, c) /\ ~Saving
        BY <1>3, InputFree DEF Set, Edited, TidyInv
    <2> HIDE DEF c
    <2>3. QED
        BY <1>1, <1>3, <2>1, <2>2, ChangeTidy
<1>4. ASSUME Input, w \notin Open, NEW text \in SUBSET given,
             Edited(w, compose_create(NoTarget, text)),
             UNCHANGED <<files, calls, edits, given, failed>>
      PROVE  TidyInv'
    <2>1. text \in SUBSET (1..edits)
        BY <1>2
    <2>2. \A a : Covered(a, text) /\ Covered(text, a)
        BY DEF Covered
    <2>3. \A v \in Open : windows[v].editor # NoEditor => windows[v].editor \cap text = {}
        BY DEF TidyInv, EditorsTidy
    <2>4. QED
        BY <1>2, <1>3, <1>4, <2>1, <2>2, <2>3
<1>5. CASE New(w)
    BY <1>4, <1>5 DEF New
<1>6. CASE ReeditSent(w)
    BY <1>4, <1>6 DEF ReeditSent
<1>7. ASSUME NEW i \in Ids, Reedit(w, i) PROVE TidyInv'
    <2>1. /\ Input /\ w \notin Open /\ i \in Files /\ \A v \in Open : windows[v].target # i
          /\ UNCHANGED <<files, calls, edits, given>>
        BY <1>7 DEF Reedit
    <2>2. PICK text \in Read(files[i].text) :
             Edited(w, compose_create(i, text)) /\ failed' = (failed \/ text # files[i].text)
        BY <1>7, Zenon DEF Reedit
    <2>3. text \subseteq files[i].text /\ text \in SUBSET (1..edits)
        <3>1. files[i].text \subseteq 1..edits
            BY <2>1 DEF TidyInv, Inv, TextsOK
        <3>2. text \subseteq files[i].text
            BY DEF Read
        <3>3. QED
            BY <3>1, <3>2
    <2>4. ~Saving
        BY <2>1, InputFree DEF TidyInv
    <2>5. \A v \in Open : windows[v].editor # NoEditor => windows[v].editor \cap text = {}
        BY <2>1, <2>3 DEF TidyInv, EditorsTidy
    <2>6. /\ failed' \in {failed, TRUE}
          /\ ~failed' => ~failed /\ text = files[i].text
        BY <1>2, <2>2
    <2>7. ASSUME ~failed', NEW j \in Files, j # i
          PROVE  Covered(text, files[j].text) /\ Covered(files[j].text, text)
        <3>1. Covered(files[i].text, files[j].text) /\ Covered(files[j].text, files[i].text)
            BY <2>1, <2>4, <2>6, <2>7 DEF TidyInv, FilesTidy, Replacing, At, Saving
        <3>2. QED
            BY <2>6, <2>7, <3>1
    <2>8. ASSUME ~failed', NEW v \in Open
          PROVE  Covered(windows[v].text, text) /\ Covered(text, windows[v].text)
        <3>1. /\ Covered(windows[v].text, files[i].text)
              /\ Covered(files[i].text, windows[v].text)
            BY <2>1, <2>4, <2>6, <2>8 DEF TidyInv, WindowsTidy, SavedIn
        <3>2. QED
            BY <2>6, <2>8, <3>1
    <2>9. QED
        BY <1>3, <2>1, <2>2, <2>3, <2>5, <2>6, <2>7, <2>8
<1>8. QED
    BY <1>5, <1>6, <1>7

LEMMA ChangesTidy ==
    ASSUME TidyInv, NEW w \in Windows,
           Type(w) \/ StartEditor(w) \/ EditorEdits(w) \/ EditorExits(w)
    PROVE  TidyInv'
<1> USE DEF Edited
<1>1. Inv'
    BY ChangesSafe DEF TidyInv
<1>2. w \in Open
    BY DEF Type, StartEditor, EditorEdits, EditorExits, Usable, TypingMeanwhile
<1>3. /\ windows[w] \in Compose /\ edits \in Nat /\ 1..edits \in Texts /\ failed \in BOOLEAN
      /\ edits + 1 \notin 1..edits /\ given \subseteq 1..edits
      /\ \A v \in Open : /\ windows[v].text \subseteq 1..edits
                         /\ windows[v].editor # NoEditor => windows[v].editor \subseteq 1..edits
      /\ \A i \in Files : files[i].text \subseteq 1..edits
    BY <1>2, OpenType, MaxEditsAssumption DEF TidyInv, Inv, Typed, TextsOK, Texts
<1>4. edits < MaxEdits => \A text \in SUBSET (1..edits) : text \cup {edits + 1} \in Texts
    <2> SUFFICES ASSUME edits < MaxEdits, NEW text \in SUBSET (1..edits)
                 PROVE  text \cup {edits + 1} \in Texts
        OBVIOUS
    <2>1. edits + 1 \in 1..MaxEdits /\ 1..edits \subseteq 1..MaxEdits
        BY <1>3, MaxEditsAssumption
    <2>2. QED
        BY <2>1 DEF Texts
<1>5. windows[w].editor # NoEditor =>
          /\ windows[w].editor \cap given = {}
          /\ windows[w].editor \cap windows[w].text = {}
          /\ \A i \in Files : windows[w].editor \cap files[i].text = {}
          /\ \A v \in Open \ {w} :
               /\ windows[w].editor \cap windows[v].text = {}
               /\ windows[v].editor # NoEditor => windows[w].editor \cap windows[v].editor = {}
    BY <1>2 DEF TidyInv, EditorsTidy
<1>6. \A v \in Open \ {w} : windows[v].editor # NoEditor
          => windows[v].editor \cap windows[w].text = {}
    BY <1>2 DEF TidyInv, EditorsTidy
<1>7. ~failed =>
          /\ \A i \in Files : ~SavedIn(w, i) => /\ Covered(files[i].text, windows[w].text)
                                                /\ Covered(windows[w].text, files[i].text)
          /\ \A v \in Open \ {w} : /\ Covered(windows[v].text, windows[w].text)
                                   /\ Covered(windows[w].text, windows[v].text)
    BY <1>2 DEF TidyInv, WindowsTidy
\* With new edits, a text is in no other one and has no more of them.
<1>8. ASSUME NEW new, NEW x, x \cap new = {}
      PROVE  /\ Covered(x, windows[w].text) => Covered(x, windows[w].text \cup new)
             /\ Covered(windows[w].text, x) => Covered(windows[w].text \cup new, x)
    BY <1>8 DEF Covered
<1>9. CASE Type(w)
    <2> DEFINE c == [windows[w] EXCEPT !.text = @ \cup {edits + 1}, !.modified = TRUE]
               new == {edits + 1}
    <2>1. edits < MaxEdits
        BY <1>9 DEF Type
    <2>2. /\ c \in Compose /\ c.text = windows[w].text \cup new
          /\ c.target = windows[w].target /\ c.editor = windows[w].editor
        BY <1>2, <1>3, <1>4, <2>1 DEF Compose
    <2>3. Set(w, c) /\ UNCHANGED <<files, calls, given, failed>>
        BY <1>9 DEF Type, Set
    <2>4. /\ given \cap new = {} /\ \A i \in Files : files[i].text \cap new = {}
          /\ \A v \in Open : /\ windows[v].text \cap new = {}
                             /\ windows[v].editor # NoEditor => windows[v].editor \cap new = {}
        BY <1>3
    <2> HIDE DEF c, new
    <2>5. c.editor # NoEditor =>
               /\ c.editor \cap (given \cup c.text) = {}
               /\ \A i \in Files : c.editor \cap files[i].text = {}
               /\ \A v \in Open \ {w} :
                    /\ c.editor \cap windows[v].text = {}
                    /\ windows[v].editor # NoEditor => c.editor \cap windows[v].editor = {}
        BY <1>2, <1>5, <2>2, <2>4
    <2>6. \A v \in Open \ {w} : windows[v].editor # NoEditor => windows[v].editor \cap c.text = {}
        BY <1>6, <2>2, <2>4
    <2>7. ~failed =>
               /\ \A i \in Files : ~SavedIn(w, i)
                    => Covered(files[i].text, c.text) /\ Covered(c.text, files[i].text)
               /\ \A v \in Open \ {w} :
                    Covered(windows[v].text, c.text) /\ Covered(c.text, windows[v].text)
        BY <1>7, <1>8, <2>2, <2>4
    <2>8. QED
        BY <1>1, <1>2, <2>2, <2>3, <2>5, <2>6, <2>7, ChangeTidy
<1>10. CASE StartEditor(w)
    <2> DEFINE c == [windows[w] EXCEPT !.editor = {}]
    <2>1. /\ c \in Compose /\ c.text = windows[w].text
          /\ c.target = windows[w].target /\ c.editor = {}
        BY <1>3 DEF Compose, Texts
    <2>2. Set(w, c) /\ UNCHANGED <<files, calls, given, failed>>
        BY <1>10 DEF StartEditor, Set
    <2> HIDE DEF c
    <2>3. /\ \A x : c.editor \cap x = {}
          /\ \A v \in Open \ {w} : windows[v].editor # NoEditor => windows[v].editor \cap c.text = {}
          /\ ~failed =>
               /\ \A i \in Files : ~SavedIn(w, i)
                    => Covered(files[i].text, c.text) /\ Covered(c.text, files[i].text)
               /\ \A v \in Open \ {w} :
                    Covered(windows[v].text, c.text) /\ Covered(c.text, windows[v].text)
        BY <1>6, <1>7, <2>1
    <2>4. c \in Compose /\ c.target = windows[w].target
        BY <2>1
    <2>5. QED
        BY <1>1, <1>2, <2>2, <2>3, <2>4, ChangeTidy
<1>11. CASE EditorEdits(w)
    <2> DEFINE c == [windows[w] EXCEPT !.editor = @ \cup {edits + 1}]
               new == {edits + 1}
    <2>1. windows[w].editor # NoEditor /\ edits < MaxEdits
        BY <1>11 DEF EditorEdits
    <2>2. /\ c \in Compose /\ c.text = windows[w].text
          /\ c.target = windows[w].target /\ c.editor = windows[w].editor \cup new
        BY <1>2, <1>3, <1>4, <2>1 DEF Compose
    <2>3. Set(w, c) /\ UNCHANGED <<files, calls, given, failed>>
        BY <1>11 DEF EditorEdits, Set
    <2>4. /\ given \cap new = {} /\ \A i \in Files : files[i].text \cap new = {}
          /\ \A v \in Open : /\ windows[v].text \cap new = {}
                             /\ windows[v].editor # NoEditor => windows[v].editor \cap new = {}
        BY <1>3
    <2> HIDE DEF c, new
    <2>5. /\ c.editor \cap (given \cup c.text) = {}
          /\ \A i \in Files : c.editor \cap files[i].text = {}
          /\ \A v \in Open \ {w} :
               /\ c.editor \cap windows[v].text = {}
               /\ windows[v].editor # NoEditor => c.editor \cap windows[v].editor = {}
        BY <1>2, <1>5, <2>1, <2>2, <2>4
    <2>6. /\ \A v \in Open \ {w} : windows[v].editor # NoEditor => windows[v].editor \cap c.text = {}
          /\ ~failed =>
               /\ \A i \in Files : ~SavedIn(w, i)
                    => Covered(files[i].text, c.text) /\ Covered(c.text, files[i].text)
               /\ \A v \in Open \ {w} :
                    Covered(windows[v].text, c.text) /\ Covered(c.text, windows[v].text)
        BY <1>6, <1>7, <2>2
    <2>7. QED
        BY <1>1, <1>2, <2>2, <2>3, <2>5, <2>6, ChangeTidy
<1>12. CASE EditorExits(w)
    <2>1. windows[w].editor # NoEditor /\ UNCHANGED <<files, calls, edits, given>>
        BY <1>12 DEF EditorExits
    <2>2. PICK text \in Read(Whole(windows[w])) :
             /\ Edited(w, [windows[w] EXCEPT !.text = text, !.modified = TRUE,
                                             !.editor = NoEditor])
             /\ failed' = (failed \/ text # Whole(windows[w]))
        BY <1>12 DEF EditorExits
    <2>3. text \subseteq windows[w].text \cup windows[w].editor /\ text \in Texts
        BY <1>2, <1>3, <2>1 DEF Texts, Read, Whole
    <2>4. /\ failed' \in {failed, TRUE}
          /\ ~failed' => ~failed /\ text = windows[w].text \cup windows[w].editor
        BY <1>3, <2>2 DEF Whole
    <2> DEFINE c == [windows[w] EXCEPT !.text = text, !.modified = TRUE, !.editor = NoEditor]
    <2>5. /\ c \in Compose /\ c.text = text
          /\ c.target = windows[w].target /\ c.editor = NoEditor
        BY <1>3, <2>3 DEF Compose
    <2>6. Set(w, c)
        BY <2>2 DEF Set
    <2> HIDE DEF c
    <2>7. \A v \in Open \ {w} : windows[v].editor # NoEditor => windows[v].editor \cap c.text = {}
        <3>1. \A v \in Open \ {w} : windows[v].editor # NoEditor
                  => windows[v].editor \cap (windows[w].text \cup windows[w].editor) = {}
            BY <1>5, <1>6, <2>1
        <3>2. QED
            BY <2>3, <2>5, <3>1
    <2>8. /\ \A i \in Files : files[i].text \cap windows[w].editor = {}
          /\ \A v \in Open \ {w} : windows[v].text \cap windows[w].editor = {}
        BY <1>5, <2>1
    <2>9. ~failed' =>
               /\ \A i \in Files : ~SavedIn(w, i)
                    => Covered(files[i].text, c.text) /\ Covered(c.text, files[i].text)
               /\ \A v \in Open \ {w} :
                    Covered(windows[v].text, c.text) /\ Covered(c.text, windows[v].text)
        BY <1>7, <1>8, <2>4, <2>5, <2>8
    <2>10. QED
        BY <1>1, <1>2, <2>1, <2>4, <2>5, <2>6, <2>7, <2>9, ChangeTidy
<1>13. QED
    BY <1>9, <1>10, <1>11, <1>12

LEMMA AddTidy ==
    ASSUME TidyInv, NEW w \in Open, NEW folder \in Folders, NEW action \in {"keep", "quit"},
           NEW under, CanSave(w), Add(w, folder, action, under), Inv', ~Saving,
           under = calls \/ (under = Returned /\ calls # <<>>)
    PROVE  TidyInv'
<1>1. PICK i \in FreeIds :
          /\ files' = [files EXCEPT ![i] = [folder |-> folder, text |-> windows[w].text]]
          /\ windows' = Locked(w)
          /\ calls' = Append(under, [win |-> w, at |-> "remove", action |-> action, id |-> i])
          /\ UNCHANGED <<edits, given, failed>>
    BY DEF Add
<1> DEFINE r == [win |-> w, at |-> "remove", action |-> action, id |-> i]
<1>2. w \in Windows /\ i \in Ids
    BY <1>1 DEF Open, FreeIds
<1>3. /\ r \in Call /\ r.win = w /\ r.action # "send" /\ r.id = i /\ r.at = "remove"
    BY <1>2 DEF Call, SaveCall
<1>4. calls' = Append(under, r)
    BY <1>1
<1> HIDE DEF r
<1>5. /\ Files' = Files \cup {i} /\ i \notin Files
      /\ files'[i].text = windows[w].text
      /\ \A j \in Files : files'[j] = files[j]
    BY <1>1, FileAdded DEF TidyInv
<1>6. /\ Open' = Open
      /\ \A v \in Open : /\ windows'[v].target = windows[v].target
                         /\ windows'[v].text = windows[v].text
                         /\ windows'[v].editor = windows[v].editor
    <2>1. 1 \in 0..1 /\ Set(w, [windows[w] EXCEPT !.lock_count = 1])
        BY <1>1, LockedSet DEF TidyInv, Inv
    <2>2. QED
        BY <2>1, Relocked DEF TidyInv, Inv
<1>7. calls' # <<>> /\ Top' = r
    BY <1>3, <1>4, Pushed, WentOn DEF TidyInv, Inv
<1>8. EditorsTidy'
    <2>1. \A v \in Open : windows[v].editor # NoEditor => windows[v].editor \cap windows[w].text = {}
        BY DEF TidyInv, EditorsTidy
    <2>2. QED
        BY <1>1, <1>5, <1>6, <2>1 DEF TidyInv, EditorsTidy
<1>9. ASSUME ~failed PROVE FilesTidy'
    <2>1. ASSUME NEW j \in Files, j # windows[w].target
          PROVE  /\ Covered(files[j].text, windows[w].text)
                 /\ Covered(windows[w].text, files[j].text)
        BY <1>9, <2>1 DEF TidyInv, WindowsTidy, SavedIn
    <2>2. \A j, k \in Files : j # k => Covered(files[j].text, files[k].text)
        BY <1>9 DEF TidyInv, FilesTidy, Replacing, At, Saving
    <2>3. ASSUME NEW t, t = windows[w].target PROVE Replacing(i, t)' /\ Replacing(t, i)'
        <3>1. Top'.id = i /\ windows'[Top'.win].target = t
            BY <1>3, <1>6, <1>7, <2>3
        <3>2. At("remove")' /\ Top'.action # "send"
            BY <1>3, <1>7 DEF At
        <3>3. {i, t} = {t, i}
            OBVIOUS
        <3>4. QED
            BY <3>1, <3>2, <3>3 DEF Replacing
    <2>4. ASSUME NEW j \in Files', NEW k \in Files', j # k, ~Replacing(j, k)'
          PROVE  files'[j].text \subseteq files'[k].text => files'[j].text \subseteq given'
        <3>1. CASE j \in Files /\ k \in Files
            BY <1>1, <1>5, <2>2, <2>4, <3>1 DEF Covered
        <3>2. CASE j = i
            <4>1. k \in Files /\ k # windows[w].target
                BY <1>5, <2>3, <2>4, <3>2
            <4>2. QED
                BY <1>1, <1>5, <2>1, <3>2, <4>1 DEF Covered
        <3>3. CASE k = i
            <4>1. j \in Files /\ j # windows[w].target
                BY <1>5, <2>3, <2>4, <3>3
            <4>2. QED
                BY <1>1, <1>5, <2>1, <3>3, <4>1 DEF Covered
        <3>4. QED
            BY <1>5, <3>1, <3>2, <3>3
    <2>5. QED
        BY <2>4 DEF FilesTidy, Covered
<1>10. ASSUME ~failed PROVE WindowsTidy'
    <2>1. ASSUME NEW u \in Open', NEW j \in Files', ~SavedIn(u, j)'
          PROVE  /\ files'[j].text \subseteq windows'[u].text => files'[j].text \subseteq given'
                 /\ windows'[u].text \subseteq files'[j].text => windows'[u].text \subseteq given'
        <3>1. SavedIn(w, i)'
            BY <1>3, <1>7 DEF SavedIn, Saving
        <3>2. CASE j = i
            BY <1>1, <1>5, <1>6, <1>10, <2>1, <3>1, <3>2 DEF TidyInv, WindowsTidy, Covered
        <3>3. CASE j # i
            <4>1. j \in Files /\ ~SavedIn(u, j)
                BY <1>5, <1>6, <2>1, <3>3 DEF SavedIn
            <4>2. QED
                BY <1>1, <1>5, <1>6, <1>10, <4>1 DEF TidyInv, WindowsTidy, Covered
        <3>4. QED
            BY <3>2, <3>3
    <2>2. ASSUME NEW u \in Open', NEW v \in Open', v # u
          PROVE  windows'[v].text \subseteq windows'[u].text => windows'[v].text \subseteq given'
        BY <1>1, <1>6, <1>10, <2>2 DEF TidyInv, WindowsTidy, Covered
    <2>3. QED
        BY <2>1, <2>2 DEF WindowsTidy, Covered
<1>11. ReplacedTidy'
    BY <1>3, <1>7 DEF ReplacedTidy, At
<1>12. QED
    BY <1>1, <1>8, <1>9, <1>10, <1>11 DEF TidyInv

LEMMA AddsTidy ==
    ASSUME TidyInv, NEW w \in Windows,
           SaveAndKeep(w) \/ SaveAndQuit(w) \/ Autosave(w) \/ SendLater(w) \/ SaveAndClose
    PROVE  TidyInv'
<1>1. Inv' /\ "draft" \in Folders /\ "queue" \in Folders
    BY AddsSafe DEF TidyInv, Folders
<1>2. CASE SaveAndKeep(w)
    BY <1>1, <1>2, AddTidy, UsableFree DEF SaveAndKeep, CanSave, TidyInv
<1>3. CASE SaveAndQuit(w)
    BY <1>1, <1>3, AddTidy, UsableFree DEF SaveAndQuit, CanSave, TidyInv
<1>4. CASE SendLater(w)
    BY <1>1, <1>4, AddTidy, UsableFree DEF SendLater, CanSave, TidyInv
<1>5. CASE Autosave(w)
    <2>1. ~Saving
        BY <1>5 DEF Autosave, MainLoop, Saving, Questions
    <2>2. QED
        BY <1>1, <1>5, <2>1, AddTidy DEF Autosave, CanSave
<1>6. CASE SaveAndClose
    <2>1. /\ calls # <<>> /\ ~Saving /\ CanSave(Top.win)
          /\ Add(Top.win, "draft", "quit", Returned)
        BY <1>6 DEF SaveAndClose, At, Saving
    <2>2. Top.win \in Open
        BY <2>1 DEF CanSave
    <2>3. QED
        BY <1>1, <2>1, <2>2, AddTidy
<1>7. QED
    BY <1>2, <1>3, <1>4, <1>5, <1>6

\* What a step without new texts does to the edits of the editors at work.
LEMMA EditorsApart ==
    ASSUME TidyInv, NEW v \in Open, windows[v].editor # NoEditor
    PROVE  /\ windows[v].editor \cap given = {}
           /\ \A i \in Files : windows[v].editor \cap files[i].text = {}
           /\ \A w \in Open : windows[v].editor \cap windows[w].text = {}
           /\ \A w \in Open : w # v /\ windows[w].editor # NoEditor
                => windows[v].editor \cap windows[w].editor = {}
BY DEF TidyInv, EditorsTidy

\* No message is being saved, before and after.
LEMMA IdleTidy ==
    ASSUME TidyInv, Inv', given \subseteq given', Open' \subseteq Open, files' = files,
           \A v \in Open' :
               /\ windows'[v].text = windows[v].text /\ windows'[v].target = windows[v].target
               /\ \/ windows'[v].editor = NoEditor
                  \/ /\ windows'[v].editor = windows[v].editor
                     /\ windows[v].editor # NoEditor => windows[v].editor \cap given' = {},
           failed' = failed, ~Saving \/ Top.action = "send", ~Saving' \/ Top'.action = "send"
    PROVE  TidyInv'
<1>1. Files' = Files
    BY DEF Files
<1>2. (At("remove") => Saving) /\ (At("finish")' => Saving')
    BY DEF At, Saving
<1>3. ReplacedTidy'
    BY <1>2 DEF ReplacedTidy
<1>4. \A i, j \in Files' : Replacing(i, j) => Replacing(i, j)'
    BY <1>2 DEF Replacing
<1>5. \A v \in Open', i \in Files' : SavedIn(v, i) => SavedIn(v, i)'
    BY DEF SavedIn
<1>6. QED
    BY <1>1, <1>3, <1>4, <1>5, LessTidy

LEMMA UnlockedTidy ==
    ASSUME TidyInv, NotSent \/ (FinishSent /\ windows' = Unlocked(Top.win))
    PROVE  TidyInv'
<1>1. calls # <<>> /\ Top.at \notin Questions /\ calls' = Returned
      /\ windows' = Unlocked(Top.win) /\ UNCHANGED <<files, edits, given, failed>>
      /\ (~Saving \/ Top.action = "send")
    BY DEF NotSent, FinishSent, At, Questions, Saving
<1>2. Inv' /\ ~Saving' /\ given \subseteq given'
    BY <1>1, NotSentSafe, PoppedOK DEF TidyInv, Inv
<1>3. Top.win \in Open /\ 0 \in 0..1 /\ Set(Top.win, [windows[Top.win] EXCEPT !.lock_count = 0])
    BY <1>1, UnlockedType DEF TidyInv, Set
<1>4. /\ Open' = Open
      /\ \A v \in Open : /\ windows'[v].target = windows[v].target
                         /\ windows'[v].text = windows[v].text
                         /\ windows'[v].editor = windows[v].editor
    BY <1>3, Relocked DEF TidyInv, Inv
<1>5. QED
    BY <1>1, <1>2, <1>4, EditorsApart, IdleTidy

LEMMA FinishKeepTidy ==
    ASSUME TidyInv, FinishKeep
    PROVE  TidyInv'
<1>1. /\ calls # <<>> /\ Top.at = "finish" /\ Top.at \notin Questions /\ Top.action = "keep"
      /\ calls' = Returned /\ UNCHANGED <<files, edits, given>> /\ At("finish")
    BY DEF FinishKeep, At, Questions
<1>2. Inv' /\ ~Saving' /\ given \subseteq given' /\ Files' = Files
    BY <1>1, FinishKeepSafe, PoppedOK DEF TidyInv, Inv, Files
<1>3. /\ Unlocked(Top.win) =
            [windows EXCEPT ![Top.win] = [windows[Top.win] EXCEPT !.lock_count = 0]]
      /\ windows[Top.win] \in Compose /\ Top.win \in Open /\ Top.win \in Windows
      /\ windows \in [Windows -> Compose \cup {NoWindow}]
    BY <1>1, UnlockedType DEF TidyInv
<1>4. ReplacedTidy' /\ (\A i, j : ~Replacing(i, j))
    BY <1>1, <1>2 DEF ReplacedTidy, Replacing, At, Saving
<1>5. CASE windows' = [Unlocked(Top.win) EXCEPT ![Top.win].target = Top.id,
                                                ![Top.win].modified = FALSE]
           /\ UNCHANGED failed
    <2> DEFINE c == [windows[Top.win] EXCEPT !.lock_count = 0, !.target = Top.id,
                                             !.modified = FALSE]
    <2>1. Set(Top.win, c)
        BY <1>3, <1>5 DEF Set, Compose
    <2>2. /\ c = [windows[Top.win] EXCEPT !.lock_count = 0, !.target = Top.id,
                                            !.modified = FALSE]
          /\ 0 \in 0..1 /\ FALSE \in BOOLEAN /\ Top.id \in Ids \cup {NoTarget}
        <3>1. Top.id \in Ids
            BY <1>1, CalledOpen DEF TidyInv, Call, SendCall, SaveCall, CloseCall
        <3>2. QED
            BY <3>1
    <2> HIDE DEF c
    <2>3. /\ c \in Compose /\ c.text = windows[Top.win].text
          /\ c.editor = windows[Top.win].editor /\ c.target = Top.id
        BY <1>3, <2>2 DEF Compose
    <2>4. /\ Open' = Open /\ windows'[Top.win] = c
          /\ \A v \in Open : v # Top.win => windows'[v] = windows[v]
        BY <1>3, <2>1, <2>3, WindowSet DEF TidyInv, Inv, Open
    <2>5. ASSUME ~failed, NEW v \in Open, NEW i \in Files, SavedIn(v, i)
          PROVE  SavedIn(v, i)'
        <3>1. CASE v # Top.win
            BY <2>4, <2>5, <3>1 DEF SavedIn
        <3>2. CASE v = Top.win
            <4>1. windows[v].target = NoTarget /\ i # NoTarget
                BY <1>1, <2>5, <3>2, OpenType DEF TidyInv, Inv, ReplacedTidy
            <4>2. i = Top.id
                BY <2>5, <4>1 DEF SavedIn
            <4>3. windows'[v].target = i
                BY <2>3, <2>4, <3>2, <4>2
            <4>4. QED
                BY <4>3 DEF SavedIn
        <3>3. QED
            BY <3>1, <3>2
    <2>6. \A v \in Open : windows'[v].text = windows[v].text /\ windows'[v].editor = windows[v].editor
        BY <2>3, <2>4
    <2>7. QED
        BY <1>1, <1>2, <1>4, <1>5, <2>4, <2>5, <2>6, EditorsApart, LessTidy
<1>6. CASE windows' = Unlocked(Top.win) /\ failed' = TRUE
    <2>1. 0 \in 0..1 /\ Set(Top.win, [windows[Top.win] EXCEPT !.lock_count = 0])
        BY <1>3, <1>6 DEF Set
    <2>2. /\ Open' = Open
          /\ \A v \in Open : /\ windows'[v].text = windows[v].text
                             /\ windows'[v].editor = windows[v].editor
        BY <1>3, <2>1, Relocked DEF TidyInv, Inv
    <2>3. QED
        BY <1>1, <1>2, <1>6, <2>2, EditorsApart, LessTidy
<1>7. QED
    BY <1>5, <1>6 DEF FinishKeep

LEMMA QuitTidy ==
    ASSUME TidyInv, FinishQuit \/ (FinishSent /\ windows' = Destroyed(Top.win))
                    \/ CloseWithoutSaving
    PROVE  TidyInv'
<1> DEFINE w == Top.win
<1>1. /\ calls # <<>> /\ calls' = Returned
      /\ windows' = Destroyed(w) /\ UNCHANGED <<files, edits, failed>>
      /\ (given' = given \/ given' = given \cup windows[w].text)
    BY DEF FinishQuit, FinishSent, CloseWithoutSaving, At
<1>2. w \in Open /\ w \in Windows
    BY <1>1, CalledOpen DEF TidyInv
<1>3. Inv' /\ ~Saving' /\ given \subseteq given' /\ Files' = Files
    BY <1>1, QuitSafe, PoppedOK DEF TidyInv, Inv, Files
<1>4. /\ Open' = Open \ {w} /\ \A v \in Open' : windows'[v] = windows[v]
    BY <1>1, <1>2, WindowGone DEF TidyInv, Inv
<1>5. ReplacedTidy' /\ (\A i, j : ~Replacing(i, j))
    BY <1>3 DEF ReplacedTidy, Replacing, At, Saving, FinishQuit, FinishSent, CloseWithoutSaving
<1>6. \A v \in Open', i \in Files' : SavedIn(v, i) => SavedIn(v, i)'
    BY <1>4 DEF SavedIn
<1>7. \A v \in Open : windows[v].editor # NoEditor => windows[v].editor \cap given' = {}
    BY <1>1, <1>2, EditorsApart
<1>8. QED
    BY <1>1, <1>3, <1>4, <1>5, <1>6, <1>7, LessTidy


LEMMA CancelTidy ==
    ASSUME TidyInv, Cancel
    PROVE  TidyInv'
<1>1. calls # <<>> /\ Top.at \in Questions /\ calls' = Returned
      /\ UNCHANGED <<windows, files, edits, given, failed>>
    BY DEF Cancel
<1>2. Inv' /\ ~Saving' /\ ~Saving /\ Open' = Open /\ given \subseteq given'
    <2>1. Inv' /\ ~Saving' /\ Open' = Open /\ given \subseteq given'
        BY <1>1, CancelSafe, PoppedOK DEF TidyInv, Inv, Open
    <2>2. "remove" \notin Questions /\ "finish" \notin Questions
        BY DEF Questions
    <2>3. QED
        BY <1>1, <2>1, <2>2 DEF Saving
<1>3. QED
    BY <1>1, <1>2, EditorsApart, IdleTidy

LEMMA SendTidy ==
    ASSUME TidyInv, NEW w \in Windows, Send(w)
    PROVE  TidyInv'
<1> DEFINE r == Frame(w, "sending", "send")
<1>1. /\ Usable(w) /\ CanSave(w) /\ windows' = Locked(w) /\ calls' = Append(calls, r)
      /\ UNCHANGED <<files, edits, given, failed>>
    BY DEF Send
<1>2. r \in Call /\ r.at = "sending"
    BY FrameType
<1> HIDE DEF r
<1>3. Inv' /\ w \in Open /\ ~Saving /\ given \subseteq given'
    BY <1>1, SendSafe, UsableFree DEF TidyInv
<1>4. /\ Open' = Open
      /\ \A v \in Open : /\ windows'[v].target = windows[v].target
                         /\ windows'[v].text = windows[v].text
                         /\ windows'[v].editor = windows[v].editor
    <2>1. 1 \in 0..1 /\ Set(w, [windows[w] EXCEPT !.lock_count = 1])
        BY <1>1, <1>3, LockedSet DEF TidyInv, Inv
    <2>2. QED
        BY <1>3, <2>1, Relocked DEF TidyInv, Inv
<1>5. ~Saving'
    <2>1. Top' = r
        BY <1>1, <1>2, Pushed DEF TidyInv, Inv
    <2>2. QED
        BY <1>2, <2>1 DEF Saving
<1>6. QED
    BY <1>1, <1>3, <1>4, <1>5, EditorsApart, IdleTidy

LEMMA SentTidy ==
    ASSUME TidyInv, Sent
    PROVE  TidyInv'
<1> DEFINE r == [Top EXCEPT !.at = "remove"]
<1>1. calls # <<>> /\ Top.at = "sending" /\ calls' = Append(Returned, r)
      /\ UNCHANGED <<windows, files, edits, failed>>
      /\ given' = given \cup windows[Top.win].text /\ ~Saving
    BY DEF Sent, At, Replaced, Saving
<1>2. Top \in Call /\ Top.win \in Open
    BY <1>1, CalledOpen DEF TidyInv
<1>3. r \in Call /\ r.action = "send"
    <2>1. "sending" \notin Questions
        BY DEF Questions
    <2>2. QED
        BY <1>1, <1>2, <2>1 DEF Call, SendCall, SaveCall, CloseCall
<1> HIDE DEF r
<1>4. Inv' /\ Open' = Open /\ Top' = r
    BY <1>1, <1>3, SentSafe, WentOn DEF TidyInv, Inv, Open
<1>5. \A v \in Open : windows[v].editor # NoEditor => windows[v].editor \cap given' = {}
    BY <1>1, <1>2, EditorsApart
<1>6. QED
    BY <1>1, <1>3, <1>4, <1>5, IdleTidy

LEMMA RemoveTargetTidy ==
    ASSUME TidyInv, RemoveTarget
    PROVE  TidyInv'
<1> DEFINE r == [Top EXCEPT !.at = "finish"]
           target == windows[Top.win].target
<1>1. /\ calls # <<>> /\ Top.at = "remove" /\ Saving /\ calls' = Append(Returned, r)
      /\ UNCHANGED <<edits, given>>
    BY DEF RemoveTarget, At, Saving, Replaced
<1>2. \/ target = NoTarget /\ UNCHANGED <<windows, files, failed>>
      \/ target # NoTarget /\ Removed(target) /\ UNCHANGED failed
      \/ failed' = TRUE /\ UNCHANGED <<windows, files>>
    BY DEF RemoveTarget
<1>3. Top \in Call /\ Top.win \in Open
    BY <1>1, CalledOpen DEF TidyInv
<1>4. /\ r \in Call /\ r.win = Top.win /\ r.at = "finish" /\ r.action = Top.action
      /\ r.action # "send" => r.id = Top.id
    <2>1. "remove" \notin Questions
        BY DEF Questions
    <2>2. QED
        BY <1>1, <1>3, <2>1 DEF Call, SendCall, SaveCall, CloseCall
<1> HIDE DEF r
<1>5. Inv' /\ Top' = r /\ calls' # <<>> /\ Saving' /\ given \subseteq given'
    <2>1. Inv' /\ Top' = r /\ calls' # <<>>
        BY <1>1, <1>4, RemoveTargetSafe, WentOn DEF TidyInv, Inv
    <2>2. QED
        BY <1>1, <1>4, <2>1 DEF Saving
<1>6. /\ Open' = Open
      /\ \A v \in Open : windows'[v].text = windows[v].text
                         /\ windows'[v].editor = windows[v].editor
      /\ Files' \subseteq Files /\ \A i \in Files' : files'[i].text = files[i].text
      /\ ~failed' => /\ windows'[Top.win].target = NoTarget /\ target \notin Files'
                     /\ \A v \in Open, i \in Files' :
                           windows[v].target = i => windows'[v].target = i
    <2>1. CASE target = NoTarget /\ UNCHANGED <<windows, files, failed>>
        BY <2>1, OpenType DEF TidyInv, Inv, Open, Files
    <2>2. CASE target # NoTarget /\ Removed(target) /\ UNCHANGED failed
        <3>1. target \in Files
            BY <1>3, <2>2 DEF TidyInv, Inv, LinksOK
        <3> HIDE DEF target
        <3>2. /\ Open' = Open /\ Files' = Files \ {target}
              /\ \A j \in Files' : files'[j] = files[j]
              /\ \A w \in Open :
                   /\ windows'[w].target = IF windows[w].target = target
                                           THEN NoTarget ELSE windows[w].target
                   /\ windows'[w].text = windows[w].text
                   /\ windows'[w].editor = windows[w].editor
            BY <2>2, <3>1, FileGone DEF TidyInv, Inv
        <3>3. windows[Top.win].target = target
            BY DEF target
        <3>4. QED
            BY <1>3, <3>2, <3>3
    <2>3. CASE failed' = TRUE /\ UNCHANGED <<windows, files>>
        BY <2>3 DEF Open, Files
    <2>4. QED
        BY <1>2, <2>1, <2>2, <2>3
<1>7. failed => failed'
    BY <1>2
<1>8. ASSUME ~failed'
      PROVE  /\ ReplacedTidy'
             /\ \A v \in Open', i \in Files' : SavedIn(v, i) => SavedIn(v, i)'
             /\ \A i, j \in Files' : Replacing(i, j) => Replacing(i, j)'
    <2>1. ReplacedTidy'
        BY <1>4, <1>5, <1>6, <1>8 DEF ReplacedTidy
    <2>2. \A v \in Open', i \in Files' : SavedIn(v, i) => SavedIn(v, i)'
        BY <1>4, <1>5, <1>6, <1>8 DEF SavedIn
    <2>3. ASSUME NEW i \in Files', NEW j \in Files', Replacing(i, j) PROVE FALSE
        <3>1. target \in {i, j}
            BY <2>3 DEF Replacing
        <3>2. QED
            BY <1>6, <1>8, <2>3, <3>1
    <2>4. QED
        BY <2>1, <2>2, <2>3
<1>9. QED
    BY <1>1, <1>5, <1>6, <1>7, <1>8, EditorsApart, LessTidy

LEMMA CloseTidy ==
    ASSUME TidyInv, NEW w \in Windows, Close(w)
    PROVE  TidyInv'
<1>1. /\ Usable(w) /\ UNCHANGED <<files, edits, given, failed>> /\ w \in Open /\ ~Saving
      /\ Inv' /\ given \subseteq given'
    BY CloseSafe, UsableFree DEF Close, TidyInv
<1>2. CASE \E at \in Questions : UNCHANGED windows /\ calls' = Append(calls, Frame(w, at, "close"))
    <2>1. PICK at \in Questions : UNCHANGED windows /\ calls' = Append(calls, Frame(w, at, "close"))
        BY <1>2
    <2>2. Top' = Frame(w, at, "close") /\ Frame(w, at, "close").at = at
        BY <2>1, FrameType, Pushed DEF TidyInv, Inv
    <2>3. "remove" \notin Questions /\ "finish" \notin Questions
        BY DEF Questions
    <2>4. ~Saving' /\ Open' = Open
        BY <2>1, <2>2, <2>3 DEF Saving, Open
    <2>5. QED
        BY <1>1, <2>1, <2>4, EditorsApart, IdleTidy
<1>3. CASE windows' = Destroyed(w) /\ calls' = calls
    <2>1. Open' = Open \ {w} /\ \A v \in Open' : windows'[v] = windows[v]
        BY <1>1, <1>3, WindowGone DEF TidyInv, Inv
    <2>2. ~Saving' /\ Open' \subseteq Open
        BY <1>1, <1>3, <2>1 DEF Saving, Top
    <2>3. QED
        BY <1>1, <2>1, <2>2, EditorsApart, IdleTidy
<1>4. \/ \E at \in Questions : UNCHANGED windows /\ calls' = Append(calls, Frame(w, at, "close"))
      \/ windows' = Destroyed(w) /\ calls' = calls
    <2>1. Edited(w, windows[w]) => UNCHANGED windows
        BY DEF TidyInv, Inv, Typed, Edited
    <2>2. "kill editor?" \in Questions /\ "save?" \in Questions
        BY DEF Questions
    <2>3. QED
        BY <2>1, <2>2 DEF Close, Ask
<1>5. QED
    BY <1>2, <1>3, <1>4

LEMMA KillEditorTidy ==
    ASSUME TidyInv, KillEditor
    PROVE  TidyInv'
<1> DEFINE w == Top.win
           c == [windows[w] EXCEPT !.editor = NoEditor]
<1>1. /\ calls # <<>> /\ Top.at = "kill editor?" /\ Top.at \in Questions
      /\ given' = (IF windows[w].editor = NoEditor THEN given
                                                   ELSE given \cup windows[w].editor)
      /\ Ask(w, c, Returned) /\ UNCHANGED <<files, edits, failed>>
    BY DEF KillEditor, At, Questions
<1>2. Top \in Call /\ w \in Open /\ w \in Windows /\ windows[w] \in Compose /\ Inv'
    BY <1>1, CalledOpen, OpenType, KillEditorSafe DEF TidyInv, Inv
<1>3. ~Saving
    <2>1. "remove" \notin Questions /\ "finish" \notin Questions
        BY DEF Questions
    <2>2. QED
        BY <1>1, <2>1 DEF Saving
<1>4. given \subseteq given'
    <2>1. Top.at = "kill editor?" /\ (windows[w].editor = NoEditor \/ windows[w].editor # NoEditor)
        BY <1>1
    <2>2. QED
        BY <1>1, <2>1
<1> DEFINE Apart(v) == windows[v].editor # NoEditor => windows[v].editor \cap given' = {}
<1>5. \A v \in Open : v # w => Apart(v)
    BY <1>1, <1>2, EditorsApart
<1> HIDE DEF Apart
<1>6. CASE Set(w, c) /\ calls' = Append(Returned, Frame(w, "save?", "close"))
    <2>1. /\ c \in Compose /\ c.text = windows[w].text /\ c.target = windows[w].target
          /\ c.editor = NoEditor
        BY <1>2 DEF Compose
    <2> HIDE DEF c
    <2>2. /\ Open' = Open /\ windows'[w] = c
          /\ \A v \in Open : v # w => windows'[v] = windows[v]
        BY <1>2, <1>6, <2>1, WindowSet DEF TidyInv, Inv, Open
    <2>3. ~Saving'
        <3>1. "save?" \in Questions /\ "remove" \notin Questions /\ "finish" \notin Questions
            BY DEF Questions
        <3>2. ASSUME NEW at \in Questions, calls' = Append(Returned, Frame(w, at, "close"))
              PROVE  Top'.at \in Questions
            <4>1. PICK r \in Call : r.at = at /\ calls' = Append(Returned, r)
                BY <1>2, <3>2, FrameType
            <4>2. Typed /\ calls # <<>>
                BY <1>1 DEF TidyInv, Inv
            <4>3. QED
                BY <3>2, <4>1, <4>2, WentOn
        <3>3. Top'.at \in Questions
            BY <1>6, <3>1, <3>2
        <3>4. QED
            BY <3>1, <3>3 DEF Saving
    <2>4. \A v \in Open' :
              /\ windows'[v].text = windows[v].text /\ windows'[v].target = windows[v].target
              /\ \/ windows'[v].editor = NoEditor
                 \/ /\ windows'[v].editor = windows[v].editor
                    /\ windows[v].editor # NoEditor => windows[v].editor \cap given' = {}
        BY <1>5, <2>1, <2>2 DEF Apart
    <2>5. QED
        BY <1>1, <1>2, <1>3, <1>4, <2>2, <2>3, <2>4, IdleTidy
<1>7. CASE windows' = Destroyed(w) /\ calls' = Returned
    <2>1. Open' = Open \ {w} /\ \A v \in Open' : windows'[v] = windows[v]
        BY <1>2, <1>7, WindowGone DEF TidyInv, Inv
    <2>2. ~Saving' /\ Open' \subseteq Open
        BY <1>1, <1>7, <2>1, PoppedOK DEF TidyInv, Inv
    <2>3. QED
        BY <1>1, <1>2, <1>3, <1>4, <1>5, <2>1, <2>2, IdleTidy DEF Apart
<1>8. QED
    BY <1>1, <1>6, <1>7 DEF Ask, Edited, Set

LEMMA GoneTidy ==
    ASSUME TidyInv, NEW i \in Ids, Gone(i)
    PROVE  TidyInv'
<1>1. /\ MainLoop /\ i \in Files /\ Removed(i) /\ given' = given \cup files[i].text
      /\ UNCHANGED <<calls, edits, failed>> /\ Inv'
    BY GoneSafe DEF Gone, TidyInv
<1>2. /\ Open' = Open /\ Files' = Files \ {i}
      /\ \A j \in Files' : files'[j] = files[j]
      /\ \A w \in Open :
           /\ windows'[w].target = IF windows[w].target = i THEN NoTarget
                                                            ELSE windows[w].target
           /\ windows'[w].text = windows[w].text
           /\ windows'[w].editor = windows[w].editor
    BY <1>1, FileGone DEF TidyInv, Inv
<1>3. ~Saving /\ ~Saving'
    <2>1. "remove" \notin Questions /\ "finish" \notin Questions
        BY DEF Questions
    <2>2. QED
        BY <1>1, <2>1 DEF Saving, MainLoop, Top
<1>4. \A v \in Open : windows[v].editor # NoEditor => windows[v].editor \cap given' = {}
    BY <1>1, EditorsApart
<1>5. ReplacedTidy' /\ (\A j, k : ~Replacing(j, k))
    BY <1>3 DEF ReplacedTidy, Replacing, At, Saving
<1>6. \A v \in Open', j \in Files' : SavedIn(v, j) => SavedIn(v, j)'
    BY <1>2, <1>3 DEF SavedIn
<1>7. QED
    BY <1>1, <1>2, <1>4, <1>5, <1>6, LessTidy

LEMMA CrashTidy ==
    ASSUME TidyInv, Crash
    PROVE  TidyInv'
<1>1. /\ calls' = <<>> /\ windows' = [w \in Windows |-> NoWindow]
      /\ UNCHANGED <<files, edits, given>> /\ failed' = (failed \/ Saving) /\ Inv'
    BY CrashSafe DEF Crash, TidyInv
<1>2. Open' = {} /\ Files' = Files /\ ~Saving'
    BY <1>1 DEF Open, Files, Saving
<1>3. ~failed' => ~Saving
    BY <1>1
<1>4. ReplacedTidy' /\ (~failed' => \A j, k : ~Replacing(j, k))
    BY <1>2, <1>3 DEF ReplacedTidy, Replacing, At, Saving
<1>5. failed => failed'
    BY <1>1
<1>6. given \subseteq given'
    BY <1>1
<1>7. QED
    BY <1>1, <1>2, <1>4, <1>5, <1>6, LessTidy

LEMMA StutterTidy ==
    ASSUME TidyInv, UNCHANGED vars
    PROVE  TidyInv'
<1>1. UNCHANGED <<windows, files, calls, edits, given, failed>>
    BY DEF vars
<1>2. Inv' /\ given \subseteq given' /\ Open' = Open /\ Files' = Files
    BY <1>1, StutterSafe DEF TidyInv, Open, Files
<1>3. (ReplacedTidy' <=> ReplacedTidy) /\ (\A v, i : SavedIn(v, i) <=> SavedIn(v, i)')
      /\ (\A i, j : Replacing(i, j) <=> Replacing(i, j)')
    BY <1>1 DEF ReplacedTidy, SavedIn, Replacing, At, Saving, Top
<1>4. QED
    BY <1>1, <1>2, <1>3, EditorsApart, LessTidy DEF TidyInv

LEMMA NextTidy ==
    ASSUME TidyInv, [Next]_vars
    PROVE  TidyInv'
<1>1. ASSUME NEW w \in Windows, Window(w) PROVE TidyInv'
    BY <1>1, OpenedTidy, ChangesTidy, AddsTidy, SendTidy, CloseTidy DEF Window
<1>2. CASE RemoveTarget
    BY <1>2, RemoveTargetTidy
<1>3. CASE Sent
    BY <1>3, SentTidy
<1>4. CASE KillEditor
    BY <1>4, KillEditorTidy
<1>5. CASE Cancel
    BY <1>5, CancelTidy
<1>6. CASE SaveAndClose
    <2>1. Top.win \in Windows
        BY <1>6, CalledOpen DEF SaveAndClose, At, TidyInv
    <2>2. QED
        BY <1>6, <2>1, AddsTidy
<1>7. CASE FinishQuit \/ CloseWithoutSaving
    BY <1>7, QuitTidy
<1>8. CASE FinishKeep
    BY <1>8, FinishKeepTidy
<1>9. CASE NotSent
    BY <1>9, UnlockedTidy
<1>10. CASE FinishSent
    <2>1. windows' \in {Destroyed(Top.win), Unlocked(Top.win)}
        BY <1>10 DEF FinishSent
    <2>2. QED
        BY <1>10, <2>1, QuitTidy, UnlockedTidy
<1>11. ASSUME NEW i \in Ids, Gone(i) PROVE TidyInv'
    BY <1>11, GoneTidy
<1>12. CASE Crash
    BY <1>12, CrashTidy
<1>13. CASE UNCHANGED vars
    BY <1>13, StutterTidy
<1>14. QED
    BY <1>1, <1>2, <1>3, <1>4, <1>5, <1>6, <1>7, <1>8, <1>9, <1>10, <1>11, <1>12, <1>13
       DEF Next, Returning

LEMMA InitTidy ==
    ASSUME Init
    PROVE  TidyInv
<1>1. Open = {} /\ Files = {} /\ Inv
    BY InitSafe DEF Init, Open, Files
<1>2. ~At("finish")
    BY DEF Init, At
<1>3. QED
    BY <1>1, <1>2 DEF TidyInv, EditorsTidy, FilesTidy, WindowsTidy, ReplacedTidy

\* Saving again and again, by hand, by the timer and when the window is closed,
\* leaves one message, and queueing no draft, as long as no step fails: a message
\* whose text another one has all of is one that was sent or given up.
THEOREM TidyHolds == Spec => []Tidy
<1>1. Init => TidyInv
    BY InitTidy
<1>2. TidyInv /\ [Next]_vars => TidyInv'
    BY NextTidy
<1>3. TidyInv => Tidy
    <2>1. SUFFICES ASSUME TidyInv, ~failed, ~Saving PROVE Tidy
        BY DEF Tidy
    <2>2. FilesTidy /\ \A i, j : ~Replacing(i, j)
        BY <2>1 DEF TidyInv, Replacing, Saving, At
    <2>3. QED
        BY <2>2 DEF Tidy, FilesTidy, Covered
<1>4. QED
    BY <1>1, <1>2, <1>3, PTL DEF Spec
=============================================================================
