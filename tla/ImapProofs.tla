----------------------------- MODULE ImapProofs -----------------------------
(***************************************************************************)
(* Theorems about Imap, for any mailboxes and messages, and any number of  *)
(* handlers and mishaps.                                                   *)
(***************************************************************************)
EXTENDS Imap, TLAPS, SequenceTheorems, FiniteSetTheorems

Ops == DOMAIN Plan
Removal == {"remove", "move", "moveOut"}

\* How many steps a handler has left, and which step is the one with n left.
Left(h) == Len(h.todo)
StepOf(op, n) == Plan[op][Len(Plan[op]) + 1 - n]
Step(h) == StepOf(h.op, Left(h))

Steps == {"session", "select", "trySelect", "ui", "fetch", "flags", "headers", "copy", "copyFile",
          "status", "append", "unlink", "store", "setflags", "expunge", "noop", "forget",
          "examine", "delete", "close", "body"}

LEMMA RemovingSteps ==
    ASSUME NEW n \in 1..8, NEW op \in Removal
    PROVE  /\ n = 8 => StepOf(op, n) = "session"
           /\ n = 7 => StepOf(op, n) = "trySelect"
           /\ n = 6 => StepOf(op, n) = "session"
           /\ n = 5 => StepOf(op, n) = "ui"
           /\ n = 4 => StepOf(op, n) = "store"
           /\ n = 3 => StepOf(op, n) = "expunge"
           /\ n = 2 => StepOf(op, n) = "noop"
           /\ n = 1 => StepOf(op, n) = "forget"
<1>1. CASE op = "remove"
  BY <1>1 DEF StepOf, Plan, Removing
<1>2. CASE op = "move"
  BY <1>2 DEF StepOf, Plan, Copying, Removing
<1>3. CASE op = "moveOut"
  BY <1>3 DEF StepOf, Plan, Fetching, Removing
<1> QED
  BY <1>1, <1>2, <1>3 DEF Removal

LEMMA PlanLengths ==
    /\ Ops = {"view", "remove", "copy", "move", "moveOut", "moveIn", "mark", "list",
              "removeFolder", "close"}
    /\ Len(Plan.view) = 3 /\ Len(Plan.remove) = 8 /\ Len(Plan.copy) = 5 /\ Len(Plan.move) = 13
    /\ Len(Plan.moveOut) = 12 /\ Len(Plan.moveIn) = 5 /\ Len(Plan.mark) = 3 /\ Len(Plan.list) = 4
    /\ Len(Plan.removeFolder) = 3 /\ Len(Plan.close) = 2
BY DEF Ops, Plan, Fetching, Removing, Copying, Adding, Changing, Listing, RemovingFolder, Closing


\* Who does a step, and how far from the end.
LEMMA WhoDoes ==
    ASSUME NEW op \in Ops, NEW n \in 1..Len(Plan[op])
    PROVE  /\ StepOf(op, n) \in Steps \ {"body"}
           /\ StepOf(op, n) = "session" => n = Len(Plan[op]) \/ (op \in Removal /\ n \in {6, 8})
           /\ StepOf(op, n) = "select" => op = "list" /\ n = 3
           /\ StepOf(op, n) = "trySelect" =>
                 \/ op \in {"view", "mark"} /\ n = 2
                 \/ op = "copy" /\ n = 3
                 \/ op \in {"move", "moveOut"} /\ n = 11
                 \/ op \in Removal /\ n = 7
           /\ StepOf(op, n) = "ui" =>
                 \/ op = "copy" /\ n \in {2, 4}
                 \/ op = "move" /\ n \in {10, 12}
                 \/ op = "moveIn" /\ n = 4
                 \/ op \in Removal /\ n = 5
           /\ StepOf(op, n) = "fetch" =>
                 (op = "view" /\ n = 1) \/ (op = "moveOut" /\ n = 10)
           /\ StepOf(op, n) = "copyFile" => op = "moveOut" /\ n = 9
           /\ StepOf(op, n) = "flags" => op = "list" /\ n = 2
           /\ StepOf(op, n) = "headers" => op = "list" /\ n = 1
           /\ StepOf(op, n) = "copy" =>
                 (op = "copy" /\ n = 1) \/ (op = "move" /\ n = 9)
           /\ StepOf(op, n) = "status" => op = "moveIn" /\ n = 3
           /\ StepOf(op, n) = "append" => op = "moveIn" /\ n = 2
           /\ StepOf(op, n) = "unlink" => op = "moveIn" /\ n = 1
           /\ StepOf(op, n) = "setflags" => op = "mark" /\ n = 1
           /\ StepOf(op, n) = "examine" => op = "removeFolder" /\ n = 2
           /\ StepOf(op, n) = "delete" => op = "removeFolder" /\ n = 1
           /\ StepOf(op, n) = "close" => op = "close" /\ n = 1
           /\ StepOf(op, n) = "store" => op \in Removal /\ n = 4
           /\ StepOf(op, n) = "expunge" => op \in Removal /\ n = 3
           /\ StepOf(op, n) = "noop" => op \in Removal /\ n = 2
           /\ StepOf(op, n) = "forget" => op \in Removal /\ n = 1
<1>1. CASE op = "view"
  BY <1>1 DEF StepOf, Plan, Fetching, Steps, Removal
<1>2. CASE op = "remove"
  BY <1>2 DEF StepOf, Plan, Removing, Steps, Removal
<1>3. CASE op = "copy"
  BY <1>3 DEF StepOf, Plan, Copying, Steps, Removal
<1>4. CASE op = "move"
  BY <1>4 DEF StepOf, Plan, Copying, Removing, Steps, Removal
<1>5. CASE op = "moveOut"
  BY <1>5 DEF StepOf, Plan, Fetching, Removing, Steps, Removal
<1>6. CASE op = "moveIn"
  BY <1>6 DEF StepOf, Plan, Adding, Steps, Removal
<1>7. CASE op = "mark"
  BY <1>7 DEF StepOf, Plan, Changing, Steps, Removal
<1>8. CASE op = "list"
  BY <1>8 DEF StepOf, Plan, Listing, Steps, Removal
<1>9. CASE op = "removeFolder"
  BY <1>9 DEF StepOf, Plan, RemovingFolder, Steps, Removal
<1>10. CASE op = "close"
  BY <1>10 DEF StepOf, Plan, Closing, Steps, Removal
<1> QED
  BY PlanLengths, <1>1, <1>2, <1>3, <1>4, <1>5, <1>6, <1>7, <1>8, <1>9, <1>10

\* And the steps that are asked for by their number.
LEMMA WhatIsLeft ==
    /\ StepOf("view", 1) = "fetch" /\ StepOf("moveOut", 10) = "fetch"
    /\ StepOf("moveOut", 9) = "copyFile" /\ StepOf("moveOut", 8) = "session"
    /\ StepOf("move", 9) = "copy"
    /\ StepOf("moveIn", 2) = "append" /\ StepOf("moveIn", 1) = "unlink"
    /\ StepOf("list", 1) = "headers"
    /\ \A op \in Ops : StepOf(op, Len(Plan[op])) = "session"
<1>1. \A op \in Ops : StepOf(op, Len(Plan[op])) = "session"
  BY PlanLengths DEF StepOf, Plan, Fetching, Removing, Copying, Adding, Changing, Listing,
     RemovingFolder, Closing
<1>2. /\ StepOf("view", 1) = "fetch"
      /\ StepOf("list", 1) = "headers" /\ StepOf("moveIn", 2) = "append"
      /\ StepOf("moveIn", 1) = "unlink"
  BY DEF StepOf, Plan, Fetching, Listing, Adding
<1>3. /\ StepOf("moveOut", 10) = "fetch" /\ StepOf("moveOut", 9) = "copyFile"
      /\ StepOf("moveOut", 8) = "session"
  BY DEF StepOf, Plan, Fetching, Removing
<1>4. StepOf("move", 9) = "copy"
  BY DEF StepOf, Plan, Copying, Removing
<1> QED
  BY <1>1, <1>2, <1>3, <1>4

-----------------------------------------------------------------------------
\* The stack of handlers.

Handlers ==
    [op : Ops, box : Boxes, uids : SUBSET Uids, dest : Boxes, msg : Msgs \cup {None},
     todo : Seq(Steps), waits : BOOLEAN]

\* What is left to do is the end of the plan.
Fits(h) ==
    /\ Left(h) \in 1..Len(Plan[h.op])
    /\ \A j \in 2..Left(h) : h.todo[j] = StepOf(h.op, Left(h) + 1 - j)
    /\ h.todo[1] = Step(h) \/ (h.todo[1] = "body" /\ Step(h) = "fetch" /\ h.waits)

\* The same handler with its next step.
NextStep(h) == [h EXCEPT !.todo = Tail(@), !.waits = FALSE]

Popped ==
    /\ stack' \in Seq(Handlers) /\ Len(stack') = Len(stack) - 1
    /\ \A i \in 1..Len(stack') : stack'[i] = stack[i]
Replaced(i, h) ==
    /\ stack' \in Seq(Handlers) /\ Len(stack') = Len(stack) /\ stack'[i] = h
    /\ \A j \in 1..Len(stack) : j # i => stack'[j] = stack[j]

LEMMA TopOf ==
    ASSUME stack \in Seq(Handlers), stack # <<>>
    PROVE  /\ Len(stack) \in Nat /\ Len(stack) >= 1 /\ DOMAIN stack = 1..Len(stack)
           /\ Top = stack[Len(stack)] /\ Top \in Handlers
BY DEF Top, Last

LEMMA FailEffect ==
    ASSUME stack \in Seq(Handlers), stack # <<>>, Fail
    PROVE  Popped
<1>1. Len(stack) \in Nat /\ Len(stack) >= 1
  BY TopOf
<1> DEFINE n == Len(stack) - 1
<1>2. /\ 1 \in Int /\ n \in Int /\ n >= 0 /\ \A i \in 1..n : stack[i] \in Handlers
      /\ stack' = SubSeq(stack, 1, n)
  BY <1>1 DEF Fail, Front
<1> HIDE DEF n
<1>3. /\ stack' \in Seq(Handlers) /\ Len(stack') = n
      /\ \A i \in 1..n : stack'[i] = stack[i]
  BY <1>2, SubSeqProperties
<1> QED
  BY <1>3 DEF Popped, n

\* The top handler is another one.
LEMMA ReplaceEffect ==
    ASSUME stack \in Seq(Handlers), stack # <<>>, NEW h \in Handlers,
           stack' = Front(stack) \o <<h>>
    PROVE  Replaced(Len(stack), h)
<1>1. Len(stack) \in Nat /\ Len(stack) >= 1
  BY TopOf
<1>2. /\ Front(stack) \in Seq(Handlers) /\ Len(Front(stack)) = Len(stack) - 1
      /\ \A i \in 1..Len(stack) - 1 : Front(stack)[i] = stack[i]
  BY <1>1, SubSeqProperties DEF Front
<1> QED
  BY <1>1, <1>2 DEF Replaced

LEMMA NextFits ==
    ASSUME NEW h \in Handlers, Fits(h), Left(h) > 1
    PROVE  /\ NextStep(h) \in Handlers /\ Left(NextStep(h)) = Left(h) - 1 /\ Fits(NextStep(h))
           /\ NextStep(h).op = h.op /\ NextStep(h).box = h.box /\ NextStep(h).uids = h.uids
           /\ NextStep(h).dest = h.dest /\ NextStep(h).msg = h.msg /\ ~NextStep(h).waits
           /\ NextStep(h).todo = Tail(h.todo)
<1> DEFINE k == NextStep(h)
<1>1. /\ k \in Handlers /\ k.op = h.op /\ k.box = h.box /\ k.uids = h.uids
      /\ k.dest = h.dest /\ k.msg = h.msg /\ k.waits = FALSE /\ k.todo = Tail(h.todo)
  <2> DEFINE t == Tail(h.todo)
  <2>1. t \in Seq(Steps)
    BY DEF Handlers, Left
  <2>2. k = [h EXCEPT !.todo = t, !.waits = FALSE]
    BY DEF NextStep
  <2> HIDE DEF t, k
  <2>3. /\ k \in Handlers /\ k.op = h.op /\ k.box = h.box /\ k.uids = h.uids
        /\ k.dest = h.dest /\ k.msg = h.msg /\ k.waits = FALSE /\ k.todo = t
    BY <2>1, <2>2 DEF Handlers
  <2> QED
    BY <2>3 DEF t
<1> HIDE DEF k
<1>2. h.todo \in Seq(Steps) /\ Left(h) = Len(h.todo) /\ Left(h) \in Nat
  BY DEF Handlers, Left
<1>3. Left(k) = Left(h) - 1 /\ \A j \in 1..Left(k) : k.todo[j] = h.todo[j + 1]
  BY <1>1, <1>2 DEF Left
<1>4. \A j \in 1..Left(k) : k.todo[j] = StepOf(k.op, Left(k) + 1 - j)
  <2>1. SUFFICES ASSUME NEW j \in 1..Left(k)
                 PROVE  k.todo[j] = StepOf(k.op, Left(k) + 1 - j)
    OBVIOUS
  <2>2. j + 1 \in 2..Left(h) /\ Left(h) + 1 - (j + 1) = Left(k) + 1 - j
    <3>1. Left(h) \in Nat /\ Left(k) = Left(h) - 1
      BY <1>2, <1>3
    <3> QED
      BY <3>1
  <2>3. h.todo[j + 1] = StepOf(h.op, Left(h) + 1 - (j + 1))
    BY <2>2 DEF Fits
  <2> QED
    BY <1>1, <1>3, <2>2, <2>3
<1>5. Left(k) \in 1..Len(Plan[k.op])
  BY <1>1, <1>2, <1>3 DEF Fits
<1>6. Fits(k)
  BY <1>4, <1>5 DEF Fits, Step
<1> QED
  BY <1>1, <1>3, <1>6 DEF k

LEMMA ContinueEffect ==
    ASSUME stack \in Seq(Handlers), stack # <<>>, Fits(Top), Continue
    PROVE  \/ Left(Top) = 1 /\ Popped
           \/ Left(Top) > 1 /\ Replaced(Len(stack), NextStep(Top))
<1>1. Left(Top) \in Nat /\ Left(Top) >= 1
  BY TopOf DEF Fits, Handlers, Left
<1>2. CASE Left(Top) = 1
  <2>1. stack' = Front(stack)
    BY <1>2 DEF Continue, Left, Front
  <2> QED
    BY <1>2, <2>1, FailEffect DEF Fail
<1>3. CASE Left(Top) > 1
  <2>1. stack' = Front(stack) \o <<NextStep(Top)>>
    <3>1. Left(Top) # 1
      BY <1>1, <1>3
    <3> QED
      BY <3>1, Zenon DEF Continue, NextStep, Left
  <2>2. NextStep(Top) \in Handlers
    BY <1>3, NextFits, TopOf
  <2> QED
    BY <1>3, <2>1, <2>2, ReplaceEffect
<1> QED
  BY <1>1, <1>2, <1>3

\* The step at hand.
LEMMA AtEffect ==
    ASSUME stack \in Seq(Handlers), stack # <<>>, Fits(Top)
    PROVE  /\ Top.op \in Ops /\ Left(Top) \in 1..Len(Plan[Top.op]) /\ Top.todo # <<>>
           /\ Todo = Top.todo[1] /\ Todo \in Steps
           /\ Todo # "body" => Todo = Step(Top)
           /\ Todo = "body" => Step(Top) = "fetch" /\ Top.waits
<1>1. Top \in Handlers
  BY TopOf
<1>2. Top.op \in Ops /\ Left(Top) \in 1..Len(Plan[Top.op])
  BY <1>1 DEF Handlers, Fits
<1>3. Top.todo \in Seq(Steps) /\ Left(Top) = Len(Top.todo) /\ Len(Top.todo) >= 1
  BY <1>1, <1>2 DEF Handlers, Left
<1>4. Todo = Top.todo[1] /\ Top.todo # <<>>
  BY <1>3 DEF Todo
<1>5. Step(Top) \in Steps \ {"body"}
  BY <1>2, WhoDoes DEF Step
<1> QED
  BY <1>2, <1>4, <1>5 DEF Fits, Steps


-----------------------------------------------------------------------------
\* The server.

LEMMA SeqOfSet ==
    ASSUME NEW S, IsFiniteSet(S)
    PROVE  /\ SetToSeq(S) \in Seq(S) /\ Len(SetToSeq(S)) \in Nat
           /\ \A x \in S : \E i \in 1..Len(SetToSeq(S)) : SetToSeq(S)[i] = x
<1> DEFINE n == Cardinality(S)
           q == SetToSeq(S)
<1>1. n \in Nat /\ ExistsBijection(1..n, S)
  BY FS_CardinalityType
<1>2. \E f \in [1..n -> S] : IsInjective(f)
  BY <1>1 DEF ExistsBijection, Bijection, Injection
<1>3. q \in [1..n -> S] /\ IsInjective(q)
  BY <1>2 DEF SetToSeq
<1>4. IsFiniteSet(1..n) /\ Cardinality(1..n) = n
  BY <1>1, FS_Interval
<1>5. q \in Surjection(1..n, S)
  BY <1>3, <1>4, FS_Injection DEF Injection
<1>6. \A x \in S : \E i \in 1..n : q[i] = x
  BY <1>5 DEF Surjection
<1> QED
  BY <1>1, <1>3, <1>6

Servers ==
    [boxes : SUBSET Boxes, mail : [Boxes -> Seq(Msgs)], present : [Boxes -> SUBSET Nat],
     deleted : [Boxes -> SUBSET Nat]]
Sound(srv) ==
    /\ srv \in Servers
    /\ \A b \in Boxes : /\ srv.present[b] \subseteq DOMAIN srv.mail[b]
                        /\ srv.deleted[b] \subseteq srv.present[b]

\* Unique ids are never given out twice.
Grown(s, t) ==
    \A b \in Boxes : /\ DOMAIN s.mail[b] \subseteq DOMAIN t.mail[b]
                     /\ \A u \in DOMAIN s.mail[b] : t.mail[b][u] = s.mail[b][u]

LEMMA AddEffect ==
    ASSUME NEW srv, Sound(srv), NEW b \in Boxes, NEW ms \in Seq(Msgs),
           NEW t, t = Add(srv, b, ms), NEW n, n = Len(srv.mail[b])
    PROVE  /\ Sound(t) /\ Grown(srv, t) /\ t.boxes = srv.boxes /\ t.deleted = srv.deleted
           /\ n \in Nat /\ Len(ms) \in Nat
           /\ \A c \in Boxes : srv.present[c] \subseteq t.present[c]
           /\ \A c \in Boxes : c # b => t.present[c] = srv.present[c] /\ t.mail[c] = srv.mail[c]
           /\ \A i \in 1..Len(ms) : \E u \in t.present[b] :
                 u \notin DOMAIN srv.mail[b] /\ t.mail[b][u] = ms[i]
           /\ \A u \in t.present[b] : u \in srv.present[b] \/ u \notin DOMAIN srv.mail[b]
<1>0. PICK new : new = (n + 1)..(n + Len(ms))
  OBVIOUS
<1>1. /\ srv \in Servers /\ srv.mail[b] \in Seq(Msgs) /\ n \in Nat /\ Len(ms) \in Nat
      /\ DOMAIN srv.mail[b] = 1..n
  BY <1>0 DEF Sound, Servers
<1>2. /\ t.boxes = srv.boxes /\ t.deleted = srv.deleted
      /\ t.mail = [srv.mail EXCEPT ![b] = srv.mail[b] \o ms]
      /\ t.present = [srv.present EXCEPT ![b] = srv.present[b] \cup new]
  BY <1>0, <1>1 DEF Add, Servers
<1>3. /\ srv.mail[b] \o ms \in Seq(Msgs) /\ DOMAIN (srv.mail[b] \o ms) = 1..(n + Len(ms))
      /\ \A u \in 1..n : (srv.mail[b] \o ms)[u] = srv.mail[b][u]
      /\ \A i \in 1..Len(ms) : (srv.mail[b] \o ms)[n + i] = ms[i]
  BY <1>0, <1>1
<1>4. /\ new \subseteq 1..(n + Len(ms)) /\ new \in SUBSET Nat
      /\ \A i \in 1..Len(ms) : n + i \in new /\ n + i \notin 1..n
      /\ \A u \in new : \E i \in 1..Len(ms) : u = n + i
  <2>1. \A u \in new : u - n \in 1..Len(ms) /\ u = n + (u - n)
    BY <1>0, <1>1
  <2>2. \A i \in 1..Len(ms) : n + i \in new /\ n + i \notin 1..n
    BY <1>0, <1>1
  <2>3. new \subseteq 1..(n + Len(ms)) /\ new \in SUBSET Nat
    BY <1>0, <1>1
  <2> QED
    BY <2>1, <2>2, <2>3
<1>5. t \in Servers
  <2>1. srv.present[b] \cup new \in SUBSET Nat
    BY <1>1, <1>4 DEF Servers
  <2> QED
    BY <1>0, <1>1, <1>3, <2>1 DEF Servers, Add
<1>6. /\ t.mail[b] = srv.mail[b] \o ms /\ t.present[b] = srv.present[b] \cup new
      /\ \A c \in Boxes : c # b => t.mail[c] = srv.mail[c] /\ t.present[c] = srv.present[c]
  BY <1>1, <1>2 DEF Servers
<1>7. 1..n \subseteq 1..(n + Len(ms))
  BY <1>1
<1>8. Sound(t)
  <2>1. SUFFICES ASSUME NEW c \in Boxes
                 PROVE  /\ t.present[c] \subseteq DOMAIN t.mail[c]
                        /\ t.deleted[c] \subseteq t.present[c]
    BY <1>5 DEF Sound
  <2>2. CASE c = b
    <3>1. srv.present[b] \subseteq 1..n /\ srv.deleted[b] \subseteq srv.present[b]
      BY <1>1 DEF Sound
    <3> QED
      BY <1>2, <1>3, <1>4, <1>6, <1>7, <2>2, <3>1
  <2>3. CASE c # b
    BY <1>2, <1>6, <2>3 DEF Sound
  <2> QED
    BY <2>2, <2>3
<1>9. Grown(srv, t)
  BY <1>1, <1>3, <1>6, <1>7 DEF Grown
<1>10. t.boxes = srv.boxes /\ t.deleted = srv.deleted
  BY <1>2
<1>11. \A c \in Boxes : srv.present[c] \subseteq t.present[c]
  BY <1>6
<1>12. \A i \in 1..Len(ms) :
          /\ n + i \in t.present[b] /\ n + i \notin DOMAIN srv.mail[b]
          /\ t.mail[b][n + i] = ms[i]
  BY <1>1, <1>3, <1>4, <1>6
<1>13. \A i \in 1..Len(ms) : \E u \in t.present[b] :
           u \notin DOMAIN srv.mail[b] /\ t.mail[b][u] = ms[i]
  BY <1>12
<1>14. \A u \in t.present[b] : u \in srv.present[b] \/ u \notin DOMAIN srv.mail[b]
  <2>1. \A u \in new : \E i \in 1..Len(ms) : u = n + i
    BY <1>4
  <2>2. \A i \in 1..Len(ms) : n + i \notin DOMAIN srv.mail[b]
    BY <1>12
  <2>3. \A u \in new : u \notin DOMAIN srv.mail[b]
    BY <2>1, <2>2, Zenon
  <2> QED
    BY <1>6, <2>3
<1> QED
  BY <1>1, <1>6, <1>8, <1>9, <1>10, <1>11, <1>13, <1>14

LEMMA ExpungeEffect ==
    ASSUME NEW srv, Sound(srv), NEW b \in Boxes
    PROVE  /\ Sound(Expunge(srv, b)) /\ Expunge(srv, b).boxes = srv.boxes
           /\ Expunge(srv, b).mail = srv.mail
           /\ Expunge(srv, b).present[b] = srv.present[b] \ srv.deleted[b]
           /\ Expunge(srv, b).deleted[b] = {}
           /\ \A c \in Boxes : c # b => /\ Expunge(srv, b).present[c] = srv.present[c]
                                        /\ Expunge(srv, b).deleted[c] = srv.deleted[c]
<1> DEFINE t == Expunge(srv, b)
<1>1. srv \in Servers
  BY DEF Sound
<1>2. /\ t \in Servers /\ t.boxes = srv.boxes /\ t.mail = srv.mail
      /\ t.present = [srv.present EXCEPT ![b] = srv.present[b] \ srv.deleted[b]]
      /\ t.deleted = [srv.deleted EXCEPT ![b] = {}]
  BY <1>1 DEF Expunge, Servers
<1> HIDE DEF t
<1>3. /\ t.present[b] = srv.present[b] \ srv.deleted[b] /\ t.deleted[b] = {}
      /\ \A c \in Boxes : c # b => /\ t.present[c] = srv.present[c]
                                   /\ t.deleted[c] = srv.deleted[c]
  BY <1>1, <1>2 DEF Servers
<1>4. Sound(t)
  BY <1>2, <1>3 DEF Sound
<1> QED
  BY <1>2, <1>3, <1>4 DEF t

\* Messages are marked.
Marked(srv, b, S) == [srv EXCEPT !.deleted[b] = @ \cup S]
LEMMA MarkEffect ==
    ASSUME NEW srv, Sound(srv), NEW b \in Boxes, NEW S, S \subseteq srv.present[b]
    PROVE  /\ Sound(Marked(srv, b, S)) /\ Marked(srv, b, S).boxes = srv.boxes
           /\ Marked(srv, b, S).mail = srv.mail /\ Marked(srv, b, S).present = srv.present
           /\ Marked(srv, b, S).deleted[b] = srv.deleted[b] \cup S
           /\ \A c \in Boxes : c # b => Marked(srv, b, S).deleted[c] = srv.deleted[c]
<1> DEFINE t == Marked(srv, b, S)
<1>1. srv \in Servers
  BY DEF Sound
<1>2. srv.deleted[b] \cup S \in SUBSET Nat
  BY <1>1 DEF Servers
<1>3. /\ t \in Servers /\ t.boxes = srv.boxes /\ t.mail = srv.mail /\ t.present = srv.present
      /\ t.deleted = [srv.deleted EXCEPT ![b] = srv.deleted[b] \cup S]
  BY <1>1, <1>2 DEF Marked, Servers
<1> HIDE DEF t
<1>4. /\ t.deleted[b] = srv.deleted[b] \cup S
      /\ \A c \in Boxes : c # b => t.deleted[c] = srv.deleted[c]
  BY <1>1, <1>3 DEF Servers
<1>5. Sound(t)
  BY <1>3, <1>4 DEF Sound
<1> QED
  BY <1>3, <1>4, <1>5 DEF t

\* A mailbox is removed.
Removed(srv, b) ==
    [srv EXCEPT !.boxes = @ \ {b}, !.present[b] = {}, !.deleted[b] = {}]
LEMMA RemoveEffect ==
    ASSUME NEW srv, Sound(srv), NEW b \in Boxes
    PROVE  /\ Sound(Removed(srv, b)) /\ Removed(srv, b).mail = srv.mail
           /\ Removed(srv, b).present[b] = {} /\ Removed(srv, b).deleted[b] = {}
           /\ \A c \in Boxes : c # b => /\ Removed(srv, b).present[c] = srv.present[c]
                                        /\ Removed(srv, b).deleted[c] = srv.deleted[c]
<1> DEFINE t == Removed(srv, b)
<1>1. srv \in Servers
  BY DEF Sound
<1>2. /\ t \in Servers /\ t.mail = srv.mail
      /\ t.present = [srv.present EXCEPT ![b] = {}]
      /\ t.deleted = [srv.deleted EXCEPT ![b] = {}]
  BY <1>1 DEF Removed, Servers
<1> HIDE DEF t
<1>3. /\ t.present[b] = {} /\ t.deleted[b] = {}
      /\ \A c \in Boxes : c # b => /\ t.present[c] = srv.present[c]
                                   /\ t.deleted[c] = srv.deleted[c]
  BY <1>1, <1>2 DEF Servers
<1>4. Sound(t)
  BY <1>2, <1>3 DEF Sound
<1> QED
  BY <1>2, <1>3, <1>4 DEF t

LEMMA GrownTwice ==
    ASSUME NEW s, NEW t, NEW r, Grown(s, t), Grown(t, r)
    PROVE  Grown(s, r)
BY DEF Grown

\* ms are the messages that COPY is about.
Copies(srv, box, uids, ms) ==
    /\ \A i \in 1..Len(ms) : \E u \in uids \cap srv.present[box] : ms[i] = srv.mail[box][u]
    /\ \A u \in uids \cap srv.present[box] : \E i \in 1..Len(ms) : ms[i] = srv.mail[box][u]

\* What a command does to the server.
LEMMA ServerDone ==
    ASSUME Sound(server), NEW c, NEW f \in Handlers, NEW cmd, c.box \in Boxes \cup {None},
           cmd = "append" => f.msg \in Msgs,
           Possible(server, c, cmd, f), NEW t, t = Done(server, c, cmd, f)
    PROVE  \/ /\ cmd = "store" /\ c.box \in Boxes
              /\ t = Marked(server, c.box, f.uids \cap server.present[c.box])
           \/ /\ cmd = "expunge" \/ (cmd = "close" /\ ~c.ro)
              /\ c.box \in Boxes /\ t = Expunge(server, c.box)
           \/ /\ cmd = "copy" /\ c.box \in Boxes /\ f.dest \in Boxes
              /\ \E ms \in Seq(Msgs) :
                    t = Add(server, f.dest, ms) /\ Copies(server, c.box, f.uids, ms)
           \/ cmd = "append" /\ f.dest \in Boxes /\ t = Add(server, f.dest, <<f.msg>>)
           \/ cmd = "delete" /\ f.box \in Boxes /\ t = Removed(server, f.box)
           \/ /\ cmd \notin {"store", "expunge", "copy", "append", "delete"}
              /\ ~(cmd = "close" /\ ~c.ro) /\ t = server
<1>1. server.boxes \subseteq Boxes /\ None \notin Boxes
  BY BoxesAssumption DEF Sound, Servers
<1>2. cmd \in {"store", "expunge", "copy", "close"} => c.box \in Boxes
  BY <1>1 DEF Possible
<1>3. f.box \in Boxes /\ f.dest \in Boxes
  BY DEF Handlers
<1>4. CASE cmd = "store"
  BY <1>2, <1>4 DEF Done, Marked
<1>5. CASE cmd = "expunge" \/ (cmd = "close" /\ ~c.ro)
  <2>1. t = Expunge(server, c.box)
    BY <1>5 DEF Done
  <2> QED
    BY <1>2, <1>5, <2>1
<1>6. CASE cmd = "copy"
  <2> DEFINE S == f.uids \cap server.present[c.box]
             q == SetToSeq(S)
             ms == [i \in DOMAIN q |-> server.mail[c.box][q[i]]]
  <2>1. t = Add(server, f.dest, ms)
    BY <1>6 DEF Done
  <2>2. IsFiniteSet(S)
    <3>1. IsFiniteSet(Uids)
      BY BoundsAssumption, FS_Interval DEF Uids
    <3> QED
      BY <3>1, FS_Subset DEF Handlers
  <2>3. /\ q \in Seq(S) /\ Len(q) \in Nat
        /\ \A x \in S : \E i \in 1..Len(q) : q[i] = x
    BY <2>2, SeqOfSet
  <2>4. \A u \in S : server.mail[c.box][u] \in Msgs
    <3>1. server.mail[c.box] \in Seq(Msgs) /\ S \subseteq DOMAIN server.mail[c.box]
      BY <1>2, <1>6 DEF Sound, Servers
    <3> QED
      BY <3>1
  <2> HIDE DEF S, q
  <2>5. DOMAIN q = 1..Len(q) /\ \A i \in 1..Len(q) : q[i] \in S
    BY <2>3
  <2>6. /\ ms \in Seq(Msgs) /\ Len(ms) = Len(q)
        /\ \A i \in 1..Len(ms) : ms[i] = server.mail[c.box][q[i]]
    BY <2>3, <2>4, <2>5
  <2> HIDE DEF ms
  <2>7. /\ \A i \in 1..Len(ms) : \E u \in S : ms[i] = server.mail[c.box][u]
        /\ \A u \in S : \E i \in 1..Len(ms) : ms[i] = server.mail[c.box][u]
    BY <2>3, <2>5, <2>6
  <2>8. Copies(server, c.box, f.uids, ms)
    BY <2>7 DEF S, Copies
  <2> QED
    BY <1>2, <1>3, <1>6, <2>1, <2>6, <2>8
<1>7. CASE cmd = "append"
  BY <1>3, <1>7 DEF Done
<1>8. CASE cmd = "delete"
  BY <1>3, <1>8 DEF Done, Removed
<1>9. CASE /\ cmd \notin {"store", "expunge", "copy", "append", "delete"}
           /\ ~(cmd = "close" /\ ~c.ro)
  <2>1. t = server
    BY <1>9 DEF Done
  <2> QED
    BY <1>9, <2>1
<1> QED
  BY <1>4, <1>5, <1>6, <1>7, <1>8, <1>9

LEMMA ServerGrows ==
    ASSUME Sound(server), NEW c, NEW f \in Handlers, NEW cmd, c.box \in Boxes \cup {None},
           cmd = "append" => f.msg \in Msgs,
           Possible(server, c, cmd, f), NEW t, t = Done(server, c, cmd, f)
    PROVE  Sound(t) /\ Grown(server, t)
<1>1. \A s : s.mail = server.mail => Grown(server, s)
  BY DEF Grown
<1>2. CASE c.box \in Boxes /\ t = Marked(server, c.box, f.uids \cap server.present[c.box])
  <2>1. f.uids \cap server.present[c.box] \subseteq server.present[c.box]
    OBVIOUS
  <2> QED
    BY <1>1, <1>2, <2>1, MarkEffect
<1>3. CASE c.box \in Boxes /\ t = Expunge(server, c.box)
  BY <1>1, <1>3, ExpungeEffect
<1>4. ASSUME f.dest \in Boxes, NEW ms \in Seq(Msgs), t = Add(server, f.dest, ms)
      PROVE  Sound(t) /\ Grown(server, t)
  <2> DEFINE n == Len(server.mail[f.dest])
  <2>1. n = Len(server.mail[f.dest])
    OBVIOUS
  <2> HIDE DEF n
  <2> QED
    BY <1>4, <2>1, AddEffect
<1>5. CASE f.dest \in Boxes /\ cmd = "append" /\ t = Add(server, f.dest, <<f.msg>>)
  <2>1. <<f.msg>> \in Seq(Msgs)
    BY <1>5
  <2> QED
    BY <1>4, <1>5, <2>1
<1>6. CASE f.box \in Boxes /\ t = Removed(server, f.box)
  BY <1>1, <1>6, RemoveEffect
<1>7. CASE t = server
  BY <1>1, <1>7
<1>8. \/ c.box \in Boxes /\ t = Marked(server, c.box, f.uids \cap server.present[c.box])
      \/ c.box \in Boxes /\ t = Expunge(server, c.box)
      \/ f.dest \in Boxes /\ \E ms \in Seq(Msgs) : t = Add(server, f.dest, ms)
      \/ f.dest \in Boxes /\ cmd = "append" /\ t = Add(server, f.dest, <<f.msg>>)
      \/ f.box \in Boxes /\ t = Removed(server, f.box)
      \/ t = server
  BY ServerDone
<1> QED
  BY <1>2, <1>3, <1>4, <1>5, <1>6, <1>7, <1>8

-----------------------------------------------------------------------------
\* The first part of the invariant: types, and replies.

HandlerOK(h, srv) ==
    /\ h \in Handlers /\ Fits(h) /\ h.uids \subseteq DOMAIN srv.mail[h.box]
    /\ h.op \in {"view", "moveOut"} => \E u \in Uids : h.uids = {u}
    /\ h.op \in {"move", "copy"} => h.box # h.dest
    /\ h.op = "moveIn" => h.msg \in Msgs /\ h.dest = h.box
    /\ h.op = "removeFolder" => h.box # INBOX

\* At most two handlers, at most one of which waits for a reply.
StackOK ==
    /\ stack \in Seq(Handlers) /\ Len(stack) <= 2
    /\ \A i \in 1..Len(stack) : HandlerOK(stack[i], server)
    /\ \A i, j \in 1..Len(stack) : stack[i].waits /\ stack[j].waits => i = j

Replies == [ok : BOOLEAN, body : Msgs \cup {None}]
Connections ==
    [up : BOOLEAN, box : Boxes \cup {None}, ro : BOOLEAN, replies : Seq(Replies)]
Sessions == [open : BOOLEAN, mbox : Boxes \cup {None}, fresh : BOOLEAN]
Typed ==
    /\ conn \in Connections /\ (~conn.up => conn = NoConnection)
    /\ session \in Sessions /\ (session.mbox # None => session.open)
    /\ cache \in [Boxes -> [Uids -> Msgs \cup {None, Torn}]]
    /\ trouble \in 0..MaxTrouble

\* The replies that wait are that to the last command and those to commands that
\* were given up.
RepliesOK ==
    /\ Running => session.open /\ (conn.up => conn.replies # <<>>)
    /\ Len(conn.replies) <= trouble + 1 /\ (~Running => Len(conn.replies) <= trouble)

Inv1 == Sound(server) /\ StackOK /\ Typed /\ RepliesOK

LEMMA StillOK ==
    ASSUME NEW h, NEW s, NEW t, HandlerOK(h, s), Grown(s, t)
    PROVE  HandlerOK(h, t)
<1>1. h.box \in Boxes
  BY DEF HandlerOK, Handlers
<1>2. DOMAIN s.mail[h.box] \subseteq DOMAIN t.mail[h.box]
  BY <1>1 DEF Grown
<1> QED
  BY <1>2 DEF HandlerOK

LEMMA NextOK ==
    ASSUME NEW h, NEW s, HandlerOK(h, s), Left(h) > 1
    PROVE  HandlerOK(NextStep(h), s) /\ ~NextStep(h).waits
<1>1. h \in Handlers /\ Fits(h)
  BY DEF HandlerOK
<1>2. /\ NextStep(h) \in Handlers /\ Fits(NextStep(h))
      /\ NextStep(h).op = h.op /\ NextStep(h).box = h.box /\ NextStep(h).uids = h.uids
      /\ NextStep(h).dest = h.dest /\ NextStep(h).msg = h.msg /\ ~NextStep(h).waits
  BY <1>1, NextFits
<1> QED
  BY <1>2 DEF HandlerOK

\* The handler at the top ends, or does its next step.
TopGoesOn(h) == HandlerOK(h, server') /\ ~h.waits /\ Replaced(Len(stack), h)

LEMMA Below ==
    ASSUME NEW m \in Nat, NEW n \in Nat, m = n - 1
    PROVE  /\ \A i \in 1..m : i \in 1..n /\ i # n
           /\ \A i \in 1..n : i # n => i \in 1..m
OBVIOUS

LEMMA StackMoves ==
    ASSUME StackOK, stack # <<>>, Grown(server, server'), Popped \/ (\E h : TopGoesOn(h))
    PROVE  /\ StackOK' /\ (Top.waits => ~Running')
           /\ (~Top.waits => (Running' <=> Running))
<1>1. /\ \A i \in 1..Len(stack) : HandlerOK(stack[i], server')
      /\ \A i, j \in 1..Len(stack) : stack[i].waits /\ stack[j].waits => i = j
  BY StillOK DEF StackOK
<1>2. /\ stack \in Seq(Handlers) /\ Len(stack) \in Nat /\ Len(stack) \in 1..2
      /\ DOMAIN stack = 1..Len(stack) /\ Top = stack[Len(stack)]
  BY TopOf DEF StackOK
<1>3. CASE Popped
  <2>1. /\ stack' \in Seq(Handlers) /\ Len(stack') \in Nat /\ Len(stack') = Len(stack) - 1
        /\ DOMAIN stack' = 1..Len(stack')
    BY <1>2, <1>3 DEF Popped
  <2>2. \A i \in 1..Len(stack') : i \in 1..Len(stack) /\ i # Len(stack)
    BY <1>2, <2>1, Below
  <2>3. \A i \in 1..Len(stack) : i # Len(stack) => i \in 1..Len(stack')
    BY <1>2, <2>1, Below
  <2>4. \A i \in 1..Len(stack') : stack'[i] = stack[i]
    BY <1>3 DEF Popped
  <2>5. /\ Len(stack') <= 2
        /\ \A i \in 1..Len(stack') : HandlerOK(stack'[i], server')
        /\ \A i, j \in 1..Len(stack') : stack'[i].waits /\ stack'[j].waits => i = j
    <3>1. Len(stack') <= 2
      BY <1>2, <2>1
    <3>2. \A i \in 1..Len(stack') : HandlerOK(stack'[i], server')
      BY <1>1, <2>2, <2>4
    <3>3. \A i, j \in 1..Len(stack') : stack'[i].waits /\ stack'[j].waits => i = j
      BY <1>1, <2>2, <2>4
    <3> QED
      BY <3>1, <3>2, <3>3
  <2>6. StackOK'
    BY <2>1, <2>5 DEF StackOK
  <2>7. Len(stack) \in 1..Len(stack)
    BY <1>2
  <2>8. Top.waits => ~Running'
    BY <1>1, <1>2, <2>1, <2>2, <2>4, <2>7 DEF Running
  <2>9. ~Top.waits => (Running' <=> Running)
    BY <1>2, <2>1, <2>2, <2>3, <2>4 DEF Running
  <2> QED
    BY <2>6, <2>8, <2>9
<1>4. ASSUME NEW h, TopGoesOn(h)
      PROVE  /\ StackOK' /\ (Top.waits => ~Running')
             /\ (~Top.waits => (Running' <=> Running))
  <2>1. /\ stack' \in Seq(Handlers) /\ Len(stack') \in Nat /\ Len(stack') = Len(stack)
        /\ DOMAIN stack' = 1..Len(stack')
        /\ stack'[Len(stack)] = h /\ ~h.waits /\ HandlerOK(h, server')
    BY <1>4 DEF TopGoesOn, Replaced
  <2>2. \A i \in 1..Len(stack) : i # Len(stack) => stack'[i] = stack[i]
    BY <1>4 DEF TopGoesOn, Replaced
  <2>3. /\ Len(stack') <= 2
        /\ \A i \in 1..Len(stack') : HandlerOK(stack'[i], server')
        /\ \A i, j \in 1..Len(stack') : stack'[i].waits /\ stack'[j].waits => i = j
    <3>1. \A i \in 1..Len(stack') : HandlerOK(stack'[i], server')
      BY <1>1, <2>1, <2>2
    <3>2. \A i, j \in 1..Len(stack') : stack'[i].waits /\ stack'[j].waits => i = j
      BY <1>1, <2>1, <2>2
    <3> QED
      BY <1>2, <2>1, <3>1, <3>2
  <2>4. StackOK'
    BY <2>1, <2>3 DEF StackOK
  <2>5. Len(stack) \in 1..Len(stack)
    BY <1>2
  <2>6. Top.waits => ~Running'
    BY <1>1, <1>2, <2>1, <2>2, <2>5 DEF Running
  <2>7. ~Top.waits => (Running' <=> Running)
    BY <1>2, <2>1, <2>2, <2>5 DEF Running
  <2> QED
    BY <2>4, <2>6, <2>7
<1> QED
  BY <1>3, <1>4

LEMMA TopOK ==
    ASSUME Inv1, stack # <<>>
    PROVE  /\ Len(stack) \in 1..2 /\ DOMAIN stack = 1..Len(stack)
           /\ Top = stack[Len(stack)] /\ Top \in Handlers /\ HandlerOK(Top, server)
           /\ Top.op \in Ops /\ Top.box \in Boxes /\ Top.dest \in Boxes /\ Top.waits \in BOOLEAN
           /\ Top.uids \subseteq Uids
           /\ Left(Top) \in 1..Len(Plan[Top.op]) /\ Left(Top) \in Nat /\ Top.todo # <<>>
           /\ Todo = Top.todo[1] /\ Todo \in Steps
           /\ Todo # "body" => Todo = Step(Top)
           /\ Todo = "body" => Step(Top) = "fetch" /\ Top.waits
           /\ (Top.waits => Running /\ session.open /\ (conn.up => conn.replies # <<>>))
<1>1. stack \in Seq(Handlers) /\ Len(stack) <= 2
  BY DEF Inv1, StackOK
<1>2. /\ Len(stack) \in 1..2 /\ DOMAIN stack = 1..Len(stack)
      /\ Top = stack[Len(stack)] /\ Top \in Handlers
  BY <1>1, TopOf
<1>3. HandlerOK(Top, server)
  BY <1>2 DEF Inv1, StackOK
<1>4. Fits(Top)
  BY <1>3 DEF HandlerOK
<1>5. /\ Top.op \in Ops /\ Left(Top) \in 1..Len(Plan[Top.op]) /\ Top.todo # <<>>
      /\ Todo = Top.todo[1] /\ Todo \in Steps
      /\ Todo # "body" => Todo = Step(Top)
      /\ Todo = "body" => Step(Top) = "fetch" /\ Top.waits
  BY <1>1, <1>4, AtEffect
<1>6. /\ Top.box \in Boxes /\ Top.dest \in Boxes /\ Top.waits \in BOOLEAN
      /\ Top.uids \subseteq Uids /\ Left(Top) \in Nat
  BY <1>2 DEF Handlers, Left
<1>7. Top.waits => Running
  BY <1>2 DEF Running
<1> QED
  BY <1>2, <1>3, <1>5, <1>6, <1>7 DEF Inv1, RepliesOK

LEMMA ContinueMoves ==
    ASSUME Inv1, stack # <<>>, Continue, Grown(server, server')
    PROVE  Popped \/ (Left(Top) > 1 /\ TopGoesOn(NextStep(Top)))
<1>1. stack \in Seq(Handlers) /\ Fits(Top) /\ HandlerOK(Top, server)
  BY TopOK DEF Inv1, StackOK, HandlerOK
<1>2. CASE Left(Top) > 1 /\ Replaced(Len(stack), NextStep(Top))
  BY <1>1, <1>2, NextOK, StillOK DEF TopGoesOn
<1> QED
  BY <1>1, <1>2, ContinueEffect

LEMMA FailMoves ==
    ASSUME Inv1, stack # <<>>, Fail
    PROVE  Popped
BY FailEffect DEF Inv1, StackOK

LEMMA ReadEffect ==
    ASSUME Inv1, stack # <<>>, Top.waits, conn.up, Read
    PROVE  /\ conn' \in Connections /\ conn'.up /\ conn'.box = conn.box /\ conn'.ro = conn.ro
           /\ conn'.replies = Tail(conn.replies)
           /\ Len(conn.replies) \in Nat /\ Len(conn.replies) >= 1
           /\ Len(conn'.replies) \in Nat /\ Len(conn'.replies) = Len(conn.replies) - 1
           /\ Len(conn'.replies) <= trouble
           /\ Head(conn.replies) = conn.replies[1] /\ conn.replies[1] \in Replies
<1>1. conn.replies \in Seq(Replies) /\ conn.replies # <<>> /\ Running
  BY TopOK DEF Inv1, Typed, Connections
<1>2. PICK t : t = Tail(conn.replies)
  OBVIOUS
<1>3. /\ t \in Seq(Replies) /\ Len(t) \in Nat /\ Len(t) = Len(conn.replies) - 1
      /\ Len(conn.replies) \in Nat /\ Len(conn.replies) >= 1
      /\ Head(conn.replies) = conn.replies[1] /\ conn.replies[1] \in Replies
  BY <1>1, <1>2
<1>4. /\ conn' \in Connections /\ conn'.up = conn.up /\ conn'.box = conn.box
      /\ conn'.ro = conn.ro /\ conn'.replies = t
  BY <1>2, <1>3 DEF Read, Inv1, Typed, Connections
<1>5. Len(conn.replies) <= trouble + 1 /\ trouble \in Nat
  BY <1>1, BoundsAssumption DEF Inv1, RepliesOK, Typed
<1> QED
  BY <1>2, <1>3, <1>4, <1>5

LEMMA UsedEffect ==
    ASSUME Inv1, session.open, NEW mbox \in Boxes \cup {None}, Used(mbox)
    PROVE  /\ session' \in Sessions /\ session'.open /\ session'.fresh /\ session'.mbox = mbox
BY DEF Inv1, Typed, Sessions, Used

\* The files of f's messages are x.
LEMMA FileEffect ==
    ASSUME Inv1, NEW f \in Handlers, NEW x \in Msgs \cup {None, Torn}, SetFile(f, x)
    PROVE  /\ cache' \in [Boxes -> [Uids -> Msgs \cup {None, Torn}]]
           /\ \A u \in f.uids : cache'[f.box][u] = x
           /\ \A b \in Boxes, u \in Uids :
                 ~(b = f.box /\ u \in f.uids) => cache'[b][u] = cache[b][u]
<1>1. PICK g : g = [u \in Uids |-> IF u \in f.uids THEN x ELSE cache[f.box][u]]
  OBVIOUS
<1>2. /\ cache \in [Boxes -> [Uids -> Msgs \cup {None, Torn}]]
      /\ f.box \in Boxes /\ f.uids \subseteq Uids
  BY DEF Inv1, Typed, Handlers
<1>3. \A u \in Uids : cache[f.box][u] \in Msgs \cup {None, Torn}
  BY <1>2
<1>4. g \in [Uids -> Msgs \cup {None, Torn}]
  BY <1>1, <1>3
<1>5. cache' = [cache EXCEPT ![f.box] = g]
  BY <1>1, Zenon DEF SetFile
<1>6. cache'[f.box] = g /\ \A b \in Boxes : b # f.box => cache'[b] = cache[b]
  BY <1>2, <1>5
<1>7. /\ \A u \in f.uids : g[u] = x
      /\ \A u \in Uids : u \notin f.uids => g[u] = cache[f.box][u]
  BY <1>1, <1>2
<1> QED
  BY <1>2, <1>4, <1>5, <1>6, <1>7

LEMMA KeepingEffect ==
    ASSUME Inv1, NEW c \in Boxes, NEW S, Keeping(c, S)
    PROVE  /\ cache' \in [Boxes -> [Uids -> Msgs \cup {None, Torn}]]
           /\ \A b \in Boxes, u \in Uids : cache'[b][u] \in {None, cache[b][u]}
<1>1. PICK g : g = [u \in Uids |-> IF u \in S THEN cache[c][u] ELSE None]
  OBVIOUS
<1>2. cache \in [Boxes -> [Uids -> Msgs \cup {None, Torn}]]
  BY DEF Inv1, Typed
<1>3. \A u \in Uids : cache[c][u] \in Msgs \cup {None, Torn}
  BY <1>2
<1>4. g \in [Uids -> Msgs \cup {None, Torn}] /\ \A u \in Uids : g[u] \in {None, cache[c][u]}
  BY <1>1, <1>3
<1>5. cache' = [cache EXCEPT ![c] = g]
  BY <1>1, Zenon DEF Keeping
<1>6. cache'[c] = g /\ \A b \in Boxes : b # c => cache'[b] = cache[b]
  BY <1>2, <1>5
<1> QED
  BY <1>2, <1>4, <1>5, <1>6

\* A connection is made, or there is none.
LEMMA ConnectEffect ==
    ASSUME Inv1, stack # <<>>, Connect
    PROVE  /\ conn' \in Connections /\ (~conn'.up => conn' = NoConnection)
           /\ conn'.box = None /\ conn'.replies = <<>>
           /\ session' \in Sessions /\ session'.mbox = None
           /\ trouble' \in 0..MaxTrouble /\ trouble <= trouble'
           /\ Fail \/ (Continue /\ session'.open /\ session'.fresh)
<1>1. trouble \in Nat /\ trouble <= MaxTrouble /\ MaxTrouble \in Nat
  BY BoundsAssumption DEF Inv1, Typed
<1>2. /\ Connected \in Connections /\ NoConnection \in Connections
      /\ Connected.up /\ Connected.box = None /\ Connected.replies = <<>>
      /\ NoConnection.box = None /\ NoConnection.replies = <<>>
      /\ Opened \in Sessions /\ NoSession \in Sessions /\ Opened.open /\ Opened.fresh
      /\ Opened.mbox = None /\ NoSession.mbox = None
  <2>1. NoConnection \in Connections /\ NoConnection.box = None /\ NoConnection.replies = <<>>
    <3>1. <<>> \in Seq(Replies)
      OBVIOUS
    <3> QED
      BY <3>1 DEF NoConnection, Connections
  <2>2. /\ Connected \in Connections /\ Connected.up /\ Connected.box = None
        /\ Connected.replies = <<>>
    BY <2>1 DEF Connected, Connections
  <2>3. /\ Opened \in Sessions /\ NoSession \in Sessions /\ Opened.open /\ Opened.fresh
        /\ Opened.mbox = None /\ NoSession.mbox = None
    BY DEF Opened, NoSession, Sessions
  <2> QED
    BY <2>1, <2>2, <2>3
<1> QED
  BY <1>1, <1>2 DEF Connect

\* Steps of the handler at the top, which waited or did not.
LEMMA WaitedKeeps ==
    ASSUME Inv1, stack # <<>>, Top.waits, server' = server, Popped \/ (\E h : TopGoesOn(h)),
           Typed', Len(conn'.replies) <= trouble'
    PROVE  Inv1'
<1>1. Grown(server, server')
  BY DEF Grown
<1>2. StackOK' /\ ~Running'
  BY <1>1, StackMoves DEF Inv1
<1>3. conn'.replies \in Seq(Replies) /\ trouble' \in Nat
  BY BoundsAssumption DEF Typed, Connections
<1>4. RepliesOK'
  BY <1>2, <1>3 DEF RepliesOK
<1>5. Sound(server')
  BY DEF Inv1
<1> QED
  BY <1>2, <1>4, <1>5 DEF Inv1

LEMMA DidNotWaitKeeps ==
    ASSUME Inv1, stack # <<>>, ~Top.waits, server' = server, Popped \/ (\E h : TopGoesOn(h)),
           Typed',
           \/ conn' = conn /\ session' = session /\ trouble' \in {trouble, trouble + 1}
           \/ ~Running /\ Len(conn'.replies) <= trouble'
    PROVE  Inv1'
<1>1. Grown(server, server')
  BY DEF Grown
<1>2. StackOK' /\ (Running' <=> Running)
  BY <1>1, StackMoves DEF Inv1
<1>3. /\ conn'.replies \in Seq(Replies) /\ trouble' \in Nat /\ trouble \in Nat
      /\ conn.replies \in Seq(Replies)
  BY BoundsAssumption DEF Typed, Connections, Inv1
<1>4. CASE conn' = conn /\ session' = session /\ trouble' \in {trouble, trouble + 1}
  <2>1. Len(conn.replies) \in Nat
    BY <1>3
  <2> QED
    BY <1>2, <1>3, <1>4, <2>1 DEF RepliesOK, Inv1
<1>5. CASE ~Running /\ Len(conn'.replies) <= trouble'
  <2>1. ~Running'
    BY <1>2, <1>5
  <2>2. Len(conn'.replies) \in Nat
    BY <1>3
  <2> QED
    BY <1>2, <1>3, <1>5, <2>1, <2>2 DEF RepliesOK, Inv1
<1>6. Sound(server')
  BY DEF Inv1
<1> QED
  BY <1>2, <1>4, <1>5, <1>6 DEF Inv1

\* Steps that are no handler's.
LEMMA StackStays ==
    ASSUME Inv1, stack' = stack, Sound(server'), Grown(server, server'), Typed',
           \/ conn' = conn /\ session' = session /\ trouble' \in {trouble, trouble + 1}
           \/ ~conn'.up /\ session' = session
           \/ ~Running /\ Len(conn'.replies) <= trouble'
    PROVE  Inv1'
<1>1. StackOK' /\ (Running' <=> Running)
  <2>1. \A i \in 1..Len(stack) : HandlerOK(stack[i], server')
    BY StillOK DEF Inv1, StackOK
  <2> QED
    BY <2>1 DEF Inv1, StackOK, Running
<1>2. /\ conn'.replies \in Seq(Replies) /\ trouble' \in Nat /\ trouble \in Nat
      /\ conn.replies \in Seq(Replies)
  BY BoundsAssumption DEF Typed, Connections, Inv1
<1>3. CASE conn' = conn /\ session' = session /\ trouble' \in {trouble, trouble + 1}
  <2>1. Len(conn.replies) \in Nat
    BY <1>2
  <2> QED
    BY <1>1, <1>2, <1>3, <2>1 DEF RepliesOK, Inv1
<1>4. CASE ~conn'.up /\ session' = session
  <2>1. Len(conn'.replies) = 0
    BY <1>4 DEF Typed, NoConnection
  <2> QED
    BY <1>1, <1>2, <1>4, <2>1 DEF RepliesOK, Inv1
<1>5. CASE ~Running /\ Len(conn'.replies) <= trouble'
  <2>1. ~Running'
    BY <1>1, <1>5
  <2>2. Len(conn'.replies) \in Nat
    BY <1>2
  <2> QED
    BY <1>1, <1>2, <1>5, <2>1, <2>2 DEF RepliesOK, Inv1
<1> QED
  BY <1>1, <1>3, <1>4, <1>5 DEF Inv1

\* The handler at the top ends, or goes on along its plan.
Moves == Popped \/ (Left(Top) > 1 /\ TopGoesOn(NextStep(Top)))

LEMMA EndMoves ==
    ASSUME Inv1, stack # <<>>, server' = server, Continue \/ Fail
    PROVE  Moves
<1>1. Grown(server, server')
  BY DEF Grown
<1> QED
  BY <1>1, ContinueMoves, FailMoves DEF Moves

LEMMA AtTop ==
    ASSUME NEW s, At(s)
    PROVE  stack # <<>> /\ ~Top.waits /\ Todo = s
BY DEF At
LEMMA HeardTop ==
    ASSUME NEW s, Heard(s)
    PROVE  stack # <<>> /\ Top.waits /\ Todo = s /\ conn.up
BY DEF Heard

\* A step of the top handler that needs no reply, and leaves the session alone.
LEMMA PlainStep ==
    ASSUME Inv1, stack # <<>>, ~Top.waits, Continue \/ Fail,
           UNCHANGED <<server, conn, session>>, trouble' \in {trouble, trouble + 1},
           trouble' <= MaxTrouble, cache' \in [Boxes -> [Uids -> Msgs \cup {None, Torn}]]
    PROVE  Inv1' /\ Moves
<1>1. Moves
  BY EndMoves
<1>2. Typed'
  BY BoundsAssumption DEF Inv1, Typed
<1> QED
  BY <1>1, <1>2, DidNotWaitKeeps DEF Moves

\* The reply is read, and the top handler ends or goes on.
LEMMA ReadStep ==
    ASSUME Inv1, stack # <<>>, Top.waits, conn.up, Read, Continue \/ Fail,
           NEW mbox \in Boxes \cup {None}, Used(mbox),
           server' = server, trouble' \in {trouble, trouble + 1}, trouble' <= MaxTrouble,
           cache' \in [Boxes -> [Uids -> Msgs \cup {None, Torn}]]
    PROVE  Inv1' /\ Moves
<1>1. Moves
  BY EndMoves
<1>2. /\ conn' \in Connections /\ conn'.up /\ Len(conn'.replies) <= trouble'
      /\ trouble' \in Nat
  <2>1. /\ conn' \in Connections /\ conn'.up /\ Len(conn'.replies) <= trouble
        /\ Len(conn'.replies) \in Nat
    BY ReadEffect
  <2>2. trouble \in Nat
    BY DEF Inv1, Typed
  <2> QED
    BY <2>1, <2>2
<1>3. session' \in Sessions /\ session'.open
  BY TopOK, UsedEffect
<1>4. Typed'
  BY <1>2, <1>3 DEF Inv1, Typed
<1> QED
  BY <1>1, <1>2, <1>4, WaitedKeeps DEF Moves

LEMMA MboxTyped ==
    ASSUME Inv1
    PROVE  session.mbox \in Boxes \cup {None} /\ cache \in [Boxes -> [Uids -> Msgs \cup {None, Torn}]]
           /\ trouble \in Nat /\ trouble <= MaxTrouble /\ MaxTrouble \in Nat
BY BoundsAssumption DEF Inv1, Typed, Sessions

LEMMA PassUi1 == ASSUME Inv1, PassUi PROVE Inv1' /\ Moves
<1>1. stack # <<>> /\ ~Top.waits
  BY AtTop DEF PassUi
<1> QED
  BY <1>1, PlainStep, MboxTyped DEF PassUi

LEMMA SelectAgain1 == ASSUME Inv1, SelectAgain PROVE Inv1' /\ Moves
<1>1. stack # <<>> /\ ~Top.waits
  BY AtTop DEF SelectAgain
<1> QED
  BY <1>1, PlainStep, MboxTyped DEF SelectAgain

LEMMA CopyFile1 == ASSUME Inv1, CopyFile PROVE Inv1' /\ Moves
<1>1. stack # <<>> /\ ~Top.waits
  BY AtTop DEF CopyFile
<1>2. trouble' \in {trouble, trouble + 1} /\ trouble' <= MaxTrouble
  BY MboxTyped DEF CopyFile
<1> QED
  BY <1>1, <1>2, PlainStep, MboxTyped DEF CopyFile

LEMMA Forget1 == ASSUME Inv1, Forget PROVE Inv1' /\ Moves
<1>1. stack # <<>> /\ ~Top.waits /\ Top \in Handlers
  BY AtTop, TopOK DEF Forget
<1>2. cache' \in [Boxes -> [Uids -> Msgs \cup {None, Torn}]]
  BY <1>1, FileEffect DEF Forget
<1> QED
  BY <1>1, <1>2, PlainStep, MboxTyped DEF Forget

LEMMA Unlink1 == ASSUME Inv1, Unlink PROVE Inv1' /\ Moves
<1>1. stack # <<>> /\ ~Top.waits
  BY AtTop DEF Unlink
<1> QED
  BY <1>1, PlainStep, MboxTyped DEF Unlink

\* A session is there only for the handler that does not wait.
LEMMA ConnectStep ==
    ASSUME Inv1, stack # <<>>, Connect, Top.waits \/ ~Running, server' = server,
           cache' \in [Boxes -> [Uids -> Msgs \cup {None, Torn}]]
    PROVE  Inv1' /\ Moves
<1>1. /\ conn' \in Connections /\ (~conn'.up => conn' = NoConnection)
      /\ conn'.replies = <<>> /\ session' \in Sessions /\ session'.mbox = None
      /\ trouble' \in 0..MaxTrouble /\ (Continue \/ Fail)
  BY ConnectEffect
<1>2. Typed'
  BY <1>1 DEF Typed
<1>3. Len(conn'.replies) <= trouble'
  BY <1>1
<1>4. Moves
  BY <1>1, EndMoves
<1>5. CASE Top.waits
  BY <1>2, <1>3, <1>4, <1>5, WaitedKeeps DEF Moves
<1>6. CASE ~Top.waits /\ ~Running
  BY <1>2, <1>3, <1>4, <1>6, DidNotWaitKeeps DEF Moves
<1> QED
  BY <1>4, <1>5, <1>6

LEMMA GetSession1 == ASSUME Inv1, GetSession PROVE Inv1' /\ Moves
<1>1. stack # <<>> /\ ~Top.waits
  BY AtTop DEF GetSession
<1>2. CASE ~session.open /\ Connect
  <2>1. ~Running
    BY <1>2 DEF Inv1, RepliesOK
  <2> QED
    BY <1>1, <1>2, <2>1, ConnectStep, MboxTyped DEF GetSession
<1>3. CASE Continue /\ UNCHANGED <<session, conn, trouble>>
  BY <1>1, <1>3, PlainStep, MboxTyped DEF GetSession
<1>4. CASE Fail /\ UNCHANGED <<session, conn, trouble>>
  BY <1>1, <1>4, PlainStep, MboxTyped DEF GetSession
<1> QED
  BY <1>2, <1>3, <1>4 DEF GetSession

LEMMA ReceiveNoop1 == ASSUME Inv1, ReceiveNoop PROVE Inv1' /\ Moves
<1>1. stack # <<>> /\ Top.waits /\ conn.up
  BY HeardTop DEF ReceiveNoop
<1>2. CASE Accepted
  <2>1. Read /\ Used(session.mbox) /\ Continue /\ trouble' = trouble
    BY <1>2 DEF ReceiveNoop
  <2> QED
    BY <1>1, <2>1, ReadStep, MboxTyped DEF ReceiveNoop
<1>3. CASE ~Accepted
  BY <1>1, <1>3, ConnectStep, MboxTyped DEF ReceiveNoop
<1> QED
  BY <1>2, <1>3

LEMMA Receive1 ==
    ASSUME Inv1, NEW s \in Commands \cup {"trySelect"}, Receive(s)
    PROVE  Inv1' /\ Moves
<1>1. stack # <<>> /\ Top.waits /\ conn.up
  BY HeardTop DEF Receive
<1>2. PICK mbox : mbox = IF s = "trySelect" /\ Accepted THEN Top.box
                         ELSE IF s = "close" THEN None ELSE session.mbox
  OBVIOUS
<1>3. mbox \in Boxes \cup {None}
  BY <1>1, <1>2, TopOK, MboxTyped
<1>4. Used(mbox) /\ Read /\ (Continue \/ Fail)
  BY <1>2, Zenon DEF Receive
<1> QED
  BY <1>1, <1>3, <1>4, ReadStep, MboxTyped DEF Receive

LEMMA ReceiveFlags1 == ASSUME Inv1, ReceiveFlags PROVE Inv1' /\ Moves
<1>1. stack # <<>> /\ Top.waits /\ conn.up /\ Top.box \in Boxes
  BY HeardTop, TopOK DEF ReceiveFlags
<1>2. Continue \/ Fail
  BY DEF ReceiveFlags
<1>3. cache' \in [Boxes -> [Uids -> Msgs \cup {None, Torn}]]
  BY <1>1, KeepingEffect, MboxTyped DEF ReceiveFlags
<1> QED
  BY <1>1, <1>2, <1>3, ReadStep, MboxTyped DEF ReceiveFlags

LEMMA ReceiveHeaders1 == ASSUME Inv1, ReceiveHeaders PROVE Inv1' /\ Moves
<1>1. stack # <<>> /\ Top.waits /\ conn.up
  BY HeardTop DEF ReceiveHeaders
<1> QED
  BY <1>1, ReadStep, MboxTyped DEF ReceiveHeaders

LEMMA ReceiveBody1 == ASSUME Inv1, ReceiveBody PROVE Inv1' /\ Moves
<1>1. stack # <<>> /\ Top.waits /\ conn.up /\ Top \in Handlers
  BY HeardTop, TopOK DEF ReceiveBody
<1>2. PICK file \in Received :
         /\ SetFile(Top, file)
         /\ IF Accepted /\ file # None THEN Continue ELSE Fail
         /\ trouble' = IF file = Head(conn.replies).body THEN trouble ELSE trouble + 1
  BY DEF ReceiveBody
<1>3. file \in Msgs \cup {None, Torn}
  <2>1. Head(conn.replies).body \in Msgs \cup {None}
    BY <1>1, ReadEffect DEF ReceiveBody, Replies
  <2> QED
    BY <2>1 DEF Received
<1>4. cache' \in [Boxes -> [Uids -> Msgs \cup {None, Torn}]]
  BY <1>1, <1>2, <1>3, FileEffect
<1>5. trouble' \in {trouble, trouble + 1} /\ trouble' <= MaxTrouble
  <2>1. file = Head(conn.replies).body \/ trouble # MaxTrouble
    BY DEF Received
  <2> QED
    BY <1>2, <2>1, MboxTyped
<1> QED
  BY <1>1, <1>2, <1>4, <1>5, ReadStep, MboxTyped DEF ReceiveBody

LEMMA ReceiveNoBody1 == ASSUME Inv1, ReceiveNoBody PROVE Inv1' /\ Moves
<1>1. stack # <<>> /\ Top.waits /\ conn.up
  BY HeardTop DEF ReceiveNoBody
<1> QED
  BY <1>1, ReadStep, MboxTyped DEF ReceiveNoBody

-----------------------------------------------------------------------------
\* The other steps.

Waiting(h) == [h EXCEPT !.waits = TRUE]
WithBody(h) == [h EXCEPT !.todo = <<"body">> \o Tail(@)]
OnlyHeaders(h) == [h EXCEPT !.todo = <<"headers">>, !.waits = FALSE]

LEMMA WaitingOK ==
    ASSUME NEW h, NEW s, HandlerOK(h, s)
    PROVE  /\ HandlerOK(Waiting(h), s) /\ Waiting(h).waits /\ Left(Waiting(h)) = Left(h)
           /\ Waiting(h).op = h.op /\ Waiting(h).box = h.box /\ Waiting(h).uids = h.uids
           /\ Waiting(h).dest = h.dest /\ Waiting(h).msg = h.msg /\ Waiting(h).todo = h.todo
<1> DEFINE k == Waiting(h)
<1>1. h \in Handlers /\ Fits(h)
  BY DEF HandlerOK
<1>2. /\ k \in Handlers /\ k.op = h.op /\ k.box = h.box /\ k.uids = h.uids
      /\ k.dest = h.dest /\ k.msg = h.msg /\ k.todo = h.todo /\ k.waits
  BY <1>1 DEF Waiting, Handlers
<1> HIDE DEF k
<1>3. Left(k) = Left(h) /\ Step(k) = Step(h)
  BY <1>2 DEF Left, Step
<1>4. Fits(k)
  BY <1>1, <1>2, <1>3 DEF Fits
<1>5. HandlerOK(k, s)
  BY <1>2, <1>4 DEF HandlerOK
<1> QED
  BY <1>2, <1>3, <1>5 DEF k

LEMMA WithBodyOK ==
    ASSUME NEW h, NEW s, HandlerOK(h, s), h.waits, Head(h.todo) = "fetch"
    PROVE  /\ HandlerOK(WithBody(h), s) /\ WithBody(h).waits /\ Left(WithBody(h)) = Left(h)
           /\ WithBody(h).op = h.op /\ WithBody(h).box = h.box /\ WithBody(h).uids = h.uids
           /\ WithBody(h).dest = h.dest /\ WithBody(h).msg = h.msg
           /\ WithBody(h).todo[1] = "body" /\ Step(h) = "fetch"
<1> DEFINE k == WithBody(h)
<1>1. h \in Handlers /\ Fits(h) /\ h.todo \in Seq(Steps) /\ Left(h) = Len(h.todo)
  BY DEF HandlerOK, Handlers, Left
<1>2. Len(h.todo) \in Nat /\ Len(h.todo) >= 1
  BY <1>1 DEF Fits
<1>3. h.todo[1] = "fetch" /\ Step(h) = "fetch"
  BY <1>1, <1>2 DEF Fits
<1>4. PICK t : t = <<"body">> \o Tail(h.todo)
  OBVIOUS
<1>5. /\ t \in Seq(Steps) /\ Len(t) = Len(h.todo) /\ t[1] = "body"
      /\ \A j \in 2..Len(h.todo) : t[j] = h.todo[j]
  <2>1. PICK r : r = Tail(h.todo)
    OBVIOUS
  <2>2. /\ r \in Seq(Steps) /\ Len(r) \in Nat /\ Len(r) = Len(h.todo) - 1
        /\ \A j \in 1..Len(r) : r[j] = h.todo[j + 1]
    <3>1. /\ Tail(h.todo) \in Seq(Steps) /\ Len(Tail(h.todo)) = Len(h.todo) - 1
          /\ \A j \in 1..(Len(h.todo) - 1) : Tail(h.todo)[j] = h.todo[j + 1]
      BY <1>1, <1>2
    <3> QED
      BY <1>2, <2>1, <3>1
  <2>3. "body" \in Steps
    BY DEF Steps
  <2>4. <<"body">> \in Seq(Steps) /\ Len(<<"body">>) = 1 /\ <<"body">>[1] = "body"
    BY <2>3
  <2>5. t = <<"body">> \o r
    BY <1>4, <2>1
  <2>6. t \in Seq(Steps) /\ Len(t) = 1 + Len(r) /\ t[1] = "body"
    BY <2>2, <2>4, <2>5
  <2>7. \A j \in 2..Len(h.todo) : t[j] = r[j - 1] /\ j - 1 \in 1..Len(r)
    BY <1>2, <2>2, <2>4, <2>5
  <2>8. \A j \in 2..Len(h.todo) : j - 1 + 1 = j
    BY <1>2
  <2> QED
    BY <1>2, <2>2, <2>6, <2>7, <2>8
<1>6. /\ k \in Handlers /\ k.op = h.op /\ k.box = h.box /\ k.uids = h.uids
      /\ k.dest = h.dest /\ k.msg = h.msg /\ k.todo = t /\ k.waits
  <2>1. k = [h EXCEPT !.todo = t]
    BY <1>4 DEF WithBody
  <2> HIDE DEF k
  <2> QED
    BY <1>1, <1>5, <2>1 DEF Handlers
<1> HIDE DEF k
<1>7. Left(k) = Left(h) /\ Step(k) = Step(h)
  BY <1>5, <1>6 DEF Left, Step
<1>8. \A j \in 2..Left(k) : k.todo[j] = StepOf(k.op, Left(k) + 1 - j)
  BY <1>1, <1>5, <1>6, <1>7 DEF Fits
<1>9. Fits(k)
  BY <1>1, <1>3, <1>5, <1>6, <1>7, <1>8 DEF Fits
<1>10. HandlerOK(k, s)
  BY <1>6, <1>9 DEF HandlerOK
<1> QED
  BY <1>3, <1>5, <1>6, <1>7, <1>10 DEF k

LEMMA OnlyHeadersOK ==
    ASSUME NEW h, NEW s, HandlerOK(h, s), h.op = "list"
    PROVE  /\ HandlerOK(OnlyHeaders(h), s) /\ ~OnlyHeaders(h).waits
           /\ Left(OnlyHeaders(h)) = 1 /\ OnlyHeaders(h).todo[1] = "headers"
           /\ OnlyHeaders(h).op = h.op /\ OnlyHeaders(h).box = h.box
           /\ OnlyHeaders(h).uids = h.uids
<1> DEFINE k == OnlyHeaders(h)
<1>1. h \in Handlers /\ Fits(h)
  BY DEF HandlerOK
<1>2. PICK t : t = <<"headers">>
  OBVIOUS
<1>3. t \in Seq(Steps) /\ Len(t) = 1 /\ t[1] = "headers"
  <2>1. "headers" \in Steps
    BY DEF Steps
  <2> QED
    BY <1>2, <2>1
<1>4. /\ k \in Handlers /\ k.op = h.op /\ k.box = h.box /\ k.uids = h.uids
      /\ k.dest = h.dest /\ k.msg = h.msg /\ k.todo = t /\ k.waits = FALSE
  <2>1. k = [h EXCEPT !.todo = t, !.waits = FALSE]
    BY <1>2 DEF OnlyHeaders
  <2> HIDE DEF k
  <2> QED
    BY <1>1, <1>3, <2>1 DEF Handlers
<1> HIDE DEF k
<1>5. Left(k) = 1 /\ Step(k) = "headers"
  BY <1>3, <1>4, WhatIsLeft DEF Left, Step
<1>6. Fits(k)
  <2>1. k.op = "list" /\ Len(Plan[k.op]) = 4
    BY <1>4, PlanLengths
  <2>2. Left(k) \in 1..Len(Plan[k.op]) /\ 2..Left(k) = {}
    BY <1>5, <2>1
  <2>3. k.todo[1] = Step(k)
    BY <1>3, <1>4, <1>5
  <2> QED
    BY <2>2, <2>3 DEF Fits
<1>7. HandlerOK(k, s)
  BY <1>4, <1>6 DEF HandlerOK
<1> QED
  BY <1>3, <1>4, <1>5, <1>7 DEF k

\* Handler i is another one.
LEMMA ReplacedKeeps ==
    ASSUME StackOK, NEW i \in 1..Len(stack), NEW h, HandlerOK(h, server'), Replaced(i, h),
           Grown(server, server'), h.waits => (stack[i].waits \/ ~Running)
    PROVE  StackOK'
<1>1. /\ \A j \in 1..Len(stack) : HandlerOK(stack[j], server')
      /\ \A j, k \in 1..Len(stack) : stack[j].waits /\ stack[k].waits => j = k
  BY StillOK DEF StackOK
<1>2. /\ stack \in Seq(Handlers) /\ Len(stack) \in Nat /\ Len(stack) <= 2
      /\ DOMAIN stack = 1..Len(stack)
  BY DEF StackOK
<1>3. /\ stack' \in Seq(Handlers) /\ Len(stack') = Len(stack) /\ stack'[i] = h
      /\ \A j \in 1..Len(stack) : j # i => stack'[j] = stack[j]
  BY DEF Replaced
<1>4. \A j \in 1..Len(stack') : HandlerOK(stack'[j], server')
  BY <1>1, <1>3
<1>5. ~Running => \A j \in 1..Len(stack) : ~stack[j].waits
  BY <1>2 DEF Running
<1>6. \A j, k \in 1..Len(stack') : stack'[j].waits /\ stack'[k].waits => j = k
  BY <1>1, <1>3, <1>5
<1> QED
  BY <1>2, <1>3, <1>4, <1>6 DEF StackOK

LEMMA ReceiveExists1 ==
    ASSUME Inv1, ReceiveExists
    PROVE  /\ Inv1' /\ Top.op = "list" /\ Left(Top) = 3 /\ Accepted \in BOOLEAN
           /\ Moves \/ (Accepted /\ TopGoesOn(OnlyHeaders(Top)))
           /\ ~Accepted => Popped
<1>1. stack # <<>> /\ Top.waits /\ conn.up /\ Todo = "select"
  BY HeardTop DEF ReceiveExists
<1>2. Top.op = "list" /\ Left(Top) = 3
  BY <1>1, TopOK, WhoDoes DEF Step
<1>3. PICK mbox : mbox = IF Accepted THEN Top.box ELSE None
  OBVIOUS
<1>4. mbox \in Boxes \cup {None} /\ Used(mbox) /\ Read
  BY <1>1, <1>3, TopOK DEF ReceiveExists
<1>5. cache' \in [Boxes -> [Uids -> Msgs \cup {None, Torn}]]
  BY <1>1, TopOK, KeepingEffect, MboxTyped DEF ReceiveExists
<1>6. CASE Continue \/ Fail
  <2>0. trouble \in 0..MaxTrouble /\ MaxTrouble \in Nat
    BY BoundsAssumption DEF Inv1, Typed
  <2>1. Inv1' /\ Moves
    <3>1. server' = server /\ trouble' = trouble /\ trouble <= MaxTrouble
      BY <2>0 DEF ReceiveExists
    <3> QED
      BY <1>1, <1>4, <1>5, <1>6, <3>1, ReadStep
  <2>2. ~Accepted => Popped
    BY <1>1, FailMoves DEF ReceiveExists
  <2> QED
    BY <1>2, <2>1, <2>2 DEF Accepted
<1>7. CASE Accepted /\ stack' = Front(stack) \o <<OnlyHeaders(Top)>>
  <2>1. HandlerOK(OnlyHeaders(Top), server) /\ ~OnlyHeaders(Top).waits
    BY <1>1, <1>2, TopOK, OnlyHeadersOK
  <2>2. OnlyHeaders(Top) \in Handlers
    BY <2>1 DEF HandlerOK
  <2>3. Replaced(Len(stack), OnlyHeaders(Top))
    BY <1>1, <1>7, <2>2, ReplaceEffect DEF Inv1, StackOK
  <2>4. server' = server
    BY DEF ReceiveExists
  <2>5. TopGoesOn(OnlyHeaders(Top))
    BY <2>1, <2>3, <2>4 DEF TopGoesOn
  <2>6. Typed' /\ Len(conn'.replies) <= trouble'
    BY <1>1, <1>4, <1>5, TopOK, ReadEffect, UsedEffect DEF Inv1, Typed, ReceiveExists
  <2> QED
    BY <1>1, <1>2, <1>7, <2>4, <2>5, <2>6, WaitedKeeps
<1> QED
  BY <1>6, <1>7 DEF ReceiveExists, OnlyHeaders

\* The handler at the top gives up; what waits for it is not its reply any more.
LEMMA GiveUp ==
    ASSUME Inv1, HearNothing, Todo # "session"
    PROVE  /\ stack # <<>> /\ Top.waits /\ Popped /\ conn' \in Connections
           /\ conn'.up = conn.up /\ conn'.box = conn.box /\ session' \in Sessions
           /\ session'.open = session.open /\ session'.mbox \in {None, session.mbox}
           /\ server' = server /\ local' = local /\ asked' = asked /\ doomed' = doomed
           /\ (~conn.up => conn' = conn) /\ trouble' \in 0..MaxTrouble
           /\ Len(conn'.replies) = Len(conn.replies) /\ Len(conn'.replies) <= trouble'
           /\ "late reply" \notin Hazards /\ conn.up => ~session'.fresh /\ Len(stack) = 1
           /\ session'.mbox = IF Todo = "close" THEN None ELSE session.mbox
<1>1. stack # <<>> /\ Top.waits /\ Fail
  BY DEF HearNothing
<1>2. Popped
  BY <1>1, FailMoves
<1>3. /\ conn \in Connections /\ session \in Sessions /\ (~conn.up => conn = NoConnection)
      /\ trouble \in Nat /\ trouble <= MaxTrouble /\ MaxTrouble \in Nat
  BY BoundsAssumption DEF Inv1, Typed
<1>5. /\ conn' = IF Todo = "body" /\ conn.up
                   THEN [conn EXCEPT !.replies =
                           <<[ok |-> FALSE, body |-> None]>> \o Tail(conn.replies)]
                   ELSE conn
      /\ \E fresh \in {FALSE, session.fresh} :
            /\ fresh /\ conn.up => "late reply" \in Hazards
            /\ session' = [session EXCEPT !.fresh = fresh,
                             !.mbox = IF Todo = "close" THEN None ELSE session.mbox]
      /\ trouble' = IF conn.up THEN trouble + 1 ELSE trouble
  BY Zenon DEF HearNothing
<1>4. /\ conn' \in Connections /\ conn'.up = conn.up /\ conn'.box = conn.box
      /\ Len(conn'.replies) = Len(conn.replies) /\ (~conn.up => conn' = conn)
  <2>1. CASE Todo = "body" /\ conn.up
    <3>1. PICK r : r = <<[ok |-> FALSE, body |-> None]>> \o Tail(conn.replies)
      OBVIOUS
    <3>2. /\ conn.replies \in Seq(Replies) /\ conn.replies # <<>>
          /\ [ok |-> FALSE, body |-> None] \in Replies
      BY <1>1, <1>3, <2>1, TopOK DEF Connections, Replies
    <3>3. r \in Seq(Replies) /\ Len(r) = Len(conn.replies)
      BY <3>1, <3>2
    <3>4. conn' = [conn EXCEPT !.replies = r]
      BY <1>5, <2>1, <3>1, Zenon
    <3> QED
      BY <1>3, <2>1, <3>3, <3>4 DEF Connections
  <2>2. CASE ~(Todo = "body" /\ conn.up)
    BY <1>3, <1>5, <2>2
  <2> QED
    BY <2>1, <2>2
<1>6. PICK fresh \in {FALSE, session.fresh} :
         /\ fresh /\ conn.up => "late reply" \in Hazards
         /\ session' = [session EXCEPT !.fresh = fresh,
                                       !.mbox = IF Todo = "close" THEN None ELSE session.mbox]
  BY <1>5
<1>7. /\ session' \in Sessions /\ session'.open = session.open /\ session'.fresh = fresh
      /\ session'.mbox = IF Todo = "close" THEN None ELSE session.mbox
  <2>1. PICK m : m = IF Todo = "close" THEN None ELSE session.mbox
    OBVIOUS
  <2>2. m \in Boxes \cup {None}
    BY <2>1, MboxTyped
  <2>3. session' = [session EXCEPT !.fresh = fresh, !.mbox = m]
    BY <1>6, <2>1
  <2>4. fresh \in BOOLEAN
    BY <1>3 DEF Sessions
  <2>5. /\ session' \in Sessions /\ session'.open = session.open /\ session'.fresh = fresh
        /\ session'.mbox = m
    BY <1>3, <2>2, <2>3, <2>4 DEF Sessions
  <2> QED
    BY <2>1, <2>5
<1>8. trouble' \in 0..MaxTrouble /\ Len(conn'.replies) <= trouble'
  <2>1. conn.up => trouble < MaxTrouble /\ trouble' = trouble + 1
    BY <1>5 DEF HearNothing
  <2>2. ~conn.up => trouble' = trouble /\ Len(conn.replies) = 0
    <3>1. Len(NoConnection.replies) = 0
      BY DEF NoConnection
    <3> QED
      BY <1>3, <1>5, <3>1
  <2>3. Len(conn.replies) \in Nat /\ Len(conn.replies) <= trouble + 1
    BY <1>3 DEF Inv1, RepliesOK, Connections
  <2> QED
    BY <1>3, <1>4, <2>1, <2>2, <2>3
<1>9. "late reply" \notin Hazards /\ conn.up => ~session'.fresh /\ Len(stack) = 1
  BY <1>6, <1>7 DEF HearNothing
<1>10. server' = server /\ local' = local /\ asked' = asked /\ doomed' = doomed
  BY DEF HearNothing
<1> QED
  BY <1>1, <1>2, <1>4, <1>7, <1>8, <1>9, <1>10

LEMMA HearNothing1 == ASSUME Inv1, HearNothing PROVE Inv1' /\ Moves
<1>1. stack # <<>> /\ Top.waits /\ Top \in Handlers /\ server' = server
  BY TopOK DEF HearNothing
<1>2. cache' \in [Boxes -> [Uids -> Msgs \cup {None, Torn}]]
  <2>1. CASE Todo = "body"
    <3>1. SetFile(Top, None)
      BY <2>1, Zenon DEF HearNothing, Abandon
    <3> QED
      BY <1>1, <3>1, FileEffect
  <2>2. CASE Todo # "body"
    BY <2>2, MboxTyped DEF HearNothing, Abandon
  <2> QED
    BY <2>1, <2>2
<1>3. CASE Todo = "session"
  BY <1>1, <1>2, <1>3, ConnectStep DEF HearNothing
<1>4. CASE Todo # "session"
  <2>1. /\ Popped /\ conn' \in Connections /\ conn'.up = conn.up
        /\ session' \in Sessions /\ session'.open = session.open
        /\ session'.mbox \in {None, session.mbox}
        /\ (~conn.up => conn' = conn) /\ trouble' \in 0..MaxTrouble
        /\ Len(conn'.replies) <= trouble'
    BY <1>4, GiveUp
  <2>2. Typed'
    BY <1>2, <2>1 DEF Inv1, Typed
  <2> QED
    BY <1>1, <2>1, <2>2, WaitedKeeps DEF Moves
<1> QED
  BY <1>3, <1>4

\* The thread has opened the file.
LEMMA BodyEffect ==
    ASSUME Inv1, NEW i \in DOMAIN stack, BodyBegins(i)
    PROVE  /\ i \in 1..Len(stack) /\ stack[i].waits /\ conn.up
           /\ HandlerOK(stack[i], server) /\ HandlerOK(WithBody(stack[i]), server)
           /\ WithBody(stack[i]).waits /\ stack[i].todo[1] = "fetch" /\ Step(stack[i]) = "fetch"
           /\ Replaced(i, WithBody(stack[i])) /\ conn.replies[1].body # None
           /\ UNCHANGED <<server, conn, session, local, asked, doomed, started, trouble>>
<1>1. /\ stack \in Seq(Handlers) /\ DOMAIN stack = 1..Len(stack) /\ i \in 1..Len(stack)
      /\ HandlerOK(stack[i], server)
  BY DEF Inv1, StackOK
<1>2. stack[i].waits /\ conn.up /\ Head(stack[i].todo) = "fetch"
  BY DEF BodyBegins
<1>3. HandlerOK(WithBody(stack[i]), server) /\ WithBody(stack[i]).waits /\ Step(stack[i]) = "fetch"
  BY <1>1, <1>2, WithBodyOK
<1>4. WithBody(stack[i]) \in Handlers
  BY <1>3 DEF HandlerOK
<1>5. stack' = [stack EXCEPT ![i] = WithBody(stack[i])]
  BY DEF BodyBegins, WithBody
<1>6. Replaced(i, WithBody(stack[i]))
  <2>1. PICK h : h = WithBody(stack[i])
    OBVIOUS
  <2>2. stack' \in Seq(Handlers) /\ Len(stack') = Len(stack) /\ stack'[i] = h
        /\ \A j \in 1..Len(stack) : j # i => stack'[j] = stack[j]
    BY <1>1, <1>4, <1>5, <2>1
  <2> QED
    BY <2>1, <2>2 DEF Replaced
<1>7. stack[i].todo[1] = "fetch"
  <2>1. /\ stack[i].todo \in Seq(Steps) /\ Len(stack[i].todo) >= 1
        /\ Len(stack[i].todo) \in Nat
    BY <1>1 DEF HandlerOK, Handlers, Fits, Left
  <2> QED
    BY <1>2, <2>1
<1>8. conn.replies[1].body # None
  <2>1. Running
    BY <1>1, <1>2 DEF Running
  <2>2. conn.replies \in Seq(Replies) /\ conn.replies # <<>>
    BY <1>2, <2>1 DEF Inv1, RepliesOK, Typed, Connections
  <2>3. Head(conn.replies) = conn.replies[1]
    BY <2>2
  <2> QED
    BY <2>3 DEF BodyBegins
<1> QED
  BY <1>1, <1>2, <1>3, <1>6, <1>7, <1>8 DEF BodyBegins

LEMMA BodyBegins1 ==
    ASSUME Inv1, NEW i \in DOMAIN stack, BodyBegins(i)
    PROVE  Inv1'
<1>1. /\ i \in 1..Len(stack) /\ stack[i].waits /\ stack[i] \in Handlers
      /\ HandlerOK(WithBody(stack[i]), server) /\ WithBody(stack[i]).waits
      /\ Replaced(i, WithBody(stack[i]))
      /\ UNCHANGED <<server, conn, session, trouble>>
  BY BodyEffect DEF HandlerOK
<1>2. Grown(server, server')
  BY <1>1 DEF Grown
<1>3. StackOK'
  BY <1>1, <1>2, ReplacedKeeps DEF Inv1
<1>4. cache' \in [Boxes -> [Uids -> Msgs \cup {None, Torn}]]
  BY <1>1, FileEffect DEF BodyBegins
<1>5. Running
  BY <1>1 DEF Running, Inv1, StackOK
<1>6. Typed'
  BY <1>1, <1>4 DEF Inv1, Typed
<1>7. RepliesOK'
  <2>1. Len(conn.replies) <= trouble + 1
    BY <1>5 DEF Inv1, RepliesOK
  <2>2. Running'
    BY <1>1, <1>3 DEF Running, Replaced, StackOK
  <2> QED
    BY <1>1, <1>5, <2>1, <2>2 DEF Inv1, RepliesOK
<1> QED
  BY <1>1, <1>3, <1>6, <1>7 DEF Inv1

LEMMA NothingConnected ==
    /\ NoConnection \in Connections /\ ~NoConnection.up /\ NoConnection.box = None
    /\ NoConnection.replies = <<>> /\ Len(NoConnection.replies) = 0
    /\ NoSession \in Sessions /\ ~NoSession.open /\ NoSession.mbox = None
<1>1. <<>> \in Seq(Replies)
  OBVIOUS
<1> QED
  BY <1>1 DEF NoConnection, Connections, NoSession, Sessions

LEMMA SameServer ==
    ASSUME Inv1, server' = server
    PROVE  Sound(server') /\ Grown(server, server')
BY DEF Inv1, Grown

LEMMA Offline1 == ASSUME Inv1, Offline PROVE Inv1'
<1>1. /\ session' = NoSession /\ conn' = NoConnection /\ ~Running
      /\ UNCHANGED <<server, cache, stack, trouble>>
  BY DEF Offline
<1>2. Typed'
  BY <1>1, NothingConnected DEF Inv1, Typed
<1>3. Len(conn'.replies) <= trouble'
  BY <1>1, NothingConnected, MboxTyped
<1> QED
  BY <1>1, <1>2, <1>3, SameServer, StackStays

LEMMA Time1 == ASSUME Inv1, Time PROVE Inv1'
<1>1. /\ stack = <<>> /\ session' = [session EXCEPT !.fresh = FALSE]
      /\ UNCHANGED <<server, conn, cache, stack, trouble>>
  BY DEF Time
<1>2. ~Running
  BY <1>1 DEF Running
<1>3. Len(conn'.replies) <= trouble'
  BY <1>1, <1>2 DEF Inv1, RepliesOK
<1>4. Typed'
  BY <1>1 DEF Inv1, Typed, Sessions
<1> QED
  BY <1>1, <1>2, <1>3, <1>4, SameServer, StackStays

LEMMA Break1 == ASSUME Inv1, Break PROVE Inv1'
<1>1. conn' = NoConnection /\ UNCHANGED <<server, session, cache, stack>>
  BY DEF Break
<1>2. trouble' \in 0..MaxTrouble
  BY MboxTyped DEF Break
<1>3. Typed' /\ ~conn'.up
  BY <1>1, <1>2, NothingConnected DEF Inv1, Typed
<1> QED
  BY <1>1, <1>3, SameServer, StackStays

LEMMA Deliver1 ==
    ASSUME Inv1, NEW m \in Msgs, NEW b \in Boxes, Deliver(m, b)
    PROVE  Inv1' /\ Sound(server') /\ Grown(server, server')
<1>1. /\ trouble < MaxTrouble /\ trouble' = trouble + 1 /\ server' = Add(server, b, <<m>>)
      /\ UNCHANGED <<conn, session, cache, stack>>
  BY DEF Deliver
<1>2. Sound(server') /\ Grown(server, server')
  <2> DEFINE n == Len(server.mail[b])
  <2>1. n = Len(server.mail[b]) /\ <<m>> \in Seq(Msgs)
    OBVIOUS
  <2> HIDE DEF n
  <2> QED
    BY <1>1, <2>1, AddEffect DEF Inv1
<1>3. Typed'
  BY <1>1, MboxTyped DEF Inv1, Typed
<1> QED
  BY <1>1, <1>2, <1>3, StackStays

LEMMA DiscardEffect ==
    ASSUME Inv1, NEW b \in Boxes, NEW u \in Uids, Discard(b, u)
    PROVE  /\ u \in server.present[b] /\ Sound(Marked(server, b, {u}))
           /\ server' \in {Marked(server, b, {u}), Expunge(Marked(server, b, {u}), b)}
           /\ Sound(server') /\ server'.mail = server.mail /\ server'.boxes = server.boxes
<1>1. /\ u \in server.present[b]
      /\ server' \in {Marked(server, b, {u}), Expunge(Marked(server, b, {u}), b)}
  BY DEF Discard, Marked
<1>2. /\ Sound(Marked(server, b, {u})) /\ Marked(server, b, {u}).mail = server.mail
      /\ Marked(server, b, {u}).boxes = server.boxes
  BY <1>1, MarkEffect DEF Inv1
<1> QED
  BY <1>1, <1>2, ExpungeEffect

LEMMA Discard1 ==
    ASSUME Inv1, NEW b \in Boxes, NEW u \in Uids, Discard(b, u)
    PROVE  Inv1'
<1>1. /\ trouble < MaxTrouble /\ trouble' = trouble + 1
      /\ UNCHANGED <<conn, session, cache, stack>>
  BY DEF Discard
<1>2. Sound(server') /\ Grown(server, server')
  BY DiscardEffect DEF Grown
<1>3. Typed'
  BY <1>1, MboxTyped DEF Inv1, Typed
<1> QED
  BY <1>1, <1>2, <1>3, StackStays

LEMMA EmptyStack ==
    ASSUME stack = <<>>
    PROVE  StackOK /\ ~Running /\ Len(stack) = 0
BY DEF StackOK, Running

LEMMA Crash1 == ASSUME Inv1, Crash PROVE Inv1'
<1>1. /\ trouble < MaxTrouble /\ trouble' = trouble + 1 /\ stack' = <<>>
      /\ session' = NoSession /\ conn' = NoConnection /\ UNCHANGED <<server, cache>>
  BY DEF Crash
<1>2. Typed'
  BY <1>1, NothingConnected, MboxTyped DEF Inv1, Typed
<1>3. StackOK' /\ ~Running'
  BY <1>1 DEF StackOK, Running
<1>4. RepliesOK'
  <2>1. Len(conn'.replies) = 0 /\ trouble' \in Nat
    BY <1>1, NothingConnected, MboxTyped
  <2>2. 0 <= trouble' + 1 /\ 0 <= trouble'
    BY <1>1, MboxTyped
  <2> QED
    BY <1>3, <2>1, <2>2 DEF RepliesOK
<1> QED
  BY <1>1, <1>2, <1>3, <1>4 DEF Inv1

-----------------------------------------------------------------------------
\* The second part of the invariant: a handler inside of another one.

\* A handler that has not asked for the session yet.
Begins(h) == \/ Left(h) = Len(Plan[h.op])
             \/ h.op = "moveOut" /\ Left(h) \in 8..9

\* Either the outer one waits for a reply, and the inner one will find the session
\* in use; or the outer one is in ui_update, and the inner one finds a session
\* and leaves the mailbox selected.
Under(lo, hi) ==
    \/ lo.waits /\ ~hi.waits /\ Begins(hi)
    \/ /\ ~lo.waits /\ Step(lo) = "ui"
       /\ hi.op = "moveIn" \/ (hi.box = lo.box /\ hi.op # "removeFolder")
       /\ session.fresh /\ (hi.waits => Step(hi) # "session")

Nested ==
    /\ \A i \in 1..Len(stack) : Begins(stack[i]) \/ session.open
    /\ Len(stack) = 2 => Under(stack[1], stack[2])

Inv2 == Inv1 /\ Nested

\* What the user does during a ui_update leaves the handler in it alone.
Undisturbed == "other mailbox meanwhile" \notin Hazards /\ "offline meanwhile" \notin Hazards

LEMMA BeginsAt ==
    ASSUME NEW h, NEW s, HandlerOK(h, s), Begins(h)
    PROVE  /\ Step(h) \in {"session", "copyFile"}
           /\ Step(h) = "copyFile" => h.op = "moveOut" /\ Left(h) = 9
<1>1. h.op \in Ops /\ Left(h) \in 1..Len(Plan[h.op]) /\ Left(h) \in Nat
  BY DEF HandlerOK, Handlers, Fits, Left
<1>2. Left(h) \in 8..9 => Left(h) = 8 \/ Left(h) = 9
  BY <1>1
<1>3. Step(h) \in {"session", "copyFile"}
  BY <1>1, <1>2, WhatIsLeft DEF Begins, Step
<1>4. Step(h) = "copyFile" => h.op = "moveOut" /\ Left(h) = 9
  BY <1>1, WhoDoes DEF Step
<1> QED
  BY <1>3, <1>4

LEMMA InUi ==
    ASSUME NEW h, NEW s, HandlerOK(h, s), Step(h) = "ui"
    PROVE  ~Begins(h) /\ h.op \in {"copy", "move", "moveIn"} \cup Removal
<1>1. h.op \in Ops /\ Left(h) \in 1..Len(Plan[h.op])
  BY DEF HandlerOK, Handlers, Fits
<1>2. h.op \in {"copy", "move", "moveIn"} \cup Removal
  BY <1>1, WhoDoes DEF Step
<1>3. ~Begins(h)
  BY BeginsAt
<1> QED
  BY <1>2, <1>3

\* The two handlers.
LEMMA TwoHandlers ==
    ASSUME Inv2, Len(stack) = 2
    PROVE  /\ Top = stack[2] /\ HandlerOK(stack[1], server) /\ HandlerOK(Top, server)
           /\ Under(stack[1], Top)
           /\ ~Top.waits /\ Running => stack[1].waits /\ Begins(Top)
           /\ Top.waits \/ ~Running =>
                /\ ~stack[1].waits /\ Step(stack[1]) = "ui" /\ session.fresh /\ session.open
                /\ Top.op = "moveIn" \/ (Top.box = stack[1].box /\ Top.op # "removeFolder")
                /\ (Top.waits => Todo # "session")
<1>1. stack # <<>>
  OBVIOUS
<1>2. Top = stack[2] /\ HandlerOK(Top, server) /\ DOMAIN stack = 1..2
  BY <1>1, TopOK DEF Inv2
<1>3. HandlerOK(stack[1], server)
  BY DEF Inv2, Inv1, StackOK
<1>4. Under(stack[1], Top)
  BY <1>2 DEF Inv2, Nested
<1>5. Running <=> stack[1].waits \/ Top.waits
  BY <1>2 DEF Running
<1>6. Step(stack[1]) = "ui" => session.open
  BY <1>3, InUi DEF Inv2, Nested
<1>7. Todo = "session" => Step(Top) = "session"
  BY <1>1, TopOK DEF Inv2
<1> QED
  BY <1>2, <1>3, <1>4, <1>5, <1>6, <1>7 DEF Under

LEMMA OneHandler ==
    ASSUME Inv1, stack # <<>>, Len(stack) # 2
    PROVE  Len(stack) = 1 /\ Top = stack[1]
<1>1. Len(stack) \in 1..2 /\ Top = stack[Len(stack)]
  BY TopOK
<1> QED
  BY <1>1

\* The handler at the top is gone.
LEMMA PoppedNested ==
    ASSUME Inv2, stack # <<>>, Popped,
           Len(stack) = 2 => (session.open => session'.open)
    PROVE  Nested'
<1>1. Len(stack) \in 1..2 /\ Len(stack) \in Nat
  BY TopOK DEF Inv2
<1>2. /\ Len(stack') = Len(stack) - 1 /\ Len(stack') # 2
      /\ \A i \in 1..Len(stack') : /\ stack'[i] = stack[i] /\ i \in 1..Len(stack)
                                   /\ Len(stack) = 2
  BY <1>1 DEF Popped
<1> QED
  BY <1>2 DEF Inv2, Nested, Begins

\* The next step of the handler at the top, and what it must leave so.
LEMMA MovesNested ==
    ASSUME Inv2, stack # <<>>, Moves, Inv1',
           session.open => session'.open,
           Left(Top) > 1 /\ TopGoesOn(NextStep(Top)) =>
                session'.open \/ (Begins(Top) /\ Step(Top) = "copyFile"),
           Len(stack) = 2 /\ Left(Top) > 1 /\ TopGoesOn(NextStep(Top)) =>
                IF ~Top.waits /\ Running THEN Step(Top) = "copyFile" ELSE session'.fresh
    PROVE  Nested'
<1>1. /\ Len(stack) \in 1..2 /\ Len(stack) \in Nat /\ Top = stack[Len(stack)]
      /\ HandlerOK(Top, server) /\ Left(Top) \in Nat /\ Len(stack') \in Nat
  BY TopOK DEF Inv2, Inv1, StackOK
<1>2. CASE Popped
  BY <1>2, PoppedNested
<1>3. CASE Left(Top) > 1 /\ TopGoesOn(NextStep(Top))
  <2> DEFINE h == NextStep(Top)
  <2>1. /\ ~h.waits /\ Left(h) = Left(Top) - 1 /\ h.op = Top.op /\ h.box = Top.box
    <3>1. Top \in Handlers /\ Fits(Top)
      BY <1>1 DEF HandlerOK
    <3> QED
      BY <1>3, <3>1, NextFits
  <2>2. /\ Len(stack') = Len(stack) /\ stack'[Len(stack)] = h
        /\ \A i \in 1..Len(stack) : i # Len(stack) => stack'[i] = stack[i]
    BY <1>3 DEF TopGoesOn, Replaced
  <2> HIDE DEF h
  <2>3. Begins(Top) /\ Step(Top) = "copyFile" => Begins(h)
    <3>1. SUFFICES ASSUME Begins(Top), Step(Top) = "copyFile"
                   PROVE  Begins(h)
      OBVIOUS
    <3>2. Top.op = "moveOut" /\ Left(Top) = 9
      BY <1>1, <3>1, BeginsAt
    <3>3. h.op = "moveOut" /\ Left(h) = 8
      BY <2>1, <3>2
    <3> QED
      BY <3>3 DEF Begins
  <2>4. Begins(h) \/ session'.open
    BY <1>3, <2>3
  <2>5. \A i \in 1..Len(stack') : Begins(stack'[i]) \/ session'.open
    BY <1>1, <2>2, <2>4 DEF Inv2, Nested
  <2>6. Len(stack) = 2 => Under(stack[1], stack[2])'
    <3>1. SUFFICES ASSUME Len(stack) = 2 PROVE Under(stack[1], stack[2])'
      OBVIOUS
    <3>2. stack'[1] = stack[1] /\ stack'[2] = h
      BY <1>1, <2>2, <3>1
    <3>3. CASE ~Top.waits /\ Running
      <4>1. stack[1].waits /\ Begins(Top) /\ Step(Top) = "copyFile"
        BY <1>3, <3>1, <3>3, TwoHandlers
      <4> QED
        BY <2>1, <2>3, <3>2, <4>1 DEF Under
    <3>4. CASE ~(~Top.waits /\ Running)
      <4>1. /\ ~stack[1].waits /\ Step(stack[1]) = "ui"
            /\ Top.op = "moveIn" \/ (Top.box = stack[1].box /\ Top.op # "removeFolder")
        BY <3>1, <3>4, TwoHandlers DEF Running
      <4>2. session'.fresh
        BY <1>3, <3>1, <3>4
      <4> QED
        BY <2>1, <3>2, <4>1, <4>2 DEF Under
    <3> QED
      BY <3>3, <3>4
  <2> QED
    BY <2>2, <2>5, <2>6 DEF Nested
<1> QED
  BY <1>2, <1>3 DEF Moves

LEMMA PlainNested ==
    ASSUME Inv2, stack # <<>>, ~Top.waits, Moves, Inv1', session' = session,
           Step(Top) # "session"
    PROVE  Nested'
<1>1. HandlerOK(Top, server) /\ Len(stack) \in 1..2 /\ Top = stack[Len(stack)]
  BY TopOK DEF Inv2
<1>2. Begins(Top) => Step(Top) = "copyFile"
  BY <1>1, BeginsAt
<1>3. Begins(Top) \/ session.open
  BY <1>1 DEF Inv2, Nested
<1>4. Len(stack) = 2 => IF ~Top.waits /\ Running THEN Step(Top) = "copyFile" ELSE session.fresh
  BY <1>2, TwoHandlers
<1> QED
  BY <1>2, <1>3, <1>4, MovesNested

LEMMA ReadNested ==
    ASSUME Inv2, stack # <<>>, Top.waits, Moves, Inv1', session'.open, session'.fresh
    PROVE  Nested'
BY MovesNested

LEMMA StepIs ==
    ASSUME Inv1, NEW s, At(s) \/ Heard(s), s # "body"
    PROVE  stack # <<>> /\ Step(Top) = s
<1>1. stack # <<>> /\ Todo = s
  BY DEF At, Heard
<1> QED
  BY <1>1, TopOK

LEMMA PlainSteps2 ==
    ASSUME Inv2, PassUi \/ SelectAgain \/ CopyFile \/ Forget \/ Unlink
    PROVE  Inv2' /\ Moves
<1>1. Inv1' /\ Moves
  BY PassUi1, SelectAgain1, CopyFile1, Forget1, Unlink1 DEF Inv2
<1>2. PICK s \in {"ui", "trySelect", "copyFile", "forget", "unlink"} : At(s)
  BY DEF PassUi, SelectAgain, CopyFile, Forget, Unlink
<1>3. stack # <<>> /\ ~Top.waits /\ Step(Top) = s
  BY <1>2, AtTop, StepIs DEF Inv2
<1>4. session' = session
  BY DEF PassUi, SelectAgain, CopyFile, Forget, Unlink
<1> QED
  BY <1>1, <1>3, <1>4, PlainNested DEF Inv2

LEMMA UsedOpen ==
    ASSUME Inv1, stack # <<>>, Top.waits, NEW mbox, Used(mbox)
    PROVE  session'.open /\ session'.fresh /\ session'.mbox = mbox
<1>1. session.open /\ session \in Sessions
  BY TopOK DEF Inv1, Typed
<1> QED
  BY <1>1 DEF Used, Sessions

LEMMA ReadSteps2 ==
    ASSUME Inv2,
           \/ ReceiveFlags \/ ReceiveHeaders \/ ReceiveBody \/ ReceiveNoBody
           \/ \E s \in Commands \cup {"trySelect"} : Receive(s)
    PROVE  Inv2' /\ Moves
<1>1. Inv1' /\ Moves
  BY ReceiveFlags1, ReceiveHeaders1, ReceiveBody1, ReceiveNoBody1, Receive1 DEF Inv2
<1>2. stack # <<>> /\ Top.waits
  BY HeardTop DEF ReceiveFlags, ReceiveHeaders, ReceiveBody, ReceiveNoBody, Receive
<1>3. \E mbox : Used(mbox)
  BY DEF ReceiveFlags, ReceiveHeaders, ReceiveBody, ReceiveNoBody, Receive
<1>4. session'.open /\ session'.fresh
  BY <1>2, <1>3, UsedOpen DEF Inv2
<1> QED
  BY <1>1, <1>2, <1>4, ReadNested DEF Inv2

\* The session is asked for again, or made.
LEMMA ConnectNested ==
    ASSUME Inv2, stack # <<>>, Top.waits \/ ~session.open, Todo = "session", Connect,
           Moves, Inv1'
    PROVE  Nested'
<1>1. Len(stack) = 2 => ~session.open /\ ~Top.waits /\ ~Running
  <2>1. ~session.open => ~Running
    BY DEF Inv2, Inv1, RepliesOK
  <2> QED
    BY <2>1, TwoHandlers
<1>2. CASE Fail
  <2>1. Popped
    BY <1>2, FailMoves DEF Inv2
  <2> QED
    BY <1>1, <2>1, PoppedNested
<1>3. CASE session'.open /\ session'.fresh
  BY <1>1, <1>3, MovesNested
<1> QED
  BY <1>2, <1>3, ConnectEffect DEF Inv2

LEMMA GetSession2 == ASSUME Inv2, GetSession PROVE Inv2' /\ Moves
<1>1. Inv1' /\ Moves
  BY GetSession1 DEF Inv2
<1>2. stack # <<>> /\ ~Top.waits /\ Todo = "session"
  BY AtTop DEF GetSession
<1>3. CASE ~session.open /\ Connect
  BY <1>1, <1>2, <1>3, ConnectNested DEF Inv2
<1>4. CASE Fail /\ session' = session
  <2>1. Popped
    BY <1>2, <1>4, FailMoves DEF Inv2
  <2> QED
    BY <1>1, <1>2, <1>4, <2>1, PoppedNested DEF Inv2
<1>5. CASE session.open /\ ~Running /\ session.fresh /\ session' = session
  BY <1>1, <1>2, <1>5, MovesNested DEF Inv2
<1> QED
  BY <1>3, <1>4, <1>5 DEF GetSession

LEMMA ReceiveNoop2 == ASSUME Inv2, ReceiveNoop PROVE Inv2' /\ Moves
<1>1. Inv1' /\ Moves
  BY ReceiveNoop1 DEF Inv2
<1>2. stack # <<>> /\ Top.waits /\ Todo = "session"
  BY HeardTop DEF ReceiveNoop
<1>3. CASE Accepted
  <2>1. Used(session.mbox)
    BY <1>3 DEF ReceiveNoop
  <2> QED
    BY <1>1, <1>2, <2>1, UsedOpen, ReadNested DEF Inv2
<1>4. CASE ~Accepted
  <2>1. Connect
    BY <1>4 DEF ReceiveNoop
  <2> QED
    BY <1>1, <1>2, <2>1, ConnectNested DEF Inv2
<1> QED
  BY <1>3, <1>4

LEMMA HearNothing2 == ASSUME Inv2, HearNothing PROVE Inv2' /\ Moves
<1>1. Inv1' /\ Moves
  BY HearNothing1 DEF Inv2
<1>2. stack # <<>> /\ Top.waits
  BY DEF HearNothing
<1>3. CASE Todo = "session"
  <2>1. Connect
    BY <1>3 DEF HearNothing
  <2> QED
    BY <1>1, <1>2, <1>3, <2>1, ConnectNested DEF Inv2
<1>4. CASE Todo # "session"
  <2>1. Popped /\ session'.open = session.open
    BY <1>4, GiveUp DEF Inv2
  <2> QED
    BY <1>1, <1>2, <2>1, PoppedNested DEF Inv2
<1> QED
  BY <1>3, <1>4

LEMMA ReceiveExists2 == ASSUME Inv2, ReceiveExists PROVE Inv2'
<1>1. /\ Inv1' /\ Top.op = "list"
      /\ Moves \/ TopGoesOn(OnlyHeaders(Top))
  BY ReceiveExists1 DEF Inv2
<1>2. stack # <<>> /\ Top.waits
  BY HeardTop DEF ReceiveExists
<1>3. session'.open /\ session'.fresh
  BY <1>2, UsedOpen DEF ReceiveExists, Inv2
<1>4. CASE Moves
  BY <1>1, <1>2, <1>3, <1>4, ReadNested DEF Inv2
<1>5. CASE TopGoesOn(OnlyHeaders(Top))
  <2>1. /\ Len(stack) \in 1..2 /\ Len(stack) \in Nat /\ HandlerOK(Top, server)
    BY <1>2, TopOK DEF Inv2
  <2>2. /\ OnlyHeaders(Top).op = Top.op /\ OnlyHeaders(Top).box = Top.box
        /\ ~OnlyHeaders(Top).waits
    BY <1>1, <2>1, OnlyHeadersOK
  <2>3. /\ Len(stack') = Len(stack) /\ stack'[Len(stack)] = OnlyHeaders(Top)
        /\ \A i \in 1..Len(stack) : i # Len(stack) => stack'[i] = stack[i]
    BY <1>5 DEF TopGoesOn, Replaced
  <2>4. Len(stack) = 2 => Under(stack[1], stack[2])'
    <3>1. SUFFICES ASSUME Len(stack) = 2 PROVE Under(stack[1], stack[2])'
      OBVIOUS
    <3>2. stack'[1] = stack[1] /\ stack'[2] = OnlyHeaders(Top)
      BY <2>3, <3>1
    <3>3. /\ ~stack[1].waits /\ Step(stack[1]) = "ui"
          /\ Top.op = "moveIn" \/ (Top.box = stack[1].box /\ Top.op # "removeFolder")
      BY <1>2, <3>1, TwoHandlers
    <3> QED
      BY <1>3, <2>2, <3>2, <3>3 DEF Under
  <2>5. Nested'
    BY <1>3, <2>3, <2>4 DEF Nested
  <2> QED
    BY <1>1, <2>5 DEF Inv2
<1> QED
  BY <1>1, <1>4, <1>5

LEMMA BodyBegins2 ==
    ASSUME Inv2, NEW i \in DOMAIN stack, BodyBegins(i)
    PROVE  Inv2'
<1>1. Inv1'
  BY BodyBegins1 DEF Inv2
<1> DEFINE h == WithBody(stack[i])
<1>2. /\ i \in 1..Len(stack) /\ stack[i].waits /\ HandlerOK(stack[i], server)
      /\ Head(stack[i].todo) = "fetch" /\ session' = session
      /\ Len(stack') = Len(stack) /\ stack'[i] = h
      /\ \A j \in 1..Len(stack) : j # i => stack'[j] = stack[j]
  BY BodyEffect DEF Inv2, BodyBegins, Replaced
<1>3. /\ h.waits /\ Left(h) = Left(stack[i]) /\ h.op = stack[i].op /\ h.box = stack[i].box
  BY <1>2, WithBodyOK
<1> HIDE DEF h
<1>4. /\ Begins(h) = Begins(stack[i]) /\ Step(h) = Step(stack[i])
  BY <1>3 DEF Begins, Step
<1>5. \A j \in 1..Len(stack') : Begins(stack'[j]) \/ session.open
  BY <1>2, <1>4 DEF Inv2, Nested
<1>6. Len(stack) = 2 => Under(stack[1], stack[2])'
  <2>1. SUFFICES ASSUME Len(stack) = 2 PROVE Under(stack[1], stack[2])'
    OBVIOUS
  <2>2. Under(stack[1], stack[2]) /\ i \in 1..2
    BY <1>2, <2>1 DEF Inv2, Nested
  <2>3. CASE i = 1
    BY <1>2, <1>3, <1>4, <2>1, <2>2, <2>3 DEF Under
  <2>4. CASE i = 2
    BY <1>2, <1>3, <1>4, <2>1, <2>2, <2>4 DEF Under
  <2> QED
    BY <2>2, <2>3, <2>4
<1>7. Nested'
  BY <1>2, <1>5, <1>6 DEF Nested
<1> QED
  BY <1>1, <1>7 DEF Inv2

LEMMA PlanSteps ==
    \A op \in Ops : Plan[op] \in Seq(Steps) /\ Len(Plan[op]) \in Nat /\ Len(Plan[op]) >= 2
<1>1. SUFFICES ASSUME NEW op \in Ops
               PROVE  Plan[op] \in Seq(Steps) /\ Len(Plan[op]) \in Nat /\ Len(Plan[op]) >= 2
  OBVIOUS
<1>2. /\ Fetching \in Seq(Steps) /\ Removing \in Seq(Steps) /\ Copying \in Seq(Steps)
      /\ Adding \in Seq(Steps) /\ Changing \in Seq(Steps) /\ Listing \in Seq(Steps)
      /\ RemovingFolder \in Seq(Steps) /\ Closing \in Seq(Steps)
      /\ <<"copyFile">> \in Seq(Steps) /\ <<"unlink">> \in Seq(Steps)
  BY DEF Fetching, Removing, Copying, Adding, Changing, Listing, RemovingFolder, Closing, Steps
<1>3. /\ Copying \o Removing \in Seq(Steps) /\ Adding \o <<"unlink">> \in Seq(Steps)
      /\ Fetching \o <<"copyFile">> \o Removing \in Seq(Steps)
  BY <1>2
<1>4. /\ Plan["view"] = Fetching /\ Plan["remove"] = Removing /\ Plan["copy"] = Copying
      /\ Plan["move"] = Copying \o Removing /\ Plan["mark"] = Changing
      /\ Plan["moveOut"] = Fetching \o <<"copyFile">> \o Removing
      /\ Plan["moveIn"] = Adding \o <<"unlink">> /\ Plan["list"] = Listing
      /\ Plan["removeFolder"] = RemovingFolder /\ Plan["close"] = Closing
  BY DEF Plan
<1>5. Plan[op] \in Seq(Steps)
  BY <1>2, <1>3, <1>4, PlanLengths
<1>6. /\ Len(Plan["view"]) = 3 /\ Len(Plan["remove"]) = 8 /\ Len(Plan["copy"]) = 5
      /\ Len(Plan["move"]) = 13 /\ Len(Plan["moveOut"]) = 12 /\ Len(Plan["moveIn"]) = 5
      /\ Len(Plan["mark"]) = 3 /\ Len(Plan["list"]) = 4 /\ Len(Plan["removeFolder"]) = 3
      /\ Len(Plan["close"]) = 2
  BY PlanLengths
<1>7. Len(Plan[op]) \in {2, 3, 4, 5, 8, 12, 13}
  BY <1>6, PlanLengths
<1>8. \A n \in {2, 3, 4, 5, 8, 12, 13} : n \in Nat /\ n >= 2
  OBVIOUS
<1> QED
  BY <1>5, <1>7, <1>8

\* What may be asked for.
LEMMA Asking ==
    ASSUME NEW f \in Requests, Sensible(f)
    PROVE  /\ f.op \in Ops /\ f.box \in Boxes /\ f.uids \subseteq Uids /\ f.dest \in Boxes
           /\ f.msg \in Msgs \cup {None} /\ f.waits = FALSE
           /\ f \in [op : Ops, box : Boxes, uids : SUBSET Uids, dest : Boxes,
                     msg : Msgs \cup {None}, todo : {<<>>}, waits : BOOLEAN]
           /\ f.uids \subseteq DOMAIN server.mail[f.box]
           /\ f.op \in {"view", "moveOut"} => \E u \in Uids : f.uids = {u}
           /\ f.op \in {"move", "copy"} => f.box # f.dest
           /\ f.op = "moveIn" => f.msg \in Msgs /\ f.dest = f.box
           /\ f.op = "removeFolder" => f.box # INBOX
           /\ f.box \in server.boxes
<1>1. /\ f.uids \subseteq DOMAIN server.mail[f.box] /\ f.box \in server.boxes
      /\ f.op \in {"move", "copy"} => f.box # f.dest
  BY DEF Sensible
<1>2. PICK op \in Ops, b \in Boxes, S \in SUBSET Uids, d \in Boxes, m \in Msgs \cup {None} :
         /\ f = Handler(op, b, S, d, m)
         /\ op \in {"view", "moveOut"} => \E u \in Uids : S = {u}
         /\ op = "moveIn" => m \in Msgs /\ d = b
         /\ op = "removeFolder" => b # INBOX
  <2>1. CASE \E op \in {"view", "moveOut"}, b \in Boxes, S \in {{u} : u \in Uids} :
                f = Handler(op, b, S, b, None)
    <3>1. \A S \in {{u} : u \in Uids} : S \in SUBSET Uids /\ \E u \in Uids : S = {u}
      OBVIOUS
    <3> QED
      BY <2>1, <3>1, PlanLengths
  <2>2. CASE \E op \in {"remove", "mark"}, b \in Boxes, S \in (SUBSET Uids) \ {{}} :
                f = Handler(op, b, S, b, None)
    BY <2>2, PlanLengths
  <2>3. CASE \E op \in {"move", "copy"}, b \in Boxes, d \in Boxes, S \in (SUBSET Uids) \ {{}} :
                f = Handler(op, b, S, d, None)
    BY <2>3, PlanLengths
  <2>4. CASE \E d \in Boxes, m \in Msgs : f = Handler("moveIn", d, {}, d, m)
    BY <2>4, PlanLengths
  <2>5. CASE \E op \in {"list", "close"}, b \in Boxes : f = Handler(op, b, {}, b, None)
    BY <2>5, PlanLengths
  <2>6. CASE \E b \in Boxes \ {INBOX} : f = Handler("removeFolder", b, {}, b, None)
    BY <2>6, PlanLengths
  <2>7. \/ \E op \in {"view", "moveOut"}, b \in Boxes, S \in {{u} : u \in Uids} :
                f = Handler(op, b, S, b, None)
        \/ \E op \in {"remove", "mark"}, b \in Boxes, S \in (SUBSET Uids) \ {{}} :
                f = Handler(op, b, S, b, None)
        \/ \E op \in {"move", "copy"}, b \in Boxes, d \in Boxes, S \in (SUBSET Uids) \ {{}} :
                f = Handler(op, b, S, d, None)
        \/ \E d \in Boxes, m \in Msgs : f = Handler("moveIn", d, {}, d, m)
        \/ \E op \in {"list", "close"}, b \in Boxes : f = Handler(op, b, {}, b, None)
        \/ \E b \in Boxes \ {INBOX} : f = Handler("removeFolder", b, {}, b, None)
    <3> DEFINE R1 == {Handler(op, b, S, b, None) : op \in {"view", "moveOut"}, b \in Boxes,
                                                   S \in {{u} : u \in Uids}}
               R2 == {Handler(op, b, S, b, None) : op \in {"remove", "mark"}, b \in Boxes,
                                                   S \in (SUBSET Uids) \ {{}}}
               R3 == {Handler(op, b, S, d, None) : op \in {"move", "copy"}, b \in Boxes,
                                                   d \in Boxes, S \in (SUBSET Uids) \ {{}}}
               R4 == {Handler("moveIn", d, {}, d, m) : d \in Boxes, m \in Msgs}
               R5 == {Handler(op, b, {}, b, None) : op \in {"list", "close"}, b \in Boxes}
               R6 == {Handler("removeFolder", b, {}, b, None) : b \in Boxes \ {INBOX}}
    <3>1. f \in R1 \cup R2 \cup R3 \cup R4 \cup R5 \cup R6
      BY DEF Requests
    <3>2. f \in R1 => \E op \in {"view", "moveOut"}, b \in Boxes, S \in {{u} : u \in Uids} :
                          f = Handler(op, b, S, b, None)
      OBVIOUS
    <3>3. f \in R2 => \E op \in {"remove", "mark"}, b \in Boxes, S \in (SUBSET Uids) \ {{}} :
                          f = Handler(op, b, S, b, None)
      OBVIOUS
    <3>4. f \in R3 => \E op \in {"move", "copy"}, b \in Boxes, d \in Boxes,
                         S \in (SUBSET Uids) \ {{}} :
                            f = Handler(op, b, S, d, None)
      OBVIOUS
    <3>5. f \in R4 => \E d \in Boxes, m \in Msgs : f = Handler("moveIn", d, {}, d, m)
      OBVIOUS
    <3>6. f \in R5 => \E op \in {"list", "close"}, b \in Boxes : f = Handler(op, b, {}, b, None)
      OBVIOUS
    <3>7. f \in R6 => \E b \in Boxes \ {INBOX} : f = Handler("removeFolder", b, {}, b, None)
      OBVIOUS
    <3> HIDE DEF R1, R2, R3, R4, R5, R6
    <3>8. f \in R1 \/ f \in R2 \/ f \in R3 \/ f \in R4 \/ f \in R5 \/ f \in R6
      BY <3>1
    <3> QED
      BY <3>2, <3>3, <3>4, <3>5, <3>6, <3>7, <3>8, Zenon
  <2> QED
    BY <2>1, <2>2, <2>3, <2>4, <2>5, <2>6, <2>7
<1>3. /\ f.op = op /\ f.box = b /\ f.uids = S /\ f.dest = d /\ f.msg = m /\ f.waits = FALSE
      /\ f \in [op : Ops, box : Boxes, uids : SUBSET Uids, dest : Boxes,
                msg : Msgs \cup {None}, todo : {<<>>}, waits : BOOLEAN]
  BY <1>2 DEF Handler
<1> QED
  BY <1>1, <1>2, <1>3

Begun(f) == [f EXCEPT !.todo = PlanOf(f)]

LEMMA BegunOK ==
    ASSUME NEW f \in Requests, Sensible(f), PlanOf(f) # <<>>
    PROVE  /\ HandlerOK(Begun(f), server) /\ Begins(Begun(f)) /\ ~Begun(f).waits
           /\ Begun(f).op = f.op /\ Begun(f).box = f.box /\ Begun(f).uids = f.uids
           /\ Begun(f).dest = f.dest /\ Begun(f).msg = f.msg
           /\ Begun(f).todo[1] \in {"session", "copyFile"}
           /\ \/ Left(Begun(f)) = Len(Plan[f.op])
              \/ /\ f.op = "moveOut" /\ Left(Begun(f)) = 9
                 /\ \A u \in f.uids : File(f.box, u) # None
           /\ f.op \in {"view", "moveOut"} /\ Left(Begun(f)) = Len(Plan[f.op]) =>
                 \A u \in f.uids : File(f.box, u) = None
<1> DEFINE h == Begun(f)
           S == CHOOSE u \in f.uids : TRUE
           there == f.op \in {"view", "moveOut"} /\ File(f.box, S) # None
<1>1. /\ f.op \in Ops /\ Plan[f.op] \in Seq(Steps) /\ Len(Plan[f.op]) \in Nat
      /\ Len(Plan[f.op]) >= 2
  BY Asking, PlanSteps
<1>2. f.op \in {"view", "moveOut"} => \A u \in f.uids : u = S
  BY Asking
<1>3. PICK t : t = PlanOf(f)
  OBVIOUS
<1>4. there => t = SubSeq(Plan[f.op], 4, Len(Plan[f.op]))
  BY <1>3 DEF PlanOf
<1>5. ~there => t = Plan[f.op]
  BY <1>3 DEF PlanOf
<1> HIDE DEF S
<1>6. \/ there /\ f.op = "moveOut" /\ t \in Seq(Steps) /\ Len(t) = 9
         /\ \A j \in 1..9 : t[j] = Plan[f.op][j + 3]
      \/ ~there /\ t = Plan[f.op] /\ t \in Seq(Steps)
  <2>1. CASE there /\ f.op = "view"
    <3>1. t = SubSeq(Plan[f.op], 4, 3)
      BY <1>4, <2>1, PlanLengths
    <3>2. Len(t) = 0 /\ t \in Seq(Steps)
      BY <1>1, <3>1
    <3> QED
      BY <1>3, <3>2
  <2>2. CASE there /\ f.op = "moveOut"
    <3>1. t = SubSeq(Plan[f.op], 4, 12) /\ Len(Plan[f.op]) = 12
      BY <1>4, <2>2, PlanLengths
    <3>2. 4 \in Int /\ 12 \in Int /\ 12 - 4 + 1 = 9 /\ 4 <= 12
      OBVIOUS
    <3>6. \A i \in 4..12 : Plan[f.op][i] \in Steps
      <4>1. PICK p \in Seq(Steps) : p = Plan[f.op]
        BY <1>1
      <4>5. Len(p) = 12
        BY <3>1, <4>1
      <4>6. DOMAIN p = 1..Len(p) /\ \A i \in DOMAIN p : p[i] \in Steps
        OBVIOUS
      <4>2. DOMAIN p = 1..12 /\ \A i \in DOMAIN p : p[i] \in Steps
        BY <4>5, <4>6
      <4>3. \A i \in 4..12 : i \in 1..12
        OBVIOUS
      <4> QED
        BY <4>1, <4>2, <4>3
    <3>3. t \in Seq(Steps) /\ Len(t) = 9 /\ \A j \in 1..9 : t[j] = Plan[f.op][4 + j - 1]
      BY <3>1, <3>2, <3>6, SubSeqProperties
    <3>4. \A j \in 1..9 : 4 + j - 1 = j + 3
      OBVIOUS
    <3>5. \A j \in 1..9 : t[j] = Plan[f.op][j + 3]
      BY <3>3, <3>4
    <3> QED
      BY <2>2, <3>3, <3>5
  <2> QED
    BY <1>1, <1>5, <2>1, <2>2
<1>7. /\ h \in Handlers /\ h.op = f.op /\ h.box = f.box /\ h.uids = f.uids /\ h.dest = f.dest
      /\ h.msg = f.msg /\ h.waits = FALSE /\ h.todo = t
  <2>1. h = [f EXCEPT !.todo = t]
    BY <1>3 DEF Begun
  <2>2. t \in Seq(Steps)
    BY <1>6
  <2> HIDE DEF h
  <2> QED
    BY <2>1, <2>2, Asking DEF Handlers
<1> HIDE DEF h
<1>8. Left(h) = Len(t) /\ Step(h) = StepOf(f.op, Len(t))
  BY <1>7 DEF Left, Step
<1>9. CASE there /\ f.op = "moveOut"
  <2>1. Len(t) = 9 /\ Len(Plan[f.op]) = 12 /\ \A j \in 1..9 : t[j] = Plan[f.op][j + 3]
    BY <1>6, <1>9, PlanLengths
  <2>2. \A j \in 1..9 : 12 + 1 - (9 + 1 - j) = j + 3
    OBVIOUS
  <2>3. \A j \in 1..9 : t[j] = StepOf(f.op, 9 + 1 - j)
    BY <2>1, <2>2 DEF StepOf
  <2>4. t[1] = StepOf(f.op, 9)
    BY <2>3
  <2>5. Fits(h)
    BY <1>7, <1>8, <2>1, <2>3, <2>4 DEF Fits
  <2>6. Begins(h)
    BY <1>7, <1>8, <1>9, <2>1 DEF Begins
  <2>7. HandlerOK(h, server)
    BY <1>7, <2>5, Asking DEF HandlerOK
  <2>8. t[1] = "copyFile"
    BY <1>9, <2>4, WhatIsLeft
  <2> QED
    BY <1>2, <1>7, <1>8, <1>9, <2>1, <2>6, <2>7, <2>8 DEF h
<1>10. CASE ~there
  <2>1. t = Plan[f.op] /\ Len(t) \in Nat
    BY <1>1, <1>6, <1>10
  <2>2. \A j \in 1..Len(t) : Len(t) + 1 - (Len(t) + 1 - j) = j
    BY <2>1
  <2>3. \A j \in 1..Len(t) : t[j] = StepOf(f.op, Len(t) + 1 - j)
    BY <2>1, <2>2 DEF StepOf
  <2>4. Len(t) >= 2 /\ Len(t) + 1 - 1 = Len(t) /\ 1 \in 1..Len(t)
    BY <1>1, <2>1
  <2>5. t[1] = StepOf(f.op, Len(t))
    BY <2>3, <2>4
  <2>6. Fits(h)
    <3>1. Left(h) \in 1..Len(Plan[h.op])
      BY <1>1, <1>7, <1>8, <2>1
    <3>2. h.todo[1] = Step(h)
      BY <1>7, <1>8, <2>5
    <3>3. \A j \in 2..Left(h) : h.todo[j] = StepOf(h.op, Left(h) + 1 - j)
      BY <1>7, <1>8, <2>1, <2>3
    <3> QED
      BY <3>1, <3>2, <3>3 DEF Fits
  <2>7. Left(h) = Len(Plan[f.op]) /\ Begins(h)
    BY <1>7, <1>8, <2>1 DEF Begins
  <2>8. HandlerOK(h, server)
    BY <1>7, <2>6, Asking DEF HandlerOK
  <2>9. t[1] = "session"
    BY <1>1, <2>1, <2>5, WhatIsLeft
  <2>10. f.op \in {"view", "moveOut"} => \A u \in f.uids : File(f.box, u) = None
    BY <1>2, <1>10
  <2> QED
    BY <1>7, <2>7, <2>8, <2>9, <2>10 DEF h
<1> QED
  BY <1>6, <1>9, <1>10

\* A handler is started.
Pushed(h) ==
    /\ stack' \in Seq(Handlers) /\ Len(stack') = Len(stack) + 1 /\ stack'[Len(stack')] = h
    /\ \A i \in 1..Len(stack) : stack'[i] = stack[i]

LEMMA StartEffect ==
    ASSUME Inv1, NEW f \in Requests, Sensible(f), Start(f)
    PROVE  /\ UNCHANGED <<server, conn, session, cache, local, trouble>>
           /\ Len(stack) \in 0..1
           /\ stack' = stack \/ (PlanOf(f) # <<>> /\ Pushed(Begun(f)))
<1>1. stack \in Seq(Handlers)
  BY DEF Inv1, StackOK
<1>2. Len(stack) \in 0..1
  <2>1. stack = <<>> \/ Len(stack) = 1
    BY DEF Start, MayStart
  <2> QED
    BY <2>1
<1>3. CASE PlanOf(f) = <<>>
  BY <1>2, <1>3 DEF Start
<1>4. CASE PlanOf(f) # <<>>
  <2>1. PICK h : h = Begun(f)
    OBVIOUS
  <2>2. h \in Handlers
    BY <1>4, <2>1, BegunOK DEF HandlerOK
  <2>3. stack' = Append(stack, h)
    BY <1>4, <2>1 DEF Start, Begun
  <2>4. Pushed(h)
    BY <1>1, <2>2, <2>3 DEF Pushed
  <2> QED
    BY <1>2, <1>4, <2>1, <2>4 DEF Start
<1> QED
  BY <1>3, <1>4

LEMMA Start2 ==
    ASSUME Inv2, Undisturbed, NEW f \in Requests, Sensible(f), Start(f)
    PROVE  Inv2'
<1>1. /\ UNCHANGED <<server, conn, session, cache, trouble>>
      /\ Len(stack) \in 0..1 /\ Len(stack) \in Nat
      /\ stack' = stack \/ (PlanOf(f) # <<>> /\ Pushed(Begun(f)))
  BY StartEffect DEF Inv2
<1>2. Grown(server, server') /\ Sound(server') /\ Typed'
  BY <1>1, SameServer DEF Inv2, Inv1, Typed
<1>3. CASE stack' = stack
  BY <1>1, <1>3 DEF Inv2, Inv1, Nested, Under, Typed, StackOK, RepliesOK, Running
<1>4. CASE PlanOf(f) # <<>> /\ Pushed(Begun(f))
  <2>1. PICK h : h = Begun(f)
    OBVIOUS
  <2>2. HandlerOK(h, server) /\ Begins(h) /\ ~h.waits /\ h.op = f.op /\ h.box = f.box
    BY <1>4, <2>1, BegunOK
  <2>3. /\ stack' \in Seq(Handlers) /\ Len(stack') = Len(stack) + 1
        /\ stack'[Len(stack')] = h /\ \A i \in 1..Len(stack) : stack'[i] = stack[i]
    BY <1>4, <2>1 DEF Pushed
  <2>4. /\ DOMAIN stack = 1..Len(stack) /\ DOMAIN stack' = 1..Len(stack')
        /\ \A i \in 1..Len(stack) : HandlerOK(stack[i], server)
        /\ \A i \in 1..Len(stack) : Begins(stack[i]) \/ session.open
    BY <2>3 DEF Inv2, Inv1, StackOK, Nested
  <2>5. CASE Len(stack) = 0
    <3>1. Len(stack') = 1 /\ stack'[1] = h
      BY <2>3, <2>5
    <3>2. StackOK' /\ Nested'
      BY <1>1, <2>2, <2>3, <3>1 DEF StackOK, Nested
    <3>3. ~Running'
      BY <2>2, <2>4, <3>1 DEF Running
    <3>4. ~Running
      BY <2>4, <2>5 DEF Running
    <3>5. RepliesOK'
      BY <1>1, <3>3, <3>4 DEF Inv2, Inv1, RepliesOK
    <3> QED
      BY <1>2, <3>2, <3>5 DEF Inv2, Inv1
  <2>6. CASE Len(stack) = 1
    <3>1. Len(stack') = 2 /\ stack'[1] = stack[1] /\ stack'[2] = h
      BY <2>3, <2>6
    <3>2. StackOK'
      BY <1>1, <2>2, <2>3, <2>4, <2>6, <3>1 DEF StackOK
    <3>3. Top = stack[1] /\ stack # <<>> /\ HandlerOK(Top, server)
      BY <2>4, <2>6, OneHandler, TopOK DEF Inv2
    <3>4. \/ Top.waits
          \/ At("ui") /\ Harmless(f) /\ session.fresh
      BY <2>6, <3>3 DEF Start, MayStart, Undisturbed
    <3>5. Under(Top, h)
      <4>1. CASE Top.waits
        BY <2>2, <4>1 DEF Under
      <4>2. CASE At("ui") /\ Harmless(f) /\ session.fresh
        <5>1. ~Top.waits /\ Step(Top) = "ui"
          BY <4>2, AtTop, StepIs DEF Inv2
        <5> QED
          BY <2>2, <4>2, <5>1 DEF Under, Harmless
      <4> QED
        BY <3>4, <4>1, <4>2
    <3>6. Nested'
      BY <1>1, <2>2, <2>4, <2>6, <3>1, <3>3, <3>5 DEF Nested, Under
    <3>7. Running' <=> Running
      BY <2>2, <2>4, <2>6, <3>1 DEF Running
    <3>8. RepliesOK'
      BY <1>1, <3>7 DEF Inv2, Inv1, RepliesOK
    <3> QED
      BY <1>2, <3>2, <3>6, <3>8 DEF Inv2, Inv1
  <2> QED
    BY <1>1, <2>5, <2>6
<1> QED
  BY <1>1, <1>3, <1>4

\* A command is sent over a connection that is up, and done or not.
SentAs(ok) ==
    LET cmd == CommandOf(Todo)
    IN /\ conn.up /\ (ok => Possible(server, conn, cmd, Top))
       /\ server' = IF ok THEN Done(server, conn, cmd, Top) ELSE server
       /\ conn' = Answered(server, conn, cmd, Top, ok)
       /\ trouble' \in {trouble, trouble + 1} /\ trouble' <= MaxTrouble
       /\ LET gone == IF ok /\ cmd = "delete" THEN MsgsIn(server, Top.box) ELSE {}
          IN doomed' = doomed \cup gone /\ asked' = asked \cup (gone \X {Top.box})

LEMMA SendEffect ==
    ASSUME Inv1, Send
    PROVE  /\ stack # <<>> /\ ~Top.waits /\ ~Running /\ NeedsCommand(Todo)
           /\ Todo # "body" /\ Todo = Step(Top) /\ Todo \in Commands \cup {"session", "trySelect"}
           /\ Replaced(Len(stack), Waiting(Top)) /\ HandlerOK(Waiting(Top), server)
           /\ session' \in Sessions /\ session'.open = session.open
           /\ session'.fresh = session.fresh /\ session'.mbox = MboxWhileAsking(Todo)
           /\ UNCHANGED <<cache, local, started>>
           /\ \/ ~conn.up /\ UNCHANGED <<server, conn, doomed, asked, trouble>>
              \/ \E ok \in BOOLEAN : SentAs(ok)
<1>1. /\ stack # <<>> /\ ~Top.waits /\ ~Running /\ NeedsCommand(Todo)
      /\ UNCHANGED <<cache, local, started>>
      /\ session' = [session EXCEPT !.mbox = MboxWhileAsking(Todo)]
      /\ stack' = Front(stack) \o <<Waiting(Top)>>
  BY DEF Send, Waiting
<1>2. Todo \in Commands \cup {"session", "trySelect"} /\ Todo # "body"
  BY <1>1 DEF NeedsCommand, Commands, UidCommands
<1>3. HandlerOK(Waiting(Top), server)
  BY <1>1, TopOK, WaitingOK
<1>4. Replaced(Len(stack), Waiting(Top))
  <2>1. PICK h : h = Waiting(Top)
    OBVIOUS
  <2>2. h \in Handlers
    BY <1>3, <2>1 DEF HandlerOK
  <2> QED
    BY <1>1, <2>1, <2>2, ReplaceEffect DEF Inv1, StackOK
<1>5. /\ session' \in Sessions /\ session'.open = session.open
      /\ session'.fresh = session.fresh /\ session'.mbox = MboxWhileAsking(Todo)
  <2>1. PICK m : m = MboxWhileAsking(Todo)
    OBVIOUS
  <2>2. m \in Boxes \cup {None}
    BY <2>1, MboxTyped DEF MboxWhileAsking
  <2>3. session' = [session EXCEPT !.mbox = m]
    BY <1>1, <2>1
  <2> QED
    BY <2>1, <2>2, <2>3 DEF Inv1, Typed, Sessions
<1>6. \/ ~conn.up /\ UNCHANGED <<server, conn, doomed, asked, trouble>>
      \/ \E ok \in BOOLEAN : SentAs(ok)
  <2>1. CASE ~conn.up
    BY <2>1 DEF Send
  <2>2. CASE conn.up
    <3> DEFINE able == Possible(server, conn, CommandOf(Todo), Top)
    <3>1. able \in BOOLEAN
      BY DEF Possible
    <3>2. PICK ok \in {able} \cup (IF trouble < MaxTrouble THEN {FALSE} ELSE {}) :
             /\ server' = IF ok THEN Done(server, conn, CommandOf(Todo), Top) ELSE server
             /\ conn' = Answered(server, conn, CommandOf(Todo), Top, ok)
             /\ trouble' = IF ok = able THEN trouble ELSE trouble + 1
             /\ LET gone == IF ok /\ CommandOf(Todo) = "delete"
                            THEN MsgsIn(server, Top.box) ELSE {}
                IN doomed' = doomed \cup gone /\ asked' = asked \cup (gone \X {Top.box})
      BY <2>2, Zenon DEF Send
    <3> HIDE DEF able
    <3>3. ok \in BOOLEAN /\ (ok => able) /\ (ok # able => trouble < MaxTrouble)
      BY <3>1, <3>2
    <3>4. trouble' \in {trouble, trouble + 1} /\ trouble' <= MaxTrouble
      BY <3>2, <3>3, MboxTyped
    <3>5. ok => Possible(server, conn, CommandOf(Todo), Top)
      BY <3>3 DEF able
    <3>6. SentAs(ok)
      BY <2>2, <3>2, <3>4, <3>5, Zenon DEF SentAs
    <3> QED
      BY <3>3, <3>6
  <2> QED
    BY <2>1, <2>2
<1>7. Todo = Step(Top)
  BY <1>1, <1>2, TopOK
<1> QED
  BY <1>1, <1>2, <1>3, <1>4, <1>5, <1>6, <1>7

\* The reply to it.
LEMMA AnsweredEffect ==
    ASSUME Inv1, Send, NEW ok \in BOOLEAN, SentAs(ok)
    PROVE  /\ Sound(server') /\ Grown(server, server')
           /\ conn' \in Connections /\ conn'.up
           /\ conn'.box = (IF Todo \in {"select", "trySelect"} THEN IF ok THEN Top.box ELSE None
                           ELSE IF Todo = "examine" /\ ok THEN INBOX
                           ELSE IF Todo = "close" /\ ok THEN None ELSE conn.box)
           /\ conn'.replies = Append(conn.replies, Reply(server, conn, CommandOf(Todo), Top, ok))
           /\ Len(conn'.replies) = Len(conn.replies) + 1 /\ Len(conn.replies) \in Nat
           /\ Todo = "fetch" /\ ok =>
                 /\ Top.uids \subseteq server.present[conn.box] /\ conn.box \in Boxes
                 /\ \A u \in Top.uids :
                       Reply(server, conn, CommandOf(Todo), Top, ok).body = server.mail[conn.box][u]
           /\ ~(Todo = "fetch" /\ ok) => Reply(server, conn, CommandOf(Todo), Top, ok).body = None
           /\ Reply(server, conn, CommandOf(Todo), Top, ok).ok = ok
<1>1. /\ stack # <<>> /\ Todo = Step(Top)
      /\ Todo \in Commands \cup {"session", "trySelect"}
  BY SendEffect
<1>2. /\ Top \in Handlers /\ HandlerOK(Top, server) /\ Top.op \in Ops
      /\ Left(Top) \in 1..Len(Plan[Top.op]) /\ Top.box \in Boxes
  BY <1>1, TopOK
<1>3. PICK cmd : cmd = CommandOf(Todo)
  OBVIOUS
<1>4. /\ cmd = "select" <=> Todo \in {"select", "trySelect"}
      /\ cmd = "examine" <=> Todo = "examine"
      /\ cmd = "close" <=> Todo = "close"
      /\ cmd = "fetch" <=> Todo = "fetch"
      /\ cmd = "append" <=> Todo = "append"
  BY <1>3 DEF CommandOf
<1>5. /\ conn \in Connections /\ conn.box \in Boxes \cup {None}
      /\ conn.replies \in Seq(Replies) /\ Sound(server)
  BY DEF Inv1, Typed, Connections
<1>6. cmd = "append" => Top.msg \in Msgs
  <2>1. Todo = "append" => Top.op = "moveIn"
    BY <1>1, <1>2, WhoDoes DEF Step
  <2> QED
    BY <1>2, <1>4, <2>1 DEF HandlerOK
<1>7. Sound(server') /\ Grown(server, server')
  <2>1. CASE ok
    <3>1. Possible(server, conn, cmd, Top) /\ server' = Done(server, conn, cmd, Top)
      BY <1>3, <2>1 DEF SentAs
    <3> QED
      BY <1>2, <1>5, <1>6, <3>1, ServerGrows
  <2>2. CASE ~ok
    <3>1. server' = server
      BY <2>2 DEF SentAs
    <3> QED
      BY <3>1, SameServer
  <2> QED
    BY <2>1, <2>2
<1>8. Todo = "fetch" /\ ok =>
        /\ Top.uids \subseteq server.present[conn.box] /\ conn.box \in Boxes
        /\ \E u \in Top.uids : Top.uids = {u}
  <2>1. SUFFICES ASSUME Todo = "fetch", ok
                 PROVE  /\ Top.uids \subseteq server.present[conn.box] /\ conn.box \in Boxes
                        /\ \E u \in Top.uids : Top.uids = {u}
    OBVIOUS
  <2>2. Possible(server, conn, "fetch", Top)
    BY <1>3, <1>4, <2>1 DEF SentAs
  <2>3. conn.box \in server.boxes /\ Top.uids \subseteq server.present[conn.box]
    BY <2>2 DEF Possible
  <2>4. conn.box \in Boxes
    BY <1>5, <2>3 DEF Sound, Servers
  <2>5. Top.op \in {"view", "moveOut"}
    <3>1. StepOf(Top.op, Left(Top)) = "fetch"
      BY <1>1, <2>1 DEF Step
    <3>2. (Top.op = "view" /\ Left(Top) = 1) \/ (Top.op = "moveOut" /\ Left(Top) = 10)
      BY <1>2, <3>1, WhoDoes
    <3> QED
      BY <3>2
  <2>6. \E u \in Uids : Top.uids = {u}
    BY <1>2, <2>5 DEF HandlerOK
  <2> QED
    BY <2>3, <2>4, <2>6
<1> DEFINE r == Reply(server, conn, cmd, Top, ok)
<1>9. /\ r.ok = ok /\ (~(Todo = "fetch" /\ ok) => r.body = None)
      /\ Todo = "fetch" /\ ok => r.body = server.mail[conn.box][CHOOSE u \in Top.uids : TRUE]
  BY <1>4 DEF Reply
<1>10. r = [ok |-> r.ok, body |-> r.body]
  BY DEF Reply
<1> HIDE DEF r
<1>11. Todo = "fetch" /\ ok =>
          \A u \in Top.uids : r.body = server.mail[conn.box][u] /\ r.body \in Msgs
  <2>1. SUFFICES ASSUME Todo = "fetch", ok, NEW u \in Top.uids
                 PROVE  r.body = server.mail[conn.box][u] /\ r.body \in Msgs
    OBVIOUS
  <2>2. u = CHOOSE v \in Top.uids : TRUE
    BY <1>8, <2>1
  <2>3. server.mail[conn.box] \in Seq(Msgs) /\ u \in DOMAIN server.mail[conn.box]
    BY <1>5, <1>8, <2>1 DEF Sound, Servers
  <2>4. server.mail[conn.box][u] \in Msgs
    BY <2>3
  <2> QED
    BY <1>9, <2>1, <2>2, <2>4
<1>12. r \in Replies
  <2>1. r.body \in Msgs \cup {None}
    BY <1>8, <1>9, <1>11
  <2> QED
    BY <1>9, <1>10, <2>1 DEF Replies
<1>13. PICK q : q = Append(conn.replies, r)
  OBVIOUS
<1>14. /\ q \in Seq(Replies) /\ Len(q) = Len(conn.replies) + 1 /\ Len(conn.replies) \in Nat
  BY <1>5, <1>12, <1>13
<1> DEFINE bx == IF cmd = "select" THEN IF ok THEN Top.box ELSE None
                 ELSE IF cmd = "examine" /\ ok THEN INBOX
                 ELSE IF cmd = "close" /\ ok THEN None ELSE conn.box
           readonly == IF cmd = "examine" /\ ok THEN TRUE
                       ELSE IF cmd = "select" THEN FALSE ELSE conn.ro
<1>15. bx \in Boxes \cup {None} /\ readonly \in BOOLEAN
  BY <1>2, <1>5, BoxesAssumption DEF Connections
<1>16. conn' = [up |-> TRUE, box |-> bx, ro |-> readonly, replies |-> q]
  BY <1>3, <1>13 DEF SentAs, Answered, r
<1> HIDE DEF bx, readonly
<1>17. conn' \in Connections /\ conn'.up /\ conn'.box = bx /\ conn'.replies = q
  BY <1>14, <1>15, <1>16 DEF Connections
<1>18. bx = IF Todo \in {"select", "trySelect"} THEN IF ok THEN Top.box ELSE None
            ELSE IF Todo = "examine" /\ ok THEN INBOX
            ELSE IF Todo = "close" /\ ok THEN None ELSE conn.box
  BY <1>4 DEF bx
<1> QED
  BY <1>3, <1>7, <1>8, <1>9, <1>11, <1>13, <1>14, <1>17, <1>18 DEF r

LEMMA Send2 == ASSUME Inv2, Send PROVE Inv2'
<1>1. /\ stack # <<>> /\ ~Top.waits /\ ~Running /\ NeedsCommand(Todo)
      /\ Todo = Step(Top) /\ Replaced(Len(stack), Waiting(Top)) /\ HandlerOK(Waiting(Top), server)
      /\ session' \in Sessions /\ session'.open = session.open
      /\ session'.fresh = session.fresh /\ session'.mbox = MboxWhileAsking(Todo)
      /\ cache' = cache
      /\ \/ ~conn.up /\ UNCHANGED <<server, conn, trouble>>
         \/ \E ok \in BOOLEAN : SentAs(ok)
  BY SendEffect DEF Inv2
<1>2. /\ Len(stack) \in 1..2 /\ DOMAIN stack = 1..Len(stack) /\ Top = stack[Len(stack)]
      /\ HandlerOK(Top, server)
  BY <1>1, TopOK DEF Inv2
<1>3. /\ Sound(server') /\ Grown(server, server')
      /\ conn' \in Connections /\ (~conn'.up => conn' = NoConnection)
      /\ trouble' \in 0..MaxTrouble
      /\ Len(conn'.replies) \in Nat /\ Len(conn'.replies) <= trouble' + 1
      /\ (conn'.up => conn'.replies # <<>>)
  <2>1. Len(conn.replies) <= trouble /\ Len(conn.replies) \in Nat
    BY <1>1 DEF Inv2, Inv1, RepliesOK, Typed, Connections
  <2>2. CASE ~conn.up /\ UNCHANGED <<server, conn, trouble>>
    BY <2>1, <2>2, SameServer, MboxTyped DEF Inv2, Inv1, Typed
  <2>3. ASSUME NEW ok \in BOOLEAN, SentAs(ok)
        PROVE  /\ Sound(server') /\ Grown(server, server')
               /\ conn' \in Connections /\ (~conn'.up => conn' = NoConnection)
               /\ trouble' \in 0..MaxTrouble
               /\ Len(conn'.replies) \in Nat /\ Len(conn'.replies) <= trouble' + 1
               /\ (conn'.up => conn'.replies # <<>>)
    <3>1. /\ Sound(server') /\ Grown(server, server') /\ conn' \in Connections /\ conn'.up
          /\ Len(conn'.replies) = Len(conn.replies) + 1
      BY <2>3, AnsweredEffect DEF Inv2
    <3>2. trouble' \in {trouble, trouble + 1} /\ trouble' <= MaxTrouble
      BY <2>3 DEF SentAs
    <3> QED
      BY <2>1, <3>1, <3>2, MboxTyped DEF Inv2
  <2> QED
    BY <1>1, <2>2, <2>3
<1>4. session.open
  <2>1. Begins(Top) => Todo = "session"
    BY <1>1, <1>2, BeginsAt DEF NeedsCommand, Commands, UidCommands
  <2>2. Todo = "session" => session.open
    BY <1>1 DEF NeedsCommand
  <2> QED
    BY <1>2, <2>1, <2>2 DEF Inv2, Nested
<1>5. StackOK' /\ Running'
  <2>1. HandlerOK(Waiting(Top), server') /\ Waiting(Top).waits
    BY <1>1, <1>2, <1>3, StillOK, WaitingOK
  <2>2. Len(stack) \in 1..Len(stack)
    BY <1>2
  <2>3. StackOK'
    BY <1>1, <1>3, <2>1, <2>2, ReplacedKeeps DEF Inv2, Inv1
  <2>4. Running'
    BY <1>1, <2>1, <2>2, <2>3 DEF Running, Replaced, StackOK
  <2> QED
    BY <2>3, <2>4
<1>6. Typed'
  <2>1. session'.mbox # None => session'.open
    BY <1>1, <1>4
  <2> QED
    BY <1>1, <1>3, <2>1 DEF Inv2, Inv1, Typed
<1>7. RepliesOK'
  BY <1>1, <1>3, <1>4, <1>5 DEF RepliesOK
<1>8. Nested'
  <2>1. /\ Waiting(Top).waits /\ Waiting(Top).op = Top.op /\ Waiting(Top).box = Top.box
        /\ Left(Waiting(Top)) = Left(Top)
    BY <1>2, WaitingOK
  <2>2. Step(Waiting(Top)) = Step(Top)
    BY <2>1 DEF Step
  <2>3. /\ Len(stack') = Len(stack) /\ stack'[Len(stack)] = Waiting(Top)
        /\ \A i \in 1..Len(stack) : i # Len(stack) => stack'[i] = stack[i]
    BY <1>1 DEF Replaced
  <2>4. Len(stack) = 2 => Under(stack[1], stack[2])'
    <3>1. SUFFICES ASSUME Len(stack) = 2 PROVE Under(stack[1], stack[2])'
      OBVIOUS
    <3>2. stack'[1] = stack[1] /\ stack'[2] = Waiting(Top)
      BY <2>3, <3>1
    <3>3. /\ ~stack[1].waits /\ Step(stack[1]) = "ui" /\ session.fresh
          /\ Top.op = "moveIn" \/ (Top.box = stack[1].box /\ Top.op # "removeFolder")
      BY <1>1, <3>1, TwoHandlers
    <3>4. Todo # "session"
      BY <1>1, <3>3 DEF NeedsCommand
    <3> QED
      BY <1>1, <2>1, <2>2, <3>2, <3>3, <3>4 DEF Under
  <2> QED
    BY <1>1, <1>4, <2>3, <2>4 DEF Nested
<1> QED
  BY <1>3, <1>5, <1>6, <1>7, <1>8 DEF Inv2, Inv1


\* Steps that are no handler's, and the first state.
LEMMA OtherSteps2 ==
    ASSUME Undisturbed, Inv2,
           \/ Offline \/ Time \/ Break \/ Crash
           \/ \E b \in Boxes : \/ \E m \in Msgs : Deliver(m, b)
                               \/ \E u \in Uids : Discard(b, u)
    PROVE  Inv2'
<1>1. Inv1'
  BY Offline1, Time1, Break1, Crash1, Deliver1, Discard1 DEF Inv2
<1>2. (stack' = stack /\ session' = session) \/ stack' = <<>>
  BY DEF Undisturbed, Offline, Time, Break, Crash, Deliver, Discard
<1>3. Nested'
  <2>1. CASE stack' = stack /\ session' = session
    BY <2>1 DEF Inv2, Nested, Under
  <2>2. CASE stack' = <<>>
    <3>1. Len(stack') = 0 /\ 1..Len(stack') = {}
      BY <2>2
    <3> QED
      BY <3>1 DEF Nested
  <2> QED
    BY <1>2, <2>1, <2>2
<1> QED
  BY <1>1, <1>3 DEF Inv2

\* Where the messages are at first, in the server's view of it.
LEMMA InitEffect ==
    ASSUME Init
    PROVE  /\ Sound(server) /\ server.boxes = Boxes
           /\ \A b \in Boxes : /\ server.present[b] = DOMAIN server.mail[b]
                               /\ server.deleted[b] = {}
           /\ local \subseteq Msgs /\ \A b \in Boxes, u \in Uids : cache[b][u] = None
           /\ stack = <<>> /\ asked = {} /\ doomed = {} /\ trouble = 0
           /\ cache \in [Boxes -> [Uids -> Msgs \cup {None, Torn}]]
           /\ conn.replies = <<>> /\ (conn.up => session.open /\ conn.box = session.mbox)
           /\ conn \in Connections /\ (~conn.up => conn = NoConnection)
           /\ session \in Sessions /\ (session.mbox # None => session.open)
<1>1. PICK at \in [Msgs -> Boxes \cup {"local", None}] :
         /\ server = [EmptyServer EXCEPT
                        !.mail = [b \in Boxes |-> SetToSeq({m \in Msgs : at[m] = b})],
                        !.present = [b \in Boxes |-> DOMAIN SetToSeq({m \in Msgs : at[m] = b})]]
         /\ local = {m \in Msgs : at[m] = "local"}
  BY DEF Init
<1>2. PICK ml : ml = [b \in Boxes |-> SetToSeq({m \in Msgs : at[m] = b})]
  OBVIOUS
<1>3. ASSUME NEW b \in Boxes
      PROVE  ml[b] \in Seq(Msgs)
  <2>1. PICK S : S = {m \in Msgs : at[m] = b}
    OBVIOUS
  <2>2. IsFiniteSet(S) /\ S \subseteq Msgs
    BY <2>1, MsgsFinite, FS_Subset
  <2>3. SetToSeq(S) \in Seq(S)
    BY <2>2, SeqOfSet
  <2>4. SetToSeq(S) \in Seq(Msgs)
    BY <2>2, <2>3
  <2> QED
    BY <1>2, <2>1, <2>4
<1>4. ml \in [Boxes -> Seq(Msgs)]
  BY <1>2, <1>3
<1>5. PICK pr : pr = [b \in Boxes |-> DOMAIN ml[b]]
  OBVIOUS
<1>6. pr \in [Boxes -> SUBSET Nat]
  <2>1. \A b \in Boxes : DOMAIN ml[b] \in SUBSET Nat
    BY <1>4
  <2> QED
    BY <1>5, <2>1
<1>7. server = [boxes |-> Boxes, mail |-> ml, present |-> pr, deleted |-> [b \in Boxes |-> {}]]
  <2>1. pr = [b \in Boxes |-> DOMAIN SetToSeq({m \in Msgs : at[m] = b})]
    BY <1>2, <1>5
  <2>2. server = [EmptyServer EXCEPT !.mail = ml, !.present = pr]
    BY <1>1, <1>2, <2>1
  <2> QED
    BY <2>2 DEF EmptyServer
<1>8. server \in Servers
  BY <1>4, <1>6, <1>7 DEF Servers
<1>9. /\ server.boxes = Boxes
      /\ \A b \in Boxes : /\ server.present[b] = DOMAIN server.mail[b]
                          /\ server.deleted[b] = {}
  BY <1>5, <1>7
<1>10. Sound(server)
  BY <1>8, <1>9 DEF Sound
<1>11. /\ stack = <<>> /\ asked = {} /\ doomed = {} /\ trouble = 0
       /\ cache = [b \in Boxes |-> [u \in Uids |-> None]]
       /\ \/ conn = NoConnection /\ session = NoSession
          \/ \E b \in Boxes : /\ conn = [Connected EXCEPT !.box = b]
                               /\ session = [Opened EXCEPT !.mbox = b]
  BY DEF Init
<1>12. /\ conn.replies = <<>> /\ (conn.up => session.open /\ conn.box = session.mbox)
       /\ conn \in Connections /\ (~conn.up => conn = NoConnection)
       /\ session \in Sessions /\ (session.mbox # None => session.open)
  <2>1. CASE conn = NoConnection /\ session = NoSession
    BY <2>1, NothingConnected
  <2>2. ASSUME NEW b \in Boxes, conn = [Connected EXCEPT !.box = b],
               session = [Opened EXCEPT !.mbox = b]
        PROVE  /\ conn.replies = <<>> /\ session.open /\ conn.box = session.mbox
               /\ conn \in Connections /\ conn.up /\ session \in Sessions
    <3>1. /\ NoConnection \in Connections /\ NoConnection.replies = <<>>
      BY NothingConnected
    <3>2. PICK c : c = NoConnection
      OBVIOUS
    <3>3. conn = [[c EXCEPT !.up = TRUE] EXCEPT !.box = b]
      BY <2>2, <3>2 DEF Connected
    <3>4. /\ conn.replies = <<>> /\ conn.box = b /\ conn.up /\ conn \in Connections
      BY <3>1, <3>2, <3>3 DEF Connections
    <3>5. session = [open |-> TRUE, mbox |-> b, fresh |-> TRUE]
      BY <2>2 DEF Opened
    <3> QED
      BY <3>4, <3>5 DEF Sessions
  <2> QED
    BY <1>11, <2>1, <2>2
<1>13. local \subseteq Msgs /\ \A b \in Boxes, u \in Uids : cache[b][u] = None
  BY <1>1, <1>11
<1>14. cache \in [Boxes -> [Uids -> Msgs \cup {None, Torn}]]
  BY <1>11
<1> QED
  BY <1>9, <1>10, <1>11, <1>12, <1>13, <1>14

LEMMA Init2 == ASSUME Init PROVE Inv2
<1>1. stack = <<>> /\ trouble = 0 /\ Sound(server) /\ conn.replies = <<>>
  BY InitEffect
<1>2. 0 \in 0..MaxTrouble
  BY BoundsAssumption
<1>3. Typed
  BY <1>1, <1>2, InitEffect DEF Typed
<1>4. StackOK /\ ~Running /\ Len(stack) = 0
  BY <1>1, EmptyStack
<1>5. Len(conn.replies) = 0
  BY <1>1
<1>6. RepliesOK
  BY <1>1, <1>4, <1>5 DEF RepliesOK
<1>7. Nested
  BY <1>4 DEF Nested
<1> QED
  BY <1>1, <1>3, <1>4, <1>6, <1>7 DEF Inv1, Inv2

LEMMA Step2 ==
    ASSUME Undisturbed, Inv2, [Next]_vars
    PROVE  Inv2'
<1>1. CASE UNCHANGED vars
  BY <1>1 DEF vars, Inv2, Inv1, StackOK, Typed, RepliesOK, Running, Nested, Under
<1>2. CASE PassUi \/ SelectAgain \/ CopyFile \/ Forget \/ Unlink
  BY <1>2, PlainSteps2
<1>3. CASE \/ ReceiveFlags \/ ReceiveHeaders \/ ReceiveBody \/ ReceiveNoBody
           \/ \E s \in Commands \cup {"trySelect"} : Receive(s)
  BY <1>3, ReadSteps2
<1>4. CASE GetSession \/ ReceiveNoop \/ HearNothing \/ ReceiveExists \/ Send
  BY <1>4, GetSession2, ReceiveNoop2, HearNothing2, ReceiveExists2, Send2
<1>5. CASE \E i \in DOMAIN stack : BodyBegins(i)
  BY <1>5, BodyBegins2
<1>6. CASE \/ Offline \/ Time \/ Break \/ Crash
           \/ \E b \in Boxes : \/ \E m \in Msgs : Deliver(m, b)
                               \/ \E u \in Uids : Discard(b, u)
  BY <1>6, OtherSteps2
<1>7. CASE \E f \in Requests : Sensible(f) /\ Start(f)
  BY <1>7, Start2
<1> QED
  BY <1>1, <1>2, <1>3, <1>4, <1>5, <1>6, <1>7 DEF Next

LEMMA TypeOf == ASSUME Inv2 PROVE TypeOK
<1>1. /\ Len(conn.replies) <= trouble + 1 /\ trouble \in Nat /\ trouble <= MaxTrouble
      /\ MaxTrouble \in Nat /\ Len(conn.replies) \in Nat
  BY MboxTyped DEF Inv2, Inv1, RepliesOK, Typed, Connections
<1>2. Len(conn.replies) <= MaxTrouble + 1
  BY <1>1
<1>3. conn.replies # <<>> => conn.up
  BY NothingConnected DEF Inv2, Inv1, Typed
<1>4. \A i \in DOMAIN stack : stack[i].waits => session.open
  BY DEF Inv2, Inv1, RepliesOK, Running
<1> QED
  BY <1>2, <1>3, <1>4, MboxTyped DEF TypeOK, Inv2, Inv1, Typed

\* If no handler is started that leaves the mailbox of one that is in ui_update,
\* and nobody goes offline then, every handler that waits for a reply has its
\* session, and no more replies wait to be read than there were mishaps, and the
\* one asked for last (imap_session_get, imap_cmd_gen_send, imap_cmd_ok).
THEOREM TypeCorrect == ASSUME Undisturbed PROVE Spec => []TypeOK
<1>1. Init => Inv2
  BY Init2
<1>2. Inv2 /\ [Next]_vars => Inv2'
  BY Step2
<1>3. Inv2 => TypeOK
  BY TypeOf
<1> QED
  BY <1>1, <1>2, <1>3, PTL DEF Spec

-----------------------------------------------------------------------------
\* The third part of the invariant: the mailbox that is selected.

Selecting(h) == Step(h) \in {"select", "trySelect"}

\* A handler that relies on what it has selected.
Needs(h) ==
    \/ h.op \in {"view", "mark"} /\ Left(h) = 1
    \/ h.op \in {"copy", "list"} /\ Left(h) \in 1..2
    \/ h.op \in Removal /\ Left(h) \in 3..6
    \/ h.op = "move" /\ Left(h) \in 9..10
    \/ h.op = "moveOut" /\ Left(h) = 10

InMailbox(h, c, s) ==
    /\ Needs(h) /\ c.up => c.box \in {None, h.box}
    /\ h.op = "removeFolder" /\ Left(h) >= 2 => s.mbox \in {None, INBOX}
    /\ h.waits /\ Selecting(h) /\ c.up /\ Len(c.replies) = 1 /\ c.replies[1].ok => c.box = h.box

\* session->mbox is a mailbox only if it is the one that is selected.
SessionTrue == conn.up /\ session.mbox # None => conn.box \in {None, session.mbox}

Inv3 ==
    /\ Inv2 /\ SessionTrue
    /\ \A i \in 1..Len(stack) : InMailbox(stack[i], conn, session)

FoldersStay == "folder removed" \notin Hazards

LEMMA NeedsSteps ==
    ASSUME NEW h, NEW s, HandlerOK(h, s)
    PROVE  /\ Needs(h) => ~Selecting(h) /\ ~Begins(h) /\ Step(h) \notin {"examine", "close"}
           /\ Step(h) \in UidCommands => Needs(h)
           /\ Left(h) > 1 /\ Needs(NextStep(h)) => Needs(h) \/ Selecting(h)
<1>1. /\ h \in Handlers /\ Fits(h) /\ h.op \in Ops /\ Left(h) \in 1..Len(Plan[h.op])
      /\ Left(h) \in Nat
  BY DEF HandlerOK, Handlers, Fits, Left
<1>2. Needs(h) => ~Selecting(h)
  <2>1. StepOf(h.op, Left(h)) \in {"select", "trySelect"} =>
           \/ h.op = "list" /\ Left(h) = 3
           \/ h.op \in {"view", "mark"} /\ Left(h) = 2
           \/ h.op = "copy" /\ Left(h) = 3
           \/ h.op \in {"move", "moveOut"} /\ Left(h) = 11
           \/ h.op \in Removal /\ Left(h) = 7
    BY <1>1, WhoDoes
  <2> QED
    BY <1>1, <2>1 DEF Needs, Selecting, Step, Removal
<1>3. Needs(h) => Step(h) \notin {"examine", "close"}
  <2>1. StepOf(h.op, Left(h)) \in {"examine", "close"} => h.op \in {"removeFolder", "close"}
    BY <1>1, WhoDoes
  <2> QED
    BY <2>1 DEF Needs, Step, Removal
<1>4. Needs(h) => ~Begins(h)
  <2>1. SUFFICES ASSUME Needs(h) PROVE ~Begins(h)
    OBVIOUS
  <2>2. PICK n : n = Left(h)
    OBVIOUS
  <2>3. PICK m : m = Len(Plan[h.op])
    OBVIOUS
  <2>4. /\ n \in Nat
        /\ n = 1 \/ n = 2 \/ n = 3 \/ n = 4 \/ n = 5 \/ n = 6 \/ n = 9 \/ n = 10
        /\ h.op = "moveOut" => n # 9 /\ n # 8
        /\ n = 3 \/ n = 4 \/ n = 5 \/ n = 6 \/ n = 9 \/ n = 10 => h.op \in Removal
    BY <1>1, <2>1, <2>2 DEF Needs, Removal
  <2>5. /\ m \in {3, 4, 5, 8, 12, 13} \/ h.op \in {"removeFolder", "close"}
        /\ h.op \in Removal => m \in {8, 12, 13}
    BY <1>1, <2>3, PlanLengths DEF Removal
  <2>6. h.op \notin {"removeFolder", "close"}
    BY <2>1 DEF Needs, Removal
  <2>7. n # m
    BY <2>4, <2>5, <2>6
  <2>8. ~(h.op = "moveOut" /\ n \in 8..9)
    BY <2>4
  <2> QED
    BY <2>2, <2>3, <2>7, <2>8 DEF Begins
<1>5. Step(h) \in UidCommands => Needs(h)
  <2>1. StepOf(h.op, Left(h)) \in UidCommands =>
           \/ h.op \in {"view", "mark"} /\ Left(h) = 1
           \/ h.op = "moveOut" /\ Left(h) = 10
           \/ h.op = "list" /\ Left(h) \in {1, 2}
           \/ h.op = "copy" /\ Left(h) = 1
           \/ h.op = "move" /\ Left(h) = 9
           \/ h.op \in Removal /\ Left(h) \in {3, 4}
    BY <1>1, WhoDoes DEF UidCommands
  <2> QED
    BY <1>1, <2>1 DEF Needs, Step
<1>6. Left(h) > 1 /\ Needs(NextStep(h)) => Needs(h) \/ Selecting(h)
  <2>1. SUFFICES ASSUME Left(h) > 1, Needs(NextStep(h)), ~Needs(h)
                 PROVE  Selecting(h)
    OBVIOUS
  <2>2. Left(NextStep(h)) = Left(h) - 1 /\ NextStep(h).op = h.op
    BY <1>1, <2>1, NextFits
  <2>3. \/ h.op \in {"view", "mark"} /\ Left(h) = 2
        \/ h.op \in {"copy", "list"} /\ Left(h) = 3
        \/ h.op \in Removal /\ Left(h) = 7
        \/ h.op = "move" /\ Left(h) = 11
        \/ h.op = "moveOut" /\ Left(h) = 11
    BY <1>1, <2>1, <2>2 DEF Needs, Removal
  <2>4. /\ StepOf("view", 2) = "trySelect" /\ StepOf("mark", 2) = "trySelect"
        /\ StepOf("list", 3) = "select"
    BY DEF StepOf, Plan, Fetching, Changing, Listing
  <2>5. StepOf("copy", 3) = "trySelect" /\ StepOf("move", 11) = "trySelect"
    BY DEF StepOf, Plan, Copying, Removing
  <2>6. StepOf("moveOut", 11) = "trySelect"
    BY DEF StepOf, Plan, Fetching, Removing
  <2>7. \A op \in Removal : StepOf(op, 7) = "trySelect"
    BY RemovingSteps
  <2> QED
    BY <2>3, <2>4, <2>5, <2>6, <2>7 DEF Selecting, Step
<1> QED
  BY <1>2, <1>3, <1>4, <1>5, <1>6

\* The connection stays as it is, or nothing is selected, or there is none.
SameBox == conn'.up => conn'.box = None \/ (conn.up /\ conn'.box = conn.box)

LEMMA OuterStays ==
    ASSUME Inv3, Len(stack) = 2,
           SameBox \/ (Selecting(Top) /\ conn'.box \in {None, Top.box}),
           ~Top.waits /\ Running => conn' = conn /\ session' = session
    PROVE  InMailbox(stack[1], conn', session')
<1>1. InMailbox(stack[1], conn, session)
  BY DEF Inv3
<1>2. CASE ~Top.waits /\ Running
  BY <1>1, <1>2
<1>3. CASE Top.waits \/ ~Running
  <2>1. /\ HandlerOK(stack[1], server) /\ ~stack[1].waits /\ Step(stack[1]) = "ui"
        /\ Top.op = "moveIn" \/ Top.box = stack[1].box
    BY <1>3, TwoHandlers DEF Inv3
  <2>2. stack[1].op # "removeFolder"
    BY <2>1, InUi DEF Removal
  <2>3. Selecting(Top) => Top.op # "moveIn"
    <3>1. HandlerOK(Top, server)
      BY TwoHandlers DEF Inv3
    <3>2. Top.op \in Ops /\ Left(Top) \in 1..Len(Plan[Top.op])
      BY <3>1 DEF HandlerOK, Handlers, Fits
    <3> QED
      BY <3>2, WhoDoes DEF Selecting, Step, Removal
  <2>4. Needs(stack[1]) /\ conn'.up => conn'.box \in {None, stack[1].box}
    BY <1>1, <2>1, <2>3 DEF InMailbox, SameBox
  <2> QED
    BY <2>1, <2>2, <2>4 DEF InMailbox
<1> QED
  BY <1>2, <1>3

\* The top handler has gone on as h.
LEMMA TopMailbox ==
    ASSUME Inv3, Inv2', SessionTrue', stack # <<>>,
           NEW h, Replaced(Len(stack), h), InMailbox(h, conn', session'),
           SameBox \/ (Selecting(Top) /\ conn'.box \in {None, Top.box}),
           ~Top.waits /\ Running => conn' = conn /\ session' = session
    PROVE  Inv3'
<1>1. Len(stack) \in 1..2 /\ Len(stack) \in Nat
  BY TopOK DEF Inv3, Inv2
<1>2. /\ Len(stack') = Len(stack) /\ stack'[Len(stack)] = h
      /\ \A i \in 1..Len(stack) : i # Len(stack) => stack'[i] = stack[i]
  BY DEF Replaced
<1>3. \A i \in 1..Len(stack) : i = Len(stack) \/ (Len(stack) = 2 /\ i = 1)
  <2>1. PICK n : n = Len(stack)
    OBVIOUS
  <2>2. n \in 1..2
    BY <1>1, <2>1
  <2>3. \A i \in 1..n : i = n \/ (n = 2 /\ i = 1)
    BY <2>2
  <2> QED
    BY <2>1, <2>3
<1>4. \A i \in 1..Len(stack') : InMailbox(stack'[i], conn', session')
  BY <1>2, <1>3, OuterStays
<1> QED
  BY <1>4 DEF Inv3

LEMMA PoppedMailbox ==
    ASSUME Inv3, Inv2', SessionTrue', stack # <<>>, Popped, SameBox,
           ~Top.waits /\ Running => conn' = conn /\ session' = session
    PROVE  Inv3'
<1>1. Len(stack) \in 1..2 /\ Len(stack) \in Nat
  BY TopOK DEF Inv3, Inv2
<1>2. /\ Len(stack') = Len(stack) - 1 /\ \A i \in 1..Len(stack') : stack'[i] = stack[i]
  BY DEF Popped
<1>3. \A i \in 1..Len(stack') : Len(stack) = 2 /\ i = 1
  BY <1>1, <1>2
<1>4. \A i \in 1..Len(stack') : InMailbox(stack'[i], conn', session')
  BY <1>2, <1>3, OuterStays
<1> QED
  BY <1>4 DEF Inv3

\* The handler at the top ends, or does its next step.
LEMMA MovesMailbox ==
    ASSUME Inv3, Inv2', SessionTrue', stack # <<>>, Moves, SameBox,
           ~Top.waits /\ Running => conn' = conn /\ session' = session,
           Top.op = "removeFolder" => session'.mbox \in {None, session.mbox},
           Selecting(Top) /\ Left(Top) > 1 /\ TopGoesOn(NextStep(Top)) /\ conn'.up =>
                conn'.box \in {None, Top.box}
    PROVE  Inv3'
<1>1. CASE Popped
  BY <1>1, PoppedMailbox
<1>2. CASE Left(Top) > 1 /\ TopGoesOn(NextStep(Top))
  <2>1. /\ Len(stack) \in 1..2 /\ Top = stack[Len(stack)] /\ HandlerOK(Top, server)
        /\ Left(Top) \in Nat
    BY TopOK DEF Inv3, Inv2
  <2>2. InMailbox(Top, conn, session)
    BY <2>1 DEF Inv3
  <2> DEFINE h == NextStep(Top)
  <2>3. /\ Left(h) = Left(Top) - 1 /\ h.op = Top.op /\ h.box = Top.box /\ ~h.waits
    <3>1. Top \in Handlers /\ Fits(Top)
      BY <2>1 DEF HandlerOK
    <3> QED
      BY <1>2, <3>1, NextFits
  <2>4. Needs(h) => Needs(Top) \/ Selecting(Top)
    BY <1>2, <2>1, NeedsSteps
  <2>5. Replaced(Len(stack), h)
    BY <1>2 DEF TopGoesOn
  <2> HIDE DEF h
  <2>6. Needs(h) /\ conn'.up => conn'.box \in {None, h.box}
    BY <1>2, <2>2, <2>3, <2>4 DEF InMailbox, SameBox, h
  <2>7. h.op = "removeFolder" /\ Left(h) >= 2 => session'.mbox \in {None, INBOX}
    <3>1. Left(h) >= 2 => Left(Top) >= 2
      BY <2>1, <2>3
    <3> QED
      BY <2>2, <2>3, <3>1 DEF InMailbox
  <2>8. InMailbox(h, conn', session')
    BY <2>3, <2>6, <2>7 DEF InMailbox
  <2> QED
    BY <2>5, <2>8, TopMailbox
<1> QED
  BY <1>1, <1>2 DEF Moves


\* session->mbox stays, or none is remembered.
LEMMA TrueStays ==
    ASSUME SessionTrue, SameBox, session'.mbox \in {None, session.mbox}
    PROVE  SessionTrue'
BY DEF SessionTrue, SameBox

LEMMA Selected3 ==
    ASSUME Inv3, stack # <<>>, Todo = "trySelect" \/ Todo = "select"
    PROVE  Selecting(Top) /\ Top.op # "removeFolder" /\ Todo = Step(Top)
<1>1. /\ Top.op \in Ops /\ Left(Top) \in 1..Len(Plan[Top.op]) /\ Todo = Step(Top)
  BY TopOK DEF Inv3, Inv2
<1>2. Selecting(Top)
  BY <1>1 DEF Selecting
<1>3. StepOf(Top.op, Left(Top)) = "trySelect" \/ StepOf(Top.op, Left(Top)) = "select"
  BY <1>1 DEF Step
<1>4. Top.op # "removeFolder"
  BY <1>1, <1>3, WhoDoes DEF Removal
<1> QED
  BY <1>1, <1>2, <1>4

\* A step that is no SELECT.
LEMMA SelectingTodo ==
    ASSUME Inv3, stack # <<>>, Todo \notin {"select", "trySelect"}
    PROVE  ~Selecting(Top)
<1>1. /\ Todo # "body" => Todo = Step(Top)
      /\ Todo = "body" => Step(Top) = "fetch"
  BY TopOK DEF Inv3, Inv2
<1> QED
  BY <1>1 DEF Selecting

LEMMA PlainSteps3 ==
    ASSUME Inv3, PassUi \/ CopyFile \/ Forget \/ Unlink
    PROVE  Inv3'
<1>1. Inv2' /\ Moves /\ conn' = conn /\ session' = session
  BY PlainSteps2 DEF Inv3, PassUi, CopyFile, Forget, Unlink
<1>2. PICK s \in {"ui", "copyFile", "forget", "unlink"} : At(s)
  BY DEF PassUi, CopyFile, Forget, Unlink
<1>3. stack # <<>> /\ ~Selecting(Top)
  BY <1>2, AtTop, SelectingTodo
<1>4. SameBox /\ SessionTrue'
  BY <1>1 DEF SameBox, Inv3, SessionTrue
<1> QED
  BY <1>1, <1>3, <1>4, MovesMailbox

LEMMA SelectAgain3 == ASSUME Inv3, SelectAgain PROVE Inv3'
<1>1. Inv2' /\ Moves /\ conn' = conn /\ session' = session
  BY PlainSteps2 DEF Inv3, SelectAgain
<1>2. stack # <<>> /\ session.mbox = Top.box /\ Top.box \in Boxes
  BY AtTop, TopOK DEF SelectAgain, Selected, Inv3, Inv2
<1>3. SameBox /\ SessionTrue'
  BY <1>1 DEF SameBox, Inv3, SessionTrue
<1>4. conn.up => conn.box \in {None, Top.box}
  BY <1>2, BoxesAssumption DEF Inv3, SessionTrue
<1> QED
  BY <1>1, <1>2, <1>3, <1>4, MovesMailbox

LEMMA ConnectMailbox ==
    ASSUME Inv3, Inv2', stack # <<>>, Todo = "session", Moves, Connect,
           Top.waits \/ ~session.open
    PROVE  Inv3'
<1>1. conn'.box = None /\ session'.mbox = None
  BY ConnectEffect DEF Inv3, Inv2
<1>2. SameBox /\ SessionTrue'
  BY <1>1 DEF SameBox, SessionTrue
<1>3. Top.waits \/ ~Running
  BY DEF Inv3, Inv2, Inv1, RepliesOK
<1> QED
  BY <1>1, <1>2, <1>3, MovesMailbox, SelectingTodo

LEMMA GetSession3 == ASSUME Inv3, GetSession PROVE Inv3'
<1>1. Inv2' /\ Moves
  BY GetSession2 DEF Inv3
<1>2. stack # <<>> /\ Todo = "session"
  BY AtTop DEF GetSession
<1>3. CASE ~session.open /\ Connect
  BY <1>1, <1>2, <1>3, ConnectMailbox
<1>4. CASE conn' = conn /\ session' = session
  <2>1. SameBox /\ SessionTrue'
    BY <1>4 DEF SameBox, Inv3, SessionTrue
  <2> QED
    BY <1>1, <1>2, <1>4, <2>1, MovesMailbox, SelectingTodo
<1> QED
  BY <1>3, <1>4 DEF GetSession

\* The reply is read, and what was selected is remembered.
LEMMA ReadMailbox ==
    ASSUME Inv3, Inv2', stack # <<>>, Top.waits, conn.up, Read, Moves,
           NEW mbox, Used(mbox), mbox \in {None, session.mbox} \/ mbox = conn.box,
           Top.op = "removeFolder" => mbox \in {None, session.mbox},
           Selecting(Top) /\ Left(Top) > 1 /\ TopGoesOn(NextStep(Top)) =>
                conn.box \in {None, Top.box}
    PROVE  Inv3'
<1>1. conn'.up /\ conn'.box = conn.box
  BY ReadEffect DEF Inv3, Inv2
<1>2. session'.mbox = mbox
  BY UsedOpen DEF Inv3, Inv2
<1>3. SameBox
  BY <1>1 DEF SameBox
<1>4. SessionTrue'
  BY <1>1, <1>2 DEF Inv3, SessionTrue
<1> QED
  BY <1>1, <1>2, <1>3, <1>4, MovesMailbox

\* A reply to SELECT that is accepted means that the mailbox is selected.
LEMMA AcceptedSelect ==
    ASSUME Inv3, stack # <<>>, Top.waits, conn.up, Selecting(Top), Accepted
    PROVE  conn.box = Top.box
<1>1. Len(stack) \in 1..2 /\ Top = stack[Len(stack)] /\ conn.replies # <<>>
  BY TopOK DEF Inv3, Inv2
<1>2. conn.replies \in Seq(Replies)
  BY DEF Inv3, Inv2, Inv1, Typed, Connections
<1>3. Len(conn.replies) = 1 /\ conn.replies[1].ok
  BY <1>1, <1>2 DEF Accepted
<1>4. InMailbox(Top, conn, session)
  BY <1>1 DEF Inv3
<1> QED
  BY <1>3, <1>4 DEF InMailbox

\* Only a handler that is accepted goes on.
LEMMA Refused ==
    ASSUME Inv1, stack # <<>>, Fail, server' = server
    PROVE  ~TopGoesOn(NextStep(Top))
<1>1. Popped /\ Len(stack) \in Nat
  BY FailMoves DEF Inv1, StackOK
<1> QED
  BY <1>1 DEF Popped, TopGoesOn, Replaced

LEMMA Receive3 ==
    ASSUME Inv3, NEW s \in Commands \cup {"trySelect"}, Receive(s)
    PROVE  Inv3'
<1>1. Inv2' /\ Moves
  BY ReadSteps2 DEF Inv3
<1>2. /\ stack # <<>> /\ Top.waits /\ Todo = s /\ conn.up /\ Read /\ server' = server
      /\ Accepted \/ Fail
  BY HeardTop DEF Receive
<1>3. PICK mbox : mbox = IF s = "trySelect" /\ Accepted THEN Top.box
                         ELSE IF s = "close" THEN None ELSE session.mbox
  OBVIOUS
<1>4. Used(mbox)
  BY <1>3, Zenon DEF Receive
<1>5. CASE s = "trySelect"
  <2>1. Selecting(Top) /\ Top.op # "removeFolder"
    BY <1>2, <1>5, Selected3
  <2>2. Accepted => conn.box = Top.box
    BY <1>2, <2>1, AcceptedSelect
  <2>3. ~Accepted => ~TopGoesOn(NextStep(Top))
    BY <1>2, Refused DEF Inv3, Inv2
  <2>4. mbox \in {None, session.mbox} \/ mbox = conn.box
    BY <1>3, <1>5, <2>2
  <2> QED
    BY <1>1, <1>2, <1>4, <2>1, <2>2, <2>3, <2>4, ReadMailbox
<1>6. CASE s # "trySelect"
  <2>1. mbox \in {None, session.mbox}
    BY <1>3, <1>6
  <2>2. s # "select"
    BY DEF Receive
  <2>3. ~Selecting(Top)
    BY <1>2, <1>6, <2>2, SelectingTodo
  <2> QED
    BY <1>1, <1>2, <1>4, <2>1, <2>3, ReadMailbox
<1> QED
  BY <1>5, <1>6

LEMMA ReadSteps3 ==
    ASSUME Inv3, ReceiveFlags \/ ReceiveHeaders \/ ReceiveBody \/ ReceiveNoBody
    PROVE  Inv3'
<1>1. Inv2' /\ Moves
  BY ReadSteps2 DEF Inv3
<1>2. PICK s \in {"flags", "headers", "body", "fetch"} : Heard(s)
  BY DEF ReceiveFlags, ReceiveHeaders, ReceiveBody, ReceiveNoBody
<1>3. stack # <<>> /\ Top.waits /\ conn.up /\ ~Selecting(Top)
  BY <1>2, HeardTop, SelectingTodo
<1>4. Read /\ Used(session.mbox)
  BY DEF ReceiveFlags, ReceiveHeaders, ReceiveBody, ReceiveNoBody
<1> QED
  BY <1>1, <1>3, <1>4, ReadMailbox

LEMMA ReceiveNoop3 == ASSUME Inv3, ReceiveNoop PROVE Inv3'
<1>1. Inv2' /\ Moves
  BY ReceiveNoop2 DEF Inv3
<1>2. stack # <<>> /\ Top.waits /\ Todo = "session" /\ conn.up
  BY HeardTop DEF ReceiveNoop
<1>3. CASE Accepted
  <2>1. Read /\ Used(session.mbox)
    BY <1>3 DEF ReceiveNoop
  <2> QED
    BY <1>1, <1>2, <2>1, ReadMailbox, SelectingTodo
<1>4. CASE ~Accepted
  <2>1. Connect
    BY <1>4 DEF ReceiveNoop
  <2> QED
    BY <1>1, <1>2, <2>1, ConnectMailbox
<1> QED
  BY <1>3, <1>4

LEMMA HearNothing3 == ASSUME Inv3, HearNothing PROVE Inv3'
<1>1. Inv2' /\ Moves
  BY HearNothing2 DEF Inv3
<1>2. stack # <<>> /\ Top.waits
  BY DEF HearNothing
<1>3. CASE Todo = "session"
  <2>1. Connect
    BY <1>3 DEF HearNothing
  <2> QED
    BY <1>1, <1>2, <1>3, <2>1, ConnectMailbox
<1>4. CASE Todo # "session"
  <2>1. /\ Popped /\ conn'.up = conn.up /\ conn'.box = conn.box
        /\ session'.mbox \in {None, session.mbox}
    BY <1>4, GiveUp DEF Inv3, Inv2
  <2>2. SameBox /\ SessionTrue'
    BY <2>1 DEF SameBox, Inv3, SessionTrue
  <2> QED
    BY <1>1, <1>2, <2>1, <2>2, PoppedMailbox
<1> QED
  BY <1>3, <1>4

LEMMA ReceiveExists3 == ASSUME Inv3, ReceiveExists PROVE Inv3'
<1>1. /\ Inv2' /\ Top.op = "list" /\ Left(Top) = 3
      /\ Moves \/ (Accepted /\ TopGoesOn(OnlyHeaders(Top)))
      /\ ~Accepted => Popped
  BY ReceiveExists1, ReceiveExists2 DEF Inv3, Inv2
<1>2. /\ stack # <<>> /\ Top.waits /\ conn.up /\ Todo = "select" /\ Read
      /\ HandlerOK(Top, server)
  BY HeardTop, TopOK DEF ReceiveExists, Inv3, Inv2
<1>3. PICK mbox : mbox = IF Accepted THEN Top.box ELSE None
  OBVIOUS
<1>4. Used(mbox)
  BY <1>3 DEF ReceiveExists
<1>5. Accepted => conn.box = Top.box
  BY <1>2, AcceptedSelect, Selected3
<1>6. mbox = None \/ mbox = conn.box
  BY <1>3, <1>5
<1>7. CASE Moves
  <2>1. ~Accepted => ~TopGoesOn(NextStep(Top))
    <3>1. Len(stack) \in Nat
      BY DEF Inv3, Inv2, Inv1, StackOK
    <3> QED
      BY <1>1, <3>1 DEF Popped, TopGoesOn, Replaced
  <2> QED
    BY <1>1, <1>2, <1>4, <1>5, <1>6, <1>7, <2>1, ReadMailbox
<1>8. CASE Accepted /\ TopGoesOn(OnlyHeaders(Top))
  <2> DEFINE h == OnlyHeaders(Top)
  <2>1. Left(h) = 1 /\ h.op = "list" /\ h.box = Top.box /\ ~h.waits
    BY <1>1, <1>2, OnlyHeadersOK
  <2>2. Replaced(Len(stack), h)
    BY <1>8 DEF TopGoesOn
  <2> HIDE DEF h
  <2>3. /\ conn'.up /\ conn'.box = conn.box /\ session'.mbox = mbox
    BY <1>2, <1>4, ReadEffect, UsedOpen DEF Inv3, Inv2
  <2>4. SameBox /\ SessionTrue'
    BY <1>2, <1>6, <2>3 DEF SameBox, SessionTrue
  <2>5. InMailbox(h, conn', session')
    BY <1>5, <1>8, <2>1, <2>3 DEF InMailbox
  <2> QED
    BY <1>1, <1>2, <2>2, <2>4, <2>5, TopMailbox
<1> QED
  BY <1>1, <1>7, <1>8

LEMMA OtherSteps3 ==
    ASSUME Undisturbed, Inv3,
           \/ Offline \/ Time \/ Break \/ Crash
           \/ \E b \in Boxes : \/ \E m \in Msgs : Deliver(m, b)
                               \/ \E u \in Uids : Discard(b, u)
    PROVE  Inv3'
<1>1. Inv2'
  BY OtherSteps2 DEF Inv3
<1>2. \/ stack' = stack /\ session' = session /\ conn' = conn
      \/ stack' = stack /\ session' = session /\ conn' = NoConnection
      \/ stack' = <<>> /\ conn' = NoConnection
      \/ stack' = <<>> /\ conn' = conn /\ session' = [session EXCEPT !.fresh = FALSE]
  BY DEF Undisturbed, Offline, Time, Break, Crash, Deliver, Discard
<1>3. CASE stack' = stack /\ session' = session /\ conn' = conn
  BY <1>1, <1>3 DEF Inv3, SessionTrue
<1>4. CASE stack' = stack /\ session' = session /\ conn' = NoConnection
  <2>1. ~conn'.up
    BY <1>4, NothingConnected
  <2>2. \A i \in 1..Len(stack') : InMailbox(stack'[i], conn', session')
    BY <1>4, <2>1 DEF Inv3, InMailbox
  <2> QED
    BY <1>1, <2>1, <2>2 DEF Inv3, SessionTrue
<1>5. CASE stack' = <<>> /\ conn' = NoConnection
  BY <1>1, <1>5, NothingConnected DEF Inv3, SessionTrue
<1>6. CASE stack' = <<>> /\ conn' = conn /\ session' = [session EXCEPT !.fresh = FALSE]
  <2>1. session'.mbox = session.mbox
    BY <1>6 DEF Inv3, Inv2, Inv1, Typed, Sessions
  <2>2. SessionTrue'
    BY <1>6, <2>1 DEF Inv3, SessionTrue
  <2> QED
    BY <1>1, <1>6, <2>2 DEF Inv3
<1> QED
  BY <1>2, <1>3, <1>4, <1>5, <1>6

LEMMA BodyBegins3 ==
    ASSUME Inv3, NEW i \in DOMAIN stack, BodyBegins(i)
    PROVE  Inv3'
<1>1. Inv2'
  BY BodyBegins2 DEF Inv3
<1> DEFINE h == WithBody(stack[i])
<1>2. /\ i \in 1..Len(stack) /\ stack[i].waits /\ HandlerOK(stack[i], server)
      /\ Head(stack[i].todo) = "fetch" /\ session' = session /\ conn' = conn
      /\ Len(stack') = Len(stack) /\ stack'[i] = h
      /\ \A j \in 1..Len(stack) : j # i => stack'[j] = stack[j]
  BY BodyEffect DEF Inv3, Inv2, BodyBegins, Replaced
<1>3. /\ h.waits /\ Left(h) = Left(stack[i]) /\ h.op = stack[i].op /\ h.box = stack[i].box
  BY <1>2, WithBodyOK
<1> HIDE DEF h
<1>4. Needs(h) = Needs(stack[i]) /\ Selecting(h) = Selecting(stack[i])
  BY <1>3 DEF Needs, Selecting, Step
<1>5. InMailbox(h, conn, session)
  BY <1>2, <1>3, <1>4 DEF Inv3, InMailbox
<1>6. \A j \in 1..Len(stack') : InMailbox(stack'[j], conn', session')
  BY <1>2, <1>5 DEF Inv3
<1> QED
  BY <1>1, <1>2, <1>6 DEF Inv3, SessionTrue

LEMMA Start3 ==
    ASSUME Inv3, Undisturbed, FoldersStay, NEW f \in Requests, Sensible(f), Start(f)
    PROVE  Inv3'
<1>1. Inv2'
  BY Start2 DEF Inv3
<1>2. /\ conn' = conn /\ session' = session /\ Len(stack) \in 0..1
      /\ stack' = stack \/ (PlanOf(f) # <<>> /\ Pushed(Begun(f)))
  BY StartEffect DEF Inv3, Inv2
<1>3. SessionTrue'
  BY <1>2 DEF Inv3, SessionTrue
<1>4. CASE stack' = stack
  BY <1>1, <1>2, <1>3, <1>4 DEF Inv3
<1>5. CASE PlanOf(f) # <<>> /\ Pushed(Begun(f))
  <2>1. PICK h : h = Begun(f)
    OBVIOUS
  <2>2. HandlerOK(h, server) /\ Begins(h) /\ ~h.waits /\ h.op = f.op
    BY <1>5, <2>1, BegunOK DEF Inv3, Inv2
  <2>3. ~Needs(h)
    BY <2>2, NeedsSteps
  <2>4. h.op = "removeFolder" => session.mbox \in {None, INBOX}
    BY <2>2 DEF Start, FoldersStay
  <2>5. InMailbox(h, conn, session)
    BY <2>2, <2>3, <2>4 DEF InMailbox
  <2>6. /\ Len(stack') = Len(stack) + 1 /\ stack'[Len(stack')] = h
        /\ \A i \in 1..Len(stack) : stack'[i] = stack[i]
    BY <1>5, <2>1 DEF Pushed
  <2>7. \A i \in 1..Len(stack') : i = Len(stack') \/ i \in 1..Len(stack)
    BY <1>2, <2>6
  <2>8. \A i \in 1..Len(stack') : InMailbox(stack'[i], conn', session')
    BY <1>2, <2>5, <2>6, <2>7 DEF Inv3
  <2> QED
    BY <1>1, <1>3, <2>8 DEF Inv3
<1> QED
  BY <1>2, <1>4, <1>5


\* A command is sent: only SELECT and EXAMINE choose another mailbox.
LEMMA Send3 == ASSUME Inv3, Send PROVE Inv3'
<1>1. Inv2'
  BY Send2 DEF Inv3
<1>2. /\ stack # <<>> /\ ~Top.waits /\ ~Running /\ Todo = Step(Top)
      /\ Replaced(Len(stack), Waiting(Top)) /\ session'.mbox = MboxWhileAsking(Todo)
      /\ \/ ~conn.up /\ conn' = conn
         \/ \E ok \in BOOLEAN : SentAs(ok)
  BY SendEffect DEF Inv3, Inv2
<1>3. /\ Len(stack) \in 1..2 /\ Top = stack[Len(stack)] /\ HandlerOK(Top, server)
      /\ Top.op \in Ops /\ Left(Top) \in 1..Len(Plan[Top.op]) /\ Left(Top) \in Nat
  BY <1>2, TopOK DEF Inv3, Inv2
<1>4. InMailbox(Top, conn, session)
  BY <1>3 DEF Inv3
<1>5. Todo = "examine" => Top.op = "removeFolder" /\ Left(Top) = 2
  BY <1>2, <1>3, WhoDoes DEF Step
<1>6. Selecting(Top) <=> Todo \in {"select", "trySelect"}
  BY <1>2 DEF Selecting
<1> DEFINE h == Waiting(Top)
<1>7. Left(h) = Left(Top) /\ h.op = Top.op /\ h.box = Top.box
  BY <1>3, WaitingOK
<1>8. Step(h) = Step(Top) /\ Selecting(h) = Selecting(Top) /\ Needs(h) = Needs(Top)
  BY <1>7 DEF Step, Selecting, Needs
<1> HIDE DEF h
<1>9. h.op = "removeFolder" /\ Left(h) >= 2 => session'.mbox \in {None, INBOX}
  BY <1>2, <1>4, <1>7 DEF InMailbox, MboxWhileAsking
<1>10. CASE ~conn.up /\ conn' = conn
  <2>1. SameBox /\ SessionTrue' /\ InMailbox(h, conn', session')
    BY <1>9, <1>10 DEF SameBox, SessionTrue, InMailbox
  <2> QED
    BY <1>1, <1>2, <2>1, TopMailbox DEF h
<1>11. ASSUME NEW ok \in BOOLEAN, SentAs(ok)
       PROVE  Inv3'
  <2> DEFINE r == Reply(server, conn, CommandOf(Todo), Top, ok)
  <2>1. /\ conn'.up /\ conn'.replies = Append(conn.replies, r) /\ r.ok = ok
        /\ conn'.box = (IF Todo \in {"select", "trySelect"} THEN IF ok THEN Top.box ELSE None
                        ELSE IF Todo = "examine" /\ ok THEN INBOX
                        ELSE IF Todo = "close" /\ ok THEN None ELSE conn.box)
    BY <1>11, AnsweredEffect DEF Inv3, Inv2
  <2> HIDE DEF r
  <2>2. conn.up
    BY <1>11 DEF SentAs
  <2>3. Len(conn'.replies) = 1 /\ conn'.replies[1].ok => ok
    <3>1. conn.replies \in Seq(Replies)
      BY DEF Inv3, Inv2, Inv1, Typed, Connections
    <3>2. Len(conn'.replies) = 1 => conn'.replies[1] = r
      BY <2>1, <3>1
    <3> QED
      BY <2>1, <3>2
  <2>4. CASE Selecting(Top)
    <3>1. /\ session'.mbox = None /\ conn'.box \in {None, Top.box} /\ (ok => conn'.box = Top.box)
      BY <1>2, <1>6, <2>1, <2>4 DEF MboxWhileAsking
    <3>2. SessionTrue' /\ InMailbox(h, conn', session')
      BY <1>7, <1>9, <2>3, <3>1 DEF SessionTrue, InMailbox
    <3> QED
      BY <1>1, <1>2, <2>4, <3>1, <3>2, TopMailbox DEF h
  <2>5. CASE ~Selecting(Top) /\ Todo # "examine"
    <3>1. session'.mbox = session.mbox /\ conn'.box \in {None, conn.box}
      BY <1>2, <1>6, <2>1, <2>5 DEF MboxWhileAsking
    <3>2. SameBox /\ SessionTrue'
      BY <2>2, <3>1 DEF SameBox, Inv3, SessionTrue
    <3>3. InMailbox(h, conn', session')
      BY <1>4, <1>7, <1>8, <1>9, <2>2, <2>5, <3>1 DEF InMailbox
    <3> QED
      BY <1>1, <1>2, <3>2, <3>3, TopMailbox DEF h
  <2>6. CASE Todo = "examine"
    <3>1. Top.op = "removeFolder" /\ Len(stack) = 1 /\ ~Selecting(Top) /\ ~Needs(Top)
      <4>1. Top.op = "removeFolder" /\ ~Selecting(Top)
        BY <1>5, <1>6, <2>6
      <4>2. Len(stack) # 2
        BY <1>2, <4>1, TwoHandlers DEF Inv3, Inv2
      <4>3. ~Needs(Top)
        BY <1>2, <1>3, <2>6, NeedsSteps
      <4> QED
        BY <1>3, <4>1, <4>2, <4>3
    <3>2. session'.mbox = session.mbox /\ session.mbox \in {None, INBOX}
      BY <1>2, <1>4, <1>5, <2>6 DEF MboxWhileAsking, InMailbox
    <3>3. conn'.box \in {INBOX, conn.box}
      BY <2>1, <2>6
    <3>4. SessionTrue'
      BY <2>2, <3>2, <3>3 DEF Inv3, SessionTrue
    <3>5. InMailbox(h, conn', session')
      BY <1>7, <1>8, <1>9, <3>1 DEF InMailbox
    <3>6. Len(stack') = 1 /\ stack'[1] = h
      BY <1>2, <3>1 DEF Replaced, h
    <3>7. \A i \in 1..Len(stack') : InMailbox(stack'[i], conn', session')
      BY <3>5, <3>6
    <3> QED
      BY <1>1, <3>4, <3>7 DEF Inv3
  <2> QED
    BY <2>4, <2>5, <2>6
<1> QED
  BY <1>2, <1>10, <1>11

LEMMA Init3 == ASSUME Init PROVE Inv3
<1>1. Inv2 /\ stack = <<>> /\ (conn.up => conn.box = session.mbox)
  BY Init2, InitEffect
<1>2. Len(stack) = 0
  BY <1>1
<1> QED
  BY <1>1, <1>2 DEF Inv3, SessionTrue

LEMMA Step3 ==
    ASSUME Undisturbed, FoldersStay, Inv3, [Next]_vars
    PROVE  Inv3'
<1>1. CASE UNCHANGED vars
  <2>1. Inv2'
    BY <1>1, Step2 DEF Inv3
  <2>2. stack' = stack /\ conn' = conn /\ session' = session
    BY <1>1 DEF vars
  <2> QED
    BY <2>1, <2>2 DEF Inv3, SessionTrue
<1>2. CASE PassUi \/ SelectAgain \/ CopyFile \/ Forget \/ Unlink
  BY <1>2, PlainSteps3, SelectAgain3
<1>3. CASE \/ ReceiveFlags \/ ReceiveHeaders \/ ReceiveBody \/ ReceiveNoBody
           \/ \E s \in Commands \cup {"trySelect"} : Receive(s)
  BY <1>3, ReadSteps3, Receive3
<1>4. CASE GetSession \/ ReceiveNoop \/ HearNothing \/ ReceiveExists \/ Send
  BY <1>4, GetSession3, ReceiveNoop3, HearNothing3, ReceiveExists3, Send3
<1>5. CASE \E i \in DOMAIN stack : BodyBegins(i)
  BY <1>5, BodyBegins3
<1>6. CASE \/ Offline \/ Time \/ Break \/ Crash
           \/ \E b \in Boxes : \/ \E m \in Msgs : Deliver(m, b)
                               \/ \E u \in Uids : Discard(b, u)
  BY <1>6, OtherSteps3
<1>7. CASE \E f \in Requests : Sensible(f) /\ Start(f)
  BY <1>7, Start3
<1> QED
  BY <1>1, <1>2, <1>3, <1>4, <1>5, <1>6, <1>7 DEF Next

LEMMA MailboxOf == ASSUME Inv3 PROVE RightMailbox
<1>1. SUFFICES ASSUME stack # <<>>, Todo \in UidCommands, conn.up
               PROVE  conn.box \in {None, Top.box}
  BY DEF RightMailbox
<1>2. /\ Top = stack[Len(stack)] /\ Len(stack) \in 1..2 /\ HandlerOK(Top, server)
      /\ (Todo # "body" => Todo = Step(Top))
  BY <1>1, TopOK DEF Inv3, Inv2
<1>3. Needs(Top)
  BY <1>1, <1>2, NeedsSteps DEF UidCommands
<1>4. InMailbox(Top, conn, session)
  BY <1>2 DEF Inv3
<1> QED
  BY <1>1, <1>3, <1>4 DEF InMailbox

\* A command that names messages by their unique ids, or removes what was marked,
\* is sent only when the server has its mailbox selected, or none (imap_select and
\* session->mbox), over all reconnections, refusals, commands that were given up,
\* bodies that could not be written, and handlers inside of others, if these leave
\* the outer one its mailbox and its session and no folder that is selected goes.
THEOREM MailboxIsRight == ASSUME Undisturbed, FoldersStay PROVE Spec => []RightMailbox
<1>1. Init => Inv3
  BY Init3
<1>2. Inv3 /\ [Next]_vars => Inv3'
  BY Step3
<1>3. Inv3 => RightMailbox
  BY MailboxOf
<1> QED
  BY <1>1, <1>2, <1>3, PTL DEF Spec

-----------------------------------------------------------------------------
\* The fourth part of the invariant: whose the replies are that are to be read.

Fetches(h) == Step(h) = "fetch"

InTurn(h, c, srv) ==
    /\ h.waits /\ c.up /\ Step(h) # "session" => Len(c.replies) = 1
    /\ h.waits /\ c.up /\ Fetches(h) =>
          \/ c.replies[1].body = None /\ h.todo[1] = "fetch"
          \/ \A u \in h.uids : c.replies[1].body = srv.mail[h.box][u]

\* The reply to a command that was given up waits only for the NOOP of the next
\* handler that asks for the session.
Stale ==
    conn.up /\ ~Running /\ conn.replies # <<>> =>
        ~session.fresh /\ (stack = <<>> \/ (Len(stack) = 1 /\ Begins(stack[1])))

Inv4 == Inv3 /\ Stale /\ \A i \in 1..Len(stack) : InTurn(stack[i], conn, server)

InTime == "late reply" \notin Hazards

LEMMA SameMail ==
    ASSUME NEW h, NEW s, NEW t, HandlerOK(h, s), Grown(s, t)
    PROVE  \A u \in h.uids : t.mail[h.box][u] = s.mail[h.box][u] /\ u \in DOMAIN t.mail[h.box]
<1>1. h.box \in Boxes /\ h.uids \subseteq DOMAIN s.mail[h.box]
  BY DEF HandlerOK, Handlers
<1> QED
  BY <1>1 DEF Grown

\* The handlers other than i are as they were, and what they wait for too.
LEMMA OthersTurn ==
    ASSUME Inv4, NEW i \in 1..Len(stack), Grown(server, server'),
           stack[i].waits => conn' = conn \/ ~conn'.up
    PROVE  InTurn(stack[i], conn', server')
<1>1. HandlerOK(stack[i], server) /\ InTurn(stack[i], conn, server)
  BY DEF Inv4, Inv3, Inv2, Inv1, StackOK
<1>2. \A u \in stack[i].uids : server'.mail[stack[i].box][u] = server.mail[stack[i].box][u]
  BY <1>1, SameMail
<1> QED
  BY <1>1, <1>2 DEF InTurn

LEMMA MovesTurn ==
    ASSUME Inv4, Inv3', Stale', stack # <<>>, server' = server,
           Popped \/ (\E h : TopGoesOn(h)), Top.waits \/ conn' = conn \/ ~Running
    PROVE  Inv4'
<1>1. /\ Len(stack) \in 1..2 /\ Len(stack) \in Nat /\ Top = stack[Len(stack)]
      /\ DOMAIN stack = 1..Len(stack) /\ Grown(server, server')
      /\ \A i, j \in 1..Len(stack) : stack[i].waits /\ stack[j].waits => i = j
  BY TopOK DEF Inv4, Inv3, Inv2, Inv1, StackOK, Grown
<1>2. ASSUME NEW i \in 1..Len(stack), i # Len(stack)
      PROVE  InTurn(stack[i], conn', server')
  <2>1. stack[i].waits => ~Top.waits /\ Running
    <3>1. Len(stack) \in 1..Len(stack)
      BY <1>1
    <3> QED
      BY <1>1, <1>2, <3>1 DEF Running
  <2> QED
    BY <1>1, <2>1, OthersTurn
<1>3. CASE Popped
  <2>1. /\ Len(stack') = Len(stack) - 1 /\ Len(stack') \in Nat
        /\ \A i \in 1..Len(stack') : stack'[i] = stack[i]
    BY <1>3 DEF Popped
  <2>2. \A i \in 1..Len(stack') : i \in 1..Len(stack) /\ i # Len(stack)
    BY <1>1, <2>1, Below
  <2>3. \A i \in 1..Len(stack') : InTurn(stack'[i], conn', server')
    BY <1>2, <2>1, <2>2
  <2> QED
    BY <2>3 DEF Inv4
<1>4. ASSUME NEW h, TopGoesOn(h)
      PROVE  Inv4'
  <2>1. /\ Len(stack') = Len(stack) /\ stack'[Len(stack)] = h /\ ~h.waits
        /\ \A i \in 1..Len(stack) : i # Len(stack) => stack'[i] = stack[i]
    BY <1>4 DEF TopGoesOn, Replaced
  <2>2. InTurn(h, conn', server')
    BY <2>1 DEF InTurn
  <2>3. \A i \in 1..Len(stack') : InTurn(stack'[i], conn', server')
    BY <1>2, <2>1, <2>2
  <2> QED
    BY <2>3 DEF Inv4
<1> QED
  BY <1>3, <1>4

LEMMA MovesIs ==
    ASSUME Moves
    PROVE  Popped \/ (\E h : TopGoesOn(h))
BY DEF Moves

\* Nothing is left to be read.
LEMMA NothingLeft ==
    ASSUME conn'.replies = <<>> \/ ~conn'.up
    PROVE  Stale'
BY DEF Stale

\* A handler that has begun finds no reply of another one.
LEMMA CleanReplies ==
    ASSUME Inv4, stack # <<>>, ~Running, ~Begins(Top) \/ Len(stack) = 2 \/ session.fresh, conn.up
    PROVE  conn.replies = <<>>
<1>1. Len(stack) = 1 => Top = stack[1]
  BY TopOK DEF Inv4, Inv3, Inv2
<1> QED
  BY <1>1 DEF Inv4, Stale

LEMMA PlainSteps4 ==
    ASSUME Inv4, PassUi \/ SelectAgain \/ CopyFile \/ Forget \/ Unlink
    PROVE  Inv4'
<1>1. Inv3' /\ Moves /\ UNCHANGED <<server, conn, session>>
  BY PlainSteps2, PlainSteps3, SelectAgain3
     DEF Inv4, Inv3, PassUi, SelectAgain, CopyFile, Forget, Unlink
<1>2. PICK s \in {"ui", "trySelect", "copyFile", "forget", "unlink"} : At(s)
  BY DEF PassUi, SelectAgain, CopyFile, Forget, Unlink
<1>3. stack # <<>> /\ ~Top.waits /\ Step(Top) = s
  BY <1>2, AtTop, StepIs DEF Inv4, Inv3, Inv2
<1>4. /\ Len(stack) \in 1..2 /\ Len(stack) \in Nat /\ Top = stack[Len(stack)]
      /\ HandlerOK(Top, server) /\ Left(Top) \in Nat
  BY <1>3, TopOK DEF Inv4, Inv3, Inv2
<1>5. Running' <=> Running
  <2>1. Grown(server, server')
    BY <1>1 DEF Grown
  <2> QED
    BY <1>1, <1>3, <2>1, MovesIs, StackMoves DEF Inv4, Inv3, Inv2, Inv1
<1>6. Stale'
  <2>1. SUFFICES ASSUME conn.up, ~Running, conn.replies # <<>>
                 PROVE  ~session.fresh /\ (stack' = <<>> \/ (Len(stack') = 1 /\ Begins(stack'[1])))
    BY <1>1, <1>5 DEF Stale
  <2>2. Len(stack) = 1 /\ Begins(Top) /\ ~session.fresh
    <3>1. ~(~Begins(Top) \/ Len(stack) = 2 \/ session.fresh)
      BY <1>3, <2>1, CleanReplies
    <3> QED
      BY <1>3, <3>1, OneHandler DEF Inv4, Inv3, Inv2
  <2>3. CASE Popped
    <3>1. Len(stack') = 0 /\ stack' \in Seq(Handlers)
      BY <1>4, <2>2, <2>3 DEF Popped
    <3>2. stack' = <<>>
      BY <3>1
    <3> QED
      BY <2>2, <3>2
  <2>4. CASE Left(Top) > 1 /\ TopGoesOn(NextStep(Top))
    <3>1. Top.op = "moveOut" /\ Left(Top) = 9
      BY <1>3, <1>4, <2>2, BeginsAt
    <3>2. Left(NextStep(Top)) = Left(Top) - 1 /\ NextStep(Top).op = Top.op
      <4>1. Top \in Handlers /\ Fits(Top)
        BY <1>4 DEF HandlerOK
      <4> QED
        BY <2>4, <4>1, NextFits
    <3>3. Left(NextStep(Top)) = 8 /\ NextStep(Top).op = "moveOut"
      BY <3>1, <3>2
    <3>4. Len(stack') = 1 /\ stack'[1] = NextStep(Top)
      BY <2>2, <2>4 DEF TopGoesOn, Replaced
    <3>5. Begins(stack'[1])
      BY <3>3, <3>4 DEF Begins
    <3> QED
      BY <2>2, <3>4, <3>5
  <2> QED
    BY <1>1, <2>3, <2>4 DEF Moves
<1> QED
  BY <1>1, <1>3, <1>6, MovesIs, MovesTurn

LEMMA ConnectTurn ==
    ASSUME Inv4, Inv3', stack # <<>>, Moves, Connect, server' = server, Top.waits \/ ~session.open
    PROVE  Inv4'
<1>1. conn'.replies = <<>>
  BY ConnectEffect DEF Inv4, Inv3, Inv2
<1>2. Top.waits \/ ~Running
  BY DEF Inv4, Inv3, Inv2, Inv1, RepliesOK
<1> QED
  BY <1>1, <1>2, NothingLeft, MovesIs, MovesTurn

LEMMA GetSession4 == ASSUME Inv4, GetSession PROVE Inv4'
<1>1. Inv3' /\ Moves
  BY GetSession2, GetSession3 DEF Inv4, Inv3
<1>2. stack # <<>> /\ ~Top.waits /\ server' = server
  BY AtTop DEF GetSession
<1>3. CASE ~session.open /\ Connect
  BY <1>1, <1>2, <1>3, ConnectTurn
<1>4. CASE Running /\ conn' = conn
  <2>1. Running'
    <3>1. Grown(server, server')
      BY <1>2 DEF Grown
    <3> QED
      BY <1>1, <1>2, <1>4, <3>1, MovesIs, StackMoves DEF Inv4, Inv3, Inv2, Inv1
  <2>2. Stale'
    BY <2>1 DEF Stale
  <2> QED
    BY <1>1, <1>2, <1>4, <2>2, MovesIs, MovesTurn
<1>5. CASE ~Running /\ session.fresh /\ conn' = conn
  <2>1. Stale'
    BY <1>2, <1>5, CleanReplies, NothingLeft
  <2> QED
    BY <1>1, <1>2, <1>5, <2>1, MovesIs, MovesTurn
<1> QED
  BY <1>3, <1>4, <1>5 DEF GetSession

\* The only reply that waits is read.
LEMMA ReadTurn ==
    ASSUME Inv4, Inv3', stack # <<>>, Top.waits, conn.up, Read, server' = server,
           Popped \/ (\E h : TopGoesOn(h)), Todo # "session" \/ Len(conn.replies) = 1
    PROVE  Inv4'
<1>1. /\ Top = stack[Len(stack)] /\ Len(stack) \in 1..2
      /\ Todo # "body" => Todo = Step(Top)
      /\ Todo = "body" => Step(Top) = "fetch"
  BY TopOK DEF Inv4, Inv3, Inv2
<1>2. InTurn(Top, conn, server)
  BY <1>1 DEF Inv4
<1>3. Len(conn.replies) = 1
  BY <1>1, <1>2 DEF InTurn
<1>4. /\ Len(conn'.replies) = 0 /\ conn' \in Connections
  BY <1>3, ReadEffect DEF Inv4, Inv3, Inv2
<1>5. conn'.replies = <<>>
  BY <1>4 DEF Connections
<1> QED
  BY <1>5, NothingLeft, MovesTurn

LEMMA ReadSteps4 ==
    ASSUME Inv4,
           \/ ReceiveFlags \/ ReceiveHeaders \/ ReceiveBody \/ ReceiveNoBody
           \/ \E s \in Commands \cup {"trySelect"} : Receive(s)
    PROVE  Inv4'
<1>1. Inv3' /\ Moves
  BY ReadSteps2, ReadSteps3, Receive3 DEF Inv4, Inv3
<1>2. /\ stack # <<>> /\ Top.waits /\ conn.up /\ Todo # "session"
      /\ Read /\ server' = server
  BY HeardTop DEF ReceiveFlags, ReceiveHeaders, ReceiveBody, ReceiveNoBody, Receive,
     Commands, UidCommands
<1> QED
  BY <1>1, <1>2, MovesIs, ReadTurn

LEMMA ReceiveExists4 == ASSUME Inv4, ReceiveExists PROVE Inv4'
<1>1. /\ Inv3' /\ (Popped \/ (\E h : TopGoesOn(h)))
  BY ReceiveExists1, ReceiveExists3, MovesIs DEF Inv4, Inv3, Inv2
<1>2. stack # <<>> /\ Top.waits /\ conn.up /\ Todo = "select" /\ Read /\ server' = server
  BY HeardTop DEF ReceiveExists
<1> QED
  BY <1>1, <1>2, ReadTurn

LEMMA ReceiveNoop4 == ASSUME Inv4, ReceiveNoop PROVE Inv4'
<1>1. Inv3' /\ Moves
  BY ReceiveNoop2, ReceiveNoop3 DEF Inv4, Inv3
<1>2. stack # <<>> /\ Top.waits /\ Todo = "session" /\ conn.up /\ server' = server
  BY HeardTop DEF ReceiveNoop
<1>3. CASE Accepted
  <2>1. Read /\ Len(conn.replies) = 1
    BY <1>3 DEF ReceiveNoop, Accepted
  <2> QED
    BY <1>1, <1>2, <2>1, MovesIs, ReadTurn
<1>4. CASE ~Accepted
  <2>1. Connect
    BY <1>4 DEF ReceiveNoop
  <2> QED
    BY <1>1, <1>2, <2>1, ConnectTurn
<1> QED
  BY <1>3, <1>4

LEMMA HearNothing4 == ASSUME InTime, Inv4, HearNothing PROVE Inv4'
<1>1. Inv3' /\ Moves
  BY HearNothing2, HearNothing3 DEF Inv4, Inv3
<1>2. stack # <<>> /\ Top.waits /\ server' = server
  BY DEF HearNothing
<1>3. CASE Todo = "session"
  <2>1. Connect
    BY <1>3 DEF HearNothing
  <2> QED
    BY <1>1, <1>2, <2>1, ConnectTurn
<1>4. CASE Todo # "session"
  <2>1. /\ Popped /\ conn'.up = conn.up /\ (conn.up => ~session'.fresh /\ Len(stack) = 1)
    BY <1>4, GiveUp DEF Inv4, Inv3, Inv2, InTime
  <2>2. Stale'
    <3>1. Len(stack) = 1 => stack' = <<>>
      <4>1. Len(stack) = 1 => Len(stack') = 0 /\ stack' \in Seq(Handlers)
        BY <2>1 DEF Popped
      <4> QED
        BY <4>1
    <3> QED
      BY <2>1, <3>1 DEF Stale
  <2> QED
    BY <1>1, <1>2, <2>2, MovesIs, MovesTurn
<1> QED
  BY <1>3, <1>4


LEMMA OtherSteps4 ==
    ASSUME Undisturbed, Inv4,
           \/ Offline \/ Time \/ Break \/ Crash
           \/ \E b \in Boxes : \/ \E m \in Msgs : Deliver(m, b)
                               \/ \E u \in Uids : Discard(b, u)
    PROVE  Inv4'
<1>1. Inv3'
  BY OtherSteps3 DEF Inv4
<1>2. CASE stack' = <<>>
  <2>1. \/ conn' = NoConnection
        \/ conn' = conn /\ stack = <<>> /\ session' = [session EXCEPT !.fresh = FALSE]
        \/ conn' = conn /\ stack = <<>> /\ session' = session
    BY <1>2 DEF Undisturbed, Offline, Time, Break, Crash, Deliver, Discard
  <2>2. Stale'
    <3>1. CASE conn' = NoConnection
      BY <3>1, NothingConnected, NothingLeft
    <3>2. CASE /\ conn' = conn /\ stack = <<>>
               /\ session' = [session EXCEPT !.fresh = FALSE] \/ session' = session
      <4>1. session'.fresh = FALSE \/ session'.fresh = session.fresh
        BY <3>2 DEF Inv4, Inv3, Inv2, Inv1, Typed, Sessions
      <4>2. ~Running
        BY <3>2, EmptyStack
      <4> QED
        BY <1>2, <3>2, <4>1, <4>2 DEF Inv4, Stale
    <3> QED
      BY <2>1, <3>1, <3>2
  <2>3. Len(stack') = 0
    BY <1>2
  <2> QED
    BY <1>1, <2>2, <2>3 DEF Inv4
<1>3. CASE stack' = stack /\ stack # <<>>
  <2>1. \/ conn' = NoConnection /\ session' = session /\ server' = server
        \/ UNCHANGED <<conn, session, server>>
        \/ /\ UNCHANGED <<conn, session>>
           /\ \E b \in Boxes : \/ \E m \in Msgs : Deliver(m, b)
                               \/ \E u \in Uids : Discard(b, u)
    BY <1>3 DEF Undisturbed, Offline, Time, Break, Crash, Deliver, Discard
  <2>2. Grown(server, server')
    <3>1. CASE server' = server
      BY <3>1 DEF Grown
    <3>2. CASE \E b \in Boxes : \/ \E m \in Msgs : Deliver(m, b)
                               \/ \E u \in Uids : Discard(b, u)
      BY <3>2, Deliver1, DiscardEffect DEF Grown, Inv4, Inv3, Inv2
    <3> QED
      BY <2>1, <3>1, <3>2
  <2>3. conn' = conn \/ ~conn'.up
    BY <2>1, NothingConnected
  <2>4. Stale'
    BY <1>3, <2>1, NothingConnected DEF Inv4, Stale, Running
  <2>5. \A i \in 1..Len(stack') : InTurn(stack'[i], conn', server')
    BY <1>3, <2>2, <2>3, OthersTurn
  <2> QED
    BY <1>1, <2>4, <2>5 DEF Inv4
<1>4. stack' = stack \/ stack' = <<>>
  BY DEF Undisturbed, Offline, Time, Break, Crash, Deliver, Discard
<1> QED
  BY <1>2, <1>3, <1>4

LEMMA BodyBegins4 ==
    ASSUME Inv4, NEW i \in DOMAIN stack, BodyBegins(i)
    PROVE  Inv4'
<1>1. Inv3'
  BY BodyBegins3 DEF Inv4
<1> DEFINE h == WithBody(stack[i])
<1>2. /\ i \in 1..Len(stack) /\ stack[i].waits /\ conn.up /\ HandlerOK(stack[i], server)
      /\ Head(stack[i].todo) = "fetch" /\ conn.replies[1].body # None
      /\ UNCHANGED <<server, conn, session>>
      /\ Len(stack') = Len(stack) /\ stack'[i] = h /\ Step(stack[i]) = "fetch"
      /\ \A j \in 1..Len(stack) : j # i => stack'[j] = stack[j]
  BY BodyEffect DEF Inv4, Inv3, Inv2, BodyBegins, Replaced
<1>3. /\ h.waits /\ Left(h) = Left(stack[i]) /\ h.op = stack[i].op /\ h.box = stack[i].box
      /\ h.uids = stack[i].uids
  BY <1>2, WithBodyOK
<1> HIDE DEF h
<1>4. Step(h) = Step(stack[i])
  BY <1>3 DEF Step
<1>5. InTurn(h, conn, server)
  BY <1>2, <1>3, <1>4 DEF Inv4, InTurn, Fetches
<1>6. \A j \in 1..Len(stack') : InTurn(stack'[j], conn', server')
  BY <1>2, <1>5 DEF Inv4
<1>7. Running'
  BY <1>1, <1>2, <1>3 DEF Running, Inv3, Inv2, Inv1, StackOK
<1> QED
  BY <1>1, <1>6, <1>7 DEF Inv4, Stale

LEMMA Start4 ==
    ASSUME Inv4, Undisturbed, FoldersStay, NEW f \in Requests, Sensible(f), Start(f)
    PROVE  Inv4'
<1>1. Inv3'
  BY Start3 DEF Inv4
<1>2. /\ UNCHANGED <<server, conn, session>> /\ Len(stack) \in 0..1
      /\ stack' = stack \/ (PlanOf(f) # <<>> /\ Pushed(Begun(f)))
  BY StartEffect DEF Inv4, Inv3, Inv2
<1>3. CASE stack' = stack
  BY <1>1, <1>2, <1>3 DEF Inv4, Stale, Running
<1>4. CASE PlanOf(f) # <<>> /\ Pushed(Begun(f))
  <2>1. PICK h : h = Begun(f)
    OBVIOUS
  <2>2. HandlerOK(h, server) /\ Begins(h) /\ ~h.waits
    BY <1>4, <2>1, BegunOK DEF Inv4, Inv3, Inv2
  <2>3. /\ Len(stack') = Len(stack) + 1 /\ stack'[Len(stack')] = h
        /\ \A i \in 1..Len(stack) : stack'[i] = stack[i]
        /\ DOMAIN stack = 1..Len(stack) /\ DOMAIN stack' = 1..Len(stack')
    BY <1>4, <2>1 DEF Pushed, Inv4, Inv3, Inv2, Inv1, StackOK
  <2>4. /\ \A i \in 1..Len(stack') : i = Len(stack') \/ i \in 1..Len(stack)
        /\ \A i \in 1..Len(stack) : i \in 1..Len(stack')
    BY <1>2, <2>3
  <2>5. InTurn(h, conn, server)
    BY <2>2 DEF InTurn
  <2>6. \A i \in 1..Len(stack') : InTurn(stack'[i], conn', server')
    BY <1>2, <2>3, <2>4, <2>5 DEF Inv4
  <2>7. Stale'
    <3>1. SUFFICES ASSUME conn.up, ~Running', conn.replies # <<>>
                   PROVE  ~session.fresh /\ Len(stack') = 1 /\ Begins(stack'[1])
      BY <1>2 DEF Stale
    <3>2. ~Running
      BY <2>3, <2>4, <3>1 DEF Running
    <3>3. ~session.fresh /\ (stack = <<>> \/ (Len(stack) = 1 /\ Begins(stack[1])))
      BY <3>1, <3>2 DEF Inv4, Stale
    <3>4. CASE stack = <<>>
      <4>1. Len(stack') = 1 /\ stack'[1] = h
        BY <2>3, <3>4
      <4> QED
        BY <2>2, <3>3, <4>1
    <3>5. CASE Len(stack) = 1 /\ Begins(stack[1]) /\ stack # <<>>
      <4>1. Top = stack[1] /\ Len(stack) \in 1..2
        BY <3>5, TopOK DEF Inv4, Inv3, Inv2
      <4>2. ~Top.waits
        BY <2>3, <3>2, <3>5, <4>1 DEF Running
      <4>3. At("ui")
        BY <3>5, <4>2 DEF Start, MayStart
      <4>4. Step(Top) = "ui" /\ HandlerOK(Top, server)
        BY <3>5, <4>3, StepIs, TopOK DEF Inv4, Inv3, Inv2
      <4> QED
        BY <3>5, <4>1, <4>4, InUi
    <3> QED
      BY <3>3, <3>4, <3>5
  <2> QED
    BY <1>1, <2>6, <2>7 DEF Inv4
<1> QED
  BY <1>2, <1>3, <1>4

LEMMA Send4 == ASSUME Inv4, Send PROVE Inv4'
<1>1. Inv3'
  BY Send3 DEF Inv4
<1>2. /\ stack # <<>> /\ ~Top.waits /\ ~Running /\ Todo = Step(Top) /\ NeedsCommand(Todo)
      /\ Todo \in Commands \cup {"session", "trySelect"}
      /\ Replaced(Len(stack), Waiting(Top))
      /\ \/ ~conn.up /\ UNCHANGED <<server, conn>>
         \/ \E ok \in BOOLEAN : SentAs(ok)
  BY SendEffect DEF Inv4, Inv3, Inv2
<1>3. /\ Len(stack) \in 1..2 /\ Top = stack[Len(stack)] /\ HandlerOK(Top, server)
      /\ DOMAIN stack = 1..Len(stack)
      /\ Top.op \in Ops /\ Left(Top) \in 1..Len(Plan[Top.op]) /\ Left(Top) \in Nat
  BY <1>2, TopOK DEF Inv4, Inv3, Inv2
<1> DEFINE h == Waiting(Top)
<1>4. /\ Left(h) = Left(Top) /\ h.op = Top.op /\ h.box = Top.box /\ h.waits
      /\ h.uids = Top.uids /\ h.todo = Top.todo
  BY <1>3, WaitingOK
<1>5. Step(h) = Step(Top)
  BY <1>4 DEF Step
<1> HIDE DEF h
<1>6. /\ Len(stack') = Len(stack) /\ stack'[Len(stack)] = h /\ stack' \in Seq(Handlers)
      /\ \A i \in 1..Len(stack) : i # Len(stack) => stack'[i] = stack[i]
  BY <1>2 DEF Replaced, h
<1>7. Stale'
  <2>1. DOMAIN stack' = 1..Len(stack') /\ Len(stack) \in 1..Len(stack)
    <3>1. Len(stack) \in 1..Len(stack)
      BY <1>3
    <3> QED
      BY <1>6, <3>1
  <2>2. Running'
    BY <1>4, <1>6, <2>1 DEF Running
  <2> QED
    BY <2>2 DEF Stale
<1>8. \A i \in 1..Len(stack) : ~stack[i].waits
  BY <1>2, <1>3 DEF Running
<1>9. CASE ~conn.up /\ UNCHANGED <<server, conn>>
  <2>1. InTurn(h, conn', server') /\ Grown(server, server')
    BY <1>9 DEF InTurn, Grown
  <2>2. \A i \in 1..Len(stack') : InTurn(stack'[i], conn', server')
    BY <1>6, <1>8, <2>1, OthersTurn
  <2> QED
    BY <1>1, <1>7, <2>2 DEF Inv4
<1>10. ASSUME NEW ok \in BOOLEAN, SentAs(ok)
       PROVE  Inv4'
  <2> DEFINE r == Reply(server, conn, CommandOf(Todo), Top, ok)
  <2>1. /\ Grown(server, server') /\ conn'.up /\ conn'.replies = Append(conn.replies, r)
        /\ Todo = "fetch" /\ ok =>
              /\ conn.box \in Boxes
              /\ \A u \in Top.uids : r.body = server.mail[conn.box][u]
        /\ ~(Todo = "fetch" /\ ok) => r.body = None
    BY <1>10, AnsweredEffect DEF Inv4, Inv3, Inv2
  <2> HIDE DEF r
  <2>2. conn.up
    BY <1>10 DEF SentAs
  <2>3. Todo # "session" => conn'.replies = <<r>>
    <3>1. SUFFICES ASSUME Todo # "session" PROVE conn'.replies = <<r>>
      OBVIOUS
    <3>2. ~Begins(Top)
      BY <1>2, <1>3, <3>1, BeginsAt DEF Commands, UidCommands
    <3>3. conn.replies = <<>>
      BY <1>2, <2>2, <3>2, CleanReplies
    <3> QED
      BY <2>1, <3>3
  <2>4. Todo = "fetch" => \/ r.body = None /\ h.todo[1] = "fetch"
                          \/ \A u \in h.uids : r.body = server'.mail[h.box][u]
    <3>1. SUFFICES ASSUME Todo = "fetch"
                   PROVE  \/ r.body = None /\ h.todo[1] = "fetch"
                          \/ \A u \in h.uids : r.body = server'.mail[h.box][u]
      OBVIOUS
    <3>2. CASE ~ok
      BY <1>2, <1>4, <2>1, <3>1, <3>2, TopOK DEF Inv4, Inv3, Inv2
    <3>3. CASE ok
      <4>1. Needs(Top)
        BY <1>2, <1>3, <3>1, NeedsSteps DEF UidCommands
      <4>2. conn.box \in {None, Top.box}
        BY <1>3, <2>2, <4>1 DEF Inv4, Inv3, InMailbox
      <4>3. conn.box = Top.box
        BY <2>1, <3>1, <3>3, <4>2, BoxesAssumption
      <4> QED
        BY <1>3, <1>4, <2>1, <3>1, <3>3, <4>3, SameMail
    <3> QED
      BY <3>2, <3>3
  <2>5. InTurn(h, conn', server')
    <3>1. Todo # "session" => Len(conn'.replies) = 1 /\ conn'.replies[1] = r
      BY <2>3
    <3>2. Todo = Step(h)
      BY <1>2, <1>5
    <3> QED
      BY <2>4, <3>1, <3>2 DEF InTurn, Fetches
  <2>6. \A i \in 1..Len(stack') : InTurn(stack'[i], conn', server')
    BY <1>6, <1>8, <2>1, <2>5, OthersTurn
  <2> QED
    BY <1>1, <1>7, <2>6 DEF Inv4
<1> QED
  BY <1>2, <1>9, <1>10

LEMMA Init4 == ASSUME Init PROVE Inv4
<1>1. Inv3 /\ stack = <<>> /\ conn.replies = <<>>
  BY Init3, InitEffect
<1>2. Len(stack) = 0
  BY <1>1
<1> QED
  BY <1>1, <1>2 DEF Inv4, Stale

Careful == Hazards = {}

LEMMA CarefulIs == ASSUME Careful PROVE Undisturbed /\ FoldersStay /\ InTime
BY DEF Careful, Undisturbed, FoldersStay, InTime

-----------------------------------------------------------------------------
\* The fifth part of the invariant: the files of the cache.

\* The file that h will fetch, that it will copy, and that is being written.
ToFetch(h) ==
    h.todo[1] # "body" /\ (h.op = "view" \/ (h.op = "moveOut" /\ Left(h) >= 10))
FileMissing(h, files) == ToFetch(h) => \A u \in h.uids : files[h.box][u] = None
FileThere(h, files, srv) ==
    h.op = "moveOut" /\ Left(h) = 9 => \A u \in h.uids : files[h.box][u] = srv.mail[h.box][u]
Writes(h, b, u) == h.todo[1] = "body" /\ h.box = b /\ u \in h.uids

FileOK(b, u, files, srv) ==
    \/ files[b][u] = None
    \/ u \in DOMAIN srv.mail[b] /\ files[b][u] = srv.mail[b][u]
FilesOK ==
    \A b \in Boxes, u \in Uids :
        \/ FileOK(b, u, cache, server)
        \/ cache[b][u] = Torn /\ \E i \in 1..Len(stack) : Writes(stack[i], b, u)

Inv5 ==
    /\ Inv4 /\ FilesOK /\ local \subseteq Msgs
    /\ \A i \in 1..Len(stack) : FileThere(stack[i], cache, server)
    /\ Len(stack) >= 1 => FileMissing(stack[1], cache)

NoTornFile == "torn file" \notin Hazards
NoFailedWrite == "failed write" \notin Hazards

LEMMA FileStays ==
    ASSUME Inv1, Grown(server, server'), NEW b \in Boxes, NEW u \in Uids,
           FileOK(b, u, cache, server), cache'[b][u] = cache[b][u]
    PROVE  FileOK(b, u, cache', server')
BY DEF FileOK, Grown

\* The file is as it was, and so is what the handler is about, if it is one of
\* those that begin or wait under another one.
LEMMA OuterFiles ==
    ASSUME Inv5, Len(stack) = 2, Grown(server, server'), ~Top.waits /\ Running => cache' = cache
    PROVE  FileThere(stack[1], cache', server') /\ FileMissing(stack[1], cache')
<1>1. /\ HandlerOK(stack[1], server) /\ FileThere(stack[1], cache, server)
      /\ FileMissing(stack[1], cache)
  BY TwoHandlers DEF Inv5, Inv4, Inv3
<1>2. CASE cache' = cache
  <2>1. \A u \in stack[1].uids : server'.mail[stack[1].box][u] = server.mail[stack[1].box][u]
    BY <1>1, SameMail
  <2> QED
    BY <1>1, <1>2, <2>1 DEF FileThere, FileMissing
<1>3. CASE Top.waits \/ ~Running
  <2>1. Step(stack[1]) = "ui"
    BY <1>3, TwoHandlers DEF Inv5, Inv4, Inv3
  <2>2. stack[1].op \in Ops /\ Left(stack[1]) \in 1..Len(Plan[stack[1].op])
    BY <1>1 DEF HandlerOK, Handlers, Fits
  <2>3. /\ stack[1].op # "view"
        /\ stack[1].op = "moveOut" => Left(stack[1]) = 5
    <3>1. StepOf(stack[1].op, Left(stack[1])) = "ui"
      BY <2>1 DEF Step
    <3> QED
      BY <2>2, <3>1, WhoDoes DEF Removal
  <2> QED
    BY <2>3 DEF FileThere, FileMissing, ToFetch
<1> QED
  BY <1>2, <1>3

\* The handler at the top has ended, or is h now.
LEMMA TopFiles ==
    ASSUME Inv5, Inv4', FilesOK', local' \subseteq Msgs, stack # <<>>, Grown(server, server'),
           ~Top.waits /\ Running => cache' = cache,
           \/ Popped
           \/ \E h : /\ Replaced(Len(stack), h) /\ FileThere(h, cache', server')
                     /\ Len(stack) = 1 => FileMissing(h, cache')
    PROVE  Inv5'
<1>1. Len(stack) \in 1..2 /\ Len(stack) \in Nat
  BY TopOK DEF Inv5, Inv4, Inv3, Inv2
<1>2. CASE Popped
  <2>1. Len(stack') = Len(stack) - 1 /\ \A i \in 1..Len(stack') : stack'[i] = stack[i]
    BY <1>2 DEF Popped
  <2>2. \A i \in 1..Len(stack') : Len(stack) = 2 /\ i = 1
    BY <1>1, <2>1
  <2>3. Len(stack') >= 1 => 1 \in 1..Len(stack')
    BY <1>1, <2>1
  <2>4. /\ \A i \in 1..Len(stack') : FileThere(stack'[i], cache', server')
        /\ Len(stack') >= 1 => FileMissing(stack'[1], cache')
    BY <2>1, <2>2, <2>3, OuterFiles
  <2> QED
    BY <2>4 DEF Inv5
<1>3. ASSUME NEW h, Replaced(Len(stack), h), FileThere(h, cache', server'),
             Len(stack) = 1 => FileMissing(h, cache')
      PROVE  Inv5'
  <2>1. /\ Len(stack') = Len(stack) /\ stack'[Len(stack)] = h
        /\ \A i \in 1..Len(stack) : i # Len(stack) => stack'[i] = stack[i]
    BY <1>3 DEF Replaced
  <2>2. CASE Len(stack) = 1
    <3>1. \A i \in 1..Len(stack') : i = 1 /\ stack'[1] = h
      BY <2>1, <2>2
    <3> QED
      BY <1>3, <2>1, <2>2, <3>1 DEF Inv5
  <2>3. CASE Len(stack) = 2
    <3>1. stack'[1] = stack[1] /\ stack'[2] = h /\ \A i \in 1..Len(stack') : i = 1 \/ i = 2
      BY <2>1, <2>3
    <3>2. FileThere(stack[1], cache', server') /\ FileMissing(stack[1], cache')
      BY <2>3, OuterFiles
    <3> QED
      BY <1>3, <3>1, <3>2 DEF Inv5
  <2> QED
    BY <1>1, <2>2, <2>3
<1> QED
  BY <1>2, <1>3

\* The files stay, or go, or the handler at the top has done what it wrote.
LEMMA FilesMoved ==
    ASSUME Inv5, stack # <<>>, Grown(server, server'), Popped \/ (\E h : Replaced(Len(stack), h)),
           \A b \in Boxes, u \in Uids :
               \/ FileOK(b, u, cache', server')
               \/ cache'[b][u] = cache[b][u] /\ ~Writes(Top, b, u)
    PROVE  FilesOK'
<1>1. /\ Len(stack) \in 1..2 /\ Len(stack) \in Nat /\ Top = stack[Len(stack)] /\ Inv1
      /\ FilesOK
  BY TopOK DEF Inv5, Inv4, Inv3, Inv2
<1>2. \A i \in 1..Len(stack) : i # Len(stack) => i \in 1..Len(stack') /\ stack'[i] = stack[i]
  <2>1. CASE Popped
    <3>1. Len(stack') = Len(stack) - 1 /\ \A i \in 1..Len(stack') : stack'[i] = stack[i]
      BY <2>1 DEF Popped
    <3>2. \A i \in 1..Len(stack) : i # Len(stack) => i \in 1..Len(stack')
      BY <1>1, <3>1
    <3> QED
      BY <3>1, <3>2
  <2>2. CASE \E h : Replaced(Len(stack), h)
    BY <2>2 DEF Replaced
  <2> QED
    BY <2>1, <2>2
<1>3. SUFFICES ASSUME NEW b \in Boxes, NEW u \in Uids, ~FileOK(b, u, cache', server')
               PROVE  cache'[b][u] = Torn /\ \E i \in 1..Len(stack') : Writes(stack'[i], b, u)
  BY DEF FilesOK
<1>4. cache'[b][u] = cache[b][u] /\ ~Writes(Top, b, u)
  BY <1>3
<1>5. ~FileOK(b, u, cache, server)
  BY <1>1, <1>3, <1>4, FileStays
<1>6. cache[b][u] = Torn /\ \E i \in 1..Len(stack) : Writes(stack[i], b, u)
  BY <1>1, <1>5 DEF FilesOK
<1> QED
  BY <1>1, <1>2, <1>4, <1>6

\* Only the handler that waits for a body writes.
LEMMA NoWriter ==
    ASSUME Inv1, stack # <<>>, Todo # "body" \/ ~Top.waits
    PROVE  \A b, u : ~Writes(Top, b, u)
BY TopOK DEF Writes

LEMMA NextThere ==
    ASSUME Inv1, stack # <<>>, Left(Top) > 1, NEW files, NEW srv, Step(Top) # "fetch"
    PROVE  FileThere(NextStep(Top), files, srv)
<1>1. /\ Left(NextStep(Top)) = Left(Top) - 1 /\ NextStep(Top).op = Top.op /\ Left(Top) \in Nat
  BY TopOK, NextFits DEF HandlerOK
<1>2. Left(NextStep(Top)) = 9 /\ NextStep(Top).op = "moveOut" => Step(Top) = "fetch"
  <2>1. Left(NextStep(Top)) = 9 => Left(Top) = 10
    BY <1>1
  <2> QED
    BY <1>1, <2>1, WhatIsLeft DEF Step
<1> QED
  BY <1>2 DEF FileThere

LEMMA NextMissing ==
    ASSUME Inv1, stack # <<>>, Left(Top) > 1, FileMissing(Top, cache),
           \A b \in Boxes, u \in Uids : cache'[b][u] \in {None, cache[b][u]}, Step(Top) # "fetch"
    PROVE  FileMissing(NextStep(Top), cache')
<1>1. /\ Left(NextStep(Top)) = Left(Top) - 1 /\ NextStep(Top).op = Top.op
      /\ NextStep(Top).box = Top.box /\ NextStep(Top).uids = Top.uids
      /\ Left(Top) \in Nat /\ Top.box \in Boxes /\ Top.uids \subseteq Uids
      /\ Todo = Top.todo[1] /\ (Todo = "body" => Step(Top) = "fetch")
  BY TopOK, NextFits DEF HandlerOK
<1>2. Left(NextStep(Top)) >= 10 => Left(Top) >= 10
  BY <1>1
<1>3. ToFetch(NextStep(Top)) => ToFetch(Top)
  BY <1>1, <1>2 DEF ToFetch
<1> QED
  BY <1>1, <1>3 DEF FileMissing

LEMMA MovesFiles ==
    ASSUME Inv5, Inv4', local' \subseteq Msgs, stack # <<>>, Moves, server' = server,
           ~Top.waits /\ Running => cache' = cache,
           \A b \in Boxes, u \in Uids : cache'[b][u] \in {None, cache[b][u]},
           \A b \in Boxes, u \in Uids : Writes(Top, b, u) => cache'[b][u] = None,
           Step(Top) # "fetch" \/ Popped
    PROVE  Inv5'
<1>1. Grown(server, server') /\ Inv1
  BY DEF Grown, Inv5, Inv4, Inv3, Inv2
<1>2. Popped \/ (\E h : Replaced(Len(stack), h))
  BY DEF Moves, TopGoesOn
<1>3. FilesOK'
  <2>1. \A b \in Boxes, u \in Uids :
           \/ FileOK(b, u, cache', server')
           \/ cache'[b][u] = cache[b][u] /\ ~Writes(Top, b, u)
    BY DEF FileOK
  <2> QED
    BY <1>1, <1>2, <2>1, FilesMoved
<1>4. CASE Popped
  BY <1>1, <1>3, <1>4, TopFiles
<1>5. CASE Left(Top) > 1 /\ TopGoesOn(NextStep(Top)) /\ Step(Top) # "fetch"
  <2>1. FileThere(NextStep(Top), cache', server')
    BY <1>1, <1>5, NextThere
  <2>2. Len(stack) = 1 => FileMissing(NextStep(Top), cache')
    <3>1. Len(stack) = 1 => FileMissing(Top, cache)
      BY OneHandler, <1>1 DEF Inv5
    <3> QED
      BY <1>1, <1>5, <3>1, NextMissing
  <2>3. Replaced(Len(stack), NextStep(Top))
    BY <1>5 DEF TopGoesOn
  <2> QED
    BY <1>1, <1>3, <2>1, <2>2, <2>3, TopFiles
<1> QED
  BY <1>4, <1>5 DEF Moves


\* A handler that does not wait while another one does has only begun.
LEMMA OnlyBegun ==
    ASSUME Inv2, stack # <<>>, ~Top.waits, Running
    PROVE  Begins(Top) /\ Step(Top) \in {"session", "copyFile"}
<1>1. Len(stack) = 2
  <2>1. /\ Len(stack) \in 1..2 /\ Top = stack[Len(stack)] /\ DOMAIN stack = 1..Len(stack)
    BY TopOK DEF Inv2
  <2> QED
    BY <2>1 DEF Running
<1> QED
  BY <1>1, TwoHandlers, BeginsAt

LEMMA SameFiles5 ==
    ASSUME Inv5, Inv4', local' \subseteq Msgs, stack # <<>>, Moves, server' = server, cache' = cache,
           Todo # "body", Step(Top) # "fetch" \/ Popped
    PROVE  Inv5'
<1>1. \A b, u : ~Writes(Top, b, u)
  BY NoWriter DEF Inv5, Inv4, Inv3, Inv2
<1> QED
  BY <1>1, MovesFiles

LEMMA PlainSteps5 ==
    ASSUME Inv5, PassUi \/ SelectAgain \/ Unlink
    PROVE  Inv5'
<1>1. Inv4' /\ Moves /\ server' = server /\ cache' = cache
  BY PlainSteps2, PlainSteps4 DEF Inv5, Inv4, Inv3, PassUi, SelectAgain, Unlink
<1>2. PICK s \in {"ui", "trySelect", "unlink"} : At(s)
  BY DEF PassUi, SelectAgain, Unlink
<1>3. stack # <<>> /\ Todo = s /\ Step(Top) = s
  BY <1>2, AtTop, StepIs DEF Inv5, Inv4, Inv3, Inv2
<1>4. local' \subseteq Msgs
  BY DEF Inv5, PassUi, SelectAgain, Unlink
<1> QED
  BY <1>1, <1>3, <1>4, SameFiles5

LEMMA ToCopy ==
    ASSUME Inv5, At("copyFile")
    PROVE  /\ stack # <<>> /\ ~Top.waits /\ Step(Top) = "copyFile" /\ Todo = "copyFile"
           /\ Top.op = "moveOut" /\ Left(Top) = 9 /\ HandlerOK(Top, server)
           /\ \E u \in Uids :
                 /\ Top.uids = {u} /\ (CHOOSE v \in Top.uids : TRUE) = u
                 /\ cache[Top.box][u] = server.mail[Top.box][u]
                 /\ server.mail[Top.box][u] \in Msgs
<1>1. stack # <<>> /\ ~Top.waits /\ Step(Top) = "copyFile" /\ Todo = "copyFile"
  BY AtTop, StepIs DEF Inv5, Inv4, Inv3, Inv2
<1>2. /\ Top.op \in Ops /\ Left(Top) \in 1..Len(Plan[Top.op]) /\ Top = stack[Len(stack)]
      /\ Len(stack) \in 1..2 /\ HandlerOK(Top, server) /\ Top.box \in Boxes
      /\ Sound(server)
  BY <1>1, TopOK DEF Inv5, Inv4, Inv3, Inv2, Inv1
<1>3. Top.op = "moveOut" /\ Left(Top) = 9
  <2>1. StepOf(Top.op, Left(Top)) = "copyFile"
    BY <1>1 DEF Step
  <2> QED
    BY <1>2, <2>1, WhoDoes
<1>4. PICK u \in Uids : Top.uids = {u}
  BY <1>2, <1>3 DEF HandlerOK
<1>5. FileThere(Top, cache, server)
  <2>1. PICK n \in 1..2 : n = Len(stack)
    BY <1>2
  <2>2. n \in 1..n
    OBVIOUS
  <2>3. FileThere(stack[n], cache, server)
    BY <2>1, <2>2 DEF Inv5
  <2> QED
    BY <1>2, <2>1, <2>3
<1>6. cache[Top.box][u] = server.mail[Top.box][u]
  BY <1>3, <1>4, <1>5 DEF FileThere
<1>7. server.mail[Top.box][u] \in Msgs
  <2>1. server.mail[Top.box] \in Seq(Msgs) /\ u \in DOMAIN server.mail[Top.box]
    BY <1>2, <1>4 DEF HandlerOK, Sound, Servers
  <2> QED
    BY <2>1
<1> QED
  BY <1>1, <1>2, <1>3, <1>4, <1>6, <1>7

LEMMA CopyFile5 == ASSUME Inv5, CopyFile PROVE Inv5'
<1>1. Inv4' /\ Moves /\ server' = server /\ cache' = cache
  BY PlainSteps2, PlainSteps4 DEF Inv5, Inv4, Inv3, CopyFile
<1>2. /\ stack # <<>> /\ Step(Top) = "copyFile" /\ Todo = "copyFile"
      /\ File(Top.box, CHOOSE u \in Top.uids : TRUE) \in Msgs
  BY ToCopy DEF CopyFile, File
<1>3. local' \subseteq Msgs
  BY <1>2 DEF Inv5, CopyFile
<1> QED
  BY <1>1, <1>2, <1>3, SameFiles5

LEMMA Forget5 == ASSUME Inv5, Forget PROVE Inv5'
<1>1. Inv4' /\ Moves /\ server' = server /\ local' = local
  BY PlainSteps2, PlainSteps4 DEF Inv5, Inv4, Inv3, Forget
<1>2. stack # <<>> /\ ~Top.waits /\ Step(Top) = "forget"
  BY AtTop, StepIs DEF Forget, Inv5, Inv4, Inv3, Inv2
<1>3. ~Running
  BY <1>2, OnlyBegun DEF Inv5, Inv4, Inv3
<1>4. \A b \in Boxes, u \in Uids : cache'[b][u] \in {None, cache[b][u]}
  BY <1>2, TopOK, FileEffect DEF Forget, Inv5, Inv4, Inv3, Inv2
<1>5. \A b, u : ~Writes(Top, b, u)
  BY <1>2, NoWriter DEF Inv5, Inv4, Inv3, Inv2
<1> QED
  BY <1>1, <1>2, <1>3, <1>4, <1>5, MovesFiles DEF Inv5

LEMMA GetSession5 == ASSUME Inv5, GetSession PROVE Inv5'
<1>1. Inv4' /\ Moves
  BY GetSession2, GetSession4 DEF Inv5, Inv4, Inv3
<1>2. stack # <<>> /\ Step(Top) = "session" /\ Todo = "session"
  BY AtTop, StepIs DEF GetSession, Inv5, Inv4, Inv3, Inv2
<1>3. server' = server /\ cache' = cache /\ local' \subseteq Msgs
  BY DEF GetSession, Inv5
<1> QED
  BY <1>1, <1>2, <1>3, SameFiles5

LEMMA ReadSteps5 ==
    ASSUME Inv5,
           \/ ReceiveHeaders \/ ReceiveNoBody \/ ReceiveNoop
           \/ \E s \in Commands \cup {"trySelect"} : Receive(s)
    PROVE  Inv5'
<1>1. Inv4' /\ Moves
  BY ReadSteps2, ReadSteps4, ReceiveNoop2, ReceiveNoop4 DEF Inv5, Inv4, Inv3
<1>2. server' = server /\ cache' = cache /\ local' \subseteq Msgs
  BY DEF ReceiveHeaders, ReceiveNoBody, ReceiveNoop, Receive, Inv5
<1>3. PICK s : Heard(s) /\ s # "body" /\ (s = "fetch" => Fail)
  BY DEF ReceiveHeaders, ReceiveNoBody, ReceiveNoop, Receive, Commands, UidCommands
<1>4. stack # <<>> /\ Step(Top) = s /\ Todo = s
  BY <1>3, HeardTop, StepIs DEF Inv5, Inv4, Inv3, Inv2
<1>5. s = "fetch" => Popped
  BY <1>3, <1>4, FailMoves DEF Inv5, Inv4, Inv3, Inv2
<1> QED
  BY <1>1, <1>2, <1>3, <1>4, <1>5, SameFiles5

LEMMA ReceiveFlags5 == ASSUME Inv5, ReceiveFlags PROVE Inv5'
<1>1. Inv4' /\ Moves
  BY ReadSteps2, ReadSteps4 DEF Inv5, Inv4, Inv3
<1>2. server' = server /\ local' = local
  BY DEF ReceiveFlags
<1>3. stack # <<>> /\ Top.waits /\ Step(Top) = "flags" /\ Todo = "flags" /\ Top.box \in Boxes
  BY HeardTop, StepIs, TopOK DEF ReceiveFlags, Inv5, Inv4, Inv3, Inv2
<1>4. \A b \in Boxes, u \in Uids : cache'[b][u] \in {None, cache[b][u]}
  BY <1>3, KeepingEffect DEF ReceiveFlags, Inv5, Inv4, Inv3, Inv2
<1>5. \A b, u : ~Writes(Top, b, u)
  BY <1>3, NoWriter DEF Inv5, Inv4, Inv3, Inv2
<1> QED
  BY <1>1, <1>2, <1>3, <1>4, <1>5, MovesFiles DEF Inv5

LEMMA ReceiveExists5 == ASSUME Inv5, ReceiveExists PROVE Inv5'
<1>1. Inv4' /\ Top.op = "list" /\ (Moves \/ TopGoesOn(OnlyHeaders(Top)))
  BY ReceiveExists1, ReceiveExists4 DEF Inv5, Inv4, Inv3, Inv2
<1>2. server' = server /\ local' = local
  BY DEF ReceiveExists
<1>3. /\ stack # <<>> /\ Top.waits /\ Step(Top) = "select" /\ Todo = "select"
      /\ Top.box \in Boxes /\ HandlerOK(Top, server)
  BY HeardTop, StepIs, TopOK DEF ReceiveExists, Inv5, Inv4, Inv3, Inv2
<1>4. \A b \in Boxes, u \in Uids : cache'[b][u] \in {None, cache[b][u]}
  BY <1>3, KeepingEffect DEF ReceiveExists, Inv5, Inv4, Inv3, Inv2
<1>5. \A b, u : ~Writes(Top, b, u)
  BY <1>3, NoWriter DEF Inv5, Inv4, Inv3, Inv2
<1>6. CASE Moves
  BY <1>1, <1>2, <1>3, <1>4, <1>5, <1>6, MovesFiles DEF Inv5
<1>7. CASE TopGoesOn(OnlyHeaders(Top))
  <2>1. OnlyHeaders(Top).op = "list"
    BY <1>1, <1>3, OnlyHeadersOK
  <2>2. FileThere(OnlyHeaders(Top), cache', server') /\ FileMissing(OnlyHeaders(Top), cache')
    BY <2>1 DEF FileThere, FileMissing, ToFetch
  <2>3. Replaced(Len(stack), OnlyHeaders(Top)) /\ Grown(server, server')
    BY <1>2, <1>7 DEF TopGoesOn, Grown
  <2>4. FilesOK'
    <3>1. \A b \in Boxes, u \in Uids :
             \/ FileOK(b, u, cache', server')
             \/ cache'[b][u] = cache[b][u] /\ ~Writes(Top, b, u)
      BY <1>4, <1>5 DEF FileOK
    <3> QED
      BY <1>3, <2>3, <3>1, FilesMoved
  <2> QED
    BY <1>1, <1>2, <1>3, <2>2, <2>3, <2>4, TopFiles DEF Inv5
<1> QED
  BY <1>1, <1>6, <1>7

LEMMA HearNothing5 == ASSUME InTime, Inv5, HearNothing PROVE Inv5'
<1>1. Inv4' /\ Moves
  BY HearNothing2, HearNothing4 DEF Inv5, Inv4, Inv3
<1>2. stack # <<>> /\ Top.waits /\ server' = server /\ local' = local
  BY DEF HearNothing
<1>3. Top \in Handlers /\ Inv1 /\ Todo = Top.todo[1] /\ (Todo # "body" => Todo = Step(Top))
  BY <1>2, TopOK DEF Inv5, Inv4, Inv3, Inv2
<1>4. /\ \A b \in Boxes, u \in Uids : cache'[b][u] \in {None, cache[b][u]}
      /\ \A b \in Boxes, u \in Uids : Writes(Top, b, u) => cache'[b][u] = None
  <2>1. CASE Todo = "body"
    <3>1. SetFile(Top, None)
      BY <2>1, Zenon DEF HearNothing, Abandon
    <3> QED
      BY <1>3, <3>1, FileEffect DEF Writes
  <2>2. CASE Todo # "body"
    <3>1. cache' = cache
      BY <2>2 DEF HearNothing, Abandon
    <3> QED
      BY <1>3, <2>2, <3>1 DEF Writes
  <2> QED
    BY <2>1, <2>2
<1>5. Step(Top) # "fetch" \/ Popped
  BY <1>3, GiveUp
<1> QED
  BY <1>1, <1>2, <1>4, <1>5, MovesFiles DEF Inv5

LEMMA ReceiveBody5 == ASSUME NoFailedWrite, Inv5, ReceiveBody PROVE Inv5'
<1>1. Inv4' /\ Moves
  BY ReadSteps2, ReadSteps4 DEF Inv5, Inv4, Inv3
<1>2. /\ stack # <<>> /\ Top.waits /\ Todo = "body" /\ conn.up /\ server' = server
      /\ local' = local
  BY HeardTop DEF ReceiveBody
<1>3. /\ Top \in Handlers /\ Inv1 /\ Todo = Top.todo[1] /\ Step(Top) = "fetch"
      /\ Top = stack[Len(stack)] /\ Len(stack) \in 1..2 /\ HandlerOK(Top, server)
      /\ Head(conn.replies) = conn.replies[1] /\ conn.replies[1] \in Replies
      /\ Left(Top) \in Nat
  BY <1>2, TopOK, ReadEffect DEF ReceiveBody, Inv5, Inv4, Inv3, Inv2
<1>4. PICK file \in {conn.replies[1].body, None} : SetFile(Top, file) /\ (file = None => Fail)
  BY <1>3 DEF ReceiveBody, Received, NoFailedWrite
<1>5. \A u \in Top.uids : file \in {server.mail[Top.box][u], None}
  <2>1. InTurn(Top, conn, server)
    <3>1. Top = stack[Len(stack)] /\ Len(stack) \in 1..2
      BY <1>2, TopOK DEF Inv5, Inv4, Inv3, Inv2
    <3> QED
      BY <3>1 DEF Inv5, Inv4
  <2> QED
    BY <1>2, <1>3, <1>4, <2>1 DEF InTurn, Fetches
<1>6. /\ \A u \in Top.uids : cache'[Top.box][u] = file
      /\ \A b \in Boxes, u \in Uids :
            ~(b = Top.box /\ u \in Top.uids) => cache'[b][u] = cache[b][u]
  <2>1. file \in Msgs \cup {None, Torn}
    BY <1>3, <1>4 DEF Replies
  <2> QED
    BY <1>3, <1>4, <2>1, FileEffect
<1>7. Grown(server, server')
  BY <1>2 DEF Grown
<1>8. FilesOK'
  <2>1. \A u \in Top.uids : u \in DOMAIN server.mail[Top.box]
    BY <1>3 DEF HandlerOK
  <2>2. \A b \in Boxes, u \in Uids :
           \/ FileOK(b, u, cache', server')
           \/ cache'[b][u] = cache[b][u] /\ ~Writes(Top, b, u)
    BY <1>2, <1>5, <1>6, <2>1 DEF FileOK, Writes
  <2>3. Popped \/ (\E h : Replaced(Len(stack), h))
    BY <1>1 DEF Moves, TopGoesOn
  <2> QED
    BY <1>2, <1>7, <2>2, <2>3, FilesMoved
<1>9. CASE Popped
  BY <1>1, <1>2, <1>7, <1>8, <1>9, TopFiles DEF Inv5
<1>10. CASE file # None /\ Left(Top) > 1 /\ TopGoesOn(NextStep(Top))
  <2> DEFINE h == NextStep(Top)
  <2>1. /\ Left(h) = Left(Top) - 1 /\ h.op = Top.op /\ h.box = Top.box /\ h.uids = Top.uids
    BY <1>3, <1>10, NextFits DEF HandlerOK
  <2>2. Replaced(Len(stack), h)
    BY <1>10 DEF TopGoesOn
  <2> HIDE DEF h
  <2>3. FileThere(h, cache', server')
    BY <1>2, <1>5, <1>6, <1>10, <2>1 DEF FileThere
  <2>4. Top.op = "moveOut" /\ Left(Top) = 10
    <3>1. Top.op \in Ops /\ Left(Top) \in 1..Len(Plan[Top.op])
      BY <1>2, TopOK, <1>3
    <3>2. StepOf(Top.op, Left(Top)) = "fetch"
      BY <1>3 DEF Step
    <3>3. (Top.op = "view" /\ Left(Top) = 1) \/ (Top.op = "moveOut" /\ Left(Top) = 10)
      BY <3>1, <3>2, WhoDoes
    <3> QED
      BY <1>10, <3>3
  <2>5. Left(h) = 9
    BY <2>1, <2>4
  <2>6. FileMissing(h, cache')
    BY <2>1, <2>4, <2>5 DEF FileMissing, ToFetch
  <2> QED
    BY <1>1, <1>2, <1>7, <1>8, <2>2, <2>3, <2>6, TopFiles DEF Inv5
<1>11. CASE file = None
  BY <1>2, <1>3, <1>4, <1>9, <1>11, FailMoves
<1> QED
  BY <1>1, <1>9, <1>10, <1>11 DEF Moves


LEMMA BodyBegins5 ==
    ASSUME Inv5, NEW i \in DOMAIN stack, BodyBegins(i)
    PROVE  Inv5'
<1>1. Inv4' /\ Inv1
  BY BodyBegins4 DEF Inv5, Inv4, Inv3, Inv2
<1> DEFINE h == WithBody(stack[i])
<1>2. /\ i \in 1..Len(stack) /\ stack[i].waits /\ HandlerOK(stack[i], server)
      /\ Head(stack[i].todo) = "fetch" /\ stack[i].todo[1] = "fetch"
      /\ Step(stack[i]) = "fetch" /\ server' = server /\ local' = local
      /\ Len(stack') = Len(stack) /\ stack'[i] = h
      /\ \A j \in 1..Len(stack) : j # i => stack'[j] = stack[j]
  BY <1>1, BodyEffect DEF BodyBegins, Replaced
<1>3. /\ Left(h) = Left(stack[i]) /\ h.op = stack[i].op /\ h.box = stack[i].box
      /\ h.uids = stack[i].uids /\ h.todo[1] = "body"
  BY <1>2, WithBodyOK
<1> HIDE DEF h
<1>4. /\ stack[i] \in Handlers /\ stack[i].op \in Ops
      /\ Left(stack[i]) \in 1..Len(Plan[stack[i].op])
      /\ stack[i].box \in Boxes /\ stack[i].uids \subseteq Uids
  BY <1>2 DEF HandlerOK, Handlers, Fits
<1>5. /\ \A u \in stack[i].uids : cache'[stack[i].box][u] = Torn
      /\ \A b \in Boxes, u \in Uids :
            ~(b = stack[i].box /\ u \in stack[i].uids) => cache'[b][u] = cache[b][u]
  BY <1>1, <1>4, FileEffect DEF BodyBegins
<1>6. \/ stack[i].op = "view" /\ Left(stack[i]) = 1
      \/ stack[i].op = "moveOut" /\ Left(stack[i]) = 10
  <2>1. StepOf(stack[i].op, Left(stack[i])) = "fetch"
    BY <1>2 DEF Step
  <2> QED
    BY <1>4, <2>1, WhoDoes
<1>7. FilesOK'
  <2>1. SUFFICES ASSUME NEW b \in Boxes, NEW u \in Uids
                 PROVE  \/ FileOK(b, u, cache', server')
                        \/ cache'[b][u] = Torn /\ \E j \in 1..Len(stack') : Writes(stack'[j], b, u)
    BY DEF FilesOK
  <2>2. CASE b = stack[i].box /\ u \in stack[i].uids
    BY <1>2, <1>3, <1>5, <2>2 DEF Writes
  <2>3. CASE ~(b = stack[i].box /\ u \in stack[i].uids)
    <3>1. cache'[b][u] = cache[b][u]
      BY <1>5, <2>3
    <3>2. CASE FileOK(b, u, cache, server)
      BY <1>2, <3>1, <3>2 DEF FileOK
    <3>3. CASE cache[b][u] = Torn /\ \E j \in 1..Len(stack) : Writes(stack[j], b, u)
      <4>1. PICK j \in 1..Len(stack) : Writes(stack[j], b, u)
        BY <3>3
      <4>2. j # i
        BY <1>2, <4>1 DEF Writes
      <4> QED
        BY <1>2, <3>1, <3>3, <4>1, <4>2
    <3> QED
      BY <3>2, <3>3 DEF Inv5, FilesOK
  <2> QED
    BY <2>2, <2>3
<1>8. Len(stack) \in 1..2 /\ Len(stack) \in Nat
  <2>1. Len(stack) \in Nat /\ Len(stack) <= 2
    BY <1>1 DEF Inv1, StackOK
  <2> QED
    BY <1>2, <2>1
\* A handler that is about to copy its file does not find this one.
<1>9. ASSUME NEW j \in 1..Len(stack), j # i
      PROVE  FileThere(stack[j], cache', server')
  <2>1. SUFFICES ASSUME stack[j].op = "moveOut", Left(stack[j]) = 9, NEW u \in stack[j].uids
                 PROVE  cache'[stack[j].box][u] = server.mail[stack[j].box][u]
    BY <1>2 DEF FileThere
  <2>2. /\ HandlerOK(stack[j], server) /\ FileThere(stack[j], cache, server)
        /\ stack[j].box \in Boxes /\ u \in Uids
    BY <1>1 DEF Inv5, Inv1, StackOK, HandlerOK, Handlers
  <2>3. cache[stack[j].box][u] = server.mail[stack[j].box][u]
    BY <2>1, <2>2 DEF FileThere
  <2>4. server.mail[stack[j].box][u] # None
    <3>1. server.mail[stack[j].box] \in Seq(Msgs) /\ u \in DOMAIN server.mail[stack[j].box]
      BY <1>1, <2>2 DEF HandlerOK, Inv1, Sound, Servers
    <3>2. server.mail[stack[j].box][u] \in Msgs
      BY <3>1
    <3> QED
      BY <3>2, BoxesAssumption
  <2>5. Len(stack) = 2 /\ (i = 1 \/ (i = 2 /\ j = 1))
    BY <1>2, <1>8, <1>9
  <2>6. i = 1
    <3>1. SUFFICES ASSUME i = 2, j = 1 PROVE FALSE
      BY <2>5
    <3>2. Top = stack[2] /\ Top.waits /\ Step(stack[1]) = "ui"
      BY <1>2, <2>5, <3>1, TwoHandlers DEF Inv5, Inv4, Inv3
    <3>3. StepOf("moveOut", 9) = "ui"
      BY <2>1, <3>1, <3>2 DEF Step
    <3> QED
      BY <3>3, WhatIsLeft
  <2>7. \A v \in stack[1].uids : cache[stack[1].box][v] = None
    <3>1. ToFetch(stack[1])
      BY <1>2, <1>6, <2>6 DEF ToFetch
    <3> QED
      BY <2>5, <3>1 DEF Inv5, FileMissing
  <2>8. ~(stack[j].box = stack[i].box /\ u \in stack[i].uids)
    BY <2>3, <2>4, <2>6, <2>7
  <2> QED
    BY <1>5, <2>2, <2>3, <2>8
<1>10. FileThere(h, cache', server')
  BY <1>3, <1>6 DEF FileThere
<1>11. \A j \in 1..Len(stack') : FileThere(stack'[j], cache', server')
  BY <1>2, <1>9, <1>10
<1>12. FileMissing(stack'[1], cache')
  <2>1. CASE i = 1
    BY <1>2, <1>3, <2>1 DEF FileMissing, ToFetch
  <2>2. CASE i # 1
    <3>1. Len(stack) = 2 /\ i = 2 /\ stack'[1] = stack[1]
      BY <1>2, <1>8, <2>2
    <3>2. Top = stack[2] /\ Top.waits /\ Step(stack[1]) = "ui" /\ HandlerOK(stack[1], server)
      BY <1>2, <3>1, TwoHandlers DEF Inv5, Inv4, Inv3
    <3>3. ~ToFetch(stack[1])
      <4>1. stack[1].op \in Ops /\ Left(stack[1]) \in 1..Len(Plan[stack[1].op])
        BY <3>2 DEF HandlerOK, Handlers, Fits
      <4>2. StepOf(stack[1].op, Left(stack[1])) = "ui"
        BY <3>2 DEF Step
      <4>3. stack[1].op # "view" /\ (stack[1].op = "moveOut" => Left(stack[1]) = 5)
        BY <4>1, <4>2, WhoDoes DEF Removal
      <4> QED
        BY <4>3 DEF ToFetch
    <3> QED
      BY <3>1, <3>3 DEF FileMissing
  <2> QED
    BY <2>1, <2>2
<1> QED
  BY <1>1, <1>2, <1>7, <1>11, <1>12 DEF Inv5

LEMMA Send5 == ASSUME Inv5, Send PROVE Inv5'
<1>1. Inv4' /\ Inv1
  BY Send4 DEF Inv5, Inv4, Inv3, Inv2
<1>2. /\ stack # <<>> /\ ~Top.waits /\ ~Running
      /\ Replaced(Len(stack), Waiting(Top))
      /\ UNCHANGED <<cache, local>>
      /\ \/ UNCHANGED <<server, conn>>
         \/ \E ok \in BOOLEAN : SentAs(ok)
  BY <1>1, SendEffect
<1>3. Grown(server, server')
  BY <1>1, <1>2, AnsweredEffect DEF Grown
<1>4. /\ Len(stack) \in 1..2 /\ Top = stack[Len(stack)] /\ HandlerOK(Top, server)
      /\ Len(stack) \in 1..Len(stack)
  <2>1. Len(stack) \in 1..2 /\ Top = stack[Len(stack)] /\ HandlerOK(Top, server)
    BY <1>1, <1>2, TopOK
  <2> QED
    BY <2>1
<1> DEFINE h == Waiting(Top)
<1>5. /\ Left(h) = Left(Top) /\ h.op = Top.op /\ h.box = Top.box
      /\ h.uids = Top.uids /\ h.todo = Top.todo
  BY <1>4, WaitingOK
<1>6. Replaced(Len(stack), h)
  BY <1>2
<1> HIDE DEF h
<1>7. FilesOK'
  <2>1. \A b \in Boxes, u \in Uids :
           \/ FileOK(b, u, cache', server')
           \/ cache'[b][u] = cache[b][u] /\ ~Writes(Top, b, u)
    BY <1>1, <1>2, NoWriter
  <2> QED
    BY <1>2, <1>3, <1>6, <2>1, FilesMoved
<1>8. FileThere(h, cache', server')
  <2>1. \A u \in Top.uids : server'.mail[Top.box][u] = server.mail[Top.box][u]
    BY <1>3, <1>4, SameMail
  <2>2. FileThere(Top, cache, server)
    BY <1>4 DEF Inv5
  <2> QED
    BY <1>2, <1>5, <2>1, <2>2 DEF FileThere
<1>9. Len(stack) = 1 => FileMissing(h, cache')
  <2>1. Len(stack) = 1 => FileMissing(Top, cache)
    BY <1>4 DEF Inv5
  <2> QED
    BY <1>2, <1>5, <2>1 DEF FileMissing, ToFetch
<1>10. local' \subseteq Msgs
  BY <1>2 DEF Inv5
<1> QED
  BY <1>1, <1>2, <1>3, <1>6, <1>7, <1>8, <1>9, <1>10, TopFiles

LEMMA OtherSteps5 ==
    ASSUME Undisturbed, Inv5, NoTornFile,
           \/ Offline \/ Time \/ Break \/ Crash
           \/ \E b \in Boxes : \/ \E m \in Msgs : Deliver(m, b)
                               \/ \E u \in Uids : Discard(b, u)
    PROVE  Inv5'
<1>1. Inv4' /\ Inv1
  BY OtherSteps4 DEF Inv5, Inv4, Inv3, Inv2
<1>2. /\ cache' = cache /\ local' = local
      /\ \/ stack' = stack
         \/ stack' = <<>> /\ \A b \in Boxes, u \in Uids : cache[b][u] # Torn
  BY DEF Undisturbed, Offline, Time, Break, Crash, Deliver, Discard, NoTornFile, File
<1>3. Grown(server, server')
  <2>1. CASE Offline \/ Time \/ Break \/ Crash
    BY <2>1 DEF Offline, Time, Break, Crash, Grown
  <2>2. CASE \E b \in Boxes : \/ \E m \in Msgs : Deliver(m, b)
                              \/ \E u \in Uids : Discard(b, u)
    BY <1>1, <2>2, Deliver1, DiscardEffect DEF Grown
  <2> QED
    BY <2>1, <2>2
<1>4. FilesOK'
  <2>1. SUFFICES ASSUME NEW b \in Boxes, NEW u \in Uids, ~FileOK(b, u, cache', server')
                 PROVE  cache[b][u] = Torn /\ \E j \in 1..Len(stack') : Writes(stack'[j], b, u)
    BY <1>2 DEF FilesOK
  <2>2. ~FileOK(b, u, cache, server)
    BY <1>1, <1>2, <1>3, <2>1, FileStays
  <2> QED
    BY <1>2, <2>2 DEF Inv5, FilesOK
<1>5. \A i \in 1..Len(stack) : FileThere(stack[i], cache', server')
  <2>1. SUFFICES ASSUME NEW i \in 1..Len(stack) PROVE FileThere(stack[i], cache', server')
    OBVIOUS
  <2>2. HandlerOK(stack[i], server) /\ FileThere(stack[i], cache, server)
    BY <1>1 DEF Inv5, Inv1, StackOK
  <2>3. \A u \in stack[i].uids : server'.mail[stack[i].box][u] = server.mail[stack[i].box][u]
    BY <1>3, <2>2, SameMail
  <2> QED
    BY <1>2, <2>2, <2>3 DEF FileThere
<1>6. CASE stack' = stack
  BY <1>1, <1>2, <1>4, <1>5, <1>6 DEF Inv5
<1>7. CASE stack' = <<>>
  <2>1. Len(stack') = 0
    BY <1>7
  <2> QED
    BY <1>1, <1>2, <1>4, <2>1 DEF Inv5
<1> QED
  BY <1>2, <1>6, <1>7


\* A handler whose next step is "body" waits for it.
LEMMA WriterWaits ==
    ASSUME Inv1, NEW i \in 1..Len(stack), NEW b, NEW u, Writes(stack[i], b, u)
    PROVE  stack[i].waits /\ Head(stack[i].todo) = "body" /\ DOMAIN stack = 1..Len(stack)
<1>1. HandlerOK(stack[i], server) /\ stack[i].todo[1] = "body" /\ DOMAIN stack = 1..Len(stack)
  BY DEF Inv1, StackOK, Writes
<1>2. /\ stack[i].op \in Ops /\ Left(stack[i]) \in 1..Len(Plan[stack[i].op])
      /\ stack[i].todo \in Seq(Steps)
      /\ stack[i].todo[1] = Step(stack[i]) \/ stack[i].waits
  BY <1>1 DEF HandlerOK, Handlers, Fits
<1>3. Step(stack[i]) # "body"
  BY <1>2, WhoDoes DEF Step
<1>4. Len(stack[i].todo) >= 1 /\ stack[i].todo # <<>>
  BY <1>2 DEF Left
<1> QED
  BY <1>1, <1>2, <1>3, <1>4

\* A file that one handler writes is not there for the one that begins.
LEMMA Start5 ==
    ASSUME Inv5, Undisturbed, FoldersStay, NoTornFile, NEW f \in Requests, Sensible(f), Start(f)
    PROVE  Inv5'
<1>1. Inv4' /\ Inv1
  BY Start4 DEF Inv5, Inv4, Inv3, Inv2
<1>2. /\ UNCHANGED <<server, cache, local>> /\ Len(stack) \in 0..1
      /\ stack' = stack \/ (PlanOf(f) # <<>> /\ Pushed(Begun(f)))
  BY <1>1, StartEffect
<1>3. CASE stack' = stack
  BY <1>1, <1>2, <1>3 DEF Inv5, FilesOK
<1>4. CASE PlanOf(f) # <<>> /\ Pushed(Begun(f))
  <2>1. PICK h : h = Begun(f)
    OBVIOUS
  <2>2. /\ HandlerOK(h, server) /\ h.op = f.op /\ h.box = f.box /\ h.uids = f.uids
        /\ \/ Left(h) = Len(Plan[f.op])
           \/ f.op = "moveOut" /\ Left(h) = 9 /\ \A u \in f.uids : File(f.box, u) # None
        /\ f.op \in {"view", "moveOut"} /\ Left(h) = Len(Plan[f.op]) =>
              \A u \in f.uids : File(f.box, u) = None
    BY <1>4, <2>1, BegunOK
  <2>3. /\ Len(stack') = Len(stack) + 1 /\ stack'[Len(stack')] = h
        /\ \A i \in 1..Len(stack) : stack'[i] = stack[i]
    BY <1>4, <2>1 DEF Pushed
  <2>4. /\ \A i \in 1..Len(stack') : i = Len(stack') \/ i \in 1..Len(stack)
        /\ \A i \in 1..Len(stack) : i \in 1..Len(stack')
    BY <1>2, <2>3
  <2>5. FilesOK'
    <3>1. SUFFICES ASSUME NEW b \in Boxes, NEW u \in Uids, ~FileOK(b, u, cache, server)
                   PROVE  cache[b][u] = Torn /\ \E i \in 1..Len(stack') : Writes(stack'[i], b, u)
      BY <1>2 DEF FilesOK, FileOK
    <3>2. PICK i \in 1..Len(stack) : cache[b][u] = Torn /\ Writes(stack[i], b, u)
      BY <3>1 DEF Inv5, FilesOK
    <3> QED
      BY <2>3, <2>4, <3>2
  <2>6. FileThere(h, cache, server)
    <3>1. SUFFICES ASSUME f.op = "moveOut", Left(h) = 9, NEW u \in h.uids
                   PROVE  cache[h.box][u] = server.mail[h.box][u]
      BY <2>2 DEF FileThere
    <3>2. cache[h.box][u] # None
      BY <2>2, <3>1, PlanLengths DEF File
    <3>3. h.box \in Boxes /\ u \in Uids
      BY <2>2 DEF HandlerOK, Handlers
    <3>4. cache[h.box][u] # Torn \/ ~Running
      BY <2>2, <3>1 DEF Start, NoTornFile, File
    <3>5. ASSUME NEW i \in 1..Len(stack), Writes(stack[i], h.box, u)
          PROVE  Running
      <4>1. stack[i].waits /\ DOMAIN stack = 1..Len(stack)
        BY <1>1, <3>5, WriterWaits
      <4> QED
        BY <4>1 DEF Running
    <3>6. FileOK(h.box, u, cache, server)
      BY <3>3, <3>4, <3>5 DEF Inv5, FilesOK
    <3> QED
      BY <3>2, <3>6 DEF FileOK
  <2>7. \A i \in 1..Len(stack') : FileThere(stack'[i], cache', server')
    BY <1>2, <2>3, <2>4, <2>6 DEF Inv5
  <2>8. FileMissing(stack'[1], cache')
    <3>1. CASE Len(stack) = 0
      <4>1. stack'[1] = h
        BY <2>3, <3>1
      <4>2. ToFetch(h) => f.op \in {"view", "moveOut"} /\ Left(h) = Len(Plan[f.op])
        BY <2>2 DEF ToFetch
      <4> QED
        BY <1>2, <2>2, <4>1, <4>2 DEF FileMissing, File
    <3>2. CASE Len(stack) = 1
      BY <1>2, <2>3, <3>2 DEF Inv5
    <3> QED
      BY <1>2, <3>1, <3>2
  <2> QED
    BY <1>1, <1>2, <2>5, <2>7, <2>8 DEF Inv5
<1> QED
  BY <1>2, <1>3, <1>4

LEMMA Init5 == ASSUME Init PROVE Inv5
<1>1. Inv4 /\ stack = <<>> /\ local \subseteq Msgs /\ \A b \in Boxes, u \in Uids : cache[b][u] = None
  BY Init4, InitEffect
<1>2. Len(stack) = 0
  BY <1>1
<1> QED
  BY <1>1, <1>2 DEF Inv5, FilesOK, FileOK

LEMMA Step5 ==
    ASSUME Careful, Inv5, [Next]_vars
    PROVE  Inv5'
<1>1. Undisturbed /\ FoldersStay /\ InTime /\ NoTornFile /\ NoFailedWrite
  BY CarefulIs DEF Careful, NoTornFile, NoFailedWrite
<1>2. CASE UNCHANGED vars
  <2>1. Inv4'
    <3>1. Inv3'
      BY <1>1, <1>2, Step3 DEF Inv5, Inv4
    <3> QED
      BY <1>2, <3>1 DEF vars, Inv5, Inv4, Stale, Running
  <2>2. stack' = stack /\ cache' = cache /\ server' = server /\ local' = local
    BY <1>2 DEF vars
  <2> QED
    BY <2>1, <2>2 DEF Inv5, FilesOK
<1>3. CASE PassUi \/ SelectAgain \/ Unlink \/ CopyFile \/ Forget
  BY <1>3, PlainSteps5, CopyFile5, Forget5
<1>4. CASE \/ ReceiveFlags \/ ReceiveHeaders \/ ReceiveBody \/ ReceiveNoBody
           \/ \E s \in Commands \cup {"trySelect"} : Receive(s)
  BY <1>1, <1>4, ReadSteps5, ReceiveFlags5, ReceiveBody5
<1>5. CASE GetSession \/ ReceiveNoop \/ HearNothing \/ ReceiveExists \/ Send
  BY <1>1, <1>5, GetSession5, ReadSteps5, HearNothing5, ReceiveExists5, Send5
<1>6. CASE \E i \in DOMAIN stack : BodyBegins(i)
  BY <1>6, BodyBegins5
<1>7. CASE \/ Offline \/ Time \/ Break \/ Crash
           \/ \E b \in Boxes : \/ \E m \in Msgs : Deliver(m, b)
                               \/ \E u \in Uids : Discard(b, u)
  BY <1>1, <1>7, OtherSteps5
<1>8. CASE \E f \in Requests : Sensible(f) /\ Start(f)
  BY <1>1, <1>8, Start5
<1> QED
  BY <1>2, <1>3, <1>4, <1>5, <1>6, <1>7, <1>8 DEF Next

LEMMA CacheOf == ASSUME Inv5 PROVE CacheTrue
<1>1. ASSUME NEW b \in Boxes, NEW u \in Uids
      PROVE  \/ File(b, u) = None
             \/ u \in DOMAIN server.mail[b] /\ File(b, u) = server.mail[b][u]
             \/ \E i \in DOMAIN stack : stack[i].waits /\ Head(stack[i].todo) = "body"
                                        /\ stack[i].box = b /\ u \in stack[i].uids
  <2>1. CASE FileOK(b, u, cache, server)
    BY <2>1 DEF FileOK, File
  <2>2. ASSUME NEW i \in 1..Len(stack), Writes(stack[i], b, u)
        PROVE  i \in DOMAIN stack /\ stack[i].waits /\ Head(stack[i].todo) = "body"
               /\ stack[i].box = b /\ u \in stack[i].uids
    <3>1. stack[i].waits /\ Head(stack[i].todo) = "body" /\ DOMAIN stack = 1..Len(stack)
      BY <2>2, WriterWaits DEF Inv5, Inv4, Inv3, Inv2
    <3> QED
      BY <2>2, <3>1 DEF Writes
  <2> QED
    BY <2>1, <2>2 DEF Inv5, FilesOK
<1> QED
  BY <1>1 DEF CacheTrue, Inv5

\* A file that imap_fetch_msg would take for a message is that message, and all
\* of it, or is being written, and what gets into a local folder is a message, if
\* nothing happens that Hazards names: late replies, files that a crash leaves,
\* writes whose failure nobody notices, and what disturbs a handler in ui_update.
THEOREM CacheIsTrue == ASSUME Careful PROVE Spec => []CacheTrue
<1>1. Init => Inv5
  BY Init5
<1>2. Inv5 /\ [Next]_vars => Inv5'
  BY Step5
<1>3. Inv5 => CacheTrue
  BY CacheOf
<1> QED
  BY <1>1, <1>2, <1>3, PTL DEF Spec


-----------------------------------------------------------------------------
\* The sixth part of the invariant: where the messages are.

World == [server |-> server, conn |-> conn, local |-> local, asked |-> asked, doomed |-> doomed]

LEMMA WorldIs ==
    /\ World.server = server /\ World.conn = conn /\ World.local = local
    /\ World.asked = asked /\ World.doomed = doomed
    /\ (World').server = server' /\ (World').conn = conn' /\ (World').local = local'
    /\ (World').asked = asked' /\ (World').doomed = doomed'
BY DEF World

Unmarked(s, b) == s.present[b] \ s.deleted[b]
Holds(w, m, b) == \E u \in Unmarked(w.server, b) : w.server.mail[b][u] = m
\* A message that does not go with those h works on.
Outside(w, m, h) ==
    \E b \in Boxes : \E u \in Unmarked(w.server, b) :
        w.server.mail[b][u] = m /\ ~(b = h.box /\ u \in h.uids)
Safe(w, m) == m \in w.local \/ \E b \in Boxes : Holds(w, m, b)

\* What is marked was asked to leave, and is discarded or somewhere else.
MarksSafe(w) ==
    \A b \in Boxes : \A u \in w.server.deleted[b] :
        /\ <<w.server.mail[b][u], b>> \in w.asked
        /\ w.server.mail[b][u] \in w.doomed \/ Safe(w, w.server.mail[b][u])

\* The messages that h is to mark.
Leaves(w, h, m) ==
    \E u \in h.uids : u \in w.server.present[h.box] /\ w.server.mail[h.box][u] = m

Confirmed(w, h) == h.waits /\ w.conn.up /\ w.conn.replies[1].ok
Copied(w, h) == h.op = "move" /\ (Left(h) \in 4..8 \/ (Left(h) = 9 /\ Confirmed(w, h)))
Saved(h) == h.op = "moveOut" /\ Left(h) \in 4..8
Appended(w, h) == h.op = "moveIn" /\ (Left(h) = 1 \/ (Left(h) = 2 /\ Confirmed(w, h)))

\* What h has done for the messages that it marks or unlinks.
Cares(w, h) ==
    /\ h.op \in Removal => \A u \in h.uids : <<w.server.mail[h.box][u], h.box>> \in w.asked
    /\ h.op = "remove" => \A u \in h.uids : w.server.mail[h.box][u] \in w.doomed
    /\ Copied(w, h) => \A m : Leaves(w, h, m) => m \in w.doomed \/ Holds(w, m, h.dest)
    /\ Saved(h) => \A m : Leaves(w, h, m) => m \in w.doomed \/ m \in w.local \/ Outside(w, m, h)
    /\ Appended(w, h) => h.msg \in w.doomed \/ \E b \in Boxes : Holds(w, h.msg, b)

\* What hi may not take from lo, which it runs on top of.
Spares(w, lo, hi) ==
    /\ Saved(hi) => \A u \in hi.uids : w.server.mail[hi.box][u] \in w.local
    /\ Appended(w, hi) => hi.msg \in w.doomed \/ Outside(w, hi.msg, lo)

Inv6 ==
    /\ Inv5 /\ MarksSafe(World)
    /\ \A i \in 1..Len(stack) : Cares(World, stack[i])
    /\ Len(stack) = 2 => Spares(World, stack[1], stack[2])

Lies(w, m, b) == \E u \in w.server.present[b] : w.server.mail[b][u] = m
AtHand(w, m) == m \in w.local \/ \E b \in Boxes : Lies(w, m, b)

\* A step from w to x as KeepsMail allows it.
MailKept(w, x) ==
    \A m : /\ \A b \in Boxes : Lies(w, m, b) => Lies(x, m, b) \/ <<m, b>> \in x.asked
           /\ AtHand(w, m) => AtHand(x, m) \/ m \in x.doomed

\* Most steps take only what was marked, or what is discarded in the same step.
Gentle(w, x) ==
    /\ Sound(w.server) /\ Sound(x.server) /\ Grown(w.server, x.server)
    /\ w.local \subseteq x.local /\ w.asked \subseteq x.asked /\ w.doomed \subseteq x.doomed
    /\ \A b \in Boxes : \A u \in Unmarked(w.server, b) :
          \/ u \in Unmarked(x.server, b)
          \/ <<w.server.mail[b][u], b>> \in x.asked /\ w.server.mail[b][u] \in x.doomed
    /\ \A b \in Boxes : \A u \in x.server.present[b] :
          u \in DOMAIN w.server.mail[b] => u \in w.server.present[b]
    /\ \A b \in Boxes : \A u \in x.server.deleted[b] :
          \/ u \in w.server.deleted[b]
          \/ /\ u \in w.server.present[b]
             /\ <<w.server.mail[b][u], b>> \in x.asked /\ w.server.mail[b][u] \in x.doomed

LEMMA UnmarkedIn ==
    ASSUME NEW s, Sound(s), NEW b \in Boxes
    PROVE  /\ \A u \in Unmarked(s, b) : u \in s.present[b] /\ u \in DOMAIN s.mail[b]
           /\ \A u \in s.present[b] : u \in Unmarked(s, b) \/ u \in s.deleted[b]
           /\ \A u \in s.deleted[b] : u \in s.present[b]
           /\ \A u \in s.present[b] : u \in DOMAIN s.mail[b]
BY DEF Unmarked, Sound

LEMMA GentleHolds ==
    ASSUME NEW w, NEW x, Gentle(w, x), NEW m
    PROVE  /\ \A b \in Boxes : Holds(w, m, b) => Holds(x, m, b) \/ m \in x.doomed
           /\ \A h : Outside(w, m, h) => Outside(x, m, h) \/ m \in x.doomed
           /\ Safe(w, m) => Safe(x, m) \/ m \in x.doomed
<1>1. \A b \in Boxes : \A u \in Unmarked(w.server, b) :
          \/ u \in Unmarked(x.server, b) /\ x.server.mail[b][u] = w.server.mail[b][u]
          \/ w.server.mail[b][u] \in x.doomed
  BY UnmarkedIn DEF Gentle, Grown
<1>2. \A b \in Boxes : Holds(w, m, b) => Holds(x, m, b) \/ m \in x.doomed
  BY <1>1 DEF Holds
<1>3. \A h : Outside(w, m, h) => Outside(x, m, h) \/ m \in x.doomed
  BY <1>1 DEF Outside
<1>4. w.local \subseteq x.local
  BY DEF Gentle
<1> QED
  BY <1>2, <1>3, <1>4 DEF Safe

LEMMA GentleMarks ==
    ASSUME NEW w, NEW x, Gentle(w, x), MarksSafe(w)
    PROVE  MarksSafe(x) /\ MailKept(w, x)
<1>1. \A b \in Boxes : \A u \in w.server.present[b] :
          u \in DOMAIN w.server.mail[b] /\ x.server.mail[b][u] = w.server.mail[b][u]
  BY UnmarkedIn DEF Gentle, Grown
<1>2. \A b \in Boxes : \A u \in w.server.deleted[b] :
          /\ <<w.server.mail[b][u], b>> \in x.asked
          /\ w.server.mail[b][u] \in x.doomed \/ Safe(x, w.server.mail[b][u])
  BY GentleHolds DEF Gentle, MarksSafe
<1>3. MarksSafe(x)
  <2> SUFFICES ASSUME NEW b \in Boxes, NEW u \in x.server.deleted[b]
               PROVE  /\ <<x.server.mail[b][u], b>> \in x.asked
                      /\ x.server.mail[b][u] \in x.doomed \/ Safe(x, x.server.mail[b][u])
    BY DEF MarksSafe
  <2>1. CASE u \in w.server.deleted[b]
    <3>1. u \in w.server.present[b]
      BY <2>1, UnmarkedIn DEF Gentle
    <3> QED
      BY <1>1, <1>2, <2>1, <3>1
  <2>2. CASE u \notin w.server.deleted[b]
    BY <1>1, <2>2 DEF Gentle
  <2> QED
    BY <2>1, <2>2
<1>4. \A b \in Boxes : \A u \in w.server.present[b] :
          \/ u \in Unmarked(x.server, b)
          \/ /\ <<w.server.mail[b][u], b>> \in x.asked
             /\ w.server.mail[b][u] \in x.doomed \/ Safe(x, w.server.mail[b][u])
  BY <1>2, UnmarkedIn DEF Gentle
<1>5. \A b \in Boxes : \A u \in Unmarked(x.server, b) : u \in x.server.present[b]
  BY DEF Unmarked
<1>6. ASSUME NEW m, NEW b \in Boxes, Lies(w, m, b)
      PROVE  Lies(x, m, b) \/ (<<m, b>> \in x.asked /\ (m \in x.doomed \/ Safe(x, m)))
  BY <1>1, <1>4, <1>5, <1>6 DEF Lies
<1>7. ASSUME NEW m, Safe(x, m) PROVE AtHand(x, m)
  BY <1>5, <1>7 DEF Safe, Holds, AtHand, Lies
<1>8. w.local \subseteq x.local
  BY DEF Gentle
<1> QED
  BY <1>3, <1>6, <1>7, <1>8 DEF MailKept, AtHand

\* A handler that nothing happens to.
LEMMA GentleCares ==
    ASSUME NEW w, NEW x, Gentle(w, x), NEW h, HandlerOK(h, w.server), Cares(w, h),
           Confirmed(x, h) => Confirmed(w, h)
    PROVE  Cares(x, h)
<1>1. h.box \in Boxes /\ h.dest \in Boxes
  BY DEF HandlerOK, Handlers
<1>2. \A u \in h.uids : /\ x.server.mail[h.box][u] = w.server.mail[h.box][u]
                        /\ u \in DOMAIN w.server.mail[h.box]
  BY <1>1 DEF HandlerOK, Gentle, Grown
<1>3. \A m : Leaves(x, h, m) => Leaves(w, h, m)
  BY <1>1, <1>2 DEF Leaves, Gentle
<1>4. w.local \subseteq x.local /\ w.asked \subseteq x.asked /\ w.doomed \subseteq x.doomed
  BY DEF Gentle
<1>5. Copied(x, h) => Copied(w, h)
  BY DEF Copied
<1>6. Appended(x, h) => Appended(w, h)
  BY DEF Appended
<1>7. h.op \in Removal => \A u \in h.uids : <<x.server.mail[h.box][u], h.box>> \in x.asked
  BY <1>2, <1>4 DEF Cares
<1>8. h.op = "remove" => \A u \in h.uids : x.server.mail[h.box][u] \in x.doomed
  BY <1>2, <1>4 DEF Cares
<1>9. Copied(x, h) => \A m : Leaves(x, h, m) => m \in x.doomed \/ Holds(x, m, h.dest)
  BY <1>1, <1>3, <1>4, <1>5, GentleHolds DEF Cares
<1>10. Saved(h) => \A m : Leaves(x, h, m) => m \in x.doomed \/ m \in x.local \/ Outside(x, m, h)
  BY <1>3, <1>4, GentleHolds DEF Cares
<1>11. Appended(x, h) => h.msg \in x.doomed \/ \E b \in Boxes : Holds(x, h.msg, b)
  BY <1>4, <1>6, GentleHolds DEF Cares
<1> QED
  BY <1>7, <1>8, <1>9, <1>10, <1>11 DEF Cares

LEMMA GentleSpares ==
    ASSUME NEW w, NEW x, Gentle(w, x), NEW lo, NEW hi, HandlerOK(hi, w.server), Spares(w, lo, hi),
           Confirmed(x, hi) => Confirmed(w, hi)
    PROVE  Spares(x, lo, hi)
<1>1. hi.box \in Boxes
  BY DEF HandlerOK, Handlers
<1>2. \A u \in hi.uids : x.server.mail[hi.box][u] = w.server.mail[hi.box][u]
  BY <1>1 DEF HandlerOK, Gentle, Grown
<1>3. w.local \subseteq x.local /\ w.doomed \subseteq x.doomed
  BY DEF Gentle
<1>4. Appended(x, hi) => Appended(w, hi)
  BY DEF Appended
<1> QED
  BY <1>2, <1>3, <1>4, GentleHolds DEF Spares


\* A handler with the same work and as many steps left.
SameWork(h, k) ==
    /\ k.op = h.op /\ k.box = h.box /\ k.uids = h.uids /\ k.dest = h.dest /\ k.msg = h.msg
    /\ Left(k) = Left(h)

LEMMA SameCares ==
    ASSUME NEW w, NEW h, NEW k, SameWork(h, k), Cares(w, h), Confirmed(w, k) => Confirmed(w, h)
    PROVE  Cares(w, k)
<1>1. \A m : Leaves(w, k, m) <=> Leaves(w, h, m)
  BY DEF SameWork, Leaves
<1>2. \A m : Outside(w, m, k) <=> Outside(w, m, h)
  BY DEF SameWork, Outside
<1>3. /\ Copied(w, k) => Copied(w, h)
      /\ Saved(k) => Saved(h)
      /\ Appended(w, k) => Appended(w, h)
  BY DEF SameWork, Copied, Saved, Appended
<1> QED
  BY <1>1, <1>2, <1>3 DEF SameWork, Cares

LEMMA SameSpares ==
    ASSUME NEW w, NEW lo, NEW hi, NEW h, NEW k, SameWork(lo, h), SameWork(hi, k), Spares(w, lo, hi),
           Confirmed(w, k) => Confirmed(w, hi)
    PROVE  Spares(w, h, k)
<1>1. \A m : Outside(w, m, h) <=> Outside(w, m, lo)
  BY DEF SameWork, Outside
<1>2. /\ Saved(k) => Saved(hi)
      /\ Appended(w, k) => Appended(w, hi)
  BY DEF SameWork, Saved, Appended
<1> QED
  BY <1>1, <1>2 DEF SameWork, Spares

\* A handler that goes on to its next step.
LEMMA NextCares ==
    ASSUME NEW w, NEW h, NEW s, HandlerOK(h, s), Left(h) > 1, Cares(w, h),
           Step(h) \in {"copy", "append"} => Confirmed(w, h),
           Step(h) = "copyFile" => \A u \in h.uids : w.server.mail[h.box][u] \in w.local
    PROVE  /\ Cares(w, NextStep(h))
           /\ \A lo : Spares(w, lo, h) => Spares(w, lo, NextStep(h))
<1> DEFINE k == NextStep(h)
<1>1. /\ k.op = h.op /\ k.box = h.box /\ k.uids = h.uids /\ k.dest = h.dest /\ k.msg = h.msg
      /\ Left(k) = Left(h) - 1 /\ ~k.waits
  BY NextFits DEF HandlerOK
<1>2. Left(h) \in Nat
  BY DEF HandlerOK, Fits
<1> HIDE DEF k
<1>3. \A m : Leaves(w, k, m) => Leaves(w, h, m)
  BY <1>1 DEF Leaves
<1>4. \A m : Outside(w, m, h) => Outside(w, m, k)
  BY <1>1 DEF Outside
<1>5. Copied(w, k) => Copied(w, h)
  <2> SUFFICES ASSUME Copied(w, k) PROVE Copied(w, h)
    OBVIOUS
  <2>1. h.op = "move" /\ Left(h) \in 5..9
    BY <1>1, <1>2 DEF Copied, Confirmed
  <2>2. Left(h) = 9 => Step(h) = "copy"
    BY <2>1, WhatIsLeft DEF Step
  <2> QED
    BY <2>1, <2>2 DEF Copied
<1>6. Saved(k) => Saved(h) \/ \A u \in h.uids : w.server.mail[h.box][u] \in w.local
  <2> SUFFICES ASSUME Saved(k) PROVE Saved(h) \/ \A u \in h.uids : w.server.mail[h.box][u] \in w.local
    OBVIOUS
  <2>1. h.op = "moveOut" /\ Left(h) \in 5..9
    BY <1>1, <1>2 DEF Saved
  <2>2. Left(h) = 9 => Step(h) = "copyFile"
    BY <2>1, WhatIsLeft DEF Step
  <2> QED
    BY <2>1, <2>2 DEF Saved
<1>7. Appended(w, k) => Appended(w, h) /\ Step(h) = "append"
  <2> SUFFICES ASSUME Appended(w, k) PROVE Appended(w, h) /\ Step(h) = "append"
    OBVIOUS
  <2>1. h.op = "moveIn" /\ Left(h) \in 2..3 /\ Left(h) = 2
    BY <1>1, <1>2 DEF Appended, Confirmed
  <2>2. Step(h) = "append"
    BY <2>1, WhatIsLeft DEF Step
  <2> QED
    BY <2>1, <2>2 DEF Appended
<1>8. Copied(w, k) => \A m : Leaves(w, k, m) => m \in w.doomed \/ Holds(w, m, k.dest)
  BY <1>1, <1>3, <1>5 DEF Cares
<1>9. Saved(k) => \A m : Leaves(w, k, m) => m \in w.doomed \/ m \in w.local \/ Outside(w, m, k)
  BY <1>3, <1>4, <1>6 DEF Cares, Leaves
<1>10. Appended(w, k) => k.msg \in w.doomed \/ \E b \in Boxes : Holds(w, k.msg, b)
  BY <1>1, <1>7 DEF Cares
<1>11. Cares(w, k)
  BY <1>1, <1>8, <1>9, <1>10 DEF Cares
<1>12. \A lo : Spares(w, lo, h) => Spares(w, lo, k)
  BY <1>1, <1>6, <1>7 DEF Spares
<1> QED
  BY <1>11, <1>12 DEF k

\* The handler at the top does a step, and it is gentle.
LEMMA TopKept ==
    ASSUME Inv6, Inv5', stack # <<>>, Gentle(World, World'),
           ~Top.waits /\ Running => conn' = conn,
           \/ Popped
           \/ \E h : /\ Replaced(Len(stack), h) /\ Cares(World', h)
                     /\ Len(stack) = 2 => Spares(World', stack[1], h)
    PROVE  Inv6' /\ MailKept(World, World')
<1>1. MarksSafe(World') /\ MailKept(World, World')
  BY GentleMarks DEF Inv6
<1>2. Inv1 /\ Inv2
  BY DEF Inv6, Inv5, Inv4, Inv3, Inv2
<1>3. Len(stack) \in 1..2 /\ Top = stack[Len(stack)]
  BY <1>2, TopOK
<1>4. ASSUME Len(stack) = 2 PROVE Cares(World', stack[1])
  <2>1. HandlerOK(stack[1], server)
    BY <1>2, <1>4, TwoHandlers
  <2>2. stack[1].waits => conn' = conn
    <3>1. Top = stack[2] /\ (stack[1].waits /\ Top.waits => 1 = 2)
      BY <1>2, <1>3, <1>4 DEF Inv1, StackOK
    <3>2. stack[1].waits => Running
      BY <1>2, <1>4, TopOK DEF Running
    <3>3. Top.waits \in BOOLEAN
      BY <1>2, TopOK
    <3> QED
      BY <3>1, <3>2, <3>3
  <2>3. Confirmed(World', stack[1]) => Confirmed(World, stack[1])
    BY <2>2, WorldIs DEF Confirmed
  <2>4. HandlerOK(stack[1], World.server)
    BY <2>1, WorldIs
  <2>5. Cares(World, stack[1])
    BY <1>4 DEF Inv6
  <2> QED
    BY <2>3, <2>4, <2>5, GentleCares
<1>5. CASE Popped
  <2>1. Len(stack') \in 0..1 /\ (Len(stack') = 1 => Len(stack) = 2 /\ stack'[1] = stack[1])
    BY <1>3, <1>5 DEF Popped
  <2>2. \A i \in 1..Len(stack') : Cares(World', stack'[i])
    BY <1>4, <2>1
  <2>3. Len(stack') # 2
    BY <2>1
  <2> QED
    BY <1>1, <2>2, <2>3 DEF Inv6
<1>6. ASSUME NEW h, Replaced(Len(stack), h), Cares(World', h),
             Len(stack) = 2 => Spares(World', stack[1], h)
      PROVE  Inv6' /\ MailKept(World, World')
  <2>1. /\ Len(stack') = Len(stack) /\ stack'[Len(stack)] = h
        /\ Len(stack) = 2 => stack'[1] = stack[1]
    BY <1>3, <1>6 DEF Replaced
  <2>2. \A i \in 1..Len(stack') : Cares(World', stack'[i])
    BY <1>3, <1>4, <1>6, <2>1
  <2>3. Len(stack') = 2 => Spares(World', stack'[1], stack'[2])
    BY <1>6, <2>1
  <2> QED
    BY <1>1, <2>2, <2>3 DEF Inv6
<1> QED
  BY <1>5, <1>6


LEMMA GentleSame ==
    ASSUME Inv1, server' = server, local \subseteq local', asked \subseteq asked',
           doomed \subseteq doomed'
    PROVE  Gentle(World, World')
<1>1. Sound(server) /\ Grown(server, server')
  BY SameServer DEF Inv1
<1>2. \A b \in Boxes : \A u \in server.deleted[b] : u \in server.present[b]
  BY <1>1, UnmarkedIn
<1> QED
  BY <1>1, WorldIs DEF Gentle

LEMMA MovesKept ==
    ASSUME Inv6, Inv5', stack # <<>>, Moves, server' = server, local \subseteq local',
           asked' = asked, doomed' = doomed,
           ~Top.waits /\ Running => conn' = conn,
           Left(Top) > 1 /\ TopGoesOn(NextStep(Top)) =>
                /\ Step(Top) # "copyFile"
                /\ Step(Top) \in {"copy", "append"} => Confirmed(World, Top)
    PROVE  Inv6' /\ MailKept(World, World')
<1>1. Inv1 /\ Inv2
  BY DEF Inv6, Inv5, Inv4, Inv3, Inv2
<1>2. Gentle(World, World')
  BY <1>1, GentleSame
<1>3. /\ Len(stack) \in 1..2 /\ Top = stack[Len(stack)] /\ HandlerOK(Top, server)
      /\ Cares(World, Top)
  <2>1. Len(stack) \in 1..2 /\ Top = stack[Len(stack)] /\ HandlerOK(Top, server)
    BY <1>1, TopOK
  <2>2. PICK n \in 1..2 : n = Len(stack)
    BY <2>1
  <2>3. n \in 1..n
    OBVIOUS
  <2> QED
    BY <2>1, <2>2, <2>3 DEF Inv6
<1>4. CASE Popped
  BY <1>2, <1>4, TopKept
<1>5. CASE Left(Top) > 1 /\ TopGoesOn(NextStep(Top))
  <2>1. PICK h : h = Top
    OBVIOUS
  <2>2. PICK k : k = NextStep(Top)
    OBVIOUS
  <2>3. /\ Cares(World, k)
        /\ \A lo : Spares(World, lo, h) => Spares(World, lo, k)
    BY <1>3, <1>5, <2>1, <2>2, NextCares
  <2>4. HandlerOK(k, server) /\ ~k.waits /\ Replaced(Len(stack), k)
    BY <1>3, <1>5, <2>2, NextOK DEF TopGoesOn
  <2>5. HandlerOK(k, World.server) /\ ~Confirmed(World', k)
    BY <2>4, WorldIs DEF Confirmed
  <2>6. Cares(World', k)
    BY <1>2, <2>3, <2>5, GentleCares
  <2>7. Len(stack) = 2 => Spares(World', stack[1], k)
    <3> SUFFICES ASSUME Len(stack) = 2 PROVE Spares(World', stack[1], k)
      OBVIOUS
    <3>1. Spares(World, stack[1], k)
      BY <1>3, <2>1, <2>3 DEF Inv6
    <3> QED
      BY <1>2, <2>5, <3>1, GentleSpares
  <2> QED
    BY <1>2, <2>4, <2>6, <2>7, TopKept
<1> QED
  BY <1>4, <1>5 DEF Moves

LEMMA Inv6Is == ASSUME Inv6 PROVE Inv1 /\ Inv2 /\ Inv3 /\ Inv4 /\ Inv5
BY DEF Inv6, Inv5, Inv4, Inv3, Inv2

LEMMA PassUi6 == ASSUME Inv6, Inv5', PassUi PROVE Inv6' /\ MailKept(World, World')
<1>1. Moves /\ stack # <<>> /\ Step(Top) = "ui"
  BY Inv6Is, PassUi1, StepIs DEF PassUi
<1> QED
  BY <1>1, MovesKept DEF PassUi

LEMMA SelectAgain6 == ASSUME Inv6, Inv5', SelectAgain PROVE Inv6' /\ MailKept(World, World')
<1>1. Moves /\ stack # <<>> /\ Step(Top) = "trySelect"
  BY Inv6Is, SelectAgain1, StepIs DEF SelectAgain
<1> QED
  BY <1>1, MovesKept DEF SelectAgain

LEMMA Forget6 == ASSUME Inv6, Inv5', Forget PROVE Inv6' /\ MailKept(World, World')
<1>1. Moves /\ stack # <<>> /\ Step(Top) = "forget"
  BY Inv6Is, Forget1, StepIs DEF Forget
<1> QED
  BY <1>1, MovesKept DEF Forget

LEMMA GetSession6 == ASSUME Inv6, Inv5', GetSession PROVE Inv6' /\ MailKept(World, World')
<1>1. Moves /\ stack # <<>> /\ Step(Top) = "session"
  BY Inv6Is, GetSession1, StepIs DEF GetSession
<1>2. ~Top.waits /\ Running => conn' = conn
  <2>1. Running => session.open
    BY Inv6Is DEF Inv1, RepliesOK
  <2> QED
    BY <2>1 DEF GetSession
<1> QED
  BY <1>1, <1>2, MovesKept DEF GetSession

LEMMA ReceiveNoop6 == ASSUME Inv6, Inv5', ReceiveNoop PROVE Inv6' /\ MailKept(World, World')
<1>1. Moves /\ stack # <<>> /\ Step(Top) = "session" /\ Top.waits
  BY Inv6Is, ReceiveNoop1, StepIs, HeardTop DEF ReceiveNoop
<1> QED
  BY <1>1, MovesKept DEF ReceiveNoop

LEMMA Receive6 ==
    ASSUME Inv6, Inv5', NEW s \in Commands \cup {"trySelect"}, Receive(s)
    PROVE  Inv6' /\ MailKept(World, World')
<1>1. Moves /\ stack # <<>> /\ Top.waits /\ Todo = s /\ conn.up
  BY Inv6Is, Receive1, HeardTop DEF Receive
<1>2. Step(Top) = s
  <2>1. s # "body"
    BY DEF Commands, UidCommands
  <2> QED
    BY <1>1, <2>1, Inv6Is, StepIs DEF Receive
<1>3. s # "copyFile"
  BY DEF Commands, UidCommands
<1>4. Left(Top) > 1 /\ TopGoesOn(NextStep(Top)) => Confirmed(World, Top)
  <2>1. server' = server
    BY DEF Receive
  <2>2. TopGoesOn(NextStep(Top)) => Accepted
    BY <1>1, <2>1, Inv6Is, Refused DEF Receive
  <2>3. Head(conn.replies) = conn.replies[1]
    BY <1>1, Inv6Is, ReadEffect DEF Receive
  <2> QED
    BY <1>1, <2>2, <2>3, WorldIs DEF Confirmed, Accepted
<1> QED
  BY <1>1, <1>2, <1>3, <1>4, MovesKept DEF Receive

LEMMA ReadSteps6 ==
    ASSUME Inv6, Inv5', ReceiveFlags \/ ReceiveHeaders \/ ReceiveBody \/ ReceiveNoBody
    PROVE  Inv6' /\ MailKept(World, World')
<1>1. Moves
  BY Inv6Is, ReceiveFlags1, ReceiveHeaders1, ReceiveBody1, ReceiveNoBody1
<1>2. stack # <<>> /\ Top.waits /\ Todo \in {"flags", "headers", "body", "fetch"}
  BY HeardTop DEF ReceiveFlags, ReceiveHeaders, ReceiveBody, ReceiveNoBody
<1>3. Step(Top) \in {"flags", "headers", "fetch"}
  BY <1>2, Inv6Is, TopOK
<1> QED
  BY <1>1, <1>2, <1>3, MovesKept DEF ReceiveFlags, ReceiveHeaders, ReceiveBody, ReceiveNoBody

LEMMA HearNothing6 == ASSUME Inv6, Inv5', HearNothing PROVE Inv6' /\ MailKept(World, World')
<1>1. Moves /\ stack # <<>> /\ Top.waits
  BY Inv6Is, HearNothing1 DEF HearNothing
<1>2. Todo = "session" => Step(Top) = "session"
  BY <1>1, Inv6Is, TopOK
<1>3. Todo # "session" => ~TopGoesOn(NextStep(Top))
  BY <1>1, Inv6Is, Refused DEF HearNothing
<1> QED
  BY <1>1, <1>2, <1>3, MovesKept DEF HearNothing


-----------------------------------------------------------------------------
\* Steps of the server and of others that leave the handlers as they are.

LEMMA AddGentle ==
    ASSUME Sound(server), NEW b \in Boxes, NEW ms \in Seq(Msgs), server' = Add(server, b, ms),
           local \subseteq local', asked \subseteq asked', doomed \subseteq doomed'
    PROVE  Gentle(World, World')
<1>1. PICK t : t = server'
  OBVIOUS
<1>2. t = Add(server, b, ms)
  BY <1>1
<1>3. /\ Sound(t) /\ Grown(server, t) /\ t.deleted = server.deleted
      /\ \A c \in Boxes : server.present[c] \subseteq t.present[c]
      /\ \A c \in Boxes : c # b => t.present[c] = server.present[c]
      /\ \A u \in t.present[b] : u \in server.present[b] \/ u \notin DOMAIN server.mail[b]
  <2>1. PICK n : n = Len(server.mail[b])
    OBVIOUS
  <2> QED
    BY <1>2, <2>1, AddEffect
<1>4. \A c \in Boxes : \A u \in Unmarked(server, c) : u \in Unmarked(t, c)
  BY <1>3 DEF Unmarked
<1>5. \A c \in Boxes : \A u \in t.present[c] :
          u \in DOMAIN server.mail[c] => u \in server.present[c]
  BY <1>3
<1> QED
  BY <1>1, <1>3, <1>4, <1>5, WorldIs DEF Gentle

LEMMA SmallStack ==
    ASSUME Inv1
    PROVE  Len(stack) \in 0..2 /\ DOMAIN stack = 1..Len(stack)
<1>1. stack \in Seq(Handlers) /\ Len(stack) <= 2
  BY DEF Inv1, StackOK
<1>2. Len(stack) \in Nat /\ DOMAIN stack = 1..Len(stack)
  BY <1>1
<1> QED
  BY <1>1, <1>2

LEMMA StackKept ==
    ASSUME Inv6, Inv5', Gentle(World, World'), Len(stack') = Len(stack),
           \A i \in 1..Len(stack) :
              /\ SameWork(stack[i], stack'[i])
              /\ Confirmed(World', stack'[i]) => Confirmed(World, stack[i]),
           \A i \in 1..Len(stack) : stack'[i].waits => stack[i].waits,
           conn' = conn \/ ~conn'.up \/ ~Running
    PROVE  Inv6' /\ MailKept(World, World')
<1>1. MarksSafe(World') /\ MailKept(World, World')
  BY GentleMarks DEF Inv6
<1>2. /\ Len(stack) \in 0..2 /\ DOMAIN stack = 1..Len(stack)
      /\ \A i \in 1..Len(stack) : HandlerOK(stack[i], World.server)
  BY Inv6Is, SmallStack, WorldIs DEF Inv1, StackOK
<1>3. \A i \in 1..Len(stack) : Confirmed(World', stack[i]) => Confirmed(World, stack[i])
  BY <1>2, WorldIs DEF Confirmed, Running
<1>4. \A i \in 1..Len(stack) : Cares(World', stack[i])
  BY <1>2, <1>3, GentleCares DEF Inv6
<1>5. \A i \in 1..Len(stack) : Confirmed(World', stack'[i]) => Confirmed(World', stack[i])
  BY <1>2, WorldIs DEF Confirmed, Running
<1>6. \A i \in 1..Len(stack) : Cares(World', stack'[i])
  BY <1>4, <1>5, SameCares
<1>7. Len(stack) = 2 => Spares(World', stack'[1], stack'[2])
  <2> SUFFICES ASSUME Len(stack) = 2 PROVE Spares(World', stack'[1], stack'[2])
    OBVIOUS
  <2>1. Spares(World', stack[1], stack[2])
    BY <1>2, <1>3, GentleSpares DEF Inv6
  <2> QED
    BY <1>5, <2>1, SameSpares
<1> QED
  BY <1>1, <1>6, <1>7 DEF Inv6

LEMMA SameStack ==
    ASSUME Inv6, Inv5', Gentle(World, World'), stack' = stack,
           conn' = conn \/ ~conn'.up \/ ~Running
    PROVE  Inv6' /\ MailKept(World, World')
<1>1. DOMAIN stack = 1..Len(stack)
  BY Inv6Is, SmallStack
<1>2. \A i \in 1..Len(stack) : SameWork(stack[i], stack'[i])
  BY DEF SameWork
<1>3. \A i \in 1..Len(stack) : Confirmed(World', stack'[i]) => Confirmed(World, stack[i])
  BY <1>1, WorldIs DEF Confirmed, Running
<1> QED
  BY <1>2, <1>3, StackKept

LEMMA OtherSteps6 ==
    ASSUME Undisturbed, Inv6, Inv5', Offline \/ Time \/ Break
    PROVE  Inv6' /\ MailKept(World, World')
<1>1. server' = server /\ local' = local /\ asked' = asked /\ doomed' = doomed /\ stack' = stack
  BY DEF Offline, Time, Break
<1>2. conn' = conn \/ ~conn'.up
  BY NothingConnected DEF Offline, Time, Break
<1>3. Gentle(World, World')
  BY <1>1, Inv6Is, GentleSame
<1> QED
  BY <1>1, <1>2, <1>3, SameStack

LEMMA Crash6 == ASSUME Inv6, Inv5', Crash PROVE Inv6' /\ MailKept(World, World')
<1>1. server' = server /\ local' = local /\ asked' = asked /\ doomed' = doomed
      /\ stack' = <<>>
  BY DEF Crash
<1>2. Gentle(World, World')
  BY <1>1, Inv6Is, GentleSame
<1>3. MarksSafe(World') /\ MailKept(World, World')
  BY <1>2, GentleMarks DEF Inv6
<1>4. Len(stack') = 0 /\ 1..Len(stack') = {}
  BY <1>1
<1> QED
  BY <1>3, <1>4 DEF Inv6

LEMMA Deliver6 ==
    ASSUME Inv6, Inv5', NEW m \in Msgs, NEW b \in Boxes, Deliver(m, b)
    PROVE  Inv6' /\ MailKept(World, World')
<1>1. PICK ms : ms = <<m>>
  OBVIOUS
<1>2. ms \in Seq(Msgs)
  BY <1>1
<1>3. /\ server' = Add(server, b, ms)
      /\ conn' = conn /\ local' = local /\ asked' = asked /\ doomed' = doomed /\ stack' = stack
  BY <1>1 DEF Deliver
<1>4. Gentle(World, World')
  BY <1>2, <1>3, Inv6Is, AddGentle DEF Inv1
<1> QED
  BY <1>3, <1>4, SameStack

LEMMA Discard6 ==
    ASSUME Inv6, Inv5', NEW b \in Boxes, NEW u \in Uids, Discard(b, u)
    PROVE  Inv6' /\ MailKept(World, World')
<1>1. /\ conn' = conn /\ local' = local /\ stack' = stack
      /\ doomed' = doomed \cup {server.mail[b][u]}
      /\ asked' = asked \cup ({server.mail[b][u]} \X {b})
  BY DEF Discard
<1>2. /\ u \in server.present[b] /\ Sound(server) /\ Sound(server') /\ server'.mail = server.mail
      /\ server' \in {Marked(server, b, {u}), Expunge(Marked(server, b, {u}), b)}
  BY Inv6Is, DiscardEffect DEF Inv1
<1>3. server.mail[b][u] \in doomed' /\ <<server.mail[b][u], b>> \in asked'
  BY <1>1
<1>4. PICK s : s = Marked(server, b, {u})
  OBVIOUS
<1>5. /\ Sound(s) /\ s.present = server.present /\ s.deleted[b] = server.deleted[b] \cup {u}
      /\ \A c \in Boxes : c # b => s.deleted[c] = server.deleted[c]
  BY <1>2, <1>4, MarkEffect
<1>6. /\ \A c \in Boxes : server'.present[c] \subseteq server.present[c]
      /\ \A c \in Boxes : server'.deleted[c] \subseteq s.deleted[c]
      /\ \A c \in Boxes : \A v \in server.present[c] : v \in server'.present[c] \/ v \in s.deleted[c]
  <2>1. CASE server' = s
    BY <1>5, <2>1
  <2>2. CASE server' = Expunge(s, b)
    <3>1. /\ server'.present[b] = s.present[b] \ s.deleted[b] /\ server'.deleted[b] = {}
          /\ \A c \in Boxes : c # b => /\ server'.present[c] = s.present[c]
                                       /\ server'.deleted[c] = s.deleted[c]
      BY <1>5, <2>2, ExpungeEffect
    <3> QED
      BY <1>5, <3>1
  <2> QED
    BY <1>2, <1>4, <2>1, <2>2
<1>7. \A c \in Boxes : \A v \in Unmarked(server, c) :
          v \in Unmarked(server', c) \/ (c = b /\ v = u)
  BY <1>5, <1>6 DEF Unmarked
<1>8. \A c \in Boxes : \A v \in server'.deleted[c] : v \in server.deleted[c] \/ (c = b /\ v = u)
  BY <1>5, <1>6
<1>9. Grown(server, server')
  BY <1>2 DEF Grown
<1>10. Gentle(World, World')
  BY <1>1, <1>2, <1>3, <1>6, <1>7, <1>8, <1>9, WorldIs DEF Gentle
<1> QED
  BY <1>1, <1>10, SameStack

LEMMA BodyBegins6 ==
    ASSUME Inv6, Inv5', NEW i \in DOMAIN stack, BodyBegins(i)
    PROVE  Inv6' /\ MailKept(World, World')
<1>1. /\ i \in 1..Len(stack) /\ HandlerOK(stack[i], server) /\ stack[i].waits
      /\ Head(stack[i].todo) = "fetch" /\ Replaced(i, WithBody(stack[i]))
      /\ server' = server /\ conn' = conn /\ local' = local /\ asked' = asked /\ doomed' = doomed
  BY Inv6Is, BodyEffect DEF BodyBegins
<1>2. PICK k : k = WithBody(stack[i])
  OBVIOUS
<1>3. SameWork(stack[i], k) /\ k.waits
  BY <1>1, <1>2, WithBodyOK DEF SameWork
<1>4. /\ Len(stack') = Len(stack) /\ stack'[i] = k
      /\ \A j \in 1..Len(stack) : j # i => stack'[j] = stack[j]
  BY <1>1, <1>2 DEF Replaced
<1>5. \A j \in 1..Len(stack) :
          SameWork(stack[j], stack'[j]) /\ (stack'[j].waits => stack[j].waits)
  BY <1>1, <1>3, <1>4 DEF SameWork
<1>6. Gentle(World, World')
  BY <1>1, Inv6Is, GentleSame
<1>7. \A j \in 1..Len(stack) : Confirmed(World', stack'[j]) => Confirmed(World, stack[j])
  BY <1>1, <1>5, WorldIs DEF Confirmed
<1> QED
  BY <1>1, <1>4, <1>5, <1>6, <1>7, StackKept


LEMMA TopCares ==
    ASSUME Inv6, stack # <<>>
    PROVE  /\ Len(stack) \in 1..2 /\ Top = stack[Len(stack)] /\ HandlerOK(Top, server)
           /\ Cares(World, Top)
           /\ Len(stack) = 2 => /\ HandlerOK(stack[1], server) /\ Cares(World, stack[1])
                                /\ Top = stack[2] /\ Spares(World, stack[1], Top)
<1>1. Len(stack) \in 1..2 /\ Top = stack[Len(stack)] /\ HandlerOK(Top, server)
  BY Inv6Is, TopOK
<1>2. PICK n \in 1..2 : n = Len(stack)
  BY <1>1
<1>3. n \in 1..n
  OBVIOUS
<1>4. Len(stack) = 2 => HandlerOK(stack[1], server)
  BY Inv6Is, TwoHandlers
<1> QED
  BY <1>1, <1>2, <1>3, <1>4 DEF Inv6

LEMMA ReceiveExists6 == ASSUME Inv6, Inv5', ReceiveExists PROVE Inv6' /\ MailKept(World, World')
<1>1. /\ Top.op = "list" /\ stack # <<>> /\ Top.waits /\ Todo = "select"
      /\ Moves \/ TopGoesOn(OnlyHeaders(Top))
      /\ server' = server /\ local' = local /\ asked' = asked /\ doomed' = doomed
  BY Inv6Is, ReceiveExists1, HeardTop DEF ReceiveExists
<1>2. CASE Moves
  <2>1. Step(Top) = "select"
    BY <1>1, Inv6Is, TopOK
  <2> QED
    BY <1>1, <1>2, <2>1, MovesKept
<1>3. CASE TopGoesOn(OnlyHeaders(Top))
  <2>1. PICK k : k = OnlyHeaders(Top)
    OBVIOUS
  <2>2. k.op = "list" /\ Replaced(Len(stack), k)
    BY <1>1, <1>3, <2>1, TopCares, OnlyHeadersOK DEF TopGoesOn
  <2>3. Cares(World', k) /\ \A lo : Spares(World', lo, k)
    BY <2>2 DEF Cares, Spares, Removal, Copied, Saved, Appended
  <2>4. Gentle(World, World')
    BY <1>1, Inv6Is, GentleSame
  <2> QED
    BY <1>1, <2>2, <2>3, <2>4, TopKept
<1> QED
  BY <1>1, <1>2, <1>3

LEMMA CopyFile6 == ASSUME Inv6, Inv5', CopyFile PROVE Inv6' /\ MailKept(World, World')
<1>1. /\ Moves /\ stack # <<>> /\ ~Top.waits /\ Step(Top) = "copyFile" /\ HandlerOK(Top, server)
      /\ server' = server /\ conn' = conn /\ asked' = asked /\ doomed' = doomed
      /\ local \subseteq local'
  BY Inv6Is, CopyFile1, ToCopy DEF CopyFile
<1>2. Gentle(World, World')
  BY <1>1, Inv6Is, GentleSame
<1>3. CASE Popped
  BY <1>1, <1>2, <1>3, TopKept
<1>4. CASE Left(Top) > 1 /\ TopGoesOn(NextStep(Top))
  <2>1. Continue
    <3>1. ~Fail
      BY <1>1, <1>4, Inv6Is, Refused
    <3> QED
      BY <3>1 DEF CopyFile
  <2>2. \A u \in Top.uids : server.mail[Top.box][u] \in local'
    <3>1. local' = local \cup {File(Top.box, CHOOSE u \in Top.uids : TRUE)}
      <4>1. ~Fail
        BY <1>1, <1>4, Inv6Is, Refused
      <4> QED
        BY <4>1 DEF CopyFile
    <3>2. PICK u \in Uids : /\ Top.uids = {u} /\ (CHOOSE v \in Top.uids : TRUE) = u
                            /\ cache[Top.box][u] = server.mail[Top.box][u]
      BY Inv6Is, ToCopy DEF CopyFile
    <3> QED
      BY <3>1, <3>2 DEF File
  <2>3. PICK h : h = Top
    OBVIOUS
  <2>4. PICK k : k = NextStep(Top)
    OBVIOUS
  <2>5. HandlerOK(h, World.server) /\ Cares(World, h)
    BY <1>1, <2>3, TopCares, WorldIs
  <2>6. Confirmed(World', h) => Confirmed(World, h)
    BY <1>1, WorldIs DEF Confirmed
  <2>7. Cares(World', h)
    BY <1>2, <2>5, <2>6, GentleCares
  <2>8. \A u \in h.uids : (World').server.mail[h.box][u] \in (World').local
    BY <1>1, <2>2, <2>3, WorldIs
  <2>9. Cares(World', k) /\ \A lo : Spares(World', lo, h) => Spares(World', lo, k)
    <3>1. HandlerOK(h, server) /\ Left(h) > 1 /\ Step(h) = "copyFile" /\ k = NextStep(h)
      BY <1>1, <1>4, <2>3, <2>4
    <3> QED
      BY <2>7, <2>8, <3>1, NextCares
  <2>10. Len(stack) = 2 => Spares(World', stack[1], k)
    <3> SUFFICES ASSUME Len(stack) = 2 PROVE Spares(World', stack[1], k)
      OBVIOUS
    <3>1. Spares(World, stack[1], h)
      BY <1>1, <2>3, TopCares
    <3>2. Spares(World', stack[1], h)
      BY <1>2, <2>5, <2>6, <3>1, GentleSpares
    <3> QED
      BY <2>9, <3>2
  <2>11. Replaced(Len(stack), k)
    BY <1>4, <2>4 DEF TopGoesOn
  <2> QED
    BY <1>1, <1>2, <2>9, <2>10, <2>11, TopKept
<1> QED
  BY <1>1, <1>3, <1>4 DEF Moves

\* The message is on the server when it leaves the local folder.
LEMMA Unlink6 == ASSUME Inv6, Inv5', Unlink PROVE Inv6' /\ MailKept(World, World')
<1>1. /\ stack # <<>> /\ ~Top.waits /\ Step(Top) = "unlink" /\ Moves
      /\ server' = server /\ conn' = conn /\ asked' = asked /\ doomed' = doomed
      /\ local' = local \ {Top.msg}
  BY Inv6Is, StepIs, AtTop, Unlink1 DEF Unlink
<1>2. Top.op = "moveIn" /\ Left(Top) = 1
  <2>1. StepOf(Top.op, Left(Top)) = "unlink"
    BY <1>1 DEF Step
  <2>2. Top.op \in Ops /\ Left(Top) \in 1..Len(Plan[Top.op])
    BY <1>1, Inv6Is, TopOK
  <2> QED
    BY <2>1, <2>2, WhoDoes
<1>3. Popped
  BY <1>1, <1>2 DEF Moves
<1>4. PICK g : g = Top.msg
  OBVIOUS
<1>5. g \in doomed \/ \E b \in Boxes : Holds(World, g, b)
  BY <1>1, <1>2, <1>4, TopCares, WorldIs DEF Cares, Appended
<1>6. /\ \A m, b : Holds(World', m, b) <=> Holds(World, m, b)
      /\ \A m, h : Outside(World', m, h) <=> Outside(World, m, h)
      /\ \A m, b : Lies(World', m, b) <=> Lies(World, m, b)
  BY <1>1, WorldIs DEF Holds, Outside, Lies, Unmarked
<1>7. \A m : Safe(World, m) => Safe(World', m) \/ m \in doomed'
  <2> SUFFICES ASSUME NEW m, Safe(World, m) PROVE Safe(World', m) \/ m \in doomed'
    OBVIOUS
  <2>1. CASE m = g
    BY <1>1, <1>5, <1>6, <2>1 DEF Safe
  <2>2. CASE m # g
    BY <1>1, <1>4, <1>6, <2>2, WorldIs DEF Safe
  <2> QED
    BY <2>1, <2>2
<1>8. MarksSafe(World')
  BY <1>1, <1>7, WorldIs DEF Inv6, MarksSafe
<1>9. MailKept(World, World')
  <2>1. ASSUME NEW m, AtHand(World, m) PROVE AtHand(World', m) \/ m \in doomed'
    <3>1. CASE m = g
      <4>1. g \in doomed' \/ \E b \in Boxes : Lies(World, g, b)
        BY <1>1, <1>5 DEF Holds, Lies, Unmarked
      <4> QED
        BY <1>6, <3>1, <4>1 DEF AtHand
    <3>2. CASE m # g
      BY <1>1, <1>4, <1>6, <2>1, <3>2, WorldIs DEF AtHand
    <3> QED
      BY <3>1, <3>2
  <2> QED
    BY <1>6, <2>1, WorldIs DEF MailKept
<1>10. Len(stack') \in 0..1 /\ (Len(stack') = 1 => Len(stack) = 2 /\ stack'[1] = stack[1])
  BY <1>1, <1>3, TopCares DEF Popped
<1>11. ASSUME Len(stack) = 2 PROVE Cares(World', stack[1])
  <2>1. PICK lo : lo = stack[1]
    OBVIOUS
  <2>2. Cares(World, lo) /\ Spares(World, lo, Top)
    BY <1>1, <1>11, <2>1, TopCares
  <2>3. g \in doomed \/ Outside(World, g, lo)
    BY <1>2, <1>4, <2>2, WorldIs DEF Spares, Appended
  <2>4. /\ \A m : Leaves(World', lo, m) <=> Leaves(World, lo, m)
        /\ Copied(World', lo) <=> Copied(World, lo)
        /\ Appended(World', lo) <=> Appended(World, lo)
    BY <1>1, WorldIs DEF Leaves, Copied, Appended, Confirmed
  <2>5. Saved(lo) => \A m : Leaves(World, lo, m) =>
                        m \in doomed' \/ m \in local' \/ Outside(World', m, lo)
    BY <1>1, <1>4, <1>6, <2>2, <2>3, WorldIs DEF Cares
  <2>6. Cares(World', lo)
    BY <1>1, <1>6, <2>2, <2>4, <2>5, WorldIs DEF Cares
  <2> QED
    BY <2>1, <2>6
<1>12. \A i \in 1..Len(stack') : Cares(World', stack'[i])
  BY <1>10, <1>11
<1>13. Len(stack') # 2
  BY <1>10
<1> QED
  BY <1>8, <1>9, <1>12, <1>13 DEF Inv6

LEMMA Start6 ==
    ASSUME Inv6, Inv5', NEW f \in Requests, Sensible(f), Start(f)
    PROVE  Inv6' /\ MailKept(World, World')
<1>1. /\ UNCHANGED <<server, conn, local>> /\ Len(stack) \in 0..1
      /\ stack' = stack \/ (PlanOf(f) # <<>> /\ Pushed(Begun(f)))
  BY Inv6Is, StartEffect
<1>2. PICK ms : ms = {server.mail[f.box][u] : u \in f.uids}
  OBVIOUS
<1>3. /\ asked' = IF f.op \in {"remove", "move", "moveOut"} THEN asked \cup (ms \X {f.box}) ELSE asked
      /\ doomed' = IF f.op = "remove" THEN doomed \cup ms ELSE doomed
  BY <1>2 DEF Start
<1>4. asked \subseteq asked' /\ doomed \subseteq doomed'
  BY <1>3
<1>5. Gentle(World, World')
  BY <1>1, <1>4, Inv6Is, GentleSame
<1>6. CASE stack' = stack
  BY <1>1, <1>5, <1>6, SameStack
<1>7. CASE PlanOf(f) # <<>> /\ Pushed(Begun(f))
  <2>1. PICK h : h = Begun(f)
    OBVIOUS
  <2>2. /\ ~h.waits /\ h.op = f.op /\ h.box = f.box /\ h.uids = f.uids
        /\ Left(h) = Len(Plan[f.op]) \/ (f.op = "moveOut" /\ Left(h) = 9)
    BY <1>7, <2>1, BegunOK
  <2>3. /\ Len(stack') = Len(stack) + 1 /\ stack'[Len(stack')] = h
        /\ \A i \in 1..Len(stack) : stack'[i] = stack[i]
    BY <1>7, <2>1 DEF Pushed
  <2>4. \A i \in 1..Len(stack') : i = Len(stack') \/ i \in 1..Len(stack)
    BY <1>1, <2>3
  <2>5. ~Copied(World', h) /\ ~Saved(h) /\ ~Appended(World', h)
    <3>1. /\ f.op = "move" => Left(h) = 13
          /\ f.op = "moveOut" => Left(h) \in {9, 12}
          /\ f.op = "moveIn" => Left(h) = 5
      BY <2>2, PlanLengths
    <3> QED
      BY <2>2, <3>1 DEF Copied, Saved, Appended, Confirmed
  <2>6. Cares(World', h)
    <3>1. \A u \in f.uids : server.mail[f.box][u] \in ms
      BY <1>2
    <3>2. h.op \in Removal => \A u \in h.uids : <<server.mail[h.box][u], h.box>> \in asked'
      BY <1>3, <2>2, <3>1 DEF Removal
    <3>3. h.op = "remove" => \A u \in h.uids : server.mail[h.box][u] \in doomed'
      BY <1>3, <2>2, <3>1
    <3>4. (World').server = server
      BY <1>1, WorldIs
    <3> QED
      BY <2>5, <3>2, <3>3, <3>4, WorldIs DEF Cares
  <2>7. \A i \in 1..Len(stack) : HandlerOK(stack[i], World.server) /\ Cares(World, stack[i])
    BY Inv6Is, WorldIs DEF Inv6, Inv1, StackOK
  <2>8. \A i \in 1..Len(stack) : Confirmed(World', stack[i]) => Confirmed(World, stack[i])
    BY <1>1, WorldIs DEF Confirmed
  <2>9. \A i \in 1..Len(stack) : Cares(World', stack[i])
    BY <1>5, <2>7, <2>8, GentleCares
  <2>10. \A i \in 1..Len(stack') : Cares(World', stack'[i])
    BY <2>3, <2>4, <2>6, <2>9
  <2>11. Len(stack') = 2 => Spares(World', stack'[1], stack'[2])
    BY <2>3, <2>5 DEF Spares
  <2>12. MarksSafe(World') /\ MailKept(World, World')
    BY <1>5, GentleMarks DEF Inv6
  <2> QED
    BY <2>10, <2>11, <2>12 DEF Inv6
<1> QED
  BY <1>1, <1>6, <1>7


-----------------------------------------------------------------------------
\* A command is sent.

LEMMA WaitCares ==
    ASSUME NEW w, NEW h, NEW k, SameWork(h, k), Cares(w, h),
           h.op = "move" /\ Left(h) = 9 /\ Confirmed(w, k) =>
                \A m : Leaves(w, h, m) => Holds(w, m, h.dest),
           h.op = "moveIn" /\ Left(h) = 2 /\ Confirmed(w, k) => \E b \in Boxes : Holds(w, h.msg, b)
    PROVE  Cares(w, k)
<1>1. \A m : Leaves(w, k, m) <=> Leaves(w, h, m)
  BY DEF SameWork, Leaves
<1>2. \A m : Outside(w, m, k) <=> Outside(w, m, h)
  BY DEF SameWork, Outside
<1>3. /\ Copied(w, k) => Copied(w, h) \/ (h.op = "move" /\ Left(h) = 9 /\ Confirmed(w, k))
      /\ Saved(k) => Saved(h)
      /\ Appended(w, k) => Appended(w, h) \/ (h.op = "moveIn" /\ Left(h) = 2 /\ Confirmed(w, k))
  BY DEF SameWork, Copied, Saved, Appended
<1>4. Copied(w, k) => \A m : Leaves(w, k, m) => m \in w.doomed \/ Holds(w, m, k.dest)
  BY <1>1, <1>3 DEF SameWork, Cares
<1>5. Saved(k) => \A m : Leaves(w, k, m) => m \in w.doomed \/ m \in w.local \/ Outside(w, m, k)
  BY <1>1, <1>2, <1>3 DEF Cares
<1>6. Appended(w, k) => k.msg \in w.doomed \/ \E b \in Boxes : Holds(w, k.msg, b)
  BY <1>3 DEF SameWork, Cares
<1> QED
  BY <1>4, <1>5, <1>6 DEF SameWork, Cares

LEMMA WaitSpares ==
    ASSUME NEW w, NEW lo, NEW h, NEW k, SameWork(h, k), Spares(w, lo, h),
           h.op = "moveIn" /\ Left(h) = 2 /\ Confirmed(w, k) => Outside(w, h.msg, lo)
    PROVE  Spares(w, lo, k)
<1>1. /\ Saved(k) => Saved(h)
      /\ Appended(w, k) => Appended(w, h) \/ (h.op = "moveIn" /\ Left(h) = 2 /\ Confirmed(w, k))
  BY DEF SameWork, Saved, Appended
<1> QED
  BY <1>1 DEF SameWork, Spares

LEMMA SendKept ==
    ASSUME Inv6, Inv5', Send, Gentle(World, World'), NEW k, k = Waiting(Top),
           Top.op = "move" /\ Left(Top) = 9 /\ Confirmed(World', k) =>
                \A m : Leaves(World', Top, m) => Holds(World', m, Top.dest),
           Top.op = "moveIn" /\ Left(Top) = 2 /\ Confirmed(World', k) =>
                /\ \E b \in Boxes : Holds(World', Top.msg, b)
                /\ \A lo : HandlerOK(lo, server) => Outside(World', Top.msg, lo)
    PROVE  Inv6' /\ MailKept(World, World')
<1>1. /\ stack # <<>> /\ ~Top.waits /\ ~Running /\ Replaced(Len(stack), k)
      /\ HandlerOK(Top, server)
  BY Inv6Is, SendEffect, TopOK
<1>2. PICK h : h = Top
  OBVIOUS
<1>3. SameWork(h, k)
  BY <1>1, <1>2, WaitingOK DEF SameWork
<1>4. HandlerOK(h, World.server) /\ Cares(World, h) /\ ~Confirmed(World', h)
  BY <1>1, <1>2, TopCares, WorldIs DEF Confirmed
<1>5. Cares(World', h)
  BY <1>4, GentleCares
<1>6. Cares(World', k)
  BY <1>2, <1>3, <1>5, WaitCares
<1>7. Len(stack) = 2 => Spares(World', stack[1], k)
  <2> SUFFICES ASSUME Len(stack) = 2 PROVE Spares(World', stack[1], k)
    OBVIOUS
  <2>1. Spares(World, stack[1], h) /\ HandlerOK(stack[1], server)
    BY <1>1, <1>2, TopCares
  <2>2. Spares(World', stack[1], h)
    BY <1>4, <2>1, GentleSpares
  <2> QED
    BY <1>2, <1>3, <2>1, <2>2, WaitSpares
<1> QED
  BY <1>1, <1>6, <1>7, TopKept

LEMMA SendPlain ==
    ASSUME Inv6, Inv5', Send, Gentle(World, World'),
           Step(Top) \in {"copy", "append"} => ~Confirmed(World', Waiting(Top))
    PROVE  Inv6' /\ MailKept(World, World')
<1>1. PICK k : k = Waiting(Top)
  OBVIOUS
<1>2. /\ Top.op = "move" /\ Left(Top) = 9 => Step(Top) = "copy"
      /\ Top.op = "moveIn" /\ Left(Top) = 2 => Step(Top) = "append"
  BY WhatIsLeft DEF Step
<1> QED
  BY <1>1, <1>2, SendKept

\* The reply to the command is the only one.
LEMMA SentConfirmed ==
    ASSUME Inv6, Send, NEW ok \in BOOLEAN, SentAs(ok), NEW k, Confirmed(World', k),
           Step(Top) \in {"copy", "append"}
    PROVE  ok
<1>1. stack # <<>> /\ ~Running /\ HandlerOK(Top, server)
  BY Inv6Is, SendEffect, TopOK
<1>2. ~Begins(Top)
  BY <1>1, BeginsAt
<1>3. conn.replies = <<>>
  BY <1>1, <1>2, Inv6Is, CleanReplies DEF SentAs
<1>4. PICK r : r = Reply(server, conn, CommandOf(Todo), Top, ok)
  OBVIOUS
<1>5. conn'.replies = Append(conn.replies, r) /\ r.ok = ok
  BY <1>4, Inv6Is, AnsweredEffect
<1>6. conn'.replies[1] = r
  BY <1>3, <1>5
<1> QED
  BY <1>5, <1>6, WorldIs DEF Confirmed

LEMMA SelectedBox ==
    ASSUME Inv6, stack # <<>>, ~Top.waits, conn.up, Step(Top) \in {"copy", "store"},
           conn.box \in Boxes
    PROVE  conn.box = Top.box
<1>1. /\ Len(stack) \in 1..2 /\ Top = stack[Len(stack)] /\ HandlerOK(Top, server)
      /\ Top.op \in Ops /\ Left(Top) \in 1..Len(Plan[Top.op])
  BY Inv6Is, TopOK
<1>2. PICK n \in 1..2 : n = Len(stack)
  BY <1>1
<1>3. n \in 1..n
  OBVIOUS
<1>4. InMailbox(Top, conn, session)
  BY <1>1, <1>2, <1>3, Inv6Is DEF Inv3
<1>5. Step(Top) \in UidCommands
  BY DEF UidCommands
<1>6. Needs(Top)
  BY <1>1, <1>5, NeedsSteps
<1> QED
  BY <1>4, <1>6, BoxesAssumption DEF InMailbox


LEMMA CopySent ==
    ASSUME Inv6, Inv5', Send, SentAs(TRUE), CommandOf(Todo) = "copy"
    PROVE  Inv6' /\ MailKept(World, World')
<1>1. /\ stack # <<>> /\ ~Top.waits /\ HandlerOK(Top, server) /\ Top \in Handlers
      /\ Top.op \in Ops /\ Left(Top) \in 1..Len(Plan[Top.op]) /\ Todo = Step(Top)
      /\ Top.box \in Boxes /\ Top.dest \in Boxes
  BY Inv6Is, SendEffect, TopOK
<1>2. Step(Top) = "copy"
  BY <1>1 DEF CommandOf
<1>3. Top.op \in {"copy", "move"} /\ Top.box # Top.dest
  BY <1>1, <1>2, WhoDoes DEF Step, HandlerOK
<1>4. /\ conn.up /\ Possible(server, conn, "copy", Top) /\ server' = Done(server, conn, "copy", Top)
      /\ doomed' = doomed /\ asked' = asked /\ local' = local /\ conn.box \in Boxes \cup {None}
  <2>1. "copy" # "delete" /\ (asked \cup ({} \X {Top.box})) = asked
    OBVIOUS
  <2>2. conn.box \in Boxes \cup {None}
    BY Inv6Is DEF Inv1, Typed, Connections
  <2> QED
    BY <1>1, <2>1, <2>2 DEF SentAs, Send
<1>5. PICK ms \in Seq(Msgs) : /\ conn.box \in Boxes
                              /\ server' = Add(server, Top.dest, ms)
                              /\ Copies(server, conn.box, Top.uids, ms)
  BY <1>1, <1>4, Inv6Is, ServerDone DEF Inv1
<1>6. conn.box = Top.box
  BY <1>1, <1>2, <1>4, <1>5, SelectedBox
<1>7. PICK n : n = Len(server.mail[Top.dest])
  OBVIOUS
<1>8. PICK t : t = server'
  OBVIOUS
<1>9. Sound(server) /\ t = Add(server, Top.dest, ms)
  BY <1>5, <1>8, Inv6Is DEF Inv1
<1>10. /\ Grown(server, t) /\ t.deleted = server.deleted /\ Sound(t)
       /\ t.present[Top.box] = server.present[Top.box]
       /\ \A i \in 1..Len(ms) : \E u \in t.present[Top.dest] :
             u \notin DOMAIN server.mail[Top.dest] /\ t.mail[Top.dest][u] = ms[i]
  BY <1>1, <1>3, <1>7, <1>9, AddEffect
<1>11. \A i \in 1..Len(ms) : Holds(World', ms[i], Top.dest)
  <2>1. \A u \in server.deleted[Top.dest] : u \in DOMAIN server.mail[Top.dest]
    BY <1>1, <1>9, UnmarkedIn
  <2> QED
    BY <1>8, <1>10, <2>1, WorldIs DEF Holds, Unmarked
<1>12. \A m : Leaves(World', Top, m) => Holds(World', m, Top.dest)
  <2> SUFFICES ASSUME NEW m, Leaves(World', Top, m) PROVE Holds(World', m, Top.dest)
    OBVIOUS
  <2>1. PICK u \in Top.uids : u \in t.present[Top.box] /\ t.mail[Top.box][u] = m
    BY <1>8, WorldIs DEF Leaves
  <2>2. u \in server.present[Top.box] /\ server.mail[Top.box][u] = m
    <3>1. u \in server.present[Top.box]
      BY <1>10, <2>1
    <3>2. u \in DOMAIN server.mail[Top.box]
      BY <1>1, <1>9, <3>1, UnmarkedIn
    <3> QED
      BY <1>1, <1>10, <2>1, <3>1, <3>2 DEF Grown
  <2>3. \E i \in 1..Len(ms) : ms[i] = m
    BY <1>5, <1>6, <2>2 DEF Copies
  <2> QED
    BY <1>11, <2>3
<1>13. Gentle(World, World')
  BY <1>1, <1>4, <1>5, <1>9, AddGentle
<1>14. PICK k : k = Waiting(Top)
  OBVIOUS
<1> QED
  BY <1>3, <1>12, <1>13, <1>14, SendKept

LEMMA AppendSent ==
    ASSUME Inv6, Inv5', Send, SentAs(TRUE), CommandOf(Todo) = "append"
    PROVE  Inv6' /\ MailKept(World, World')
<1>1. /\ stack # <<>> /\ ~Top.waits /\ HandlerOK(Top, server) /\ Top \in Handlers
      /\ Top.op \in Ops /\ Left(Top) \in 1..Len(Plan[Top.op]) /\ Todo = Step(Top)
      /\ Top.box \in Boxes /\ Top.dest \in Boxes
  BY Inv6Is, SendEffect, TopOK
<1>2. Step(Top) = "append"
  BY <1>1 DEF CommandOf
<1>3. Top.op = "moveIn" /\ Top.box = Top.dest /\ Top.msg \in Msgs
  BY <1>1, <1>2, WhoDoes DEF Step, HandlerOK
<1>4. /\ conn.up /\ Possible(server, conn, "append", Top) /\ server' = Done(server, conn, "append", Top)
      /\ doomed' = doomed /\ asked' = asked /\ local' = local /\ conn.box \in Boxes \cup {None}
  <2>1. "append" # "delete" /\ (asked \cup ({} \X {Top.box})) = asked
    OBVIOUS
  <2>2. conn.box \in Boxes \cup {None}
    BY Inv6Is DEF Inv1, Typed, Connections
  <2> QED
    BY <1>1, <2>1, <2>2 DEF SentAs, Send
<1>5. server' = Add(server, Top.dest, <<Top.msg>>)
  BY <1>1, <1>3, <1>4, Inv6Is, ServerDone DEF Inv1
<1>6. PICK ms : ms = <<Top.msg>>
  OBVIOUS
<1>7. ms \in Seq(Msgs) /\ Len(ms) = 1 /\ ms[1] = Top.msg
  BY <1>3, <1>6
<1>8. PICK n : n = Len(server.mail[Top.dest])
  OBVIOUS
<1>9. PICK t : t = server'
  OBVIOUS
<1>10. Sound(server) /\ t = Add(server, Top.dest, ms)
  BY <1>5, <1>6, <1>9, Inv6Is DEF Inv1
<1>11. PICK v \in t.present[Top.box] :
          v \notin DOMAIN server.mail[Top.box] /\ t.mail[Top.box][v] = Top.msg
  <2>1. \A i \in 1..Len(ms) : \E u \in t.present[Top.dest] :
           u \notin DOMAIN server.mail[Top.dest] /\ t.mail[Top.dest][u] = ms[i]
    BY <1>1, <1>7, <1>8, <1>10, AddEffect
  <2>2. 1 \in 1..Len(ms)
    BY <1>7
  <2> QED
    BY <1>3, <1>7, <2>1, <2>2
<1>12. v \in Unmarked(t, Top.box)
  <2>1. t.deleted = server.deleted
    BY <1>1, <1>7, <1>8, <1>10, AddEffect
  <2>2. v \notin server.deleted[Top.box]
    BY <1>1, <1>10, <1>11, UnmarkedIn
  <2> QED
    BY <1>11, <2>1, <2>2 DEF Unmarked
<1>13. \E b \in Boxes : Holds(World', Top.msg, b)
  BY <1>1, <1>9, <1>11, <1>12, WorldIs DEF Holds
<1>14. ASSUME NEW lo, HandlerOK(lo, server) PROVE Outside(World', Top.msg, lo)
  <2>1. v \in Unmarked((World').server, Top.box) /\ (World').server.mail[Top.box][v] = Top.msg
    BY <1>9, <1>11, <1>12, WorldIs
  <2>2. ~(Top.box = lo.box /\ v \in lo.uids)
    BY <1>11, <1>14 DEF HandlerOK
  <2> QED
    BY <1>1, <2>1, <2>2 DEF Outside
<1>15. Gentle(World, World')
  BY <1>1, <1>4, <1>5, <1>6, <1>7, <1>10, AddGentle
<1>16. PICK k : k = Waiting(Top)
  OBVIOUS
<1> QED
  BY <1>3, <1>13, <1>14, <1>15, <1>16, SendKept

\* EXPUNGE, or CLOSE, in the mailbox that is selected.
LEMMA ExpungeSent ==
    ASSUME Inv6, Inv5', Send, NEW b \in Boxes, server' = Expunge(server, b),
           asked' = asked, doomed' = doomed, Step(Top) \notin {"copy", "append"}
    PROVE  Inv6' /\ MailKept(World, World')
<1>1. Sound(server) /\ local' = local
  BY Inv6Is DEF Inv1, Send
<1>2. /\ Sound(server') /\ server'.mail = server.mail
      /\ server'.present[b] = server.present[b] \ server.deleted[b] /\ server'.deleted[b] = {}
      /\ \A c \in Boxes : c # b => /\ server'.present[c] = server.present[c]
                                   /\ server'.deleted[c] = server.deleted[c]
  BY <1>1, ExpungeEffect
<1>3. \A c \in Boxes : \A u \in Unmarked(server, c) : u \in Unmarked(server', c)
  BY <1>2 DEF Unmarked
<1>4. /\ \A c \in Boxes : \A u \in server'.present[c] : u \in server.present[c]
      /\ \A c \in Boxes : \A u \in server'.deleted[c] : u \in server.deleted[c]
  BY <1>2
<1>5. Grown(server, server')
  BY <1>2 DEF Grown
<1>6. Gentle(World, World')
  BY <1>1, <1>2, <1>3, <1>4, <1>5, WorldIs DEF Gentle
<1> QED
  BY <1>6, SendPlain

LEMMA DeleteSent ==
    ASSUME Inv6, Inv5', Send, SentAs(TRUE), CommandOf(Todo) = "delete",
           server' = Removed(server, Top.box)
    PROVE  Inv6' /\ MailKept(World, World')
<1>1. /\ stack # <<>> /\ Top.box \in Boxes /\ Todo = Step(Top) /\ Sound(server) /\ local' = local
  BY Inv6Is, SendEffect, TopOK DEF Inv1
<1>2. Step(Top) = "delete"
  BY <1>1 DEF CommandOf
<1>3. PICK b : b = Top.box
  OBVIOUS
<1>4. /\ doomed' = doomed \cup MsgsIn(server, b)
      /\ asked' = asked \cup (MsgsIn(server, b) \X {b})
  BY <1>3 DEF SentAs
<1>5. b \in Boxes
  BY <1>1, <1>3
<1>6. /\ Sound(server') /\ server'.mail = server.mail
      /\ server'.present[b] = {} /\ server'.deleted[b] = {}
      /\ \A c \in Boxes : c # b => /\ server'.present[c] = server.present[c]
                                   /\ server'.deleted[c] = server.deleted[c]
  BY <1>1, <1>3, <1>5, RemoveEffect
<1>7. \A u \in server.present[b] : server.mail[b][u] \in MsgsIn(server, b)
  BY DEF MsgsIn
<1>8. \A u \in server.present[b] :
          server.mail[b][u] \in doomed' /\ <<server.mail[b][u], b>> \in asked'
  BY <1>4, <1>7
<1>9. \A c \in Boxes : \A u \in Unmarked(server, c) :
          u \in Unmarked(server', c) \/ (c = b /\ u \in server.present[b])
  BY <1>6 DEF Unmarked
<1>10. /\ \A c \in Boxes : \A u \in server'.present[c] : u \in server.present[c]
       /\ \A c \in Boxes : \A u \in server'.deleted[c] : u \in server.deleted[c]
  BY <1>6
<1>11. Grown(server, server')
  BY <1>6 DEF Grown
<1>12. asked \subseteq asked' /\ doomed \subseteq doomed'
  BY <1>4
<1>13. Gentle(World, World')
  BY <1>1, <1>6, <1>8, <1>9, <1>10, <1>11, <1>12, WorldIs DEF Gentle
<1> QED
  BY <1>2, <1>13, SendPlain


\* What is marked by STORE is discarded, or was put somewhere else.
LEMMA StoreSent ==
    ASSUME Inv6, Inv5', Send, SentAs(TRUE), CommandOf(Todo) = "store", conn.box \in Boxes,
           server' = Marked(server, conn.box, Top.uids \cap server.present[conn.box])
    PROVE  Inv6' /\ MailKept(World, World')
<1>1. /\ stack # <<>> /\ ~Top.waits /\ ~Running /\ HandlerOK(Top, server) /\ Top \in Handlers
      /\ Top.op \in Ops /\ Left(Top) \in 1..Len(Plan[Top.op]) /\ Todo = Step(Top)
      /\ Top.box \in Boxes /\ Top.dest \in Boxes /\ Sound(server)
      /\ Replaced(Len(stack), Waiting(Top))
  BY Inv6Is, SendEffect, TopOK DEF Inv1
<1>2. Step(Top) = "store"
  BY <1>1 DEF CommandOf
<1>3. Top.op \in Removal /\ Left(Top) = 4
  BY <1>1, <1>2, WhoDoes DEF Step
<1>4. conn.box = Top.box
  BY <1>1, <1>2, SelectedBox DEF SentAs
<1>5. doomed' = doomed /\ asked' = asked /\ local' = local
  <2>1. "store" # "delete" /\ (asked \cup ({} \X {Top.box})) = asked
    OBVIOUS
  <2> QED
    BY <2>1 DEF SentAs, Send
<1>6. PICK h : h = Top
  OBVIOUS
<1>7. PICK S : S = h.uids \cap server.present[h.box]
  OBVIOUS
<1>8. PICK k : k = Waiting(Top)
  OBVIOUS
<1> DEFINE w == World
           x == World'
<1>9. /\ w.server = server /\ x.server = server' /\ x.local = w.local /\ x.asked = w.asked
      /\ x.doomed = w.doomed /\ w.local = local /\ w.doomed = doomed /\ w.asked = asked
  BY <1>5, WorldIs
<1> HIDE DEF w, x
<1>10. /\ h.box \in Boxes /\ h.dest \in Boxes /\ HandlerOK(h, server) /\ Cares(w, h)
       /\ SameWork(h, k) /\ h.op \in Removal /\ Left(h) = 4
  BY <1>1, <1>3, <1>6, <1>8, TopCares, WaitingOK DEF SameWork, w
<1>11. /\ Sound(server') /\ server'.mail = server.mail /\ server'.present = server.present
       /\ server'.deleted[h.box] = server.deleted[h.box] \cup S
       /\ \A c \in Boxes : c # h.box => server'.deleted[c] = server.deleted[c]
  <2>1. PICK t : t = Marked(server, h.box, S)
    OBVIOUS
  <2>2. S \subseteq server.present[h.box] /\ server' = t
    BY <1>4, <1>6, <1>7, <2>1
  <2>3. /\ Sound(t) /\ t.mail = server.mail /\ t.present = server.present
        /\ t.deleted[h.box] = server.deleted[h.box] \cup S
        /\ \A c \in Boxes : c # h.box => t.deleted[c] = server.deleted[c]
    BY <1>1, <1>10, <2>1, <2>2, MarkEffect
  <2> QED
    BY <2>2, <2>3
<1>12. \A m : Leaves(w, h, m) <=> \E u \in S : server.mail[h.box][u] = m
  BY <1>7, <1>9 DEF Leaves
<1>13. \A m : Leaves(x, h, m) <=> Leaves(w, h, m)
  BY <1>9, <1>11 DEF Leaves
<1>14. \A c \in Boxes : \A u \in Unmarked(server, c) :
           u \in Unmarked(server', c) \/ (c = h.box /\ u \in S)
  BY <1>11 DEF Unmarked
<1>15. \A m : \A c \in Boxes : c # h.box /\ Holds(w, m, c) => Holds(x, m, c)
  BY <1>9, <1>11, <1>14 DEF Holds
<1>16. ASSUME NEW m, NEW g, Outside(w, m, g)
       PROVE  Outside(x, m, g) \/ \E u \in S : server.mail[h.box][u] = m /\ ~(h.box = g.box /\ u \in g.uids)
  <2>0. PICK c \in Boxes : \E u \in Unmarked(server, c) :
            server.mail[c][u] = m /\ ~(c = g.box /\ u \in g.uids)
    BY <1>9, <1>16 DEF Outside
  <2>1. PICK u \in Unmarked(server, c) : server.mail[c][u] = m /\ ~(c = g.box /\ u \in g.uids)
    BY <2>0
  <2>2. CASE u \in Unmarked(server', c)
    <3>1. u \in Unmarked(x.server, c) /\ x.server.mail[c][u] = m
      BY <1>9, <1>11, <2>1, <2>2
    <3> QED
      BY <2>1, <3>1 DEF Outside
  <2>3. CASE c = h.box /\ u \in S
    BY <2>1, <2>3
  <2> QED
    BY <1>14, <2>2, <2>3
<1>17. /\ h.op = "remove" => \A m : Leaves(w, h, m) => m \in w.doomed
       /\ h.op = "move" => h.dest # h.box /\ \A m : Leaves(w, h, m) => m \in w.doomed \/ Holds(x, m, h.dest)
       /\ h.op = "moveOut" => \A m : Leaves(w, h, m) => m \in w.doomed \/ m \in w.local \/ Outside(x, m, h)
  <2>1. h.op = "remove" => \A m : Leaves(w, h, m) => m \in w.doomed
    BY <1>10 DEF Cares, Leaves
  <2>2. h.op = "move" => h.dest # h.box /\ \A m : Leaves(w, h, m) => m \in w.doomed \/ Holds(x, m, h.dest)
    <3> SUFFICES ASSUME h.op = "move"
                 PROVE  h.dest # h.box /\ \A m : Leaves(w, h, m) => m \in w.doomed \/ Holds(x, m, h.dest)
      OBVIOUS
    <3>1. h.dest # h.box
      BY <1>10 DEF HandlerOK
    <3>2. \A m : Leaves(w, h, m) => m \in w.doomed \/ Holds(w, m, h.dest)
      BY <1>10 DEF Cares, Copied
    <3> QED
      BY <1>10, <1>15, <3>1, <3>2
  <2>3. h.op = "moveOut" => \A m : Leaves(w, h, m) => m \in w.doomed \/ m \in w.local \/ Outside(x, m, h)
    BY <1>7, <1>10, <1>16 DEF Cares, Saved
  <2> QED
    BY <2>1, <2>2, <2>3
<1>18. \A m : Outside(x, m, h) => \E c \in Boxes : Holds(x, m, c)
  BY DEF Outside, Holds
<1>19. \A m : Leaves(w, h, m) => m \in x.doomed \/ Safe(x, m)
  BY <1>9, <1>10, <1>17, <1>18 DEF Safe, Removal
<1>20. \A m : \A c \in Boxes : Holds(w, m, c) => Holds(x, m, c) \/ (c = h.box /\ Leaves(w, h, m))
  <2> SUFFICES ASSUME NEW m, NEW c \in Boxes, NEW u \in Unmarked(server, c), server.mail[c][u] = m
               PROVE  Holds(x, m, c) \/ (c = h.box /\ Leaves(w, h, m))
    BY <1>9 DEF Holds
  <2>1. CASE u \in Unmarked(server', c)
    <3>1. u \in Unmarked(x.server, c) /\ x.server.mail[c][u] = m
      BY <1>9, <1>11, <2>1
    <3> QED
      BY <3>1 DEF Holds
  <2>2. CASE c = h.box /\ u \in S
    BY <1>12, <2>2
  <2> QED
    BY <1>14, <2>1, <2>2
<1>21. \A m : Safe(w, m) => m \in x.doomed \/ Safe(x, m)
  BY <1>9, <1>19, <1>20 DEF Safe
<1>22. MarksSafe(x)
  <2> SUFFICES ASSUME NEW c \in Boxes, NEW u \in server'.deleted[c]
               PROVE  /\ <<server.mail[c][u], c>> \in asked
                      /\ server.mail[c][u] \in doomed \/ Safe(x, server.mail[c][u])
    BY <1>9, <1>11 DEF MarksSafe
  <2>1. CASE u \in server.deleted[c]
    <3>1. /\ <<server.mail[c][u], c>> \in asked
          /\ server.mail[c][u] \in doomed \/ Safe(w, server.mail[c][u])
      BY <1>9, <2>1 DEF Inv6, MarksSafe, w
    <3> QED
      BY <1>9, <1>21, <3>1
  <2>2. CASE u \notin server.deleted[c]
    <3>1. c = h.box /\ u \in S
      BY <1>11, <2>2
    <3>2. Leaves(w, h, server.mail[c][u]) /\ u \in h.uids
      BY <1>7, <1>12, <3>1
    <3>3. <<server.mail[h.box][u], h.box>> \in asked
      BY <1>9, <1>10, <3>2 DEF Cares
    <3> QED
      BY <1>9, <1>19, <3>1, <3>2, <3>3
  <2> QED
    BY <2>1, <2>2
<1>23. MailKept(w, x)
  <2>1. x.server.present = w.server.present /\ x.server.mail = w.server.mail
    BY <1>9, <1>11
  <2>2. \A m, c : Lies(x, m, c) <=> Lies(w, m, c)
    BY <2>1 DEF Lies
  <2> QED
    BY <1>9, <2>2 DEF MailKept, AtHand
<1>24. Cares(x, k)
  <2>1. /\ ~Appended(x, k) /\ k.op = h.op /\ k.box = h.box /\ k.uids = h.uids /\ k.dest = h.dest
        /\ Left(k) = 4
    BY <1>10 DEF Appended, SameWork, Removal
  <2>2. /\ \A m : Leaves(x, k, m) <=> Leaves(w, h, m)
        /\ \A m : Outside(x, m, k) <=> Outside(x, m, h)
    BY <1>13, <2>1 DEF Leaves, Outside
  <2>3. Copied(x, k) => \A m : Leaves(x, k, m) => m \in x.doomed \/ Holds(x, m, k.dest)
    BY <1>9, <1>17, <2>1, <2>2 DEF Copied
  <2>4. Saved(k) => \A m : Leaves(x, k, m) => m \in x.doomed \/ m \in x.local \/ Outside(x, m, k)
    BY <1>9, <1>17, <2>1, <2>2 DEF Saved
  <2>5. /\ k.op \in Removal => \A u \in k.uids : <<x.server.mail[k.box][u], k.box>> \in x.asked
        /\ k.op = "remove" => \A u \in k.uids : x.server.mail[k.box][u] \in x.doomed
    BY <1>9, <1>10, <1>11, <2>1 DEF Cares
  <2> QED
    BY <2>1, <2>3, <2>4, <2>5 DEF Cares
<1>25. ASSUME Len(stack) = 2 PROVE Cares(x, stack[1]) /\ Spares(x, stack[1], k)
  <2>1. PICK lo : lo = stack[1]
    OBVIOUS
  <2>2. /\ HandlerOK(lo, server) /\ Cares(w, lo) /\ Spares(w, lo, h)
    BY <1>1, <1>6, <1>25, <2>1, TopCares DEF w
  <2>3. ~lo.waits /\ Step(lo) = "ui" /\ lo.box = h.box
    BY <1>1, <1>6, <1>10, <1>25, <2>1, Inv6Is, TwoHandlers DEF Removal
  <2>4. lo.op \in Ops /\ Left(lo) \in 1..Len(Plan[lo.op]) /\ lo.dest \in Boxes
    BY <2>2 DEF HandlerOK, Handlers, Fits
  <2>5. StepOf(lo.op, Left(lo)) = "ui"
    BY <2>3 DEF Step
  <2>6. \/ lo.op = "copy" \/ (lo.op = "move" /\ Left(lo) \in {10, 12})
        \/ (lo.op = "moveIn" /\ Left(lo) = 4) \/ (lo.op \in Removal /\ Left(lo) = 5)
    BY <2>4, <2>5, WhoDoes
  <2>7. ~Appended(x, lo) /\ (Copied(x, lo) => lo.op = "move" /\ Left(lo) = 5)
    BY <2>6 DEF Appended, Copied, Removal
  <2>8. \A m : Leaves(x, lo, m) <=> Leaves(w, lo, m)
    BY <1>9, <1>11 DEF Leaves
  <2>9. Copied(x, lo) => \A m : Leaves(x, lo, m) => m \in x.doomed \/ Holds(x, m, lo.dest)
    <3> SUFFICES ASSUME Copied(x, lo)
                 PROVE  \A m : Leaves(x, lo, m) => m \in x.doomed \/ Holds(x, m, lo.dest)
      OBVIOUS
    <3>1. lo.dest # h.box
      BY <2>2, <2>3, <2>7 DEF HandlerOK
    <3>2. \A m : Leaves(w, lo, m) => m \in w.doomed \/ Holds(w, m, lo.dest)
      BY <2>2, <2>7 DEF Cares, Copied
    <3> QED
      BY <1>9, <1>15, <2>4, <2>8, <3>1, <3>2
  <2>10. Saved(lo) => \A m : Leaves(x, lo, m) => m \in x.doomed \/ m \in x.local \/ Outside(x, m, lo)
    <3> SUFFICES ASSUME Saved(lo), NEW m, Leaves(w, lo, m)
                 PROVE  m \in w.doomed \/ m \in w.local \/ Outside(x, m, lo)
      BY <1>9, <2>8
    <3>1. m \in w.doomed \/ m \in w.local \/ Outside(w, m, lo)
      BY <2>2 DEF Cares
    <3>2. Outside(w, m, lo) => Outside(x, m, lo) \/ \E u \in S : server.mail[h.box][u] = m
      BY <1>16
    <3>3. ASSUME NEW u \in S, server.mail[h.box][u] = m
          PROVE  m \in w.doomed \/ m \in w.local \/ Outside(x, m, lo)
      <4>1. Leaves(w, h, m) /\ u \in h.uids
        BY <1>7, <1>12, <3>3
      <4>2. CASE h.op = "remove"
        BY <1>17, <4>1, <4>2
      <4>3. CASE h.op = "move"
        <5>1. m \in w.doomed \/ Holds(x, m, h.dest)
          BY <1>17, <4>1, <4>3
        <5>2. h.dest # lo.box
          BY <1>17, <2>3, <4>3
        <5> QED
          BY <1>10, <5>1, <5>2 DEF Holds, Outside
      <4>4. CASE h.op = "moveOut"
        BY <1>9, <1>10, <2>2, <3>3, <4>1, <4>4 DEF Spares, Saved
      <4> QED
        BY <1>10, <4>2, <4>3, <4>4 DEF Removal
    <3> QED
      BY <3>1, <3>2, <3>3
  <2>11. /\ lo.op \in Removal => \A u \in lo.uids : <<x.server.mail[lo.box][u], lo.box>> \in x.asked
         /\ lo.op = "remove" => \A u \in lo.uids : x.server.mail[lo.box][u] \in x.doomed
    BY <1>9, <1>11, <2>2 DEF Cares
  <2>12. Cares(x, lo)
    BY <2>7, <2>9, <2>10, <2>11 DEF Cares
  <2>13. Spares(x, lo, k)
    <3>1. Saved(k) => \A u \in k.uids : x.server.mail[k.box][u] \in x.local
      BY <1>9, <1>10, <1>11, <2>2 DEF Spares, Saved, SameWork
    <3>2. ~Appended(x, k)
      BY <1>10 DEF Appended, SameWork, Removal
    <3> QED
      BY <3>1, <3>2 DEF Spares
  <2> QED
    BY <2>1, <2>12, <2>13
<1>26. /\ Len(stack') = Len(stack) /\ stack'[Len(stack)] = k /\ Len(stack) \in 1..2
       /\ Len(stack) = 2 => stack'[1] = stack[1]
  BY <1>1, <1>8, TopCares DEF Replaced
<1>27. \A i \in 1..Len(stack') : Cares(x, stack'[i])
  BY <1>24, <1>25, <1>26
<1>28. Len(stack') = 2 => Spares(x, stack'[1], stack'[2])
  BY <1>25, <1>26
<1> QED
  BY <1>22, <1>23, <1>27, <1>28 DEF Inv6, w, x


\* What a command may have done to the server, said of the commands that take.
LEMMA DoneIs ==
    ASSUME Sound(server), NEW c, NEW f \in Handlers, NEW cmd, c.box \in Boxes \cup {None},
           cmd = "append" => f.msg \in Msgs,
           Possible(server, c, cmd, f), NEW t, t = Done(server, c, cmd, f)
    PROVE  \/ /\ cmd = "store" /\ c.box \in Boxes
              /\ t = Marked(server, c.box, f.uids \cap server.present[c.box])
           \/ cmd \in {"expunge", "close"} /\ c.box \in Boxes /\ t = Expunge(server, c.box)
           \/ cmd = "copy" \/ cmd = "append"
           \/ cmd = "delete" /\ f.box \in Boxes /\ t = Removed(server, f.box)
           \/ cmd \notin {"store", "expunge", "copy", "append", "delete"} /\ t = server
<1>1. server.boxes \subseteq Boxes /\ None \notin Boxes
  BY BoxesAssumption DEF Sound, Servers
<1>2. cmd \in {"store", "expunge", "copy", "close"} => c.box \in Boxes
  BY <1>1 DEF Possible
<1>3. CASE cmd \in {"copy", "append"}
  BY <1>3
<1>4. CASE cmd = "store"
  BY <1>2, <1>4 DEF Done, Marked
<1>5. CASE cmd = "expunge" \/ (cmd = "close" /\ ~c.ro)
  <2>1. t = Expunge(server, c.box)
    BY <1>5 DEF Done
  <2> QED
    BY <1>2, <1>5, <2>1
<1>6. CASE cmd = "delete"
  <2>1. t = Removed(server, f.box)
    BY <1>6 DEF Done, Removed
  <2> QED
    BY <1>6, <2>1 DEF Handlers
<1>7. CASE /\ cmd \notin {"store", "expunge", "copy", "append", "delete"}
           /\ ~(cmd = "close" /\ ~c.ro)
  BY <1>7 DEF Done
<1> QED
  BY <1>3, <1>4, <1>5, <1>6, <1>7

LEMMA Send6 == ASSUME Inv6, Inv5', Send PROVE Inv6' /\ MailKept(World, World')
<1>1. /\ stack # <<>> /\ ~Top.waits /\ HandlerOK(Top, server) /\ Top \in Handlers
      /\ Top.op \in Ops /\ Left(Top) \in 1..Len(Plan[Top.op]) /\ Todo = Step(Top)
      /\ Top.box \in Boxes /\ local' = local /\ Sound(server)
  BY Inv6Is, SendEffect, TopOK DEF Inv1
<1>2. CASE ~conn.up /\ UNCHANGED <<server, conn, doomed, asked, trouble>>
  <2>1. Gentle(World, World')
    BY <1>1, <1>2, Inv6Is, GentleSame
  <2>2. ~Confirmed(World', Waiting(Top))
    BY <1>2, WorldIs DEF Confirmed
  <2> QED
    BY <2>1, <2>2, SendPlain
<1>3. ASSUME NEW ok \in BOOLEAN, SentAs(ok) PROVE Inv6' /\ MailKept(World, World')
  <2>1. PICK cmd : cmd = CommandOf(Todo)
    OBVIOUS
  <2>2. Step(Top) \in {"copy", "append"} => cmd = Step(Top)
    BY <1>1, <2>1 DEF CommandOf
  <2>3. CASE ~ok
    <3>1. /\ server' = server /\ doomed' = doomed \cup {} /\ asked' = asked \cup ({} \X {Top.box})
      BY <1>3, <2>3 DEF SentAs
    <3>2. asked \subseteq asked' /\ doomed \subseteq doomed'
      BY <3>1
    <3>3. Gentle(World, World')
      BY <1>1, <3>1, <3>2, Inv6Is, GentleSame
    <3>4. PICK k : k = Waiting(Top)
      OBVIOUS
    <3>5. Step(Top) \in {"copy", "append"} => ~Confirmed(World', k)
      BY <1>3, <2>3, SentConfirmed
    <3> QED
      BY <3>3, <3>4, <3>5, SendPlain
  <2>4. CASE ok
    <3>1. SentAs(TRUE)
      BY <1>3, <2>4
    <3>2. /\ conn.box \in Boxes \cup {None} /\ Possible(server, conn, cmd, Top)
          /\ server' = Done(server, conn, cmd, Top)
          /\ cmd # "delete" => doomed' = doomed \cup {} /\ asked' = asked \cup ({} \X {Top.box})
      BY <2>1, <3>1, Inv6Is DEF SentAs, Inv1, Typed, Connections
    <3>3. cmd # "delete" => doomed' = doomed /\ asked' = asked
      BY <3>2
    <3>4. cmd = "append" => Top.msg \in Msgs
      <4>1. cmd = "append" => Step(Top) = "append"
        BY <1>1, <2>1 DEF CommandOf
      <4> QED
        BY <1>1, <4>1, WhoDoes DEF Step, HandlerOK
    <3>5. PICK t : t = server'
      OBVIOUS
    <3>6. \/ /\ cmd = "store" /\ conn.box \in Boxes
             /\ t = Marked(server, conn.box, Top.uids \cap server.present[conn.box])
          \/ cmd \in {"expunge", "close"} /\ conn.box \in Boxes /\ t = Expunge(server, conn.box)
          \/ cmd = "copy" \/ cmd = "append"
          \/ cmd = "delete" /\ Top.box \in Boxes /\ t = Removed(server, Top.box)
          \/ cmd \notin {"store", "expunge", "copy", "append", "delete"} /\ t = server
      <4>1. PICK f \in Handlers : f = Top
        BY <1>1
      <4>2. PICK c : c = conn
        OBVIOUS
      <4>3. /\ c.box \in Boxes \cup {None} /\ Possible(server, c, cmd, f)
            /\ t = Done(server, c, cmd, f)
            /\ cmd = "append" => f.msg \in Msgs
        BY <3>2, <3>4, <3>5, <4>1, <4>2
      <4>4. \/ /\ cmd = "store" /\ c.box \in Boxes
               /\ t = Marked(server, c.box, f.uids \cap server.present[c.box])
            \/ cmd \in {"expunge", "close"} /\ c.box \in Boxes /\ t = Expunge(server, c.box)
            \/ cmd = "copy" \/ cmd = "append"
            \/ cmd = "delete" /\ f.box \in Boxes /\ t = Removed(server, f.box)
            \/ cmd \notin {"store", "expunge", "copy", "append", "delete"} /\ t = server
        BY <1>1, <4>1, <4>3, DoneIs
      <4> QED
        BY <4>1, <4>2, <4>4
    <3>7. CASE cmd = "copy"
      BY <2>1, <3>1, <3>7, CopySent
    <3>8. CASE cmd = "append"
      BY <2>1, <3>1, <3>8, AppendSent
    <3>9. CASE /\ cmd = "store" /\ conn.box \in Boxes
               /\ t = Marked(server, conn.box, Top.uids \cap server.present[conn.box])
      BY <2>1, <3>1, <3>5, <3>9, StoreSent
    <3>10. CASE cmd \in {"expunge", "close"} /\ conn.box \in Boxes /\ t = Expunge(server, conn.box)
      BY <2>2, <3>3, <3>5, <3>10, ExpungeSent
    <3>11. CASE cmd = "delete" /\ t = Removed(server, Top.box)
      BY <2>1, <3>1, <3>5, <3>11, DeleteSent
    <3>12. CASE cmd \notin {"store", "expunge", "copy", "append", "delete"} /\ t = server
      <4>1. Gentle(World, World')
        BY <1>1, <3>3, <3>5, <3>12, Inv6Is, GentleSame
      <4> QED
        BY <2>2, <3>12, <4>1, SendPlain
    <3> QED
      BY <3>6, <3>7, <3>8, <3>9, <3>10, <3>11, <3>12
  <2> QED
    BY <2>3, <2>4
<1> QED
  BY <1>2, <1>3, Inv6Is, SendEffect

LEMMA Init6 == ASSUME Init PROVE Inv6
<1>1. /\ Inv5 /\ stack = <<>> /\ \A b \in Boxes : server.deleted[b] = {}
  BY Init5, InitEffect
<1>2. Len(stack) = 0 /\ 1..Len(stack) = {}
  BY <1>1
<1> QED
  BY <1>1, <1>2, WorldIs DEF Inv6, MarksSafe

LEMMA Step6 ==
    ASSUME Careful, Inv6, [Next]_vars
    PROVE  Inv6' /\ MailKept(World, World')
<1>1. Inv5'
  BY Step5 DEF Inv6
<1>2. CASE UNCHANGED vars
  <2>1. /\ server' = server /\ local' = local /\ asked' = asked /\ doomed' = doomed
        /\ stack' = stack /\ conn' = conn
    BY <1>2 DEF vars
  <2>2. Gentle(World, World')
    BY <2>1, Inv6Is, GentleSame
  <2> QED
    BY <1>1, <2>1, <2>2, SameStack
<1>3. CASE PassUi \/ SelectAgain \/ Unlink \/ CopyFile \/ Forget
  BY <1>1, <1>3, PassUi6, SelectAgain6, Unlink6, CopyFile6, Forget6
<1>4. CASE \/ ReceiveFlags \/ ReceiveHeaders \/ ReceiveBody \/ ReceiveNoBody
           \/ \E s \in Commands \cup {"trySelect"} : Receive(s)
  BY <1>1, <1>4, ReadSteps6, Receive6
<1>5. CASE GetSession \/ ReceiveNoop \/ HearNothing \/ ReceiveExists \/ Send
  BY <1>1, <1>5, GetSession6, ReceiveNoop6, HearNothing6, ReceiveExists6, Send6
<1>6. CASE \E i \in DOMAIN stack : BodyBegins(i)
  BY <1>1, <1>6, BodyBegins6
<1>7. CASE \/ Offline \/ Time \/ Break \/ Crash
           \/ \E b \in Boxes : \/ \E m \in Msgs : Deliver(m, b)
                               \/ \E u \in Uids : Discard(b, u)
  BY <1>1, <1>7, CarefulIs, OtherSteps6, Crash6, Deliver6, Discard6
<1>8. CASE \E f \in Requests : Sensible(f) /\ Start(f)
  BY <1>1, <1>8, Start6
<1> QED
  BY <1>2, <1>3, <1>4, <1>5, <1>6, <1>7, <1>8 DEF Next

LEMMA KeptMeans ==
    ASSUME MailKept(World, World'), NEW m
    PROVE  /\ \A b \in Boxes : b \in Places(m) \ Places(m)' => <<m, b>> \in asked'
           /\ m \notin doomed' /\ Places(m) # {} => Places(m)' # {}
<1>1. /\ \A b \in Boxes : b \in Places(m) <=> Lies(World, m, b)
      /\ "local" \in Places(m) <=> m \in local
      /\ \A p \in Places(m) : p \in Boxes \/ p = "local"
  BY WorldIs, NamesAssumption DEF Places, MsgsIn, Lies
<1>2. /\ \A b \in Boxes : b \in Places(m)' <=> Lies(World', m, b)
      /\ "local" \in Places(m)' <=> m \in local'
  BY WorldIs, NamesAssumption DEF Places, MsgsIn, Lies
<1>3. Places(m) # {} => AtHand(World, m)
  BY <1>1, WorldIs DEF AtHand
<1>4. AtHand(World', m) => Places(m)' # {}
  BY <1>2, WorldIs DEF AtHand
<1> QED
  BY <1>1, <1>2, <1>3, <1>4, WorldIs DEF MailKept

\* A message leaves a mailbox or the local folder only for another place, or because
\* somebody discards it: imap_move_msgs, filtering and saving drafts never lose one
\* to a command that fails, to a connection that breaks or to another handler.
THEOREM MailIsKept == ASSUME Careful PROVE Spec => KeepsMail
<1>1. Init => Inv6
  BY Init6
<1>2. Inv6 /\ [Next]_vars => Inv6' /\ MailKept(World, World')
  BY Step6
<1> DEFINE Kept ==
      \A m \in Msgs :
          /\ \A b \in Boxes : b \in Places(m) \ Places(m)' => <<m, b>> \in asked'
          /\ m \notin doomed' /\ Places(m) # {} => Places(m)' # {}
<1>3. Inv6 /\ [Next]_vars => Inv6' /\ [Kept]_vars
  BY <1>2, KeptMeans
<1> QED
  BY <1>1, <1>3, PTL DEF Spec, KeepsMail
=============================================================================
