------------------------- MODULE PaintDelayed_proofs -------------------------
(***************************************************************************)
(* PaintManager implements DelayedWork.  The proofs start from Inv, which  *)
(* says of every entry of m_aDelayedCleanup what it is, and add the        *)
(* converse: every removed control is an entry the loop has still to       *)
(* reach.                                                                  *)
(***************************************************************************)
EXTENDS PaintQueues_proofs

(***************************************************************************)
(* The place of the cleanup loop.                                          *)
(***************************************************************************)
Looping == {"loop", "destroy"}

(* The frames of the cleanup loop, and only they, are where they were. *)
SameLoops ==
  /\ \A j \in 1 .. Depth' :
       stack'[j].k \in Looping => j \in 1 .. Depth /\ stack'[j] = stack[j]
  /\ \A j \in 1 .. Depth :
       stack[j].k \in Looping => j \in 1 .. Depth' /\ stack'[j] = stack[j]

LEMMA PositionOf ==
  ASSUME OneLoop, NEW j \in 1 .. Depth, stack[j].k = "loop"
  PROVE  Position = stack[j].i
<1>. DEFINE m == CHOOSE k \in 1 .. Depth : stack[k].k = "loop"
<1>1. m \in 1 .. Depth /\ stack[m].k = "loop"
  OBVIOUS
<1>2. m = j
  BY <1>1 DEF OneLoop
<1>3. Cleaning
  BY DEF Cleaning
<1>. QED  BY <1>2, <1>3 DEF Position

LEMMA PositionOutside ==
  ASSUME ~Cleaning
  PROVE  Position = 1
BY DEF Position

LEMMA PositionAfter ==
  ASSUME OneLoop', NEW j \in 1 .. Depth', stack'[j].k = "loop"
  PROVE  Position' = stack'[j].i
<1>. DEFINE m == CHOOSE k \in 1 .. Depth' : stack'[k].k = "loop"
<1>1. m \in 1 .. Depth' /\ stack'[m].k = "loop"
  OBVIOUS
<1>2. m = j
  BY <1>1 DEF OneLoop
<1>3. Cleaning'
  BY DEF Cleaning
<1>. QED  BY <1>2, <1>3 DEF Position

LEMMA PositionStays ==
  ASSUME OneLoop, OneLoop', SameLoops
  PROVE  Position' = Position
<1>1. CASE Cleaning
  <2>1. PICK j \in 1 .. Depth : stack[j].k = "loop"
    BY <1>1 DEF Cleaning
  <2>2. j \in 1 .. Depth' /\ stack'[j] = stack[j]
    BY <2>1 DEF SameLoops, Looping
  <2>. QED  BY <2>1, <2>2, PositionOf, PositionAfter
<1>2. CASE ~Cleaning
  <2>1. ~Cleaning'
    BY <1>2 DEF Cleaning, SameLoops, Looping
  <2>. QED  BY <1>2, <2>1 DEF Position
<1>. QED  BY <1>1, <1>2

(* How the steps of PaintManager move the frames of the loop. *)
LEMMA QuietLoops ==
  ASSUME TypeOK, Quiet
  PROVE  SameLoops
<1>1. stack \in Seq(Frame) /\ stack' \in Seq(Frame) /\ Same(stack, stack')
  BY DEF TypeOK, Quiet
<1>2. /\ \A j \in 1 .. Depth' :
           stack'[j].k \in Special => j \in 1 .. Depth /\ stack'[j] = stack[j]
      /\ \A j \in 1 .. Depth :
           stack[j].k \in Special => j \in 1 .. Depth' /\ stack'[j] = stack[j]
  BY <1>1, SameSpecial DEF Depth
<1>. QED  BY <1>2 DEF SameLoops, Special, Looping

LEMMA SameStackLoops ==
  ASSUME UNCHANGED stack
  PROVE  SameLoops
BY DEF SameLoops, Depth

LEMMA PushLoops ==
  ASSUME TypeOK, NEW f \in Frame, f.k \notin Looping, stack' = Append(stack, f)
  PROVE  SameLoops
<1>1. /\ Depth \in Nat /\ Depth' = Depth + 1
      /\ \A j \in 1 .. Depth : stack'[j] = stack[j]
      /\ stack'[Depth + 1] = f
  BY PushStructure
<1>2. ASSUME NEW j \in 1 .. Depth'
      PROVE  j \in 1 .. Depth \/ stack'[j] = f
  <2>1. j \in 1 .. Depth \/ j = Depth + 1
    BY <1>1
  <2>. QED  BY ONLY <1>1, <2>1
<1>3. \A j \in 1 .. Depth : j \in 1 .. Depth'
  BY <1>1
<1>. QED  BY <1>1, <1>2, <1>3 DEF SameLoops

LEMMA PopLoops ==
  ASSUME TypeOK, Depth > 0, Top.k \notin Looping, stack' = Below
  PROVE  SameLoops
<1>1. /\ Depth \in Nat /\ Depth' = Depth - 1
      /\ \A j \in 1 .. Depth - 1 : stack'[j] = stack[j]
  BY PopFrame DEF TypeOK, Depth, Below
<1>. QED  BY <1>1 DEF SameLoops, Top

LEMMA AttachLoops ==
  ASSUME TypeOK, NEW d \in Dialog, AttachDialog(d)
  PROVE  SameLoops
<1>. DEFINE f == On("attach", None, d)
            s == Append(stack, f)
<1>1. SetFocus(None, s)
  BY DEF AttachDialog
<1>2. f \in Frame /\ f.k = "attach"
  BY WaitFrame DEF On, Ref, Control, Aimed, Callback, Between
<1>. HIDE DEF f
<1>3. /\ stack \in Seq(Frame) /\ Depth \in Nat
      /\ s \in Seq(Frame) /\ Len(s) = Depth + 1
      /\ \A j \in 1 .. Depth : s[j] = stack[j]
      /\ s[Depth + 1] = f
  BY <1>2, PushFrame DEF TypeOK, Depth
<1>. HIDE DEF s
<1>4. stack' \in Seq(Frame) /\ Same(s, stack')
  BY <1>1, <1>3, SetFocusSteps DEF Ref
<1>5. Depth' \in Nat /\ Depth' = Len(stack')
  BY <1>4, LenProperties DEF Depth
<1>6. /\ \A j \in 1 .. Depth' :
           stack'[j].k \in Special => j \in 1 .. Depth + 1 /\ stack'[j] = s[j]
      /\ \A j \in 1 .. Depth :
           stack[j].k \in Special => j \in 1 .. Depth' /\ stack'[j] = stack[j]
  BY <1>3, <1>4, <1>5 DEF Same, SpecialAt
<1>. QED  BY <1>2, <1>3, <1>6 DEF SameLoops, Special, Looping

(***************************************************************************)
(* What a removed control waits for.                                       *)
(***************************************************************************)
(* Leaves are in their dialog from the start. *)
LeavesInTree == \A l \in Leaf : st[l] # "new"

(* A removed control is an entry that the loop has still to reach. *)
RemovedWait ==
  \A c \in Control : st[c] = "delayed" => \E j \in Position .. Len(cleanup) : cleanup[j] = c

(* The loop is at an entry or past the last one. *)
InLoop == Position \in 1 .. Len(cleanup) + 1

(* When the entry itself dies, nothing is left in it. *)
LastOfAll ==
  \A j \in 1 .. Depth :
    stack[j].k = "destroy" /\ stack[j].c = cleanup[stack[j - 1].i] => Items(stack[j].c) = {}

WorkInv == LeavesInTree /\ RemovedWait /\ InLoop /\ LastOfAll

LEMMA InitWork == Init => WorkInv
<1>. SUFFICES ASSUME Init PROVE WorkInv
  OBVIOUS
<1>1. /\ stack = <<>> /\ cleanup = <<>> /\ Depth = 0 /\ Len(cleanup) = 0
      /\ st = [c \in Control |-> IF c \in Dialog THEN "new" ELSE "live"]
  BY DEF Init, Depth
<1>2. Position = 1
  BY <1>1 DEF Position, Cleaning
<1>3. LeavesInTree
  BY <1>1, HomeAssumption DEF LeavesInTree, Control
<1>4. RemovedWait
  BY <1>1 DEF RemovedWait
<1>5. InLoop
  BY <1>1, <1>2 DEF InLoop
<1>6. LastOfAll
  BY <1>1 DEF LastOfAll
<1>. QED  BY <1>3, <1>4, <1>5, <1>6 DEF WorkInv

(* Only the loop deletes, and what it has passed is gone. *)
LEMMA EntriesWait ==
  ASSUME Inv, InLoop
  PROVE  /\ Position \in Nat /\ Len(cleanup) \in Nat
         /\ \A j \in Position .. Len(cleanup) :
              /\ j \in 1 .. Len(cleanup) /\ cleanup[j] \in Control
              /\ st[cleanup[j]] = "delayed"
<1>1. /\ Len(cleanup) \in Nat /\ \A j \in 1 .. Len(cleanup) : cleanup[j] \in Control
      /\ Position \in 1 .. Len(cleanup) + 1 /\ Depth \in Nat
      /\ \A l \in 1 .. Depth : stack[l].i \in Nat
  BY FrameFacts DEF Inv, InLoop
<1>2. ASSUME NEW j \in Position .. Len(cleanup)
      PROVE  j \in 1 .. Len(cleanup) /\ ~LoopPassed(j)
  <2>1. \A l \in 1 .. Depth : stack[l].k = "loop" => Position = stack[l].i
    BY PositionOf DEF Inv
  <2>. QED  BY <1>1, <2>1 DEF LoopPassed
<1>. QED  BY <1>1, <1>2 DEF Inv, EntriesPending

(***************************************************************************)
(* The rest of a sequence, from its i-th element.                          *)
(***************************************************************************)
LEMMA Rest ==
  ASSUME NEW s \in Seq(Control), NEW i \in 1 .. Len(s) + 1
  PROVE  /\ SubSeq(s, i, Len(s)) \in Seq(Control)
         /\ Len(SubSeq(s, i, Len(s))) = Len(s) - i + 1
         /\ \A j \in 1 .. Len(s) - i + 1 : SubSeq(s, i, Len(s))[j] = s[i + j - 1]
<1>1. Len(s) \in Nat /\ \A j \in 1 .. Len(s) : s[j] \in Control
  BY ElementOfSeq, LenProperties
<1>2. i \in Int /\ Len(s) \in Int /\ \A j \in i .. Len(s) : s[j] \in Control
  BY <1>1
<1>3. /\ SubSeq(s, i, Len(s)) \in Seq(Control)
      /\ Len(SubSeq(s, i, Len(s))) = IF i <= Len(s) THEN Len(s) - i + 1 ELSE 0
      /\ \A j \in 1 .. Len(s) - i + 1 : SubSeq(s, i, Len(s))[j] = s[i + j - 1]
  BY ONLY <1>2, SubSeqProperties
<1>4. (IF i <= Len(s) THEN Len(s) - i + 1 ELSE 0) = Len(s) - i + 1
  BY <1>1
<1>. QED  BY <1>3, <1>4, Zenon

LEMMA RestAppend ==
  ASSUME NEW s \in Seq(Control), NEW i \in 1 .. Len(s) + 1, NEW c \in Control
  PROVE  SubSeq(Append(s, c), i, Len(Append(s, c))) = Append(SubSeq(s, i, Len(s)), c)
<1>. DEFINE t == Append(s, c)
            u == SubSeq(t, i, Len(t))
            r == SubSeq(s, i, Len(s))
            v == Append(r, c)
<1>1. /\ Len(s) \in Nat /\ t \in Seq(Control) /\ Len(t) = Len(s) + 1
      /\ \A j \in 1 .. Len(s) : t[j] = s[j]
      /\ t[Len(s) + 1] = c
  BY AppendProperties, LenProperties
<1>2. /\ r \in Seq(Control) /\ Len(r) = Len(s) - i + 1
      /\ \A j \in 1 .. Len(s) - i + 1 : r[j] = s[i + j - 1]
  BY Rest
<1>. HIDE DEF t, r
<1>3. i \in 1 .. Len(t) + 1
  BY <1>1
<1>4. /\ u \in Seq(Control) /\ Len(u) = Len(t) - i + 1
      /\ \A j \in 1 .. Len(t) - i + 1 : u[j] = t[i + j - 1]
  BY <1>1, <1>3, Rest
<1>5. /\ v \in Seq(Control) /\ Len(v) = Len(r) + 1
      /\ \A j \in 1 .. Len(r) : v[j] = r[j]
      /\ v[Len(r) + 1] = c
  BY <1>2, AppendProperties
<1>. HIDE DEF u, v
<1>6. Len(u) = Len(v)
  BY <1>1, <1>2, <1>4, <1>5
<1>7. ASSUME NEW j \in 1 .. Len(u)
      PROVE  u[j] = v[j]
  <2>1. j \in 1 .. Len(t) - i + 1 /\ u[j] = t[i + j - 1]
    BY <1>4
  <2>2. CASE j \in 1 .. Len(s) - i + 1
    <3>1. i + j - 1 \in 1 .. Len(s)
      BY <1>1, <2>2
    <3>. QED  BY <1>1, <1>2, <1>5, <2>1, <2>2, <3>1
  <2>3. CASE j = Len(s) - i + 2
    <3>1. i + j - 1 = Len(s) + 1 /\ j = Len(r) + 1
      BY <1>1, <1>2, <2>3
    <3>. QED  BY <1>1, <1>5, <2>1, <3>1
  <2>. QED  BY <1>1, <2>1, <2>2, <2>3
<1>8. u = v
  BY <1>4, <1>5, <1>6, <1>7, SeqEqual
<1>. QED  BY <1>8 DEF t, u, r, v

LEMMA RestTail ==
  ASSUME NEW s \in Seq(Control), NEW i \in 1 .. Len(s)
  PROVE  /\ SubSeq(s, i, Len(s)) # <<>>
         /\ Head(SubSeq(s, i, Len(s))) = s[i]
         /\ Tail(SubSeq(s, i, Len(s))) = SubSeq(s, i + 1, Len(s))
<1>1. Len(s) \in Nat /\ i \in 1 .. Len(s) + 1 /\ Len(s) \in i .. Len(s)
  BY LenProperties
<1>2. Len(SubSeq(s, i, Len(s))) = Len(s) - i + 1 /\ Len(s) - i + 1 > 0
  BY <1>1, Rest
<1>3. SubSeq(s, i, Len(s)) # <<>>
  <2>1. Len(<<>>) = 0
    OBVIOUS
  <2>. QED  BY <1>2, <2>1
<1>. QED  BY <1>1, <1>3, HeadTailOfSubSeq

(***************************************************************************)
(* Steps that leave the frames of the loop alone.                          *)
(***************************************************************************)
LEMMA KeepLast ==
  ASSUME Inv, LastOfAll, SameLoops,
         \A j \in 1 .. Len(cleanup) : cleanup'[j] = cleanup[j],
         \A l \in Leaf : st'[l] = "live" => st[l] = "live"
  PROVE  LastOfAll'
<1>. SUFFICES ASSUME NEW j \in 1 .. Depth', stack'[j].k = "destroy",
                     stack'[j].c = cleanup'[stack'[j - 1].i]
              PROVE  \A l \in Leaf : Home[l] = stack'[j].c => st'[l] # "live"
  BY DEF LastOfAll, Items
<1>1. j \in 1 .. Depth /\ stack'[j] = stack[j]
  BY DEF SameLoops, Looping
<1>2. /\ j >= 2 /\ stack[j - 1].k = "loop" /\ stack[j - 1].i <= Len(cleanup)
  BY <1>1 DEF Inv, Dying
<1>3. Depth \in Nat /\ j - 1 \in 1 .. Depth
  BY <1>1, <1>2, FrameFacts DEF Inv
<1>4. stack'[j - 1] = stack[j - 1]
  BY <1>2, <1>3 DEF SameLoops, Looping
<1>5. stack[j - 1].i \in 1 .. Len(cleanup)
  BY <1>2, <1>3, FrameFacts DEF Inv, OneLoop
<1>6. stack[j].c = cleanup[stack[j - 1].i]
  BY <1>1, <1>4, <1>5
<1>7. \A l \in Leaf : Home[l] = stack[j].c => st[l] # "live"
  BY <1>1, <1>6 DEF LastOfAll, Items
<1>. QED  BY <1>1, <1>7

(* A handler goes on, and nothing was put off. *)
LEMMA StillWork ==
  ASSUME Inv, Inv', WorkInv, SameLoops, UNCHANGED <<cleanup, notify, delivered>>,
         \A c \in Control : \/ st'[c] = st[c]
                            \/ c \in Dialog /\ st[c] = "new" /\ st'[c] = "live"
  PROVE  WorkInv' /\ UNCHANGED Delayed!vars
<1>1. Position' = Position
  BY PositionStays DEF Inv
<1>2. Unmoved' = Unmoved
  BY DEF Unmoved
<1>3. UNCHANGED Delayed!vars
  BY <1>1, <1>2 DEF Delayed!vars, Pending, Senders
<1>4. \A l \in Leaf : l \in Control /\ l \notin Dialog
  BY HomeAssumption DEF Control
<1>5. LeavesInTree'
  BY <1>4 DEF WorkInv, LeavesInTree
<1>6. RemovedWait' /\ InLoop'
  BY <1>1 DEF WorkInv, RemovedWait, InLoop
<1>7. LastOfAll'
  BY <1>4, KeepLast DEF WorkInv
<1>. QED  BY <1>3, <1>5, <1>6, <1>7 DEF WorkInv

(* A control is removed. *)
LEMMA DoomWork ==
  ASSUME Inv, Inv', WorkInv, SameLoops, UNCHANGED <<notify, delivered>>,
         NEW c \in Control, st[c] = "live", st'[c] = "delayed",
         \A e \in Control \ {c} : \/ st'[e] = st[e]
                                  \/ e \in Dialog /\ st[e] = "new" /\ st'[e] = "live",
         cleanup' = Append(cleanup, c)
  PROVE  WorkInv' /\ Delayed!Doom(c)
<1>1. Position' = Position
  BY PositionStays DEF Inv
<1>2. cleanup \in Seq(Control) /\ Len(cleanup) \in Nat /\ Position \in 1 .. Len(cleanup) + 1
  BY FrameFacts DEF Inv, TypeOK, WorkInv, InLoop
<1>3. /\ Len(cleanup') = Len(cleanup) + 1
      /\ \A j \in 1 .. Len(cleanup) : cleanup'[j] = cleanup[j]
      /\ cleanup'[Len(cleanup) + 1] = c
  BY <1>2, AppendProperties
<1>4. Pending' = Append(Pending, c)
  BY <1>1, <1>2, RestAppend DEF Pending
<1>5. Unmoved' = Unmoved \ {c} /\ c \in Unmoved
  BY DEF Unmoved
<1>6. Delayed!Doom(c)
  BY <1>4, <1>5 DEF Delayed!Doom, Senders
<1>7. \A l \in Leaf : l \in Control /\ l \notin Dialog
  BY HomeAssumption DEF Control
<1>8. LeavesInTree'
  BY <1>7 DEF WorkInv, LeavesInTree
<1>9. RemovedWait'
  <2>. SUFFICES ASSUME NEW e \in Control, st'[e] = "delayed"
                PROVE  \E j \in Position .. Len(cleanup') : cleanup'[j] = e
    BY <1>1 DEF RemovedWait
  <2>1. CASE e = c
    <3>1. Len(cleanup) + 1 \in Position .. Len(cleanup')
      BY <1>2, <1>3
    <3>. QED  BY <1>3, <2>1, <3>1
  <2>2. CASE e # c
    <3>1. PICK j \in Position .. Len(cleanup) : cleanup[j] = e
      BY <2>2 DEF WorkInv, RemovedWait
    <3>2. j \in 1 .. Len(cleanup) /\ j \in Position .. Len(cleanup')
      BY <1>2, <1>3
    <3>. QED  BY <1>3, <3>1, <3>2
  <2>. QED  BY <2>1, <2>2
<1>10. InLoop'
  BY <1>1, <1>2, <1>3 DEF InLoop
<1>11. LastOfAll'
  BY <1>3, <1>7, KeepLast DEF WorkInv
<1>. QED  BY <1>6, <1>8, <1>9, <1>10, <1>11 DEF WorkInv

(***************************************************************************)
(* Notifications.                                                          *)
(***************************************************************************)
LEMMA SenderSeq ==
  ASSUME NEW q \in Seq(Message)
  PROVE  LET r == [j \in 1 .. Len(q) |-> q[j].sender]
         IN /\ r \in Seq(Ref) /\ Len(r) = Len(q) /\ Len(q) \in Nat
            /\ \A j \in 1 .. Len(q) : r[j] = q[j].sender
<1>1. /\ Len(q) \in Nat /\ \A j \in 1 .. Len(q) : q[j] \in Message
  BY ElementOfSeq, LenProperties
<1>2. \A j \in 1 .. Len(q) : q[j].sender \in Ref
  BY <1>1 DEF Message
<1>. QED  BY <1>1, <1>2

LEMMA SendWork ==
  ASSUME Inv, Inv', WorkInv, NEW c \in Control, SendNotify(c)
  PROVE  WorkInv' /\ Delayed!Send(c)
<1>1. /\ UNCHANGED <<st, cleanup, stack, delivered>>
      /\ notify' = Append(notify, [id |-> sent + 1, sender |-> c])
      /\ Managed(c)
  BY DEF SendNotify
<1>2. SameLoops
  BY <1>1, SameStackLoops
<1>3. Position' = Position
  BY <1>2, PositionStays DEF Inv
<1>4. WorkInv'
  <2>1. LastOfAll'
    BY <1>1, <1>2, KeepLast DEF WorkInv
  <2>. QED  BY <1>1, <1>3, <2>1 DEF WorkInv, LeavesInTree, RemovedWait, InLoop
<1>5. Unmoved' = Unmoved /\ Pending' = Pending
  BY <1>1, <1>3 DEF Unmoved, Pending
<1>6. Senders' = Append(Senders, c)
  <2>. DEFINE m == [id |-> sent + 1, sender |-> c]
              t == Append(Senders, c)
  <2>1. m \in Message /\ m.sender = c /\ c \in Ref /\ notify \in Seq(Message)
    BY DEF Inv, TypeOK, Message, Ref
  <2>. HIDE DEF m
  <2>2. /\ Len(notify) \in Nat /\ Len(notify') = Len(notify) + 1
        /\ \A j \in 1 .. Len(notify) : notify'[j] = notify[j]
        /\ notify'[Len(notify) + 1] = m
    BY <1>1, <2>1, AppendMessage DEF m
  <2>3. /\ Senders \in Seq(Ref) /\ Len(Senders) = Len(notify)
        /\ \A j \in 1 .. Len(notify) : Senders[j] = notify[j].sender
    BY <2>1, SenderSeq DEF Senders
  <2>4. /\ Senders' \in Seq(Ref) /\ Len(Senders') = Len(notify')
        /\ \A j \in 1 .. Len(notify') : Senders'[j] = notify'[j].sender
    <3>1. notify' \in Seq(Message)
      BY DEF Inv, TypeOK
    <3>. QED  BY <3>1, SenderSeq DEF Senders
  <2>5. /\ t \in Seq(Ref) /\ Len(t) = Len(Senders) + 1
        /\ \A j \in 1 .. Len(Senders) : t[j] = Senders[j]
        /\ t[Len(Senders) + 1] = c
    BY <2>1, <2>3, AppendProperties
  <2>. HIDE DEF t
  <2>6. ASSUME NEW j \in 1 .. Len(Senders')
        PROVE  Senders'[j] = t[j]
    <3>1. CASE j \in 1 .. Len(notify)
      BY <2>2, <2>3, <2>4, <2>5, <3>1
    <3>2. CASE j = Len(notify) + 1
      BY <2>1, <2>2, <2>3, <2>4, <2>5, <3>2
    <3>. QED  BY <2>2, <2>4, <3>1, <3>2
  <2>7. Len(Senders') = Len(t)
    BY <2>2, <2>3, <2>4, <2>5
  <2>8. Senders' = t
    BY <2>4, <2>5, <2>6, <2>7, SeqEqual
  <2>. QED  BY <2>8 DEF t
<1>7. Delayed!Exists(c)
  <2>1. st[c] \in {"new", "live", "delayed"}
    BY <1>1 DEF Managed, Inv, TypeOK, State
  <2>2. CASE st[c] # "delayed"
    BY <2>1, <2>2 DEF Delayed!Exists, Unmoved
  <2>3. CASE st[c] = "delayed"
    <3>1. PICK j \in Position .. Len(cleanup) : cleanup[j] = c
      BY <2>3 DEF WorkInv, RemovedWait
    <3>2. /\ cleanup \in Seq(Control) /\ Len(cleanup) \in Nat
          /\ Position \in 1 .. Len(cleanup) + 1
      BY FrameFacts DEF Inv, TypeOK, WorkInv, InLoop
    <3>3. /\ Len(Pending) = Len(cleanup) - Position + 1
          /\ \A k \in 1 .. Len(cleanup) - Position + 1 : Pending[k] = cleanup[Position + k - 1]
      BY <3>2, Rest DEF Pending
    <3>4. /\ j - Position + 1 \in 1 .. Len(Pending)
          /\ Position + (j - Position + 1) - 1 = j
      BY <3>2, <3>3
    <3>5. Pending[j - Position + 1] = c
      BY <3>1, <3>3, <3>4
    <3>. QED  BY <3>4, <3>5 DEF Delayed!Exists
  <2>. QED  BY <2>2, <2>3
<1>. QED  BY <1>1, <1>4, <1>5, <1>6, <1>7 DEF Delayed!Send

LEMMA DeliverWork ==
  ASSUME Inv, Inv', WorkInv, DeliveredInOrder, Deliver
  PROVE  WorkInv' /\ Delayed!Deliver
<1>. DEFINE f == On("notify", Head(notify).sender, None)
<1>1. /\ notify # <<>> /\ notify' = Tail(notify) /\ delivered' = Head(notify).id
      /\ stack' = Append(stack, f)
      /\ UNCHANGED <<st, cleanup>>
  BY DEF Deliver
<1>2. TypeOK /\ TypeOK' /\ notify \in Seq(Message)
  BY DEF Inv, TypeOK
<1>3. /\ Len(notify) \in Nat /\ Len(notify) >= 1
      /\ Head(notify) = notify[1] /\ Head(notify) \in Message
      /\ Len(notify') = Len(notify) - 1
      /\ \A j \in 1 .. Len(notify) - 1 : notify'[j] = notify[j + 1]
  BY <1>1, <1>2, TailMessages
<1>4. f \in Frame /\ f.k \notin Looping
  <2>1. Head(notify).sender \in Ref
    BY <1>3 DEF Message
  <2>. QED  BY <2>1, WaitFrame DEF On, Callback, Between, Aimed, Ref, Looping
<1>. HIDE DEF f
<1>5. SameLoops
  BY <1>1, <1>2, <1>4, PushLoops
<1>6. Position' = Position
  BY <1>5, PositionStays DEF Inv
<1>7. WorkInv'
  <2>1. LastOfAll'
    BY <1>1, <1>5, KeepLast DEF WorkInv
  <2>. QED  BY <1>1, <1>6, <2>1 DEF WorkInv, LeavesInTree, RemovedWait, InLoop
<1>8. Unmoved' = Unmoved /\ Pending' = Pending
  BY <1>1, <1>6 DEF Unmoved, Pending
<1>9. delivered' = delivered + 1
  BY <1>1, <1>3 DEF DeliveredInOrder
<1>10. Senders # <<>> /\ Senders' = Tail(Senders)
  <2>1. /\ Senders \in Seq(Ref) /\ Len(Senders) = Len(notify)
        /\ \A j \in 1 .. Len(notify) : Senders[j] = notify[j].sender
    BY <1>2, SenderSeq DEF Senders
  <2>2. /\ Senders' \in Seq(Ref) /\ Len(Senders') = Len(notify')
        /\ \A j \in 1 .. Len(notify') : Senders'[j] = notify'[j].sender
    <3>1. notify' \in Seq(Message)
      BY <1>2 DEF TypeOK
    <3>. QED  BY <3>1, SenderSeq DEF Senders
  <2>3. Senders # <<>>
    <3>1. Len(<<>>) = 0
      OBVIOUS
    <3>. QED  BY <1>3, <2>1, <3>1
  <2>4. /\ Tail(Senders) \in Seq(Ref) /\ Len(Tail(Senders)) = Len(Senders) - 1
        /\ \A j \in 1 .. Len(Tail(Senders)) : Tail(Senders)[j] = Senders[j + 1]
    BY <2>1, <2>3, HeadTailProperties
  <2>5. ASSUME NEW j \in 1 .. Len(Senders')
        PROVE  Senders'[j] = Tail(Senders)[j]
    <3>1. j \in 1 .. Len(notify) - 1 /\ j + 1 \in 1 .. Len(notify)
      BY <1>3, <2>2
    <3>. QED  BY <1>3, <2>1, <2>2, <2>4, <3>1
  <2>6. Len(Senders') = Len(Tail(Senders))
    BY <1>3, <2>1, <2>2, <2>4
  <2>7. Senders' = Tail(Senders)
    BY ONLY <2>2, <2>4, <2>5, <2>6, SeqEqual
  <2>. QED  BY <2>3, <2>7
<1>. QED  BY <1>7, <1>8, <1>9, <1>10 DEF Delayed!Deliver

(***************************************************************************)
(* WM_APP+1.                                                               *)
(***************************************************************************)
LEMMA AsyncWork ==
  ASSUME Inv, Inv', WorkInv, AsyncMessage
  PROVE  WorkInv' /\ UNCHANGED Delayed!vars
<1>1. /\ queued /\ stack' = Append(stack, LoopAt(1))
      /\ UNCHANGED <<st, cleanup, notify, delivered>>
  BY DEF AsyncMessage
<1>2. LoopAt(1) \in Frame /\ LoopAt(1).k = "loop" /\ LoopAt(1).i = 1
  BY DEF LoopAt, Frame, Ref, Callback, Between, Aimed
<1>3. /\ Depth \in Nat /\ Depth' = Depth + 1
      /\ \A j \in 1 .. Depth : stack'[j] = stack[j]
      /\ stack'[Depth + 1] = LoopAt(1)
  BY <1>1, <1>2, PushStructure DEF Inv
<1>4. ~Cleaning
  BY <1>1 DEF Inv, Flag
<1>5. Position = 1
  BY <1>4, PositionOutside
<1>6. Position' = 1
  <2>1. Depth + 1 \in 1 .. Depth'
    BY <1>3
  <2>. QED  BY <1>2, <1>3, <2>1, PositionAfter DEF Inv
<1>7. \A j \in 1 .. Depth' : stack'[j].k # "destroy"
  <2>. SUFFICES ASSUME NEW j \in 1 .. Depth', stack'[j].k = "destroy" PROVE FALSE
    OBVIOUS
  <2>1. j \in 1 .. Depth /\ stack[j].k = "destroy"
    BY <1>2, <1>3
  <2>2. j - 1 \in 1 .. Depth /\ stack[j - 1].k = "loop"
    BY <1>3, <2>1 DEF Inv, Dying
  <2>. QED  BY <1>4, <2>2 DEF Cleaning
<1>8. WorkInv'
  BY <1>1, <1>5, <1>6, <1>7 DEF WorkInv, LeavesInTree, RemovedWait, InLoop, LastOfAll
<1>. QED  BY <1>1, <1>5, <1>6, <1>8 DEF Delayed!vars, Unmoved, Pending, Senders

LEMMA BeginWork ==
  ASSUME Inv, Inv', WorkInv, BeginDelete
  PROVE  WorkInv' /\ UNCHANGED Delayed!vars
<1>1. /\ TypeOK /\ Depth > 0 /\ Top.k = "loop" /\ Top.i <= Len(cleanup)
      /\ UNCHANGED <<st, cleanup, notify, delivered>>
  BY DEF Inv, BeginDelete, At, async
<1>2. PICK c \in Victims(cleanup[Top.i]) : stack' = Append(stack, On("destroy", c, None))
  BY DEF BeginDelete
<1>3. /\ Depth \in Nat /\ Depth \in 1 .. Depth /\ stack[Depth] = Top
      /\ Top.i \in 1 .. Len(cleanup) /\ cleanup[Top.i] \in Control
  BY <1>1, FrameFacts DEF Inv, OneLoop, Top
<1>4. /\ c \in Control
      /\ c = cleanup[Top.i] => Items(c) = {}
  BY <1>2, <1>3, HomeAssumption DEF Victims, Items, Control
<1>. DEFINE f == On("destroy", c, None)
<1>5. f \in Frame /\ f.k = "destroy" /\ f.c = c
  BY <1>4, CallFrame DEF On, Aimed, Callback, Ref
<1>6. /\ Depth' = Depth + 1
      /\ \A j \in 1 .. Depth : stack'[j] = stack[j]
      /\ stack'[Depth + 1] = f
  BY <1>1, <1>2, <1>5, PushStructure
<1>. HIDE DEF f
<1>7. Position' = Position
  <2>1. Depth \in 1 .. Depth' /\ stack'[Depth] = Top
    BY <1>3, <1>6
  <2>. QED  BY <1>1, <1>3, <2>1, PositionOf, PositionAfter DEF Inv
<1>8. LastOfAll'
  <2>. SUFFICES ASSUME NEW j \in 1 .. Depth', stack'[j].k = "destroy",
                       stack'[j].c = cleanup[stack'[j - 1].i]
                PROVE  \A l \in Leaf : Home[l] = stack'[j].c => st[l] # "live"
    BY <1>1 DEF LastOfAll, Items
  <2>1. j = Depth + 1
    <3>1. CASE j \in 1 .. Depth
      <4>1. j # Depth + 1 /\ stack[j].k # "destroy"
        BY <1>1, <1>3, <3>1, NoneDying DEF Inv
      <4>. QED  BY <1>6, <3>1, <4>1
    <3>. QED  BY <1>3, <1>6, <3>1
  <2>2. stack'[j - 1] = Top
    BY <1>3, <1>6, <2>1
  <2>. QED  BY <1>4, <1>5, <1>6, <2>1, <2>2 DEF Items
<1>9. WorkInv'
  BY <1>1, <1>7, <1>8 DEF WorkInv, LeavesInTree, RemovedWait, InLoop
<1>. QED  BY <1>1, <1>7, <1>9 DEF Delayed!vars, Unmoved, Pending, Senders

LEMMA EndLoopWork ==
  ASSUME Inv, Inv', WorkInv, EndOfLoop
  PROVE  WorkInv' /\ UNCHANGED Delayed!vars
<1>1. /\ TypeOK /\ Depth > 0 /\ Top.k = "loop" /\ Top.i > Len(cleanup)
      /\ cleanup' = <<>> /\ stack' = Append(Below, Drain)
      /\ UNCHANGED <<st, notify, delivered>>
  BY DEF Inv, EndOfLoop, At
<1>2. Drain \in Frame /\ Drain.k = "drain"
  BY WaitFrame DEF Drain, On, Aimed, Callback, Between, Ref
<1>3. /\ Below \in Seq(Frame) /\ Depth \in Nat /\ Len(Below) = Depth - 1
      /\ \A j \in 1 .. Depth - 1 : Below[j] = stack[j]
  BY <1>1, PopFrame DEF TypeOK, Depth, Below
<1>4. /\ Depth' = Depth
      /\ \A j \in 1 .. Depth - 1 : stack'[j] = stack[j]
      /\ stack'[Depth].k = "drain"
  BY <1>1, <1>2, <1>3, PushFrame DEF Depth
<1>5. Depth \in 1 .. Depth /\ stack[Depth] = Top
  BY <1>1, <1>3 DEF Top
<1>6. \A j \in 1 .. Depth - 1 : stack[j].k # "loop" /\ stack[j].k # "destroy"
  BY <1>1, <1>3, <1>5, NoneDying DEF Inv, OneLoop
<1>7. \A j \in 1 .. Depth' : stack'[j].k # "loop" /\ stack'[j].k # "destroy"
  BY <1>3, <1>4, <1>6
<1>8. Len(cleanup) \in Nat /\ Position = Len(cleanup) + 1
  BY <1>1, <1>5, PositionOf, FrameFacts DEF Inv, WorkInv, InLoop
<1>9. Position' = 1
  BY <1>7 DEF Position, Cleaning
<1>10. \A c \in Control : st[c] # "delayed"
  BY <1>8 DEF WorkInv, RemovedWait
<1>11. Len(cleanup') = 0
  BY <1>1
<1>12. WorkInv'
  <2>1. LeavesInTree' /\ RemovedWait'
    BY <1>1, <1>10 DEF WorkInv, LeavesInTree, RemovedWait
  <2>2. InLoop'
    BY <1>9, <1>11 DEF InLoop
  <2>3. LastOfAll'
    BY <1>7 DEF LastOfAll
  <2>. QED  BY <2>1, <2>2, <2>3 DEF WorkInv
<1>13. Pending = <<>>
  BY <1>8, SubSeqEmpty DEF Pending
<1>14. Pending' = <<>>
  BY <1>9, <1>11, SubSeqEmpty DEF Pending
<1>. QED  BY <1>1, <1>12, <1>13, <1>14 DEF Delayed!vars, Unmoved, Senders

(* A control dies: the entry that the loop is at, or something that is left in it. *)
LEMMA DestroyWork ==
  ASSUME Inv, Inv', WorkInv, ReturnDestroy, Intact, Depth > 0
  PROVE  WorkInv' /\ \E c \in Control : Delayed!EndPart(c) \/ Delayed!EndDoomed(c)
<1>. DEFINE c == Top.c
            i == stack[Depth - 1].i
<1>1. /\ Depth \in Nat /\ Depth >= 2
      /\ c \in Control /\ i \in 1 .. Len(cleanup)
      /\ stack[Depth - 1].k = "loop" /\ Top.k = "destroy"
      /\ \A j \in 1 .. Depth - 1 : stack[j].k # "destroy"
      /\ Depth' = Depth - 1
      /\ \A j \in 1 .. Depth - 2 : stack'[j] = stack[j]
      /\ stack'[Depth - 1].k = "loop"
      /\ \/ cleanup[i] = c /\ stack'[Depth - 1].i = i + 1
         \/ /\ c \in Leaf /\ st[c] = "live" /\ stack'[Depth - 1].i = i
            /\ \A j \in 1 .. Len(cleanup) : cleanup[j] # c
  BY DestroyStructure DEF ReturnDestroy
<1>2. /\ st \in [Control -> State] /\ cleanup \in Seq(Control) /\ Len(cleanup) \in Nat
      /\ st' = [st EXCEPT ![c] = "deleted"] /\ ReapObjects(c)
      /\ UNCHANGED <<cleanup, delivered>>
  BY FrameFacts DEF Inv, TypeOK, ReturnDestroy
<1>3. stack[Depth] = Top /\ Depth \in 1 .. Depth /\ Depth - 1 \in 1 .. Depth
  BY <1>1 DEF Top
<1>4. \/ c = cleanup[i]
      \/ c \in Leaf /\ Home[c] = cleanup[i] /\ st[c] = "live"
  BY <1>1, <1>3 DEF Inv, Dying
<1>5. c = cleanup[i] => Items(c) = {}
  BY <1>1, <1>3 DEF WorkInv, LastOfAll
<1>. HIDE DEF c, i
<1>6. Position = i
  BY <1>1, <1>3, PositionOf DEF Inv, i
<1>7. Position' = stack'[Depth - 1].i
  <2>1. Depth - 1 \in 1 .. Depth'
    BY <1>1
  <2>. QED  BY <1>1, <2>1, PositionAfter DEF Inv
<1>8. \A j \in 1 .. Depth' : stack'[j].k # "destroy"
  BY <1>1
<1>9. /\ Pending # <<>> /\ Head(Pending) = cleanup[i]
      /\ Tail(Pending) = SubSeq(cleanup, i + 1, Len(cleanup))
  BY <1>1, <1>2, <1>6, RestTail DEF Pending
<1>10. st'[c] = "deleted" /\ \A e \in Control : e # c => st'[e] = st[e]
  BY <1>1, <1>2
<1>11. LeavesInTree' /\ LastOfAll'
  BY <1>8, <1>10, HomeAssumption DEF WorkInv, LeavesInTree, LastOfAll, Control
<1>12. Delayed!End(c)
  <2>1. /\ Len(notify) \in Nat
        /\ notify' = [j \in 1 .. Len(notify) |->
                       [id |-> notify[j].id, sender |-> Forget(notify[j].sender, c)]]
    BY <1>2, FrameFacts DEF Inv, ReapObjects
  <2>2. Len(notify') = Len(notify)
    BY <2>1
  <2>3. \A j \in 1 .. Len(notify) : notify'[j].sender = Forget(notify[j].sender, c)
    BY <2>1
  <2>4. Len(Senders) = Len(notify)
    BY <2>1 DEF Senders
  <2>5. Senders' = [j \in 1 .. Len(Senders) |-> IF Senders[j] = c THEN None ELSE Senders[j]]
    BY <2>1, <2>2, <2>3, <2>4 DEF Senders, Forget
  <2>. QED  BY <1>2, <2>5 DEF Delayed!End
<1>13. CASE cleanup[i] = c /\ Position' = i + 1
  <2>1. st[c] = "delayed"
    BY <1>1, <1>2, <1>6, <1>13, EntriesWait DEF WorkInv
  <2>2. Unmoved' = Unmoved
    BY <1>1, <1>10, <2>1 DEF Unmoved
  <2>3. Pending' = Tail(Pending)
    BY <1>2, <1>9, <1>13 DEF Pending
  <2>4. Delayed!Parts(c) = {}
    BY <1>5, <1>13 DEF Delayed!Parts, Items, Unmoved, WorkInv, LeavesInTree
  <2>5. Delayed!EndDoomed(c)
    BY <1>9, <1>12, <1>13, <2>2, <2>3, <2>4 DEF Delayed!EndDoomed
  <2>6. RemovedWait' /\ InLoop'
    <3>1. InLoop'
      BY <1>1, <1>2, <1>13 DEF InLoop
    <3>2. ASSUME NEW e \in Control, st'[e] = "delayed"
          PROVE  \E j \in i + 1 .. Len(cleanup) : cleanup[j] = e
      <4>1. e # c /\ st[e] = "delayed"
        BY <1>10, <3>2
      <4>2. PICK j \in i .. Len(cleanup) : cleanup[j] = e
        BY <1>6, <4>1 DEF WorkInv, RemovedWait
      <4>3. j # i
        BY <1>13, <4>1, <4>2
      <4>4. j \in i + 1 .. Len(cleanup)
        BY <1>1, <1>2, <4>2, <4>3
      <4>. QED  BY <4>2, <4>4
    <3>3. RemovedWait'
      BY <1>2, <1>13, <3>2 DEF RemovedWait
    <3>. QED  BY <3>1, <3>3
  <2>. QED  BY <1>1, <1>11, <2>5, <2>6 DEF WorkInv
<1>14. CASE cleanup[i] # c /\ c \in Leaf /\ st[c] = "live" /\ Position' = i
  <2>1. Unmoved' = Unmoved \ {c} /\ c \in Unmoved
    BY <1>1, <1>10, <1>14 DEF Unmoved
  <2>2. Pending' = Pending
    BY <1>2, <1>6, <1>14 DEF Pending
  <2>3. c \in Delayed!Parts(Head(Pending))
    BY <1>4, <1>9, <1>14, <2>1 DEF Delayed!Parts
  <2>4. Delayed!EndPart(c)
    BY <1>9, <1>12, <2>1, <2>2, <2>3 DEF Delayed!EndPart
  <2>5. InLoop'
    BY <1>1, <1>2, <1>14 DEF InLoop
  <2>6. RemovedWait'
    BY <1>2, <1>6, <1>10, <1>14 DEF WorkInv, RemovedWait
  <2>. QED  BY <1>1, <1>11, <2>4, <2>5, <2>6 DEF WorkInv
<1>15. \/ cleanup[i] = c /\ Position' = i + 1
       \/ cleanup[i] # c /\ c \in Leaf /\ st[c] = "live" /\ Position' = i
  BY <1>1, <1>7
<1>. QED  BY <1>13, <1>14, <1>15

(***************************************************************************)
(* The refinement.                                                         *)
(***************************************************************************)
LEMMA WorkStep ==
  ASSUME Inv, Inv', WorkInv, DeliveredInOrder, [Next]_vars
  PROVE  WorkInv' /\ [Delayed!Next]_Delayed!vars
<1>1. TypeOK
  BY DEF Inv
<1>2. CASE Quiet
  BY <1>1, <1>2, QuietLoops, StillWork DEF Quiet, async
<1>3. ASSUME NEW l \in Leaf, Remove(l)
      PROVE  WorkInv' /\ \E c \in Control : Delayed!Doom(c)
  <2>1. /\ l \in Control /\ st[l] = "live" /\ st' = [st EXCEPT ![l] = "delayed"]
        /\ cleanup' = Append(cleanup, l)
        /\ UNCHANGED <<stack, notify, delivered>>
    BY <1>3 DEF Remove, AddDelayedCleanup, Control
  <2>2. SameLoops
    BY <2>1, SameStackLoops
  <2>3. st'[l] = "delayed" /\ \A e \in Control \ {l} : st'[e] = st[e]
    BY <1>1, <2>1 DEF TypeOK
  <2>. QED  BY <2>1, <2>2, <2>3, DoomWork
<1>4. ASSUME NEW c \in Control, SendNotify(c)
      PROVE  WorkInv' /\ \E e \in Control : Delayed!Send(e)
  BY <1>4, SendWork
<1>5. ASSUME NEW d \in Dialog, AttachDialog(d)
      PROVE  WorkInv' /\ UNCHANGED Delayed!vars
  BY <1>1, <1>5, AttachLoops, StillWork DEF AttachDialog, async
<1>6. CASE ResumeAttach
  <2>. DEFINE d == Top.n
  <2>1. /\ Depth > 0 /\ Top.k = "attach" /\ stack' = Below
        /\ UNCHANGED <<notify, delivered>>
        /\ \/ root = None /\ st' = [st EXCEPT ![d] = "live"] /\ UNCHANGED cleanup
           \/ /\ root # None /\ st' = [st EXCEPT ![d] = "live", ![root] = "delayed"]
              /\ cleanup' = Append(cleanup, root)
    BY <1>6 DEF ResumeAttach, At
  <2>2. SameLoops
    BY <1>1, <2>1, PopLoops DEF Looping
  <2>3. d \in Dialog /\ st[d] = "new" /\ d \in Control
    <3>1. Depth \in 1 .. Depth /\ stack[Depth] = Top
      BY <1>1, <2>1, FrameFacts DEF Top
    <3>. QED  BY <2>1, <3>1 DEF Inv, Attaching, Control
  <2>. HIDE DEF d
  <2>4. CASE root = None
    <3>1. st'[d] = "live" /\ \A e \in Control \ {d} : st'[e] = st[e]
      BY <1>1, <2>1, <2>3, <2>4 DEF TypeOK
    <3>2. \A e \in Control : \/ st'[e] = st[e]
                             \/ e \in Dialog /\ st[e] = "new" /\ st'[e] = "live"
      BY <2>3, <3>1
    <3>. QED  BY <2>1, <2>2, <2>4, <3>2, StillWork
  <2>5. CASE root # None
    <3>1. root \in Control /\ st[root] = "live"
      BY <1>1, <2>5 DEF Inv, RootLive, TypeOK, Control
    <3>2. /\ st'[root] = "delayed" /\ root # d
          /\ \A e \in Control \ {root} : st'[e] = IF e = d THEN "live" ELSE st[e]
      BY <1>1, <2>1, <2>3, <2>5, <3>1 DEF TypeOK
    <3>3. \A e \in Control \ {root} : \/ st'[e] = st[e]
                                      \/ e \in Dialog /\ st[e] = "new" /\ st'[e] = "live"
      BY <2>3, <3>2
    <3>4. WorkInv' /\ Delayed!Doom(root)
      BY <2>1, <2>2, <2>5, <3>1, <3>2, <3>3, DoomWork
    <3>. QED  BY <3>1, <3>4 DEF Delayed!Next, Delayed!Control, Control
  <2>. QED  BY <2>4, <2>5
<1>7. CASE AsyncMessage
  BY <1>7, AsyncWork
<1>8. CASE BeginDelete
  BY <1>8, BeginWork
<1>9. CASE EndOfLoop
  BY <1>9, EndLoopWork
<1>10. CASE Deliver
  BY <1>10, DeliverWork DEF Delayed!Next
<1>11. CASE EndOfDrain
  <2>1. /\ Depth > 0 /\ Top.k \notin Looping /\ stack' = Below
        /\ UNCHANGED <<st, cleanup, notify, delivered>>
    BY <1>11 DEF EndOfDrain, At, async, Looping
  <2>2. SameLoops
    BY <1>1, <2>1, PopLoops
  <2>. QED  BY <2>1, <2>2, StillWork
<1>12. CASE ReturnDestroy /\ Intact /\ Depth > 0
  BY <1>12, DestroyWork DEF Delayed!Next, Delayed!Control, Control
<1>13. CASE UNCHANGED vars
  BY <1>13, SameStackLoops, StillWork DEF vars, async
<1>14. Delayed!Control = Control
  BY DEF Delayed!Control, Control
<1>. QED
  BY <1>1, <1>2, <1>3, <1>4, <1>5, <1>6, <1>7, <1>8, <1>9, <1>10, <1>11, <1>12, <1>13, <1>14,
     StepKinds DEF Delayed!Next

(* Every removed control is still an entry of m_aDelayedCleanup that the loop of WM_APP+1 *)
(* has to reach, however removals, nested loops and destructors interleave: none leaks.   *)
THEOREM RemovedAreEntries == Spec => []WorkInv
<1>1. Inv /\ Inv' /\ WorkInv /\ DeliveredInOrder /\ [Next]_vars => WorkInv'
  BY WorkStep
<1>. QED  BY <1>1, InitWork, PaintInvariant, NotificationsInOrder, PTL DEF Spec

LEMMA InitDelayed == Init => Delayed!Init
<1>. SUFFICES ASSUME Init PROVE Delayed!Init
  OBVIOUS
<1>1. /\ cleanup = <<>> /\ notify = <<>> /\ stack = <<>> /\ delivered = 0
      /\ Depth = 0 /\ Len(cleanup) = 0 /\ Len(notify) = 0
      /\ st = [c \in Control |-> IF c \in Dialog THEN "new" ELSE "live"]
  BY DEF Init, Depth
<1>2. Position = 1
  BY <1>1 DEF Position, Cleaning
<1>3. Pending = <<>>
  BY <1>1, <1>2, SubSeqEmpty DEF Pending
<1>4. Senders = <<>>
  BY <1>1 DEF Senders
<1>5. Unmoved = Delayed!Control
  BY <1>1 DEF Unmoved, Delayed!Control, Control
<1>. QED  BY <1>1, <1>3, <1>4, <1>5 DEF Delayed!Init

(* m_aDelayedCleanup and m_aAsyncNotify with their posted message, flag and loops, under  *)
(* any nesting of handlers and modal loops, behave as DelayedWork: controls end in the    *)
(* order of their removal and after their items, notifications arrive in order and once,  *)
(* without their sender exactly when it has ended.                                        *)
THEOREM DelayedWorkIsImplemented == Spec => ImplementsDelayedWork
<1>1. Inv /\ Inv' /\ WorkInv /\ DeliveredInOrder /\ [Next]_vars
        => [Delayed!Next]_Delayed!vars
  BY WorkStep
<1>. QED
  BY <1>1, InitDelayed, PaintInvariant, RemovedAreEntries, NotificationsInOrder,
     PTL DEF Spec, ImplementsDelayedWork, Delayed!Spec
=============================================================================
