------------------------- MODULE PaintManager_proofs -------------------------
(***************************************************************************)
(* Proofs about PaintManager, for any dialogs, leaves and bounds.          *)
(***************************************************************************)
EXTENDS PaintManager, SequenceTheorems, TLAPS

(***************************************************************************)
(* The stack as a sequence of frames.                                      *)
(***************************************************************************)
LEMMA PushFrame ==
  ASSUME NEW s \in Seq(Frame), NEW f \in Frame
  PROVE  /\ Append(s, f) \in Seq(Frame)
         /\ Len(s) \in Nat
         /\ Len(Append(s, f)) = Len(s) + 1
         /\ \A j \in 1 .. Len(s) : Append(s, f)[j] = s[j]
         /\ Append(s, f)[Len(s) + 1] = f
OBVIOUS

LEMMA PopFrame ==
  ASSUME NEW s \in Seq(Frame), Len(s) > 0
  PROVE  /\ SubSeq(s, 1, Len(s) - 1) \in Seq(Frame)
         /\ Len(s) \in Nat
         /\ Len(SubSeq(s, 1, Len(s) - 1)) = Len(s) - 1
         /\ \A j \in 1 .. Len(s) - 1 : SubSeq(s, 1, Len(s) - 1)[j] = s[j]
         /\ s[Len(s)] \in Frame
<1>1. Len(s) \in Nat /\ \A j \in 1 .. Len(s) : s[j] \in Frame
  BY ElementOfSeq
<1>2. 1 \in Int /\ Len(s) - 1 \in Int /\ \A j \in 1 .. Len(s) - 1 : s[j] \in Frame
  BY <1>1
<1>3. /\ SubSeq(s, 1, Len(s) - 1) \in Seq(Frame)
      /\ Len(SubSeq(s, 1, Len(s) - 1)) = IF 1 <= Len(s) - 1 THEN Len(s) - 1 - 1 + 1 ELSE 0
      /\ \A j \in 1 .. Len(s) - 1 - 1 + 1 : SubSeq(s, 1, Len(s) - 1)[j] = s[1 + j - 1]
  BY ONLY <1>2, SubSeqProperties
<1>4. Len(s) - 1 - 1 + 1 = Len(s) - 1 /\ Len(s) \in 1 .. Len(s)
  BY <1>1
<1>5. Len(SubSeq(s, 1, Len(s) - 1)) = Len(s) - 1
  <2>1. \A n \in Nat : n > 0 => (IF 1 <= n - 1 THEN n - 1 - 1 + 1 ELSE 0) = n - 1
    OBVIOUS
  <2>. QED  BY <1>1, <1>3, <2>1, Zenon
<1>6. ASSUME NEW j \in 1 .. Len(s) - 1
      PROVE  SubSeq(s, 1, Len(s) - 1)[j] = s[j]
  <2>1. SubSeq(s, 1, Len(s) - 1)[j] = s[1 + j - 1]
    BY <1>3, <1>4
  <2>2. 1 + j - 1 = j
    OBVIOUS
  <2>. QED  BY <2>1, <2>2
<1>. QED  BY <1>1, <1>3, <1>4, <1>5, <1>6

LEMMA OneFrame ==
  ASSUME NEW f \in Frame
  PROVE  /\ <<f>> \in Seq(Frame) /\ Len(<<f>>) = 1 /\ <<f>>[1] = f
OBVIOUS

LEMMA CallFrame ==
  ASSUME NEW k \in Aimed, NEW c \in Control, NEW n \in Ref
  PROVE  On(k, c, n) \in Frame
BY DEF On, Frame

LEMMA WaitFrame ==
  ASSUME NEW k \in (Callback \cup Between) \ Aimed, NEW c \in Ref, NEW n \in Ref
  PROVE  On(k, c, n) \in Frame
BY DEF On, Frame

(***************************************************************************)
(* Most handlers push and pop frames that have nothing to do with          *)
(* AttachDialog or WM_APP+1; Same(s, t) says that t differs from s by such *)
(* frames only.  Sound(s) is Intact of a stack that is being built.        *)
(***************************************************************************)
Special == {"attach", "loop", "destroy", "drain"}

SpecialAt(s, j) == j \in 1 .. Len(s) /\ s[j].k \in Special

Same(s, t) ==
  \A j \in Nat : /\ SpecialAt(t, j) <=> SpecialAt(s, j)
                 /\ SpecialAt(s, j) => t[j] = s[j]

Alive(r) == r # None => st[r] # "deleted"

Sound(s) == \A j \in 1 .. Len(s) : Alive(s[j].c) /\ Alive(s[j].n)

TargetsAlive == Alive(hover) /\ Alive(click) /\ Alive(focus) /\ Alive(key)

RootLive == root # None => st[root] = "live"

LEMMA SameReflexive == ASSUME NEW s PROVE Same(s, s)
BY DEF Same

LEMMA SameTransitive ==
  ASSUME NEW s, NEW t, NEW u, Same(s, t), Same(t, u)
  PROVE  Same(s, u)
BY DEF Same

LEMMA PushSame ==
  ASSUME NEW s \in Seq(Frame), NEW f \in Frame, f.k \notin Special
  PROVE  /\ Same(s, Append(s, f))
         /\ Sound(s) /\ Alive(f.c) /\ Alive(f.n) => Sound(Append(s, f))
<1>. DEFINE t == Append(s, f)
<1>1. /\ Len(s) \in Nat /\ Len(t) = Len(s) + 1
      /\ \A j \in 1 .. Len(s) : t[j] = s[j]
      /\ t[Len(s) + 1] = f
  BY PushFrame
<1>. HIDE DEF t
<1>2. Same(s, t)
  <2>. SUFFICES ASSUME NEW j \in Nat
                PROVE  /\ SpecialAt(t, j) <=> SpecialAt(s, j)
                       /\ SpecialAt(s, j) => t[j] = s[j]
    BY DEF Same
  <2>1. CASE j \in 1 .. Len(s)
    BY <1>1, <2>1 DEF SpecialAt
  <2>2. CASE j = Len(s) + 1
    BY <1>1, <2>2 DEF SpecialAt
  <2>3. CASE j \notin 1 .. Len(s) + 1
    BY <1>1, <2>3 DEF SpecialAt
  <2>. QED  BY <1>1, <2>1, <2>2, <2>3
<1>3. ASSUME Sound(s), Alive(f.c), Alive(f.n)
      PROVE  Sound(t)
  <2>. SUFFICES ASSUME NEW j \in 1 .. Len(s) + 1
                PROVE  Alive(t[j].c) /\ Alive(t[j].n)
    BY <1>1 DEF Sound
  <2>1. CASE j \in 1 .. Len(s)
    BY <1>1, <1>3, <2>1 DEF Sound
  <2>2. CASE j = Len(s) + 1
    BY <1>1, <1>3, <2>2
  <2>. QED  BY <1>1, <2>1, <2>2
<1>. QED  BY <1>2, <1>3 DEF t

LEMMA PopSame ==
  ASSUME NEW s \in Seq(Frame), Len(s) > 0
  PROVE  /\ s[Len(s)].k \notin Special => Same(s, SubSeq(s, 1, Len(s) - 1))
         /\ Sound(s) => Sound(SubSeq(s, 1, Len(s) - 1))
<1>. DEFINE t == SubSeq(s, 1, Len(s) - 1)
<1>1. /\ Len(s) \in Nat /\ Len(t) = Len(s) - 1
      /\ \A j \in 1 .. Len(s) - 1 : t[j] = s[j]
  BY PopFrame
<1>. HIDE DEF t
<1>2. ASSUME s[Len(s)].k \notin Special
      PROVE  Same(s, t)
  <2>. SUFFICES ASSUME NEW j \in Nat
                PROVE  /\ SpecialAt(t, j) <=> SpecialAt(s, j)
                       /\ SpecialAt(s, j) => t[j] = s[j]
    BY DEF Same
  <2>1. CASE j \in 1 .. Len(s) - 1
    BY <1>1, <2>1 DEF SpecialAt
  <2>2. CASE j = Len(s)
    BY <1>1, <1>2, <2>2 DEF SpecialAt
  <2>3. CASE j \notin 1 .. Len(s)
    BY <1>1, <2>3 DEF SpecialAt
  <2>. QED  BY <1>1, <2>1, <2>2, <2>3
<1>3. ASSUME Sound(s)
      PROVE  Sound(t)
  BY <1>1, <1>3 DEF Sound
<1>. QED  BY <1>2, <1>3 DEF t

LEMMA EmptyStack ==
  /\ <<>> \in Seq(Frame) /\ Len(<<>>) = 0 /\ Sound(<<>>)
BY DEF Sound

LEMMA OneSame ==
  ASSUME NEW f \in Frame, f.k \notin Special
  PROVE  /\ Same(<<>>, <<f>>)
         /\ Alive(f.c) /\ Alive(f.n) => Sound(<<f>>)
<1>1. <<f>> \in Seq(Frame) /\ Len(<<f>>) = 1 /\ <<f>>[1] = f
  BY OneFrame
<1>2. ~ \E j \in Nat : SpecialAt(<<f>>, j)
  BY <1>1 DEF SpecialAt
<1>3. ~ \E j \in Nat : SpecialAt(<<>>, j)
  BY EmptyStack DEF SpecialAt
<1>4. Same(<<>>, <<f>>)
  BY <1>2, <1>3 DEF Same
<1>5. ASSUME Alive(f.c), Alive(f.n)
      PROVE  Sound(<<f>>)
  BY <1>1, <1>5 DEF Sound
<1>. QED  BY <1>4, <1>5

(* SetFocus and the end of WM_MOUSEMOVE, called with any stack s. *)
LEMMA TakeFocusSteps ==
  ASSUME TypeOK, NEW s \in Seq(Frame), NEW n \in Ref, TakeFocus(n, s)
  PROVE  /\ stack' \in Seq(Frame) /\ focus' \in Ref /\ Same(s, stack')
         /\ Alive(n) => Alive(focus')
         /\ Sound(s) /\ Alive(n) => Sound(stack')
<1>1. CASE n # None /\ Managed(n) /\ focus' = n /\ stack' = Append(s, On("plain", n, None))
  <2>. DEFINE f == On("plain", n, None)
  <2>1. f \in Frame /\ f.k \notin Special /\ f.c = n /\ f.n = None
    BY <1>1, CallFrame DEF On, Ref, Aimed, Callback, Special
  <2>. HIDE DEF f
  <2>2. stack' = Append(s, f)
    BY <1>1 DEF f
  <2>. QED  BY <1>1, <2>1, <2>2, PushFrame, PushSame DEF Alive
<1>2. CASE focus' = None /\ stack' = s
  BY <1>2, SameReflexive DEF Ref, Alive
<1>. QED  BY <1>1, <1>2 DEF TakeFocus

LEMMA SetFocusSteps ==
  ASSUME TypeOK, NEW s \in Seq(Frame), NEW n \in Ref, SetFocus(n, s)
  PROVE  /\ stack' \in Seq(Frame) /\ focus' \in Ref /\ Same(s, stack')
         /\ Alive(focus) /\ Alive(n) => Alive(focus')
         /\ Sound(s) /\ Alive(focus) /\ Alive(n) => Sound(stack')
<1>1. CASE focus' = focus /\ stack' = s
  BY <1>1, SameReflexive DEF TypeOK
<1>2. CASE focus # None /\ focus' = focus /\ stack' = Append(s, On("kill", focus, n))
  <2>. DEFINE f == On("kill", focus, n)
  <2>1. f \in Frame /\ f.k \notin Special /\ f.c = focus /\ f.n = n
    BY <1>2, CallFrame DEF On, Ref, Aimed, Callback, Special, TypeOK
  <2>. HIDE DEF f
  <2>2. stack' = Append(s, f)
    BY <1>2 DEF f
  <2>. QED  BY <1>2, <2>1, <2>2, PushFrame, PushSame DEF TypeOK
<1>3. CASE TakeFocus(n, s)
  BY <1>3, TakeFocusSteps
<1>. QED  BY <1>1, <1>2, <1>3 DEF SetFocus

LEMMA RaiseMoveSteps ==
  ASSUME TypeOK, NEW s \in Seq(Frame), NEW hit \in Ref, RaiseMove(hit, s)
  PROVE  /\ stack' \in Seq(Frame) /\ Same(s, stack')
         /\ Sound(s) /\ Alive(click) /\ Alive(hit) => Sound(stack')
<1>1. ASSUME NEW c \in Control, c \in {click, hit}, stack' = Append(s, On("plain", c, None))
      PROVE  /\ stack' \in Seq(Frame) /\ Same(s, stack')
             /\ Sound(s) /\ Alive(click) /\ Alive(hit) => Sound(stack')
  <2>. DEFINE f == On("plain", c, None)
  <2>1. f \in Frame /\ f.k \notin Special /\ f.c = c /\ f.n = None
    BY CallFrame DEF On, Ref, Aimed, Callback, Special
  <2>. HIDE DEF f
  <2>2. stack' = Append(s, f) /\ Alive(f.n) /\ (Alive(click) /\ Alive(hit) => Alive(f.c))
    BY <1>1, <2>1 DEF f, Alive
  <2>. QED  BY <2>1, <2>2, PushFrame, PushSame
<1>2. CASE stack' = s
  BY <1>2, SameReflexive
<1>. QED  BY <1>1, <1>2 DEF RaiseMove, TypeOK, Ref

(***************************************************************************)
(* The steps that concern neither AttachDialog nor WM_APP+1.               *)
(***************************************************************************)
Quiet ==
  /\ UNCHANGED <<st, root, async>>
  /\ stack' \in Seq(Frame)
  /\ hover' \in Ref /\ click' \in Ref /\ focus' \in Ref /\ key' \in Ref
  /\ captured' \in BOOLEAN
  /\ Same(stack, stack')
  /\ TargetsAlive /\ RootLive => Sound(stack') /\ TargetsAlive'

LEMMA IntactIsSound == Intact <=> Sound(stack)
BY DEF Intact, Sound, Alive, Depth

LEMMA HitIsAlive ==
  ASSUME NEW hit \in InTree
  PROVE  /\ hit \in Control /\ hit # None
         /\ RootLive => Alive(hit)
BY NoneAssumption DEF InTree, RootLive, Alive

LEMMA OneFrameStep ==
  ASSUME Depth = 0, TypeOK,
         NEW k \in (Callback \cup Between) \ Special, NEW c \in Ref, NEW n \in Ref,
         k \in Aimed => c \in Control,
         stack' = <<On(k, c, n)>>
  PROVE  /\ stack' \in Seq(Frame) /\ Same(stack, stack')
         /\ Alive(c) /\ Alive(n) => Sound(stack')
<1>. DEFINE f == On(k, c, n)
<1>1. f \in Frame
  BY CallFrame, WaitFrame DEF Ref
<1>2. f.k \notin Special /\ f.c = c /\ f.n = n
  BY DEF On
<1>. HIDE DEF f
<1>3. stack = <<>>
  BY DEF TypeOK, Depth
<1>4. stack' = <<f>>
  BY DEF f
<1>. QED  BY <1>1, <1>2, <1>3, <1>4, OneFrame, OneSame

LEMMA QuietInput ==
  ASSUME TypeOK, InputMessage
  PROVE  Quiet
<1>. Input
  BY DEF InputMessage, LButtonDown, LButtonDblClk, RButtonDown, MouseHover, MouseMove,
         RButtonUp, PlainEvent, LButtonUp, ContextMenu, KeyDown, KeyUp, Close
<1>1. /\ Depth = 0 /\ stack = <<>> /\ Sound(<<>>) /\ <<>> \in Seq(Frame)
      /\ hover \in Ref /\ click \in Ref /\ focus \in Ref /\ key \in Ref
      /\ captured \in BOOLEAN /\ None \in Ref /\ Alive(None)
  BY EmptyStack DEF Input, Depth, TypeOK, Ref, Alive
<1>2. ASSUME NEW hit \in InTree, LButtonDown(hit)
      PROVE  Quiet
  <2>. DEFINE f == On("down", hit, None)
  <2>1. hit \in Control /\ hit \in Ref /\ (RootLive => Alive(hit))
    BY HitIsAlive DEF Ref
  <2>2. f \in Frame /\ f.k \notin Special /\ f.c = hit /\ f.n = None
    BY <2>1, <1>1, CallFrame DEF On, Aimed, Callback, Between, Special
  <2>. HIDE DEF f
  <2>3. /\ <<f>> \in Seq(Frame) /\ Same(stack, <<f>>)
        /\ Alive(hit) => Sound(<<f>>)
    BY <1>1, <2>2, OneFrame, OneSame
  <2>4. /\ SetFocus(hit, <<f>>) /\ captured' = TRUE /\ click' = hit
        /\ UNCHANGED <<st, root, hover, key, async>>
    BY <1>2 DEF LButtonDown, f
  <2>5. /\ stack' \in Seq(Frame) /\ focus' \in Ref /\ Same(<<f>>, stack')
        /\ Alive(focus) /\ Alive(hit) => Alive(focus')
        /\ Sound(<<f>>) /\ Alive(focus) /\ Alive(hit) => Sound(stack')
    BY <2>1, <2>3, <2>4, SetFocusSteps
  <2>. QED
    BY <1>1, <2>1, <2>3, <2>4, <2>5, SameTransitive DEF Quiet, TargetsAlive, Alive
<1>3. ASSUME NEW hit \in InTree, LButtonDblClk(hit)
      PROVE  Quiet
  <2>1. hit \in Control /\ hit \in Ref /\ (RootLive => Alive(hit))
    BY HitIsAlive DEF Ref
  <2>. QED
    BY <1>1, <1>3, <2>1, OneFrameStep DEF LButtonDblClk, Quiet, Callback, Special,
       targets, TargetsAlive, Alive
<1>4. ASSUME NEW hit \in InTree, RButtonDown(hit)
      PROVE  Quiet
  <2>. DEFINE f == On("rdown", hit, None)
  <2>1. hit \in Control /\ hit \in Ref /\ (RootLive => Alive(hit))
    BY HitIsAlive DEF Ref
  <2>2. f \in Frame /\ f.k \notin Special /\ f.c = hit /\ f.n = None
    BY <2>1, <1>1, CallFrame DEF On, Aimed, Callback, Between, Special
  <2>. HIDE DEF f
  <2>3. /\ <<f>> \in Seq(Frame) /\ Same(stack, <<f>>)
        /\ Alive(hit) => Sound(<<f>>)
    BY <1>1, <2>2, OneFrame, OneSame
  <2>4. /\ SetFocus(hit, <<f>>)
        /\ UNCHANGED <<st, root, hover, click, key, captured, async>>
    BY <1>4 DEF RButtonDown, f
  <2>5. /\ stack' \in Seq(Frame) /\ focus' \in Ref /\ Same(<<f>>, stack')
        /\ Alive(focus) /\ Alive(hit) => Alive(focus')
        /\ Sound(<<f>>) /\ Alive(focus) /\ Alive(hit) => Sound(stack')
    BY <2>1, <2>3, <2>4, SetFocusSteps
  <2>. QED
    BY <1>1, <2>1, <2>3, <2>4, <2>5, SameTransitive DEF Quiet, TargetsAlive, Alive
<1>5. ASSUME NEW hit \in InTree, MouseHover(hit)
      PROVE  Quiet
  <2>1. hit \in Control /\ hit \in Ref /\ (RootLive => Alive(hit))
    BY HitIsAlive DEF Ref
  <2>2. CASE hover # None
    BY <1>1, <1>5, <2>1, <2>2, OneFrameStep DEF MouseHover, Quiet, Callback, Special,
       targets, TargetsAlive, Alive, Ref
  <2>3. CASE hover = None
    BY <1>1, <1>5, <2>3, SameReflexive DEF MouseHover, Quiet, targets, TargetsAlive, Alive
  <2>. QED  BY <2>2, <2>3
<1>6. ASSUME NEW hit \in InTree \cup {None}, MouseMove(hit)
      PROVE  Quiet
  <2>1. hit \in Ref /\ (RootLive => Alive(hit))
    BY HitIsAlive DEF Ref, Alive
  <2>2. UNCHANGED <<st, root, targets, captured, async>>
    BY <1>6 DEF MouseMove
  <2>3. CASE captured \/ hit = hover
    BY <1>1, <1>6, <2>1, <2>2, <2>3, RaiseMoveSteps DEF MouseMove, Quiet, targets,
       TargetsAlive, Alive
  <2>4. CASE ~(captured \/ hit = hover) /\ hover # None
    BY <1>1, <1>6, <2>1, <2>2, <2>4, OneFrameStep DEF MouseMove, Quiet, Callback, Special,
       targets, TargetsAlive, Alive, Ref
  <2>5. CASE ~(captured \/ hit = hover) /\ hover = None
    BY <1>1, <1>6, <2>1, <2>2, <2>5, OneFrameStep DEF MouseMove, Quiet, Callback, Special,
       targets, TargetsAlive, Alive, Ref
  <2>. QED  BY <2>3, <2>4, <2>5
<1>7. ASSUME NEW hit \in InTree \cup {None}, RButtonUp(hit)
      PROVE  Quiet
  <2>1. hit \in Ref /\ (RootLive => Alive(hit))
    BY HitIsAlive DEF Ref, Alive
  <2>2. CASE hit = None
    BY <1>1, <1>7, <2>2, SameReflexive DEF RButtonUp, Quiet, TargetsAlive, Alive
  <2>3. CASE hit # None
    BY <1>1, <1>7, <2>1, <2>3, OneFrameStep DEF RButtonUp, Quiet, Callback, Special,
       TargetsAlive, Alive, Ref
  <2>. QED  BY <2>2, <2>3
<1>8. ASSUME NEW c \in Control, PlainEvent(c)
      PROVE  Quiet
  <2>1. c \in Ref /\ (RootLive /\ TargetsAlive => Alive(c))
    BY <1>8, HitIsAlive DEF Ref, PlainEvent, TargetsAlive
  <2>. QED
    BY <1>1, <1>8, <2>1, OneFrameStep DEF PlainEvent, Quiet, Callback, Special,
       targets, TargetsAlive, Alive
<1>9. CASE LButtonUp
  BY <1>1, <1>9, OneFrameStep DEF LButtonUp, Quiet, Callback, Special, TargetsAlive, Alive, Ref
<1>10. CASE ContextMenu
  BY <1>1, <1>10, OneFrameStep DEF ContextMenu, Quiet, Callback, Special, targets,
     TargetsAlive, Alive, Ref
<1>11. CASE KeyDown
  BY <1>1, <1>11, OneFrameStep DEF KeyDown, Quiet, Callback, Special, targets,
     TargetsAlive, Alive, Ref
<1>12. CASE KeyUp
  BY <1>1, <1>12, OneFrameStep DEF KeyUp, Quiet, Callback, Special, targets,
     TargetsAlive, Alive, Ref
<1>13. CASE Close
  <2>. DEFINE f == On("close click", None, None)
              g == On("plain", hover, None)
  <2>1. f \in Frame /\ f.k \notin Special /\ f.c = None /\ f.n = None
    BY <1>1, WaitFrame DEF On, Aimed, Callback, Between, Special
  <2>2. hover # None => g \in Frame /\ g.k \notin Special /\ g.c = hover /\ g.n = None
    BY <1>1, CallFrame DEF On, Aimed, Callback, Special, Ref
  <2>. HIDE DEF f, g
  <2>3. /\ <<f>> \in Seq(Frame) /\ Same(stack, <<f>>) /\ Sound(<<f>>)
    BY <1>1, <2>1, OneFrame, OneSame
  <2>4. /\ stack' = IF hover # None THEN Append(<<f>>, g) ELSE <<f>>
        /\ UNCHANGED <<st, root, targets, captured, async>>
    BY <1>13 DEF Close, f, g
  <2>5. CASE hover # None
    <3>1. /\ stack' \in Seq(Frame) /\ Same(<<f>>, stack')
          /\ Alive(hover) => Sound(stack')
      BY <1>1, <2>2, <2>3, <2>4, <2>5, PushFrame, PushSame
    <3>. QED
      BY <1>1, <2>3, <2>4, <3>1, SameTransitive DEF Quiet, targets, TargetsAlive, Alive
  <2>6. CASE hover = None
    BY <1>1, <2>3, <2>4, <2>6 DEF Quiet, targets, TargetsAlive, Alive
  <2>. QED  BY <2>5, <2>6
<1>. QED
  BY <1>2, <1>3, <1>4, <1>5, <1>6, <1>7, <1>8, <1>9, <1>10, <1>11, <1>12, <1>13
     DEF InputMessage

LEMMA BelowSteps ==
  ASSUME TypeOK, Depth > 0
  PROVE  /\ Below \in Seq(Frame) /\ Top \in Frame
         /\ Top.c \in Ref /\ Top.n \in Ref
         /\ Top.k \in Aimed => Top.c \in Control
         /\ Top.k \notin Special => Same(stack, Below)
         /\ Intact => Sound(stack) /\ Sound(Below) /\ Alive(Top.c) /\ Alive(Top.n)
<1>1. stack \in Seq(Frame) /\ Len(stack) > 0
  BY DEF TypeOK, Depth
<1>2. /\ Below \in Seq(Frame) /\ Top \in Frame /\ Len(stack) \in Nat
  BY <1>1, PopFrame DEF Below, Top, Depth
<1>3. /\ Top.c \in Ref /\ Top.n \in Ref
      /\ Top.k \in Aimed => Top.c \in Control
  BY <1>2 DEF Frame, Ref
<1>4. Top.k \notin Special => Same(stack, Below)
  BY <1>1, PopSame DEF Below, Top, Depth
<1>5. ASSUME Intact
      PROVE  Sound(stack) /\ Sound(Below) /\ Alive(Top.c) /\ Alive(Top.n)
  <2>1. Sound(stack)
    BY <1>5, IntactIsSound
  <2>2. Sound(Below)
    BY <1>1, <2>1, PopSame DEF Below, Depth
  <2>. QED  BY <1>1, <1>2, <2>1, <2>2 DEF Sound, Top, Depth
<1>. QED  BY <1>2, <1>3, <1>4, <1>5

LEMMA ReplaceTop ==
  ASSUME TypeOK, Intact, Depth > 0, Top.k \notin Special,
         NEW k \in (Callback \cup Between) \ Special, NEW c \in Ref, NEW n \in Ref,
         k \in Aimed => c \in Control
  PROVE  LET t == Append(Below, On(k, c, n)) IN
         /\ t \in Seq(Frame) /\ Same(stack, t)
         /\ Alive(c) /\ Alive(n) => Sound(t)
<1>. DEFINE f == On(k, c, n)
<1>1. f \in Frame
  BY CallFrame, WaitFrame DEF Ref
<1>2. f.k \notin Special /\ f.c = c /\ f.n = n
  BY DEF On
<1>. HIDE DEF f
<1>3. Below \in Seq(Frame) /\ Same(stack, Below) /\ Sound(Below)
  BY BelowSteps
<1>4. /\ Append(Below, f) \in Seq(Frame) /\ Same(Below, Append(Below, f))
      /\ Alive(c) /\ Alive(n) => Sound(Append(Below, f))
  BY <1>1, <1>2, <1>3, PushFrame, PushSame
<1>5. Same(stack, Append(Below, f))
  BY <1>3, <1>4, SameTransitive
<1>. QED  BY <1>4, <1>5 DEF f

LEMMA QuietCode ==
  ASSUME TypeOK,
         \/ \E n \in Ref : CallSetFocus(n)
         \/ KillFocus \/ ResumeDown \/ ResumeRDown \/ ResumeCloseClick \/ ResumeCloseFocus
  PROVE  Quiet
<1>1. /\ hover \in Ref /\ click \in Ref /\ focus \in Ref /\ key \in Ref
      /\ captured \in BOOLEAN /\ stack \in Seq(Frame) /\ None \in Ref /\ Alive(None)
      /\ Depth \in Nat
  BY LenProperties DEF TypeOK, Ref, Alive, Depth
<1>2. ASSUME NEW n \in Ref, CallSetFocus(n)
      PROVE  Quiet
  <2>1. /\ Sound(stack) /\ Alive(n) /\ SetFocus(n, stack)
        /\ UNCHANGED <<st, root, hover, click, key, captured, async>>
    BY <1>2, IntactIsSound DEF CallSetFocus, AppCode, Managed, Alive
  <2>2. /\ stack' \in Seq(Frame) /\ focus' \in Ref /\ Same(stack, stack')
        /\ Alive(focus) => Alive(focus') /\ Sound(stack')
    BY <1>1, <2>1, SetFocusSteps
  <2>. QED  BY <1>1, <2>1, <2>2 DEF Quiet, TargetsAlive, Alive
<1>3. CASE KillFocus
  BY <1>1, <1>3, IntactIsSound, SameReflexive
     DEF KillFocus, Pumping, Quiet, TargetsAlive, Alive, targets
<1>4. CASE ResumeDown
  <2>1. /\ Intact /\ Depth > 0 /\ Top.k = "down"
        /\ stack' = Append(Below, On("plain", Top.c, None))
        /\ UNCHANGED <<st, root, targets, captured, async>>
    BY <1>4 DEF ResumeDown, At
  <2>2. Top.c \in Control /\ Top.c \in Ref /\ Alive(Top.c) /\ Top.k \notin Special
    BY <2>1, BelowSteps DEF Aimed, Special
  <2>3. "plain" \in (Callback \cup Between) \ Special
    BY DEF Callback, Special
  <2>4. stack' \in Seq(Frame) /\ Same(stack, stack') /\ Sound(stack')
    BY <1>1, <2>1, <2>2, <2>3, ReplaceTop
  <2>. QED  BY <1>1, <2>1, <2>4 DEF Quiet, targets, TargetsAlive, Alive
<1>5. CASE ResumeRDown
  <2>1. /\ Intact /\ Depth > 0 /\ Top.k = "rdown" /\ captured' = TRUE
        /\ stack' = Append(Below, On("stick", Top.c, None))
        /\ UNCHANGED <<st, root, targets, async>>
    BY <1>5 DEF ResumeRDown, At
  <2>2. Top.c \in Control /\ Top.c \in Ref /\ Alive(Top.c) /\ Top.k \notin Special
    BY <2>1, BelowSteps DEF Aimed, Special
  <2>3. "stick" \in (Callback \cup Between) \ Special
    BY DEF Callback, Special
  <2>4. stack' \in Seq(Frame) /\ Same(stack, stack') /\ Sound(stack')
    BY <1>1, <2>1, <2>2, <2>3, ReplaceTop
  <2>. QED  BY <1>1, <2>1, <2>4 DEF Quiet, targets, TargetsAlive, Alive
<1>6. CASE ResumeCloseClick
  <2>. DEFINE base == Append(Below, On("close focus", None, None))
              g == On("plain", click, None)
  <2>1. /\ Intact /\ Depth > 0 /\ Top.k = "close click"
        /\ stack' = IF click # None THEN Append(base, g) ELSE base
        /\ UNCHANGED <<st, root, targets, captured, async>>
    BY <1>6 DEF ResumeCloseClick, At
  <2>2. /\ "close focus" \in (Callback \cup Between) \ Special
        /\ "close focus" \notin Aimed /\ Top.k \notin Special
    BY <2>1 DEF Callback, Between, Special, Aimed
  <2>3. base \in Seq(Frame) /\ Same(stack, base) /\ Sound(base)
    BY <1>1, <2>1, <2>2, ReplaceTop
  <2>4. click # None => g \in Frame /\ g.k \notin Special /\ g.c = click /\ g.n = None
    BY <1>1, CallFrame DEF On, Aimed, Callback, Special, Ref
  <2>. HIDE DEF base, g
  <2>5. CASE click # None
    <3>1. /\ stack' \in Seq(Frame) /\ Same(base, stack')
          /\ Alive(click) => Sound(stack')
      BY <1>1, <2>1, <2>3, <2>4, <2>5, PushFrame, PushSame
    <3>. QED
      BY <1>1, <2>1, <2>3, <3>1, SameTransitive DEF Quiet, targets, TargetsAlive, Alive
  <2>6. CASE click = None
    BY <1>1, <2>1, <2>3, <2>6 DEF Quiet, targets, TargetsAlive, Alive
  <2>. QED  BY <2>5, <2>6
<1>7. CASE ResumeCloseFocus
  <2>1. /\ Intact /\ Depth > 0 /\ Top.k = "close focus" /\ SetFocus(None, Below)
        /\ UNCHANGED <<st, root, hover, click, key, captured, async>>
    BY <1>7 DEF ResumeCloseFocus, At
  <2>2. Below \in Seq(Frame) /\ Same(stack, Below) /\ Sound(Below)
    BY <2>1, BelowSteps DEF Special
  <2>3. /\ stack' \in Seq(Frame) /\ focus' \in Ref /\ Same(Below, stack')
        /\ Alive(focus) => Alive(focus') /\ Sound(stack')
    BY <1>1, <2>1, <2>2, SetFocusSteps
  <2>. QED
    BY <1>1, <2>1, <2>2, <2>3, SameTransitive DEF Quiet, TargetsAlive, Alive
<1>. QED  BY <1>2, <1>3, <1>4, <1>5, <1>6, <1>7

LEMMA QuietReturn ==
  ASSUME TypeOK, Return, Top.k # "destroy"
  PROVE  Quiet
<1>1. /\ hover \in Ref /\ click \in Ref /\ focus \in Ref /\ key \in Ref
      /\ captured \in BOOLEAN /\ None \in Ref /\ Alive(None)
  BY DEF TypeOK, Ref, Alive
<1>2. Intact /\ Depth > 0 /\ Top.k \in Callback /\ Top.k \notin Special
  BY DEF Return, InCallback, Callback, Special
<1>3. /\ Below \in Seq(Frame) /\ Top.c \in Ref /\ Top.n \in Ref
      /\ Same(stack, Below) /\ Sound(Below) /\ Alive(Top.c) /\ Alive(Top.n)
  BY <1>2, BelowSteps
<1>4. CASE ReturnPlain
  BY <1>1, <1>3, <1>4 DEF ReturnPlain, Quiet, targets, TargetsAlive, Alive
<1>5. CASE ReturnLeave
  <2>1. hover' = None /\ UNCHANGED <<st, root, click, focus, key, captured, async>>
    BY <1>5 DEF ReturnLeave
  <2>2. CASE Top.n # None
    <3>1. stack' = Append(Below, On("enter", Top.n, Top.n)) /\ Top.n \in Control
      BY <1>3, <1>5, <2>2 DEF ReturnLeave, Ref
    <3>2. "enter" \in (Callback \cup Between) \ Special
      BY DEF Callback, Special
    <3>3. stack' \in Seq(Frame) /\ Same(stack, stack') /\ Sound(stack')
      BY <1>2, <1>3, <3>1, <3>2, ReplaceTop
    <3>. QED  BY <1>1, <2>1, <3>3 DEF Quiet, TargetsAlive, Alive
  <2>3. CASE Top.n = None
    <3>1. RaiseMove(None, Below)
      BY <1>5, <2>3 DEF ReturnLeave
    <3>2. /\ stack' \in Seq(Frame) /\ Same(Below, stack')
          /\ Alive(click) => Sound(stack')
      BY <1>1, <1>3, <3>1, RaiseMoveSteps
    <3>. QED
      BY <1>1, <1>3, <2>1, <3>2, SameTransitive DEF Quiet, TargetsAlive, Alive
  <2>. QED  BY <2>2, <2>3
<1>6. CASE ReturnEnter
  <2>1. /\ hover' = Top.n /\ RaiseMove(Top.n, Below)
        /\ UNCHANGED <<st, root, click, focus, key, captured, async>>
    BY <1>6 DEF ReturnEnter
  <2>2. /\ stack' \in Seq(Frame) /\ Same(Below, stack')
        /\ Alive(click) => Sound(stack')
    BY <1>1, <1>3, <2>1, RaiseMoveSteps
  <2>. QED
    BY <1>1, <1>3, <2>1, <2>2, SameTransitive DEF Quiet, TargetsAlive, Alive
<1>7. CASE ReturnClick
  BY <1>1, <1>3, <1>7 DEF ReturnClick, Quiet, TargetsAlive, Alive
<1>8. CASE ReturnKey
  BY <1>1, <1>3, <1>8 DEF ReturnKey, Quiet, TargetsAlive, Alive
<1>9. CASE ReturnKill
  <2>1. TakeFocus(Top.n, Below) /\ UNCHANGED <<st, root, hover, click, key, captured, async>>
    BY <1>9 DEF ReturnKill
  <2>2. /\ stack' \in Seq(Frame) /\ focus' \in Ref /\ Same(Below, stack')
        /\ Alive(focus') /\ Sound(stack')
    BY <1>3, <2>1, TakeFocusSteps
  <2>. QED
    BY <1>1, <1>3, <2>1, <2>2, SameTransitive DEF Quiet, TargetsAlive, Alive
<1>. QED
  BY <1>4, <1>5, <1>6, <1>7, <1>8, <1>9 DEF Return, ReturnDestroy

(***************************************************************************)
(* The inductive invariant: what the frames of AttachDialog and WM_APP+1   *)
(* say about the life of the controls.                                     *)
(***************************************************************************)
SendersAlive == \A j \in 1 .. Len(notify) : Alive(notify[j].sender)

(* Who is in m_aDelayedCleanup left the tree, and is in it once. *)
EntriesLeft ==
  /\ \A j \in 1 .. Len(cleanup) : st[cleanup[j]] \in {"delayed", "deleted"}
  /\ \A j, k \in 1 .. Len(cleanup) : cleanup[j] = cleanup[k] => j = k

(* Only the entries that the loop has passed are deleted. *)
LoopPassed(j) == \E l \in 1 .. Depth : stack[l].k = "loop" /\ j < stack[l].i

EntriesPending ==
  \A j \in 1 .. Len(cleanup) : st[cleanup[j]] = "delayed" \/ LoopPassed(j)

(* AttachDialog in progress: its dialog is still new, and no other call has it. *)
Attaching ==
  /\ \A j \in 1 .. Depth :
       stack[j].k = "attach" => stack[j].n \in Dialog /\ st[stack[j].n] = "new"
  /\ \A j, k \in 1 .. Depth :
       stack[j].k = "attach" /\ stack[k].k = "attach" /\ stack[j].n = stack[k].n => j = k

OneLoop ==
  /\ \A j, k \in 1 .. Depth : stack[j].k = "loop" /\ stack[k].k = "loop" => j = k
  /\ \A j \in 1 .. Depth : stack[j].k = "loop" => stack[j].i >= 1

(* A dying control is the entry the loop is at, or one of its items. *)
Dying ==
  \A j \in 1 .. Depth : stack[j].k = "destroy" =>
    /\ j >= 2 /\ stack[j - 1].k = "loop" /\ stack[j - 1].i <= Len(cleanup)
    /\ \/ stack[j].c = cleanup[stack[j - 1].i]
       \/ /\ stack[j].c \in Leaf /\ Home[stack[j].c] = cleanup[stack[j - 1].i]
          /\ st[stack[j].c] = "live"

(* The flag keeps WM_APP+1 out while a cleanup is in progress. *)
Flag ==
  /\ queued \/ Cleaning => posted
  /\ ~ (queued /\ Cleaning)

Inv ==
  /\ TypeOK /\ RootLive /\ TargetsAlive /\ SendersAlive
  /\ EntriesLeft /\ EntriesPending
  /\ Attaching /\ OneLoop /\ Dying /\ Flag

LEMMA SameSpecial ==
  ASSUME stack \in Seq(Frame), NEW t \in Seq(Frame), Same(stack, t)
  PROVE  /\ \A j \in 1 .. Len(t) : t[j].k \in Special => j \in 1 .. Depth /\ t[j] = stack[j]
         /\ \A j \in 1 .. Depth : stack[j].k \in Special => j \in 1 .. Len(t) /\ t[j] = stack[j]
BY LenProperties DEF Same, SpecialAt, Depth

LEMMA QuietInv ==
  ASSUME Inv, Quiet
  PROVE  Inv'
<1>1. /\ stack \in Seq(Frame) /\ stack' \in Seq(Frame) /\ Same(stack, stack')
      /\ UNCHANGED <<st, root, cleanup, notify, posted, queued, sent, delivered>>
  BY DEF Inv, TypeOK, Quiet, async
<1>2. /\ \A j \in 1 .. Depth' :
           stack'[j].k \in Special => j \in 1 .. Depth /\ stack'[j] = stack[j]
      /\ \A j \in 1 .. Depth :
           stack[j].k \in Special => j \in 1 .. Depth' /\ stack'[j] = stack[j]
  BY <1>1, SameSpecial DEF Depth
<1>3. "attach" \in Special /\ "loop" \in Special /\ "destroy" \in Special
  BY DEF Special
<1>4. Depth \in Nat /\ Depth' \in Nat
  BY <1>1, LenProperties DEF Depth
<1>5. TypeOK'
  BY <1>1 DEF Inv, TypeOK, Quiet
<1>6. RootLive' /\ TargetsAlive' /\ SendersAlive' /\ EntriesLeft'
  BY <1>1 DEF Inv, RootLive, SendersAlive, EntriesLeft, Alive, Quiet
<1>7. EntriesPending'
  BY <1>1, <1>2, <1>3 DEF Inv, EntriesPending, LoopPassed
<1>8. Attaching'
  BY <1>1, <1>2, <1>3 DEF Inv, Attaching
<1>9. OneLoop'
  BY <1>1, <1>2, <1>3 DEF Inv, OneLoop
<1>10. Dying'
  <2>. SUFFICES ASSUME NEW j \in 1 .. Depth', stack'[j].k = "destroy"
                PROVE  /\ j >= 2 /\ stack'[j - 1].k = "loop" /\ stack'[j - 1].i <= Len(cleanup)
                       /\ \/ stack'[j].c = cleanup[stack'[j - 1].i]
                          \/ /\ stack'[j].c \in Leaf
                             /\ Home[stack'[j].c] = cleanup[stack'[j - 1].i]
                             /\ st[stack'[j].c] = "live"
    BY <1>1 DEF Dying
  <2>1. j \in 1 .. Depth /\ stack'[j] = stack[j]
    BY <1>2, <1>3
  <2>2. j >= 2 /\ stack[j - 1].k = "loop"
    BY <2>1 DEF Inv, Dying
  <2>3. stack'[j - 1] = stack[j - 1]
    BY <1>2, <1>3, <1>4, <2>1, <2>2
  <2>. QED  BY <2>1, <2>2, <2>3 DEF Inv, Dying
<1>11. Flag'
  BY <1>1, <1>2, <1>3 DEF Inv, Flag, Cleaning
<1>. QED  BY <1>5, <1>6, <1>7, <1>8, <1>9, <1>10, <1>11 DEF Inv

(* PostAsyncNotify keeps Flag when the stack does not change. *)
LEMMA PostFlag ==
  ASSUME TypeOK, Flag, PostAsyncNotify, UNCHANGED stack
  PROVE  Flag' /\ posted' \in BOOLEAN /\ queued' \in BOOLEAN
BY DEF TypeOK, Flag, PostAsyncNotify, Cleaning, Depth

LEMMA AppendEntry ==
  ASSUME cleanup \in Seq(Control), NEW c \in Control
  PROVE  /\ Append(cleanup, c) \in Seq(Control)
         /\ Len(cleanup) \in Nat /\ Len(Append(cleanup, c)) = Len(cleanup) + 1
         /\ \A j \in 1 .. Len(cleanup) : Append(cleanup, c)[j] = cleanup[j] /\ cleanup[j] \in Control
         /\ Append(cleanup, c)[Len(cleanup) + 1] = c
OBVIOUS

LEMMA RemoveInv ==
  ASSUME Inv, NEW l \in Leaf, Remove(l)
  PROVE  Inv'
<1>1. /\ Intact /\ st[l] = "live" /\ l \in Control /\ l \notin Dialog
      /\ \A j \in 1 .. Depth : stack[j].k = "loop" => cleanup[stack[j].i] # Home[l]
      /\ st' = [st EXCEPT ![l] = "delayed"] /\ cleanup' = Append(cleanup, l)
      /\ PostAsyncNotify
      /\ UNCHANGED <<root, targets, captured, notify, stack, sent, delivered>>
  BY HomeAssumption DEF Remove, AddDelayedCleanup, AppCode, Control
<1>2. /\ TypeOK /\ st \in [Control -> State] /\ cleanup \in Seq(Control) /\ Depth \in Nat
      /\ UNCHANGED Depth
  BY <1>1, LenProperties DEF Inv, TypeOK, Depth
<1>3. /\ Len(cleanup) \in Nat /\ Len(cleanup') = Len(cleanup) + 1 /\ cleanup' \in Seq(Control)
      /\ \A j \in 1 .. Len(cleanup) : cleanup'[j] = cleanup[j] /\ cleanup[j] \in Control
      /\ cleanup'[Len(cleanup) + 1] = l
  BY <1>1, <1>2, AppendEntry
<1>4. /\ st'[l] = "delayed"
      /\ \A c \in Control \ {l} : st'[c] = st[c]
      /\ st' \in [Control -> State]
  BY <1>1, <1>2 DEF State
<1>5. \A j \in 1 .. Len(cleanup) : cleanup[j] # l
  BY <1>1 DEF Inv, EntriesLeft
<1>6. Flag' /\ posted' \in BOOLEAN /\ queued' \in BOOLEAN
  BY <1>1, <1>2, PostFlag DEF Inv
<1>7. TypeOK'
  BY <1>1, <1>2, <1>3, <1>4, <1>6 DEF TypeOK, targets
<1>8. RootLive'
  BY <1>1, <1>4 DEF Inv, TypeOK, RootLive, Control
<1>9. TargetsAlive' /\ SendersAlive'
  <2>1. \A r \in Ref : Alive(r) => Alive(r)'
    BY <1>1, <1>4 DEF Alive, Ref
  <2>2. \A j \in 1 .. Len(notify) : notify[j].sender \in Ref
    <3>1. notify \in Seq(Message)
      BY <1>2 DEF TypeOK
    <3>2. \A j \in 1 .. Len(notify) : notify[j] \in Message
      BY <3>1, ElementOfSeq
    <3>. QED  BY <3>2 DEF Message
  <2>. QED
    BY <1>1, <1>2, <2>1, <2>2 DEF Inv, TypeOK, targets, TargetsAlive, SendersAlive
<1>10. EntriesLeft'
  BY <1>3, <1>4, <1>5 DEF Inv, EntriesLeft
<1>11. EntriesPending'
  <2>. SUFFICES ASSUME NEW j \in 1 .. Len(cleanup) + 1
                PROVE  st'[cleanup'[j]] = "delayed" \/ LoopPassed(j)
    BY <1>1, <1>3 DEF EntriesPending, LoopPassed, Depth
  <2>1. CASE j \in 1 .. Len(cleanup)
    BY <1>3, <1>4, <1>5, <2>1 DEF Inv, EntriesPending
  <2>2. CASE j = Len(cleanup) + 1
    BY <1>3, <1>4, <2>2
  <2>. QED  BY <1>3, <2>1, <2>2
<1>12. Attaching'
  BY <1>1, <1>2, <1>4 DEF Inv, Attaching, Control
<1>13. OneLoop'
  BY <1>1, <1>2 DEF Inv, OneLoop
<1>14. Dying'
  <2>. SUFFICES ASSUME NEW j \in 1 .. Depth, stack[j].k = "destroy"
                PROVE  /\ j >= 2 /\ stack[j - 1].k = "loop"
                       /\ stack[j - 1].i <= Len(cleanup')
                       /\ \/ stack[j].c = cleanup'[stack[j - 1].i]
                          \/ /\ stack[j].c \in Leaf
                             /\ Home[stack[j].c] = cleanup'[stack[j - 1].i]
                             /\ st'[stack[j].c] = "live"
    BY <1>1, <1>2 DEF Dying
  <2>. DEFINE i == stack[j - 1].i
  <2>1. /\ j >= 2 /\ j - 1 \in 1 .. Depth /\ stack[j - 1].k = "loop" /\ i <= Len(cleanup)
        /\ \/ stack[j].c = cleanup[i]
           \/ /\ stack[j].c \in Leaf /\ Home[stack[j].c] = cleanup[i]
              /\ st[stack[j].c] = "live"
    BY <1>2 DEF Inv, Dying
  <2>2. i \in 1 .. Len(cleanup)
    <3>1. stack[j - 1] \in Frame
      BY <1>2, <2>1, ElementOfSeq DEF TypeOK, Depth
    <3>2. i \in Nat
      BY <3>1 DEF Frame
    <3>. QED  BY <1>3, <2>1, <3>2 DEF Inv, OneLoop
  <2>3. cleanup'[i] = cleanup[i] /\ cleanup[i] # Home[l]
    BY <1>1, <1>3, <2>1, <2>2
  <2>4. stack[j].c \in Leaf /\ Home[stack[j].c] = cleanup[i] => stack[j].c # l
    BY <2>3
  <2>. QED  BY <1>3, <1>4, <2>1, <2>2, <2>3, <2>4 DEF Control
<1>. QED  BY <1>6, <1>7, <1>8, <1>9, <1>10, <1>11, <1>12, <1>13, <1>14 DEF Inv

LEMMA SendNotifyInv ==
  ASSUME Inv, NEW c \in Control, SendNotify(c)
  PROVE  Inv'
<1>1. /\ Alive(c)
      /\ notify' = Append(notify, [id |-> sent + 1, sender |-> c]) /\ sent' = sent + 1
      /\ PostAsyncNotify
      /\ UNCHANGED <<st, root, targets, captured, cleanup, stack, delivered>>
  BY DEF SendNotify, Managed, Alive
<1>2. /\ TypeOK /\ notify \in Seq(Message)
      /\ [id |-> sent + 1, sender |-> c] \in Message
  BY DEF Inv, TypeOK, Message, Ref
<1>3. /\ notify' \in Seq(Message) /\ Len(notify) \in Nat /\ Len(notify') = Len(notify) + 1
      /\ \A j \in 1 .. Len(notify) : notify'[j] = notify[j]
      /\ notify'[Len(notify) + 1].sender = c
  BY <1>1, <1>2
<1>4. Flag' /\ posted' \in BOOLEAN /\ queued' \in BOOLEAN
  BY <1>1, <1>2, PostFlag DEF Inv
<1>5. TypeOK'
  BY <1>1, <1>2, <1>3, <1>4 DEF TypeOK, targets
<1>6. SendersAlive'
  BY <1>1, <1>3 DEF Inv, SendersAlive, Alive
<1>7. RootLive' /\ TargetsAlive' /\ EntriesLeft'
  BY <1>1 DEF Inv, targets, RootLive, TargetsAlive, EntriesLeft, Alive
<1>8. EntriesPending' /\ Attaching' /\ OneLoop' /\ Dying'
  BY <1>1 DEF Inv, EntriesPending, LoopPassed, Attaching, OneLoop, Dying, Depth
<1>. QED  BY <1>4, <1>5, <1>6, <1>7, <1>8 DEF Inv

LEMMA FrameFacts ==
  ASSUME TypeOK
  PROVE  /\ Depth \in Nat
         /\ \A j \in 1 .. Depth : /\ stack[j] \in Frame /\ stack[j].i \in Nat
                                  /\ stack[j].c \in Ref /\ stack[j].n \in Ref
         /\ Len(notify) \in Nat /\ \A j \in 1 .. Len(notify) : notify[j].sender \in Ref
         /\ Len(cleanup) \in Nat /\ \A j \in 1 .. Len(cleanup) : cleanup[j] \in Control
<1>1. stack \in Seq(Frame) /\ notify \in Seq(Message) /\ cleanup \in Seq(Control)
  BY DEF TypeOK
<1>2. /\ Depth \in Nat /\ \A j \in 1 .. Depth : stack[j] \in Frame
  BY <1>1, ElementOfSeq, LenProperties DEF Depth
<1>3. /\ Len(notify) \in Nat /\ \A j \in 1 .. Len(notify) : notify[j] \in Message
  BY <1>1, ElementOfSeq, LenProperties
<1>4. /\ Len(cleanup) \in Nat /\ \A j \in 1 .. Len(cleanup) : cleanup[j] \in Control
  BY <1>1, ElementOfSeq, LenProperties
<1>5. \A f \in Frame : f.i \in Nat /\ f.c \in Ref /\ f.n \in Ref
  BY DEF Frame, Ref
<1>6. \A m \in Message : m.sender \in Ref
  BY DEF Message
<1>. QED  BY <1>2, <1>3, <1>4, <1>5, <1>6

LEMMA AttachDialogInv ==
  ASSUME Inv, NEW d \in Dialog, AttachDialog(d)
  PROVE  Inv'
<1>. DEFINE f == On("attach", None, d)
            s == Append(stack, f)
<1>1. /\ Intact /\ st[d] = "new"
      /\ \A j \in 1 .. Depth : stack[j].n # d
      /\ SetFocus(None, s)
      /\ UNCHANGED <<st, root, hover, click, key, captured, async>>
  BY DEF AttachDialog, AppCode
<1>2. f \in Frame /\ f.k = "attach" /\ f.n = d /\ f.c = None
  BY WaitFrame DEF On, Ref, Control, Aimed, Callback, Between
<1>. HIDE DEF f
<1>3. /\ TypeOK /\ stack \in Seq(Frame) /\ Depth \in Nat
      /\ s \in Seq(Frame) /\ Len(s) = Depth + 1
      /\ \A j \in 1 .. Depth : s[j] = stack[j]
      /\ s[Depth + 1] = f
  BY <1>2, PushFrame DEF Inv, TypeOK, Depth
<1>. HIDE DEF s
<1>4. /\ stack' \in Seq(Frame) /\ focus' \in Ref /\ Same(s, stack')
      /\ Alive(focus) => Alive(focus')
  BY <1>1, <1>3, SetFocusSteps DEF Ref, Alive
<1>5. Depth' \in Nat /\ Depth' = Len(stack')
  BY <1>4, LenProperties DEF Depth
<1>6. /\ \A j \in 1 .. Depth' :
           stack'[j].k \in Special => j \in 1 .. Depth + 1 /\ stack'[j] = s[j]
      /\ \A j \in 1 .. Depth :
           stack[j].k \in Special => j \in 1 .. Depth' /\ stack'[j] = stack[j]
  BY <1>3, <1>4, <1>5 DEF Same, SpecialAt
<1>7. "attach" \in Special /\ "loop" \in Special /\ "destroy" \in Special
  BY DEF Special
<1>8. \A j \in 1 .. Depth' :
        stack'[j].k \in {"loop", "destroy"} => j \in 1 .. Depth /\ stack'[j] = stack[j]
  BY <1>2, <1>3, <1>6, <1>7
<1>9. \A j \in 1 .. Depth' :
        stack'[j].k = "attach" => \/ j \in 1 .. Depth /\ stack'[j] = stack[j]
                                  \/ j = Depth + 1 /\ stack'[j] = f
  BY <1>3, <1>6, <1>7
<1>10. TypeOK'
  BY <1>1, <1>3, <1>4 DEF TypeOK, async
<1>11. RootLive' /\ TargetsAlive' /\ SendersAlive' /\ EntriesLeft'
  BY <1>1, <1>4 DEF Inv, RootLive, TargetsAlive, SendersAlive, EntriesLeft, Alive, async
<1>12. EntriesPending'
  BY <1>1, <1>6, <1>7 DEF Inv, EntriesPending, LoopPassed, async
<1>13. Attaching'
  BY <1>1, <1>2, <1>9 DEF Inv, Attaching
<1>14. OneLoop'
  BY <1>8 DEF Inv, OneLoop
<1>15. Dying'
  <2>. SUFFICES ASSUME NEW j \in 1 .. Depth', stack'[j].k = "destroy"
                PROVE  /\ j >= 2 /\ stack'[j - 1].k = "loop" /\ stack'[j - 1].i <= Len(cleanup)
                       /\ \/ stack'[j].c = cleanup[stack'[j - 1].i]
                          \/ /\ stack'[j].c \in Leaf
                             /\ Home[stack'[j].c] = cleanup[stack'[j - 1].i]
                             /\ st[stack'[j].c] = "live"
    BY <1>1 DEF Dying, async
  <2>1. j \in 1 .. Depth /\ stack'[j] = stack[j]
    BY <1>8
  <2>2. j >= 2 /\ stack[j - 1].k = "loop"
    BY <2>1 DEF Inv, Dying
  <2>3. stack'[j - 1] = stack[j - 1]
    BY <1>3, <1>6, <1>7, <2>1, <2>2
  <2>. QED  BY <2>1, <2>2, <2>3 DEF Inv, Dying
<1>16. Flag'
  BY <1>1, <1>6, <1>7, <1>8 DEF Inv, Flag, Cleaning, async
<1>. QED  BY <1>10, <1>11, <1>12, <1>13, <1>14, <1>15, <1>16 DEF Inv

(* A frame other than loop and destroy is taken off the top. *)
LEMMA PopStructure ==
  ASSUME TypeOK, Depth > 0, stack' = Below, UNCHANGED cleanup,
         Top.k \notin {"loop", "destroy"}
  PROVE  /\ stack' \in Seq(Frame) /\ Depth' = Depth - 1
         /\ \A j \in 1 .. Depth' : stack'[j] = stack[j]
         /\ \A j \in Nat : LoopPassed(j) <=> LoopPassed(j)'
         /\ Cleaning <=> Cleaning'
<1>1. /\ stack' \in Seq(Frame) /\ Depth \in Nat /\ Depth' = Depth - 1
      /\ \A j \in 1 .. Depth - 1 : stack'[j] = stack[j]
  BY PopFrame DEF TypeOK, Depth, Below
<1>2. \A j \in 1 .. Depth : stack[j].k = "loop" => j \in 1 .. Depth'
  BY <1>1 DEF Top
<1>3. \A j \in Nat : LoopPassed(j) <=> LoopPassed(j)'
  BY <1>1, <1>2 DEF LoopPassed
<1>4. Cleaning <=> Cleaning'
  BY <1>1, <1>2 DEF Cleaning
<1>. QED  BY <1>1, <1>3, <1>4

LEMMA EndOfDrainInv ==
  ASSUME Inv, EndOfDrain
  PROVE  Inv'
<1>1. /\ TypeOK /\ Depth > 0 /\ Top.k = "drain" /\ stack' = Below
      /\ UNCHANGED <<st, root, targets, captured, async>>
  BY DEF Inv, EndOfDrain, At
<1>2. /\ stack' \in Seq(Frame) /\ Depth \in Nat /\ Depth' = Depth - 1
      /\ \A j \in 1 .. Depth' : stack'[j] = stack[j]
      /\ \A j \in Nat : LoopPassed(j) <=> LoopPassed(j)'
      /\ Cleaning <=> Cleaning'
  BY <1>1, PopStructure, FrameFacts DEF async
<1>3. TypeOK'
  BY <1>1, <1>2 DEF TypeOK, async, targets
<1>4. RootLive' /\ TargetsAlive' /\ SendersAlive' /\ EntriesLeft'
  BY <1>1 DEF Inv, RootLive, TargetsAlive, SendersAlive, EntriesLeft, Alive, async, targets
<1>5. EntriesPending'
  <2>1. \A j \in 1 .. Len(cleanup) : j \in Nat
    BY <1>1, FrameFacts
  <2>. QED  BY <1>1, <1>2, <2>1 DEF Inv, EntriesPending, async
<1>6. Attaching'
  BY <1>1, <1>2 DEF Inv, Attaching
<1>7. OneLoop'
  BY <1>1, <1>2 DEF Inv, OneLoop
<1>8. Dying'
  <2>. SUFFICES ASSUME NEW j \in 1 .. Depth', stack'[j].k = "destroy"
                PROVE  /\ j >= 2 /\ stack'[j - 1].k = "loop" /\ stack'[j - 1].i <= Len(cleanup)
                       /\ \/ stack'[j].c = cleanup[stack'[j - 1].i]
                          \/ /\ stack'[j].c \in Leaf
                             /\ Home[stack'[j].c] = cleanup[stack'[j - 1].i]
                             /\ st[stack'[j].c] = "live"
    BY <1>1 DEF Dying, async
  <2>1. j \in 1 .. Depth /\ stack'[j] = stack[j]
    BY <1>2
  <2>2. j >= 2
    BY <2>1 DEF Inv, Dying
  <2>3. stack'[j - 1] = stack[j - 1]
    BY <1>2, <2>1, <2>2
  <2>. QED  BY <2>1, <2>2, <2>3 DEF Inv, Dying
<1>9. Flag'
  BY <1>1, <1>2 DEF Inv, Flag, async
<1>. QED  BY <1>3, <1>4, <1>5, <1>6, <1>7, <1>8, <1>9 DEF Inv

LEMMA ResumeAttachInv ==
  ASSUME Inv, ResumeAttach
  PROVE  Inv'
<1>. DEFINE d == Top.n
<1>1. /\ TypeOK /\ Intact /\ Depth > 0 /\ Top.k = "attach" /\ stack' = Below
      /\ root' = d /\ key' = None /\ hover' = None /\ click' = None
      /\ UNCHANGED <<focus, captured, notify, sent, delivered>>
      /\ IF root = None
         THEN st' = [st EXCEPT ![d] = "live"] /\ UNCHANGED <<cleanup, posted, queued>>
         ELSE /\ st' = [st EXCEPT ![d] = "live", ![root] = "delayed"]
              /\ cleanup' = Append(cleanup, root) /\ PostAsyncNotify
  BY DEF Inv, ResumeAttach, At
<1>2. /\ stack' \in Seq(Frame) /\ Depth \in Nat /\ Depth' = Depth - 1 /\ Depth \in 1 .. Depth
      /\ \A j \in 1 .. Depth' : stack'[j] = stack[j]
      /\ \A j \in 1 .. Depth : stack[j].k \in {"loop", "destroy"} => j \in 1 .. Depth'
  BY <1>1, PopFrame, FrameFacts DEF TypeOK, Depth, Below, Top
<1>3. /\ d \in Dialog /\ d \in Control /\ st[d] = "new"
      /\ \A j \in 1 .. Depth' : stack[j].k = "attach" => stack[j].n # d
  BY <1>1, <1>2 DEF Inv, Attaching, Top, Control
<1>. HIDE DEF d
<1>4. /\ root # None => root \in Dialog /\ root # d /\ st[root] = "live"
      /\ Len(cleanup) \in Nat /\ cleanup \in Seq(Control) /\ st \in [Control -> State]
      /\ \A j \in 1 .. Len(cleanup) :
           cleanup[j] \in Control /\ cleanup[j] # d /\ (root # None => cleanup[j] # root)
  BY <1>1, <1>3, FrameFacts DEF Inv, TypeOK, RootLive, EntriesLeft
<1>5. /\ st' \in [Control -> State] /\ st'[d] = "live"
      /\ root # None => st'[root] = "delayed"
      /\ \A c \in Control : c # d /\ c # root => st'[c] = st[c]
  <2>1. CASE root = None
    BY <1>1, <1>3, <1>4, <2>1, NoneAssumption DEF State
  <2>2. CASE root # None
    BY <1>1, <1>3, <1>4, <2>2 DEF State, Control
  <2>. QED  BY <2>1, <2>2
<1>6. /\ cleanup' \in Seq(Control) /\ Len(cleanup') \in Nat
      /\ \A j \in 1 .. Len(cleanup) : j \in 1 .. Len(cleanup') /\ cleanup'[j] = cleanup[j]
      /\ \A j \in 1 .. Len(cleanup') :
           \/ j \in 1 .. Len(cleanup)
           \/ root # None /\ j = Len(cleanup) + 1 /\ cleanup'[j] = root
      /\ Len(cleanup') >= Len(cleanup)
  <2>1. CASE root = None
    BY <1>1, <1>4, <2>1
  <2>2. CASE root # None
    <3>1. root \in Control /\ cleanup' = Append(cleanup, root)
      BY <1>1, <1>4, <2>2 DEF Control
    <3>. QED  BY <1>4, <2>2, <3>1, AppendEntry
  <2>. QED  BY <2>1, <2>2
<1>7. Cleaning <=> Cleaning'
  BY <1>2 DEF Cleaning
<1>8. Flag' /\ posted' \in BOOLEAN /\ queued' \in BOOLEAN
  <2>1. CASE root = None
    BY <1>1, <1>7, <2>1 DEF Inv, Flag, TypeOK
  <2>2. CASE root # None
    BY <1>1, <1>7, <2>2 DEF Inv, Flag, TypeOK, PostAsyncNotify
  <2>. QED  BY <2>1, <2>2
<1>9. TypeOK'
  BY <1>1, <1>2, <1>3, <1>5, <1>6, <1>8 DEF TypeOK, Ref
<1>10. RootLive'
  BY <1>1, <1>5 DEF RootLive, d
<1>11. TargetsAlive' /\ SendersAlive'
  <2>1. \A r \in Ref : Alive(r) => Alive(r)'
    BY <1>5 DEF Alive, Ref
  <2>2. Alive(None)'
    BY DEF Alive
  <2>3. \A j \in 1 .. Len(notify) : notify[j].sender \in Ref
    BY <1>1, FrameFacts
  <2>4. Alive(focus)'
    BY <1>1, <2>1 DEF Inv, TargetsAlive, TypeOK
  <2>5. SendersAlive'
    BY <1>1, <2>1, <2>3 DEF Inv, SendersAlive
  <2>. QED  BY <1>1, <2>2, <2>4, <2>5 DEF TargetsAlive
<1>12. EntriesLeft'
  <2>1. \A j \in 1 .. Len(cleanup) : st'[cleanup'[j]] = st[cleanup[j]] /\ cleanup'[j] # root
    BY <1>4, <1>5, <1>6, NoneAssumption
  <2>2. \A j \in 1 .. Len(cleanup') : st'[cleanup'[j]] \in {"delayed", "deleted"}
    BY <1>5, <1>6, <2>1 DEF Inv, EntriesLeft
  <2>3. ASSUME NEW j \in 1 .. Len(cleanup'), NEW k \in 1 .. Len(cleanup'),
               cleanup'[j] = cleanup'[k]
        PROVE  j = k
    BY <1>6, <2>1, <2>3 DEF Inv, EntriesLeft
  <2>. QED  BY <2>2, <2>3 DEF EntriesLeft
<1>13. EntriesPending'
  <2>. SUFFICES ASSUME NEW j \in 1 .. Len(cleanup')
                PROVE  st'[cleanup'[j]] = "delayed" \/ LoopPassed(j)'
    BY DEF EntriesPending
  <2>1. LoopPassed(j) => LoopPassed(j)'
    BY <1>2 DEF LoopPassed
  <2>2. CASE j \in 1 .. Len(cleanup)
    BY <1>4, <1>5, <1>6, <2>1, <2>2, NoneAssumption DEF Inv, EntriesPending
  <2>3. CASE j \notin 1 .. Len(cleanup)
    BY <1>5, <1>6, <2>3
  <2>. QED  BY <2>2, <2>3
<1>14. Attaching'
  <2>1. \A j \in 1 .. Depth' : stack'[j].k = "attach" =>
          /\ j \in 1 .. Depth /\ stack'[j] = stack[j]
          /\ stack'[j].n \in Dialog /\ st[stack'[j].n] = "new" /\ stack'[j].n # d
    BY <1>2, <1>3 DEF Inv, Attaching
  <2>2. \A c \in Dialog : st[c] = "new" /\ c # d => st'[c] = "new"
    BY <1>4, <1>5, NoneAssumption DEF Control
  <2>. QED  BY <2>1, <2>2 DEF Inv, Attaching
<1>15. OneLoop'
  BY <1>2 DEF Inv, OneLoop
<1>16. Dying'
  <2>. SUFFICES ASSUME NEW j \in 1 .. Depth', stack'[j].k = "destroy"
                PROVE  /\ j >= 2 /\ stack'[j - 1].k = "loop"
                       /\ stack'[j - 1].i <= Len(cleanup')
                       /\ \/ stack'[j].c = cleanup'[stack'[j - 1].i]
                          \/ /\ stack'[j].c \in Leaf
                             /\ Home[stack'[j].c] = cleanup'[stack'[j - 1].i]
                             /\ st'[stack'[j].c] = "live"
    BY DEF Dying
  <2>1. /\ j \in 1 .. Depth /\ stack'[j] = stack[j] /\ j - 1 \in 1 .. Depth
        /\ stack'[j - 1] = stack[j - 1]
    BY <1>2 DEF Inv, Dying
  <2>2. /\ j >= 2 /\ stack[j - 1].k = "loop" /\ stack[j - 1].i <= Len(cleanup)
        /\ \/ stack[j].c = cleanup[stack[j - 1].i]
           \/ /\ stack[j].c \in Leaf /\ Home[stack[j].c] = cleanup[stack[j - 1].i]
              /\ st[stack[j].c] = "live"
    BY <2>1 DEF Inv, Dying
  <2>3. stack[j - 1].i \in 1 .. Len(cleanup)
    BY <1>1, <1>4, <2>1, <2>2, FrameFacts DEF Inv, OneLoop
  <2>4. \A c \in Leaf : st'[c] = st[c]
    BY <1>3, <1>4, <1>5, HomeAssumption, NoneAssumption DEF Control
  <2>. QED  BY <1>4, <1>6, <2>1, <2>2, <2>3, <2>4
<1>. QED
  BY <1>8, <1>9, <1>10, <1>11, <1>12, <1>13, <1>14, <1>15, <1>16 DEF Inv

(* A frame is put on the stack. *)
LEMMA PushStructure ==
  ASSUME TypeOK, NEW f \in Frame, stack' = Append(stack, f)
  PROVE  /\ stack' \in Seq(Frame) /\ Depth \in Nat /\ Depth' = Depth + 1
         /\ \A j \in 1 .. Depth : stack'[j] = stack[j]
         /\ stack'[Depth + 1] = f
BY PushFrame DEF TypeOK, Depth

LEMMA AsyncMessageInv ==
  ASSUME Inv, AsyncMessage
  PROVE  Inv'
<1>1. /\ TypeOK /\ queued /\ queued' = FALSE /\ stack' = Append(stack, LoopAt(1))
      /\ UNCHANGED <<st, root, targets, captured, cleanup, notify, posted, sent, delivered>>
  BY DEF Inv, AsyncMessage
<1>2. LoopAt(1) \in Frame /\ LoopAt(1).k = "loop" /\ LoopAt(1).i = 1
  BY DEF LoopAt, Frame, Ref, Callback, Between, Aimed
<1>3. /\ stack' \in Seq(Frame) /\ Depth \in Nat /\ Depth' = Depth + 1
      /\ \A j \in 1 .. Depth : stack'[j] = stack[j]
      /\ stack'[Depth + 1].k = "loop" /\ stack'[Depth + 1].i = 1
  BY <1>1, <1>2, PushStructure
<1>4. posted /\ ~Cleaning
  BY <1>1 DEF Inv, Flag
<1>5. \A j \in 1 .. Depth : stack'[j].k # "loop" /\ stack'[j].k # "destroy"
  <2>1. \A j \in 1 .. Depth : stack[j].k # "loop"
    BY <1>4 DEF Cleaning
  <2>2. \A j \in 1 .. Depth : stack[j].k = "destroy" => j - 1 \in 1 .. Depth
    BY <1>3 DEF Inv, Dying
  <2>3. \A j \in 1 .. Depth : stack[j].k # "destroy"
    BY <2>1, <2>2 DEF Inv, Dying
  <2>. QED  BY <1>3, <2>1, <2>3
<1>6. TypeOK'
  BY <1>1, <1>3 DEF TypeOK, targets
<1>7. RootLive' /\ TargetsAlive' /\ SendersAlive' /\ EntriesLeft'
  BY <1>1 DEF Inv, RootLive, TargetsAlive, SendersAlive, EntriesLeft, Alive, targets
<1>8. EntriesPending'
  BY <1>1, <1>4 DEF Inv, EntriesPending, LoopPassed, Cleaning
<1>9. Attaching'
  <2>1. \A j \in 1 .. Depth' :
          stack'[j].k = "attach" => j \in 1 .. Depth /\ stack'[j] = stack[j]
    BY <1>3
  <2>. QED  BY <1>1, <2>1 DEF Inv, Attaching
<1>10. OneLoop' /\ Dying'
  BY <1>3, <1>5 DEF OneLoop, Dying
<1>11. Flag'
  BY <1>1, <1>4 DEF Flag
<1>. QED  BY <1>6, <1>7, <1>8, <1>9, <1>10, <1>11 DEF Inv

LEMMA BeginDeleteInv ==
  ASSUME Inv, BeginDelete
  PROVE  Inv'
<1>1. /\ TypeOK /\ Depth > 0 /\ Top.k = "loop" /\ Top.i <= Len(cleanup)
      /\ UNCHANGED <<st, root, targets, captured, async>>
  BY DEF Inv, BeginDelete, At
<1>2. PICK c \in Victims(cleanup[Top.i]) : stack' = Append(stack, On("destroy", c, None))
  BY DEF BeginDelete
<1>3. /\ Depth \in Nat /\ Depth \in 1 .. Depth /\ stack[Depth] = Top
      /\ Top.i \in Nat /\ Top.i >= 1
  BY <1>1, FrameFacts DEF Inv, OneLoop, Top
<1>4. /\ Top.i \in 1 .. Len(cleanup) /\ cleanup[Top.i] \in Control
  BY <1>1, <1>3, FrameFacts
<1>5. /\ c \in Control
      /\ \/ c = cleanup[Top.i]
         \/ c \in Leaf /\ Home[c] = cleanup[Top.i] /\ st[c] = "live"
  BY <1>2, <1>4 DEF Victims, Items, Control
<1>. DEFINE f == On("destroy", c, None)
<1>6. f \in Frame /\ f.k = "destroy" /\ f.c = c
  BY <1>5, CallFrame DEF On, Aimed, Callback, Ref
<1>7. /\ stack' \in Seq(Frame) /\ Depth' = Depth + 1
      /\ \A j \in 1 .. Depth : stack'[j] = stack[j]
      /\ stack'[Depth + 1] = f
  BY <1>1, <1>2, <1>6, PushStructure
<1>. HIDE DEF f
<1>8. TypeOK'
  BY <1>1, <1>7 DEF TypeOK, targets, async
<1>9. RootLive' /\ TargetsAlive' /\ SendersAlive' /\ EntriesLeft'
  BY <1>1 DEF Inv, RootLive, TargetsAlive, SendersAlive, EntriesLeft, Alive, targets, async
<1>10. EntriesPending'
  BY <1>1, <1>3, <1>7 DEF Inv, EntriesPending, LoopPassed, async
<1>11. Attaching'
  BY <1>1, <1>3, <1>6, <1>7 DEF Inv, Attaching
<1>12. OneLoop'
  BY <1>3, <1>6, <1>7 DEF Inv, OneLoop
<1>13. Dying'
  <2>. SUFFICES ASSUME NEW j \in 1 .. Depth', stack'[j].k = "destroy"
                PROVE  /\ j >= 2 /\ stack'[j - 1].k = "loop" /\ stack'[j - 1].i <= Len(cleanup)
                       /\ \/ stack'[j].c = cleanup[stack'[j - 1].i]
                          \/ /\ stack'[j].c \in Leaf
                             /\ Home[stack'[j].c] = cleanup[stack'[j - 1].i]
                             /\ st[stack'[j].c] = "live"
    BY <1>1 DEF Dying, async
  <2>1. CASE j \in 1 .. Depth
    <3>1. stack'[j] = stack[j] /\ j >= 2
      BY <1>7, <2>1 DEF Inv, Dying
    <3>2. stack'[j - 1] = stack[j - 1]
      BY <1>3, <1>7, <2>1, <3>1
    <3>. QED  BY <2>1, <3>1, <3>2 DEF Inv, Dying
  <2>2. CASE j = Depth + 1
    <3>1. stack'[j] = f /\ stack'[j - 1] = Top /\ j >= 2
      BY <1>3, <1>7, <2>2
    <3>. QED  BY <1>1, <1>5, <1>6, <3>1
  <2>. QED  BY <1>3, <1>7, <2>1, <2>2
<1>14. Flag'
  <2>1. Cleaning' => Cleaning
    BY <1>3, <1>6, <1>7 DEF Cleaning
  <2>2. Cleaning
    BY <1>1, <1>3 DEF Cleaning
  <2>. QED  BY <1>1, <2>1, <2>2 DEF Inv, Flag, async
<1>. QED  BY <1>8, <1>9, <1>10, <1>11, <1>12, <1>13, <1>14 DEF Inv

(* While WM_APP+1 is between two deletions no control is dying. *)
LEMMA NoneDying ==
  ASSUME TypeOK, OneLoop, Dying, NEW m \in 1 .. Depth, stack[m].k = "loop",
         NEW j \in 1 .. Depth, j # m + 1
  PROVE  stack[j].k # "destroy"
<1>. SUFFICES ASSUME stack[j].k = "destroy" PROVE FALSE
  OBVIOUS
<1>1. j >= 2 /\ stack[j - 1].k = "loop"
  BY DEF Dying
<1>2. Depth \in Nat /\ j - 1 \in 1 .. Depth
  BY <1>1, FrameFacts
<1>3. j - 1 = m
  BY <1>1, <1>2 DEF OneLoop
<1>. QED  BY <1>2, <1>3

LEMMA EndOfLoopInv ==
  ASSUME Inv, EndOfLoop
  PROVE  Inv'
<1>1. /\ TypeOK /\ Depth > 0 /\ Top.k = "loop"
      /\ cleanup' = <<>> /\ posted' = FALSE /\ stack' = Append(Below, Drain)
      /\ UNCHANGED <<st, root, targets, captured, notify, queued, sent, delivered>>
  BY DEF Inv, EndOfLoop, At
<1>2. Drain \in Frame /\ Drain.k = "drain"
  BY WaitFrame DEF Drain, On, Aimed, Callback, Between, Ref
<1>3. /\ Below \in Seq(Frame) /\ Depth \in Nat /\ Len(Below) = Depth - 1
      /\ \A j \in 1 .. Depth - 1 : Below[j] = stack[j]
  BY <1>1, PopFrame DEF TypeOK, Depth, Below
<1>4. /\ stack' \in Seq(Frame) /\ Depth' = Depth
      /\ \A j \in 1 .. Depth - 1 : stack'[j] = stack[j]
      /\ stack'[Depth].k = "drain"
  BY <1>1, <1>2, <1>3, PushFrame DEF Depth
<1>5. Depth \in 1 .. Depth /\ stack[Depth].k = "loop"
  BY <1>1, <1>3 DEF Top
<1>6. \A j \in 1 .. Depth - 1 : stack[j].k # "loop" /\ stack[j].k # "destroy"
  BY <1>1, <1>3, <1>5, NoneDying DEF Inv, OneLoop
<1>7. \A j \in 1 .. Depth' : stack'[j].k # "loop" /\ stack'[j].k # "destroy"
  BY <1>3, <1>4, <1>6
<1>8. ~queued
  BY <1>5 DEF Inv, Flag, Cleaning
<1>9. cleanup' \in Seq(Control) /\ Len(cleanup') = 0
  BY <1>1
<1>10. TypeOK'
  BY <1>1, <1>4, <1>9 DEF TypeOK, targets
<1>11. RootLive' /\ TargetsAlive' /\ SendersAlive'
  BY <1>1 DEF Inv, RootLive, TargetsAlive, SendersAlive, Alive, targets
<1>12. EntriesLeft' /\ EntriesPending'
  BY <1>9 DEF EntriesLeft, EntriesPending
<1>13. Attaching'
  BY <1>1, <1>3, <1>4 DEF Inv, Attaching
<1>14. OneLoop' /\ Dying'
  BY <1>7 DEF OneLoop, Dying
<1>15. Flag'
  BY <1>1, <1>7, <1>8 DEF Flag, Cleaning
<1>. QED  BY <1>10, <1>11, <1>12, <1>13, <1>14, <1>15 DEF Inv

LEMMA TailMessages ==
  ASSUME notify \in Seq(Message), notify # <<>>
  PROVE  /\ Len(notify) \in Nat /\ Len(notify) >= 1
         /\ Head(notify) = notify[1] /\ Head(notify) \in Message
         /\ Tail(notify) \in Seq(Message) /\ Len(Tail(notify)) = Len(notify) - 1
         /\ \A j \in 1 .. Len(notify) - 1 : Tail(notify)[j] = notify[j + 1]
<1>1. /\ Len(notify) \in Nat /\ Len(notify) >= 1
  BY EmptySeq, LenProperties
<1>2. /\ Head(notify) \in Message
      /\ Tail(notify) \in Seq(Message) /\ Len(Tail(notify)) = Len(notify) - 1
      /\ \A j \in 1 .. Len(Tail(notify)) : Tail(notify)[j] = notify[j + 1]
  BY HeadTailProperties
<1>3. Head(notify) = notify[1]
  BY <1>1
<1>. QED  BY <1>1, <1>2, <1>3

LEMMA DeliverInv ==
  ASSUME Inv, Deliver
  PROVE  Inv'
<1>. DEFINE f == On("notify", Head(notify).sender, None)
<1>1. /\ TypeOK /\ notify # <<>> /\ notify \in Seq(Message)
      /\ notify' = Tail(notify) /\ delivered' = Head(notify).id
      /\ stack' = Append(stack, f)
      /\ UNCHANGED <<st, root, targets, captured, cleanup, posted, queued, sent>>
  BY DEF Inv, Deliver, TypeOK
<1>2. /\ Len(notify) \in Nat /\ Len(notify) >= 1
      /\ Head(notify) \in Message
      /\ notify' \in Seq(Message) /\ Len(notify') = Len(notify) - 1
      /\ \A j \in 1 .. Len(notify) - 1 : notify'[j] = notify[j + 1]
  BY <1>1, TailMessages
<1>3. Head(notify).sender \in Ref /\ delivered' \in Nat
  BY <1>1, <1>2 DEF Message
<1>4. f \in Frame /\ f.k = "notify"
  BY <1>3, WaitFrame DEF On, Callback, Between, Aimed, Ref
<1>. HIDE DEF f
<1>5. /\ stack' \in Seq(Frame) /\ Same(stack, stack') /\ Depth \in Nat /\ Depth' = Depth + 1
      /\ \A j \in 1 .. Depth : stack'[j] = stack[j]
      /\ stack'[Depth + 1].k = "notify"
  BY <1>1, <1>4, PushStructure, PushSame DEF TypeOK, Special
<1>6. TypeOK'
  BY <1>1, <1>2, <1>3, <1>5 DEF TypeOK, targets
<1>7. RootLive' /\ TargetsAlive' /\ EntriesLeft'
  BY <1>1 DEF Inv, RootLive, TargetsAlive, EntriesLeft, Alive, targets
<1>8. SendersAlive'
  BY <1>1, <1>2 DEF Inv, SendersAlive, Alive
<1>9. EntriesPending'
  <2>1. \A j \in Nat : LoopPassed(j) => LoopPassed(j)'
    BY <1>5 DEF LoopPassed
  <2>2. \A j \in 1 .. Len(cleanup) : j \in Nat
    BY <1>1, FrameFacts
  <2>. QED  BY <1>1, <2>1, <2>2 DEF Inv, EntriesPending
<1>10. Attaching'
  <2>1. \A j \in 1 .. Depth' :
          stack'[j].k = "attach" => j \in 1 .. Depth /\ stack'[j] = stack[j]
    BY <1>5
  <2>. QED  BY <1>1, <2>1 DEF Inv, Attaching
<1>11. OneLoop'
  BY <1>5 DEF Inv, OneLoop
<1>12. Dying'
  <2>. SUFFICES ASSUME NEW j \in 1 .. Depth', stack'[j].k = "destroy"
                PROVE  /\ j >= 2 /\ stack'[j - 1].k = "loop" /\ stack'[j - 1].i <= Len(cleanup)
                       /\ \/ stack'[j].c = cleanup[stack'[j - 1].i]
                          \/ /\ stack'[j].c \in Leaf
                             /\ Home[stack'[j].c] = cleanup[stack'[j - 1].i]
                             /\ st[stack'[j].c] = "live"
    BY <1>1 DEF Dying
  <2>1. j \in 1 .. Depth /\ stack'[j] = stack[j] /\ j >= 2
    BY <1>5 DEF Inv, Dying
  <2>2. stack'[j - 1] = stack[j - 1]
    BY <1>5, <2>1
  <2>. QED  BY <2>1, <2>2 DEF Inv, Dying
<1>13. Flag'
  <2>1. Cleaning' <=> Cleaning
    BY <1>5 DEF Cleaning
  <2>. QED  BY <1>1, <2>1 DEF Inv, Flag
<1>. QED  BY <1>6, <1>7, <1>8, <1>9, <1>10, <1>11, <1>12, <1>13 DEF Inv

LEMMA ReplaceFrame ==
  ASSUME NEW s \in Seq(Frame), NEW m \in 1 .. Len(s), NEW f \in Frame
  PROVE  /\ [s EXCEPT ![m] = f] \in Seq(Frame)
         /\ Len([s EXCEPT ![m] = f]) = Len(s)
         /\ \A j \in 1 .. Len(s) : [s EXCEPT ![m] = f][j] = IF j = m THEN f ELSE s[j]
BY ExceptSeq

(* The stack when a destructor is over: c is the entry itself, or one of its items. *)
LEMMA DestroyStructure ==
  ASSUME Inv, ReturnDestroy, Intact, Depth > 0
  PROVE  LET c == Top.c
             i == stack[Depth - 1].i
         IN /\ Depth \in Nat /\ Depth >= 2
            /\ c \in Control /\ i \in 1 .. Len(cleanup)
            /\ stack[Depth - 1].k = "loop"
            /\ \A j \in 1 .. Depth - 1 : stack[j].k # "destroy"
            /\ stack' \in Seq(Frame) /\ Depth' = Depth - 1
            /\ \A j \in 1 .. Depth - 2 : stack'[j] = stack[j]
            /\ stack'[Depth - 1].k = "loop"
            /\ \/ cleanup[i] = c /\ stack'[Depth - 1].i = i + 1
               \/ /\ c \in Leaf /\ st[c] = "live" /\ stack'[Depth - 1].i = i
                  /\ \A j \in 1 .. Len(cleanup) : cleanup[j] # c
<1>. DEFINE c == Top.c
            i == stack[Depth - 1].i
<1>1. /\ TypeOK /\ Top.k = "destroy" /\ Depth \in Nat /\ Depth \in 1 .. Depth
      /\ stack' = IF cleanup[i] = c THEN [Below EXCEPT ![Depth - 1] = LoopAt(i + 1)]
                  ELSE Below
  BY FrameFacts DEF Inv, ReturnDestroy
<1>2. /\ Depth >= 2 /\ stack[Depth - 1].k = "loop" /\ i <= Len(cleanup)
      /\ \/ c = cleanup[i]
         \/ c \in Leaf /\ Home[c] = cleanup[i] /\ st[c] = "live"
  BY <1>1 DEF Inv, Dying, Top
<1>3. /\ i \in Nat /\ i >= 1 /\ c \in Ref /\ Depth - 1 \in 1 .. Depth
  BY <1>1, <1>2, FrameFacts DEF Inv, OneLoop, Top
<1>4. /\ i \in 1 .. Len(cleanup) /\ cleanup[i] \in Control
  BY <1>1, <1>2, <1>3, FrameFacts
<1>5. c \in Control
  BY <1>2, <1>4 DEF Control
<1>6. \A j \in 1 .. Depth - 1 : stack[j].k # "destroy"
  BY <1>1, <1>2, <1>3, NoneDying DEF Inv
<1>7. /\ Below \in Seq(Frame) /\ Len(Below) = Depth - 1
      /\ \A j \in 1 .. Depth - 1 : Below[j] = stack[j]
  BY <1>1, PopFrame DEF TypeOK, Depth, Below
<1>. HIDE DEF c, i
<1>8. CASE cleanup[i] = c
  <2>. DEFINE f == LoopAt(i + 1)
  <2>1. f \in Frame /\ f.k = "loop" /\ f.i = i + 1
    BY <1>3 DEF LoopAt, Frame, Ref, Callback, Between, Aimed
  <2>. HIDE DEF f
  <2>2. Depth - 1 \in 1 .. Len(Below)
    BY <1>1, <1>2, <1>7
  <2>3. stack' = [Below EXCEPT ![Depth - 1] = f]
    BY <1>1, <1>8 DEF f
  <2>4. /\ stack' \in Seq(Frame) /\ Len(stack') = Depth - 1
        /\ \A j \in 1 .. Depth - 1 : stack'[j] = IF j = Depth - 1 THEN f ELSE Below[j]
    BY <1>7, <2>1, <2>2, <2>3, ReplaceFrame
  <2>5. stack'[Depth - 1] = f /\ \A j \in 1 .. Depth - 2 : stack'[j] = stack[j]
    BY <1>1, <1>2, <1>7, <2>4
  <2>. QED
    BY <1>1, <1>2, <1>4, <1>5, <1>6, <1>8, <2>1, <2>4, <2>5 DEF c, i, Depth
<1>9. CASE cleanup[i] # c
  <2>1. stack' = Below
    BY <1>1, <1>9
  <2>2. \A j \in 1 .. Len(cleanup) : cleanup[j] # c
    BY <1>2, <1>9 DEF Inv, EntriesLeft
  <2>3. /\ stack' \in Seq(Frame) /\ Depth' = Depth - 1
        /\ \A j \in 1 .. Depth - 2 : stack'[j] = stack[j]
        /\ stack'[Depth - 1] = stack[Depth - 1]
    BY <1>1, <1>2, <1>7, <2>1 DEF Depth
  <2>. QED
    BY <1>1, <1>2, <1>4, <1>5, <1>6, <1>9, <2>2, <2>3 DEF c, i
<1>. QED  BY <1>8, <1>9

LEMMA ReturnDestroyInv ==
  ASSUME Inv, ReturnDestroy, Intact, Depth > 0
  PROVE  Inv'
<1>. DEFINE c == Top.c
            i == stack[Depth - 1].i
<1>1. /\ Depth \in Nat /\ Depth >= 2
      /\ c \in Control /\ i \in 1 .. Len(cleanup)
      /\ stack[Depth - 1].k = "loop" /\ Top.k = "destroy"
      /\ \A j \in 1 .. Depth - 1 : stack[j].k # "destroy"
      /\ stack' \in Seq(Frame) /\ Depth' = Depth - 1
      /\ \A j \in 1 .. Depth - 2 : stack'[j] = stack[j]
      /\ stack'[Depth - 1].k = "loop"
      /\ \/ cleanup[i] = c /\ stack'[Depth - 1].i = i + 1
         \/ /\ c \in Leaf /\ st[c] = "live" /\ stack'[Depth - 1].i = i
            /\ \A j \in 1 .. Len(cleanup) : cleanup[j] # c
  BY DestroyStructure DEF ReturnDestroy
<1>2. /\ TypeOK /\ st \in [Control -> State] /\ notify \in Seq(Message)
      /\ st' = [st EXCEPT ![c] = "deleted"] /\ ReapObjects(c)
      /\ UNCHANGED <<root, captured, cleanup, posted, queued, sent, delivered>>
  BY DEF Inv, TypeOK, ReturnDestroy
<1>3. stack[Depth] = Top
  BY DEF Top
<1>. HIDE DEF c, i
<1>4. /\ st' \in [Control -> State] /\ st'[c] = "deleted"
      /\ \A d \in Control : d # c => st'[d] = st[d]
  BY <1>1, <1>2 DEF State
<1>5. /\ Len(notify) \in Nat /\ Len(notify') = Len(notify) /\ notify' \in Seq(Message)
      /\ \A j \in 1 .. Len(notify) : notify'[j].sender = Forget(notify[j].sender, c)
  <2>1. /\ Len(notify) \in Nat /\ \A j \in 1 .. Len(notify) : notify[j] \in Message
    BY <1>2, ElementOfSeq, LenProperties
  <2>2. \A m \in Message : [id |-> m.id, sender |-> Forget(m.sender, c)] \in Message
    BY DEF Message, Forget, Ref
  <2>. DEFINE g(j) == [id |-> notify[j].id, sender |-> Forget(notify[j].sender, c)]
  <2>3. \A j \in 1 .. Len(notify) : g(j) \in Message /\ g(j).sender = Forget(notify[j].sender, c)
    BY <2>1, <2>2
  <2>4. notify' = [j \in 1 .. Len(notify) |-> g(j)]
    BY <1>2 DEF ReapObjects
  <2>. HIDE DEF g
  <2>. QED  BY <2>1, <2>3, <2>4
<1>6. /\ hover' = Forget(hover, c) /\ click' = Forget(click, c)
      /\ focus' = Forget(focus, c) /\ key' = Forget(key, c)
  BY <1>2 DEF ReapObjects
<1>7. \A r \in Ref :
        /\ Forget(r, c) \in Ref
        /\ Alive(r) /\ Forget(r, c) # None => st'[Forget(r, c)] # "deleted"
  BY <1>4 DEF Forget, Alive, Ref
<1>8. TypeOK'
  BY <1>1, <1>2, <1>4, <1>5, <1>6, <1>7 DEF TypeOK
<1>9. c # root
  BY <1>1, <1>2, HomeAssumption, NoneAssumption DEF Inv, RootLive, EntriesLeft, TypeOK, Control
<1>10. RootLive'
  BY <1>2, <1>4, <1>9 DEF Inv, RootLive, TypeOK, Control
<1>11. TargetsAlive'
  <2>1. \A r \in {hover, click, focus, key} : r \in Ref /\ Alive(r)
    BY <1>2 DEF Inv, TargetsAlive, TypeOK
  <2>. QED  BY <1>6, <1>7, <2>1 DEF TargetsAlive, Alive
<1>12. SendersAlive'
  <2>1. \A j \in 1 .. Len(notify) : notify[j].sender \in Ref /\ Alive(notify[j].sender)
    BY <1>2, FrameFacts DEF Inv, SendersAlive
  <2>. QED  BY <1>5, <1>7, <2>1 DEF SendersAlive, Alive
<1>13. \A j \in 1 .. Len(cleanup) : cleanup[j] \in Control /\ j \in Nat
  BY <1>2, FrameFacts
<1>14. EntriesLeft'
  BY <1>2, <1>4, <1>13 DEF Inv, EntriesLeft
<1>15. \A l \in 1 .. Depth : stack[l].k = "loop" => l = Depth - 1
  BY <1>1 DEF Inv, OneLoop
<1>16. EntriesPending'
  <2>. SUFFICES ASSUME NEW j \in 1 .. Len(cleanup)
                PROVE  st'[cleanup[j]] = "delayed" \/ LoopPassed(j)'
    BY <1>2 DEF EntriesPending
  <2>1. Depth - 1 \in 1 .. Depth'
    BY <1>1
  <2>2. CASE cleanup[j] = c
    <3>1. cleanup[i] = c /\ stack'[Depth - 1].i = i + 1
      BY <1>1, <2>2
    <3>2. j = i
      BY <1>1, <2>2, <3>1 DEF Inv, EntriesLeft
    <3>. QED  BY <1>1, <2>1, <3>1, <3>2 DEF LoopPassed
  <2>3. CASE cleanup[j] # c
    <3>1. st'[cleanup[j]] = st[cleanup[j]]
      BY <1>4, <1>13, <2>3
    <3>2. LoopPassed(j) => j < i
      BY <1>15 DEF LoopPassed, i
    <3>3. j < i => LoopPassed(j)'
      BY <1>1, <2>1 DEF LoopPassed
    <3>. QED  BY <3>1, <3>2, <3>3 DEF Inv, EntriesPending
  <2>. QED  BY <2>2, <2>3
<1>17. Attaching'
  <2>1. ASSUME NEW j \in 1 .. Depth', stack'[j].k = "attach"
        PROVE  j \in 1 .. Depth /\ stack'[j] = stack[j]
    <3>1. j # Depth - 1
      BY <1>1, <2>1
    <3>2. j \in 1 .. Depth - 2
      BY <1>1, <3>1
    <3>. QED  BY <1>1, <3>2
  <2>2. \A d \in Dialog : st[d] = "new" => st'[d] = "new"
    BY <1>1, <1>4 DEF Inv, EntriesLeft, Control
  <2>. QED  BY <2>1, <2>2 DEF Inv, Attaching
<1>18. OneLoop'
  <2>1. \A j \in 1 .. Depth' : stack'[j].k = "loop" => j = Depth - 1
    BY <1>1, <1>15
  <2>2. stack'[Depth - 1].i >= 1
    BY <1>1
  <2>. QED  BY <2>1, <2>2 DEF OneLoop
<1>19. Dying'
  <2>1. \A j \in 1 .. Depth' : stack'[j].k # "destroy"
    BY <1>1
  <2>. QED  BY <2>1 DEF Dying
<1>20. Flag'
  <2>1. Cleaning /\ Cleaning'
    BY <1>1 DEF Cleaning
  <2>. QED  BY <1>2, <2>1 DEF Inv, Flag
<1>. QED
  BY <1>8, <1>10, <1>11, <1>12, <1>14, <1>16, <1>17, <1>18, <1>19, <1>20 DEF Inv

(***************************************************************************)
(* The theorems.                                                           *)
(***************************************************************************)
LEMMA InitInv == Init => Inv
<1>. SUFFICES ASSUME Init PROVE Inv
  OBVIOUS
<1>1. Len(stack) = 0 /\ Len(cleanup) = 0 /\ Len(notify) = 0
      /\ stack \in Seq(Frame) /\ cleanup \in Seq(Control) /\ notify \in Seq(Message)
  BY DEF Init
<1>2. st \in [Control -> State] /\ None \in Ref
  BY DEF Init, State, Ref
<1>3. posted \in BOOLEAN
  BY FlagAssumption DEF Init
<1>4. TypeOK
  BY <1>1, <1>2, <1>3 DEF Init, TypeOK
<1>5. RootLive /\ TargetsAlive
  BY DEF Init, RootLive, TargetsAlive, Alive
<1>6. /\ SendersAlive /\ EntriesLeft /\ EntriesPending /\ Attaching /\ OneLoop /\ Dying
      /\ Flag
  BY <1>1 DEF Init, SendersAlive, EntriesLeft, EntriesPending, Attaching, OneLoop, Dying,
     Flag, Cleaning, Depth
<1>. QED  BY <1>4, <1>5, <1>6 DEF Inv

LEMMA StutterInv ==
  ASSUME Inv, UNCHANGED vars
  PROVE  Inv'
<1>1. UNCHANGED <<st, root, hover, click, focus, key, captured, cleanup, notify, posted,
                  queued, sent, delivered, stack>>
  BY DEF vars, targets, async
<1>2. TypeOK' /\ RootLive' /\ TargetsAlive' /\ SendersAlive' /\ EntriesLeft'
  BY <1>1 DEF Inv, TypeOK, RootLive, TargetsAlive, SendersAlive, EntriesLeft, Alive
<1>3. EntriesPending' /\ Attaching' /\ OneLoop' /\ Flag'
  BY <1>1 DEF Inv, EntriesPending, LoopPassed, Attaching, OneLoop, Flag, Cleaning, Depth
<1>4. Dying'
  BY <1>1 DEF Inv, Dying, Depth
<1>. QED  BY <1>2, <1>3, <1>4 DEF Inv

(* Every step is quiet or is one of the steps treated by name above. *)
LEMMA StepKinds ==
  ASSUME TypeOK, Next
  PROVE  \/ Quiet
         \/ \E l \in Leaf : Remove(l)
         \/ \E c \in Control : SendNotify(c)
         \/ \E d \in Dialog : AttachDialog(d)
         \/ ResumeAttach \/ AsyncMessage \/ BeginDelete \/ EndOfLoop \/ Deliver
         \/ EndOfDrain
         \/ ReturnDestroy /\ Intact /\ Depth > 0
<1>1. CASE App
  BY <1>1, QuietCode DEF App
<1>2. CASE InputMessage
  BY <1>2, QuietInput
<1>3. CASE KillFocus \/ AsyncMessage
  BY <1>3, QuietCode
<1>4. CASE Resume
  BY <1>4, QuietCode DEF Resume
<1>5. CASE Return /\ Top.k # "destroy"
  BY <1>5, QuietReturn
<1>6. CASE Return /\ Top.k = "destroy"
  BY <1>6 DEF Return, InCallback, ReturnPlain, ReturnLeave, ReturnEnter, ReturnClick,
     ReturnKey, ReturnKill
<1>. QED  BY <1>1, <1>2, <1>3, <1>4, <1>5, <1>6 DEF Next

LEMMA NextInv == Inv /\ [Next]_vars => Inv'
<1>. SUFFICES ASSUME Inv, [Next]_vars PROVE Inv'
  OBVIOUS
<1>1. CASE Next
  <2>1. TypeOK
    BY DEF Inv
  <2>. QED
    BY <1>1, <2>1, StepKinds, QuietInv, RemoveInv, SendNotifyInv, AttachDialogInv,
       ResumeAttachInv, AsyncMessageInv, BeginDeleteInv, EndOfLoopInv, DeliverInv,
       EndOfDrainInv, ReturnDestroyInv
<1>2. CASE UNCHANGED vars
  BY <1>2, StutterInv
<1>. QED  BY <1>1, <1>2

(* The inductive invariant holds of every behaviour, with or without modal loops and      *)
(* whatever m_bAsyncNotifyPosted held at first.                                           *)
THEOREM PaintInvariant == Spec => []Inv
BY InitInv, NextInv, PTL DEF Spec

(* CPaintManagerUI's fields, its two queues and the frames of its handlers keep their     *)
(* types in every behaviour.                                                              *)
THEOREM PaintTypeCorrect == Spec => []TypeOK
<1>1. Inv => TypeOK
  BY DEF Inv
<1>. QED  BY <1>1, PaintInvariant, PTL

(* Between messages and inside them, m_pEventHover, m_pEventClick, m_pFocus, m_pEventKey  *)
(* and the senders in m_aAsyncNotify never name a deleted control (ReapObjects and the    *)
(* assignments that follow an event), for any tree, any nesting and any modal loop.       *)
THEOREM RememberedControls == Spec => []RememberedControlsExist
<1>1. Inv => RememberedControlsExist
  BY DEF Inv, TargetsAlive, SendersAlive, Alive, RememberedControlsExist
<1>. QED  BY <1>1, PaintInvariant, PTL

(* m_bAsyncNotifyPosted keeps WM_APP+1 from being handled inside its own cleanup loop,    *)
(* so that no control is deleted twice, also when an OnDestroy runs a modal loop.         *)
THEOREM NothingDiesTwice == Spec => []NoControlDiesTwice
<1>. SUFFICES ASSUME Inv PROVE NoControlDiesTwice
  BY PaintInvariant, PTL
<1>1. \A j, k \in 1 .. Depth : stack[j].k = "loop" /\ stack[k].k = "loop" => j = k
  BY DEF Inv, OneLoop
<1>2. \A j, k \in 1 .. Len(cleanup) : cleanup[j] = cleanup[k] => j = k
  BY DEF Inv, EntriesLeft
<1>3. ASSUME NEW j \in 1 .. Depth, stack[j].k = "destroy"
      PROVE  st[stack[j].c] # "deleted"
  <2>. DEFINE i == stack[j - 1].i
  <2>1. /\ j >= 2 /\ stack[j - 1].k = "loop" /\ i <= Len(cleanup)
        /\ \/ stack[j].c = cleanup[i]
           \/ st[stack[j].c] = "live"
    BY <1>3 DEF Inv, Dying
  <2>2. Depth \in Nat /\ j - 1 \in 1 .. Depth /\ Len(cleanup) \in Nat
    BY <2>1, FrameFacts DEF Inv
  <2>3. i \in 1 .. Len(cleanup)
    BY <2>1, <2>2, FrameFacts DEF Inv, OneLoop
  <2>4. ~LoopPassed(i)
    <3>1. \A l \in 1 .. Depth : stack[l].k = "loop" => stack[l].i = i
      BY <1>1, <2>1, <2>2
    <3>2. ~(i < i)
      BY <2>3
    <3>. QED  BY <3>1, <3>2 DEF LoopPassed
  <2>5. st[cleanup[i]] = "delayed"
    BY <2>3, <2>4 DEF Inv, EntriesPending
  <2>. QED  BY <2>1, <2>5
<1>. QED  BY <1>1, <1>2, <1>3 DEF NoControlDiesTwice
=============================================================================
