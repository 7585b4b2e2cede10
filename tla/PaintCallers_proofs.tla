------------------------- MODULE PaintCallers_proofs ------------------------
(***************************************************************************)
(* Proof that delayed cleanup protects every handler in progress, as long  *)
(* as no callback runs a modal loop.                                       *)
(***************************************************************************)
EXTENDS PaintManager_proofs

(* WM_APP+1 is only handled by the program's message loop: its frame is the first, and    *)
(* holds no control.                                                                      *)
FirstFrame ==
  \A j \in 1 .. Depth :
    stack[j].k \in {"loop", "drain"} => j = 1 /\ stack[j].c = None /\ stack[j].n = None

Guarded == ~Modal => Sound(stack) /\ FirstFrame

(* Sound(stack)' where no control dies. *)
LEMMA SoundNext ==
  ASSUME UNCHANGED st, Sound(stack')
  PROVE  Sound(stack)'
BY DEF Sound, Alive

(* Sound(stack)' where a frame is taken off, and no control dies either. *)
LEMMA SoundAfterPop ==
  ASSUME TypeOK, Sound(stack), stack' \in Seq(Frame), Depth' \in Nat,
         \A j \in 1 .. Depth' : j \in 1 .. Depth /\ stack'[j] = stack[j],
         \A c \in Control : st[c] # "deleted" => st'[c] # "deleted"
  PROVE  Sound(stack)'
<1>. SUFFICES ASSUME NEW j \in 1 .. Depth'
              PROVE  /\ stack'[j].c # None => st'[stack'[j].c] # "deleted"
                     /\ stack'[j].n # None => st'[stack'[j].n] # "deleted"
  BY DEF Sound, Alive, Depth
<1>1. stack[j].c \in Ref /\ stack[j].n \in Ref /\ stack'[j] = stack[j] /\ j \in 1 .. Len(stack)
  BY FrameFacts DEF Depth
<1>. QED  BY <1>1 DEF Sound, Alive, Ref

(* The frames of WM_APP+1 stay where they are. *)
LEMMA FirstFrameKept ==
  ASSUME FirstFrame,
         \A j \in 1 .. Depth' :
           stack'[j].k \in {"loop", "drain"} => j \in 1 .. Depth /\ stack'[j] = stack[j]
  PROVE  FirstFrame'
BY DEF FirstFrame

LEMMA GuardedStep ==
  ASSUME Inv, Guarded, [Next]_vars
  PROVE  Guarded'
<1>. SUFFICES ASSUME ~Modal PROVE Sound(stack)' /\ FirstFrame'
  BY DEF Guarded
<1>1. /\ TypeOK /\ stack \in Seq(Frame) /\ Depth \in Nat /\ Sound(stack) /\ FirstFrame
      /\ st \in [Control -> State]
  BY LenProperties DEF Inv, TypeOK, Depth, Guarded
<1>2. TargetsAlive /\ RootLive /\ SendersAlive
  BY DEF Inv
<1>3. CASE Quiet
  <2>1. Sound(stack') /\ UNCHANGED st /\ stack' \in Seq(Frame) /\ Same(stack, stack')
    BY <1>2, <1>3 DEF Quiet
  <2>2. \A j \in 1 .. Depth' :
          stack'[j].k \in Special => j \in 1 .. Depth /\ stack'[j] = stack[j]
    BY <1>1, <2>1, SameSpecial DEF Depth
  <2>3. FirstFrame'
    BY <1>1, <2>2, FirstFrameKept DEF Special
  <2>. QED  BY <2>1, <2>3, SoundNext
<1>4. ASSUME NEW l \in Leaf, Remove(l)
      PROVE  Sound(stack)' /\ FirstFrame'
  <2>1. st' = [st EXCEPT ![l] = "delayed"] /\ UNCHANGED stack
    BY <1>4 DEF Remove, AddDelayedCleanup
  <2>2. \A c \in Control : st[c] # "deleted" => st'[c] # "deleted"
    BY <1>1, <2>1 DEF Control
  <2>3. Sound(stack)'
    BY <1>1, <2>1, <2>2, SoundAfterPop DEF Depth
  <2>. QED  BY <1>1, <2>1, <2>3 DEF FirstFrame, Depth
<1>5. CASE UNCHANGED <<st, stack>>
  BY <1>1, <1>5 DEF Sound, Alive, FirstFrame, Depth
<1>6. ASSUME NEW d \in Dialog, AttachDialog(d)
      PROVE  Sound(stack)' /\ FirstFrame'
  <2>. DEFINE f == On("attach", None, d)
              s == Append(stack, f)
  <2>1. st[d] = "new" /\ SetFocus(None, s) /\ UNCHANGED st
    BY <1>6 DEF AttachDialog
  <2>2. f \in Frame /\ f.k = "attach" /\ Alive(f.c) /\ Alive(f.n)
    BY <2>1, WaitFrame DEF Ref, Control, Aimed, Callback, Between, On, Alive
  <2>. HIDE DEF f
  <2>3. /\ s \in Seq(Frame) /\ Len(s) = Depth + 1
        /\ \A j \in 1 .. Depth : s[j] = stack[j]
        /\ s[Depth + 1] = f
    BY <1>1, <2>2, PushFrame DEF Depth
  <2>. HIDE DEF s
  <2>4. Sound(s)
    <3>. SUFFICES ASSUME NEW j \in 1 .. Depth + 1
                  PROVE  Alive(s[j].c) /\ Alive(s[j].n)
      BY <2>3 DEF Sound
    <3>1. CASE j \in 1 .. Depth
      BY <1>1, <2>3, <3>1 DEF Sound, Depth
    <3>2. CASE j = Depth + 1
      BY <2>2, <2>3, <3>2
    <3>. QED  BY <1>1, <3>1, <3>2
  <2>5. stack' \in Seq(Frame) /\ Same(s, stack') /\ Sound(stack')
    BY <1>1, <1>2, <2>1, <2>3, <2>4, SetFocusSteps DEF TargetsAlive, Alive, Ref
  <2>6. \A j \in 1 .. Depth' :
          stack'[j].k \in Special => j \in 1 .. Depth + 1 /\ stack'[j] = s[j]
    BY <1>1, <2>3, <2>5, LenProperties DEF Same, SpecialAt, Depth
  <2>7. \A j \in 1 .. Depth' :
          stack'[j].k \in {"loop", "drain"} => j \in 1 .. Depth /\ stack'[j] = stack[j]
    <3>. SUFFICES ASSUME NEW j \in 1 .. Depth', stack'[j].k \in {"loop", "drain"}
                  PROVE  j \in 1 .. Depth /\ stack'[j] = stack[j]
      OBVIOUS
    <3>1. j \in 1 .. Depth + 1 /\ stack'[j] = s[j]
      BY <2>6 DEF Special
    <3>2. j # Depth + 1
      BY <2>2, <2>3, <3>1
    <3>. QED  BY <1>1, <2>3, <3>1, <3>2
  <2>8. FirstFrame'
    BY <1>1, <2>7, FirstFrameKept
  <2>. QED  BY <2>1, <2>5, <2>8, SoundNext
<1>7. CASE ResumeAttach \/ EndOfDrain
  <2>1. /\ Depth > 0 /\ stack' = Below
        /\ \/ UNCHANGED st
           \/ /\ Top.n \in Dialog
              /\ \/ st' = [st EXCEPT ![Top.n] = "live"]
                 \/ /\ root # None
                    /\ st' = [st EXCEPT ![Top.n] = "live", ![root] = "delayed"]
    <3>1. CASE ResumeAttach
      BY <1>1, <3>1 DEF ResumeAttach, At, Inv, Attaching, Top
    <3>2. CASE EndOfDrain
      BY <3>2 DEF EndOfDrain, At
    <3>. QED  BY <1>7, <3>1, <3>2
  <2>2. /\ stack' \in Seq(Frame) /\ Depth' = Depth - 1
        /\ \A j \in 1 .. Depth - 1 : stack'[j] = stack[j]
    BY <1>1, <2>1, PopFrame DEF Below, Depth
  <2>3. \A c \in Control : st[c] # "deleted" => st'[c] # "deleted"
    BY <1>1, <2>1 DEF Control
  <2>4. \A j \in 1 .. Depth' : j \in 1 .. Depth /\ stack'[j] = stack[j]
    BY <1>1, <2>2
  <2>5. Depth' \in Nat
    BY <1>1, <2>1, <2>2
  <2>. QED  BY <1>1, <2>2, <2>3, <2>4, <2>5, SoundAfterPop, FirstFrameKept
<1>8. CASE AsyncMessage
  <2>. DEFINE f == LoopAt(1)
  <2>1. Depth = 0 /\ stack' = Append(stack, f) /\ UNCHANGED st
    BY <1>8 DEF AsyncMessage, Pumping
  <2>2. f \in Frame /\ f.c = None /\ f.n = None
    BY DEF LoopAt, Frame, Ref, Callback, Between, Aimed
  <2>. HIDE DEF f
  <2>3. /\ Depth' = 1 /\ stack'[1] = f
    BY <1>1, <2>1, <2>2, PushStructure
  <2>. QED  BY <2>2, <2>3 DEF Sound, Alive, FirstFrame, Depth
<1>9. CASE BeginDelete
  <2>1. /\ At("loop") /\ Top.i <= Len(cleanup) /\ UNCHANGED st
        /\ \E c \in Victims(cleanup[Top.i]) : stack' = Append(stack, On("destroy", c, None))
    BY <1>9 DEF BeginDelete
  <2>2. Depth \in 1 .. Depth /\ stack[Depth] = Top /\ Top.i \in 1 .. Len(cleanup)
    BY <1>1, <2>1, FrameFacts DEF At, Top, Inv, OneLoop
  <2>3. ~LoopPassed(Top.i)
    <3>1. \A l \in 1 .. Depth : stack[l].k = "loop" => stack[l].i = Top.i
      BY <2>1, <2>2 DEF Inv, OneLoop, At
    <3>2. ~(Top.i < Top.i)
      BY <2>2
    <3>. QED  BY <3>1, <3>2 DEF LoopPassed
  <2>4. st[cleanup[Top.i]] = "delayed" /\ cleanup[Top.i] \in Control
    BY <1>1, <2>2, <2>3, FrameFacts DEF Inv, EntriesPending
  <2>5. PICK c \in Victims(cleanup[Top.i]) : stack' = Append(stack, On("destroy", c, None))
    BY <2>1
  <2>6. c \in Control /\ st[c] # "deleted"
    BY <2>4, <2>5 DEF Victims, Items, Control
  <2>. DEFINE f == On("destroy", c, None)
  <2>7. f \in Frame /\ f.k = "destroy" /\ f.c = c /\ f.n = None
    BY <2>6, CallFrame DEF Aimed, Callback, Ref, On
  <2>. HIDE DEF f
  <2>8. stack' = Append(stack, f)
    BY <2>5 DEF f
  <2>9. /\ Depth' = Depth + 1 /\ \A j \in 1 .. Depth : stack'[j] = stack[j]
        /\ stack'[Depth + 1] = f
    BY <1>1, <2>7, <2>8, PushStructure
  <2>10. Sound(stack')
    <3>. SUFFICES ASSUME NEW j \in 1 .. Depth + 1
                  PROVE  Alive(stack'[j].c) /\ Alive(stack'[j].n)
      BY <2>9 DEF Sound, Depth
    <3>1. CASE j \in 1 .. Depth
      BY <1>1, <2>9, <3>1 DEF Sound, Depth
    <3>2. CASE j = Depth + 1
      BY <2>6, <2>7, <2>9, <3>2 DEF Alive
    <3>. QED  BY <1>1, <3>1, <3>2
  <2>11. FirstFrame'
    BY <1>1, <2>7, <2>9, FirstFrameKept
  <2>. QED  BY <2>1, <2>10, <2>11, SoundNext
<1>10. CASE EndOfLoop
  <2>1. /\ Depth > 0 /\ Top.k = "loop" /\ stack' = Append(Below, Drain) /\ UNCHANGED st
    BY <1>10 DEF EndOfLoop, At
  <2>2. Depth = 1
    BY <1>1, <2>1 DEF FirstFrame, Top
  <2>3. Drain \in Frame /\ Drain.c = None /\ Drain.n = None
    BY WaitFrame DEF Drain, On, Aimed, Callback, Between, Ref
  <2>4. Below \in Seq(Frame) /\ Len(Below) = 0
    BY <1>1, <2>1, <2>2, PopFrame DEF Below, Depth
  <2>5. Depth' = 1 /\ stack'[1] = Drain
    BY <2>1, <2>3, <2>4, PushFrame DEF Depth
  <2>. QED  BY <2>3, <2>5 DEF Sound, Alive, FirstFrame, Depth
<1>11. CASE Deliver
  <2>. DEFINE f == On("notify", Head(notify).sender, None)
  <2>1. notify # <<>> /\ UNCHANGED st /\ stack' = Append(stack, f) /\ notify \in Seq(Message)
    BY <1>1, <1>11 DEF Deliver, TypeOK
  <2>2. Head(notify).sender \in Ref /\ Alive(Head(notify).sender)
    BY <1>2, <2>1, TailMessages DEF Message, SendersAlive
  <2>3. f \in Frame /\ f.k = "notify" /\ Alive(f.c) /\ Alive(f.n)
    BY <2>2, WaitFrame DEF Callback, Between, Aimed, Ref, On, Alive
  <2>. HIDE DEF f
  <2>4. /\ Depth' = Depth + 1 /\ \A j \in 1 .. Depth : stack'[j] = stack[j]
        /\ stack'[Depth + 1] = f
    BY <1>1, <2>1, <2>3, PushStructure
  <2>5. Sound(stack')
    BY <1>1, <2>1, <2>3, PushSame DEF Special
  <2>6. FirstFrame'
    BY <1>1, <2>3, <2>4, FirstFrameKept
  <2>. QED  BY <2>1, <2>5, <2>6, SoundNext
<1>12. CASE ReturnDestroy /\ Intact /\ Depth > 0
  <2>1. /\ Depth >= 2 /\ Depth' = Depth - 1 /\ stack[Depth - 1].k = "loop"
    BY <1>12, DestroyStructure
  <2>2. Depth = 2
    BY <1>1, <2>1 DEF FirstFrame
  <2>3. /\ Below \in Seq(Frame) /\ Len(Below) = 1 /\ Below[1] = stack[1]
    BY <1>1, <2>2, PopFrame DEF Below, Depth
  <2>4. Below[1].c = None /\ Below[1].n = None
    BY <1>1, <2>1, <2>2, <2>3 DEF FirstFrame
  <2>5. stack'[1].c = None /\ stack'[1].n = None
    <3>. DEFINE f == LoopAt(stack[1].i + 1)
    <3>1. stack[1].i \in Nat
      BY <1>1, <2>2, FrameFacts
    <3>2. f \in Frame /\ f.c = None /\ f.n = None
      BY <3>1 DEF LoopAt, Frame, Ref, Callback, Between, Aimed
    <3>. HIDE DEF f
    <3>3. stack' = Below \/ stack' = [Below EXCEPT ![1] = f]
      BY <1>12, <2>2 DEF ReturnDestroy, f
    <3>. QED  BY <2>3, <2>4, <3>2, <3>3, ReplaceFrame
  <2>6. Depth' = 1
    BY <2>1, <2>2
  <2>. QED  BY <2>5, <2>6 DEF Sound, Alive, FirstFrame, Depth
<1>13. CASE UNCHANGED vars
  BY <1>5, <1>13 DEF vars
<1>14. ASSUME NEW c \in Control, SendNotify(c)
       PROVE  Sound(stack)' /\ FirstFrame'
  BY <1>5, <1>14 DEF SendNotify
<1>. QED
  BY <1>1, <1>3, <1>4, <1>6, <1>7, <1>8, <1>9, <1>10, <1>11, <1>12, <1>13, <1>14, StepKinds

(* "We'll delay the cleanup", for every tree, bound and nesting: without a modal loop     *)
(* inside a callback, no handler in progress ever holds a control that was deleted.       *)
THEOREM CallersKeep == Spec => [](~Modal => CallersKeepTheirControls)
<1>1. Init => Guarded
  BY DEF Init, Guarded, Sound, FirstFrame, Depth
<1>2. Inv /\ Guarded /\ [Next]_vars => Guarded'
  BY GuardedStep
<1>3. Guarded => (~Modal => CallersKeepTheirControls)
  BY IntactIsSound DEF Guarded, CallersKeepTheirControls
<1>. QED  BY <1>1, <1>2, <1>3, PaintInvariant, PTL DEF Spec
=============================================================================
