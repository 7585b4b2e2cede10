------------------------- MODULE PaintQueues_proofs -------------------------
(***************************************************************************)
(* Proofs about the two queues of PaintManager: what is queued is in order *)
(* and is not left behind.  They start from the invariant Inv.             *)
(***************************************************************************)
EXTENDS PaintManager_proofs

(***************************************************************************)
(* Order of delivery.                                                      *)
(***************************************************************************)
LEMMA AppendMessage ==
  ASSUME notify \in Seq(Message), NEW m \in Message
  PROVE  /\ Len(notify) \in Nat /\ Len(Append(notify, m)) = Len(notify) + 1
         /\ \A j \in 1 .. Len(notify) : Append(notify, m)[j] = notify[j]
         /\ Append(notify, m)[Len(notify) + 1] = m
OBVIOUS

LEMMA OrderStep ==
  ASSUME Inv, DeliveredInOrder, [Next]_vars
  PROVE  DeliveredInOrder'
<1>1. /\ TypeOK /\ notify \in Seq(Message) /\ sent \in Nat /\ delivered \in Nat
      /\ Len(notify) \in Nat
  BY LenProperties DEF Inv, TypeOK
<1>2. CASE UNCHANGED <<notify, sent, delivered>>
  BY <1>2 DEF DeliveredInOrder
<1>3. ASSUME NEW c \in Control, SendNotify(c)
      PROVE  DeliveredInOrder'
  <2>. DEFINE m == [id |-> sent + 1, sender |-> c]
  <2>1. /\ notify' = Append(notify, m) /\ sent' = sent + 1 /\ delivered' = delivered
    BY <1>3 DEF SendNotify
  <2>2. m \in Message /\ m.id = sent + 1
    BY <1>1 DEF Message, Ref
  <2>. HIDE DEF m
  <2>3. /\ Len(notify') = Len(notify) + 1
        /\ \A j \in 1 .. Len(notify) : notify'[j] = notify[j]
        /\ notify'[Len(notify) + 1] = m
    BY <1>1, <2>1, <2>2, AppendMessage
  <2>4. \A j \in 1 .. Len(notify') : notify'[j].id = delivered' + j
    <3>. SUFFICES ASSUME NEW j \in 1 .. Len(notify')
                  PROVE  notify'[j].id = delivered' + j
      OBVIOUS
    <3>1. CASE j \in 1 .. Len(notify)
      BY <2>1, <2>3, <3>1 DEF DeliveredInOrder
    <3>2. CASE j = Len(notify) + 1
      <4>1. delivered + Len(notify) = sent
        BY DEF DeliveredInOrder
      <4>2. notify'[j].id = sent + 1
        BY <2>2, <2>3, <3>2
      <4>. QED  BY <1>1, <2>1, <3>2, <4>1, <4>2
    <3>. QED  BY <1>1, <2>3, <3>1, <3>2
  <2>. QED  BY <1>1, <2>1, <2>3, <2>4 DEF DeliveredInOrder
<1>4. CASE Deliver
  <2>1. /\ notify # <<>> /\ notify' = Tail(notify) /\ delivered' = Head(notify).id
        /\ sent' = sent
    BY <1>4 DEF Deliver
  <2>2. /\ Len(notify) >= 1 /\ Head(notify) = notify[1]
        /\ Len(notify') = Len(notify) - 1
        /\ \A j \in 1 .. Len(notify) - 1 : notify'[j] = notify[j + 1]
    BY <1>1, <2>1, TailMessages
  <2>3. delivered' = delivered + 1
    BY <1>1, <2>1, <2>2 DEF DeliveredInOrder
  <2>4. ASSUME NEW j \in 1 .. Len(notify')
        PROVE  notify'[j].id = delivered' + j
    <3>1. j + 1 \in 1 .. Len(notify) /\ notify'[j] = notify[j + 1]
      BY <1>1, <2>2
    <3>2. notify[j + 1].id = delivered + (j + 1)
      BY <3>1 DEF DeliveredInOrder
    <3>. QED  BY <1>1, <2>3, <3>1, <3>2
  <2>. QED  BY <1>1, <2>1, <2>2, <2>3, <2>4 DEF DeliveredInOrder
<1>5. CASE ReturnDestroy
  <2>1. /\ notify' = [j \in 1 .. Len(notify) |->
                       [id |-> notify[j].id, sender |-> Forget(notify[j].sender, Top.c)]]
        /\ UNCHANGED <<sent, delivered>>
    BY <1>5 DEF ReturnDestroy, ReapObjects
  <2>2. /\ Len(notify') = Len(notify)
        /\ \A j \in 1 .. Len(notify) : notify'[j].id = notify[j].id
    BY <1>1, <2>1
  <2>. QED  BY <2>1, <2>2 DEF DeliveredInOrder
<1>6. CASE Quiet
  BY <1>2, <1>6 DEF Quiet, async
<1>7. CASE \/ \E l \in Leaf : Remove(l)
           \/ \E d \in Dialog : AttachDialog(d)
           \/ ResumeAttach \/ AsyncMessage \/ BeginDelete \/ EndOfLoop \/ EndOfDrain
  BY <1>2, <1>7 DEF Remove, AttachDialog, ResumeAttach, AsyncMessage, BeginDelete,
     EndOfLoop, EndOfDrain, async
<1>8. CASE UNCHANGED vars
  BY <1>2, <1>8 DEF vars, async
<1>. QED  BY <1>1, <1>3, <1>4, <1>5, <1>6, <1>7, <1>8, StepKinds

(* Asynchronous notifications leave m_aAsyncNotify in the order SendNotify put them in,   *)
(* each once, whatever listeners send, destroy or pump during a delivery.                 *)
THEOREM NotificationsInOrder == Spec => []DeliveredInOrder
<1>1. Init => DeliveredInOrder
  BY DEF Init, DeliveredInOrder
<1>2. Inv /\ DeliveredInOrder /\ [Next]_vars => DeliveredInOrder'
  BY OrderStep
<1>. QED  BY <1>1, <1>2, PaintInvariant, PTL DEF Spec

(***************************************************************************)
(* No lost wakeup.                                                         *)
(***************************************************************************)
Awake ==
  Garbage = {FALSE} =>
    /\ posted => queued \/ Cleaning
    /\ cleanup # <<>> => posted
    /\ notify # <<>> => posted \/ Draining

(* Steps that leave the two queues alone and finish neither WM_APP+1 loop keep Awake. *)
LEMMA KeepAwake ==
  ASSUME Awake, UNCHANGED <<cleanup, notify, posted, queued>>,
         Cleaning => Cleaning', Draining => Draining'
  PROVE  Awake'
BY DEF Awake

(* So do steps that call PostAsyncNotify. *)
LEMMA PostKeepsAwake ==
  ASSUME Awake, PostAsyncNotify, Cleaning => Cleaning'
  PROVE  Awake'
BY DEF Awake, PostAsyncNotify

LEMMA PushKeepsLoops ==
  ASSUME TypeOK, NEW f \in Frame, stack' = Append(stack, f)
  PROVE  (Cleaning => Cleaning') /\ (Draining => Draining')
<1>1. /\ Depth \in Nat /\ Depth' = Depth + 1
      /\ \A j \in 1 .. Depth : stack'[j] = stack[j]
  BY PushStructure
<1>2. \A j \in 1 .. Depth : j \in 1 .. Depth' /\ stack'[j] = stack[j]
  BY ONLY <1>1
<1>. QED  BY <1>2 DEF Cleaning, Draining

LEMMA SameKeepsLoops ==
  ASSUME stack \in Seq(Frame), stack' \in Seq(Frame), NEW s, Same(s, stack'),
         \A j \in 1 .. Depth : SpecialAt(stack, j) => SpecialAt(s, j) /\ s[j] = stack[j]
  PROVE  (Cleaning => Cleaning') /\ (Draining => Draining')
<1>1. \A j \in 1 .. Depth : stack[j].k \in Special => j \in 1 .. Depth' /\ stack'[j] = stack[j]
  BY LenProperties DEF Same, SpecialAt, Depth
<1>2. "loop" \in Special /\ "drain" \in Special
  BY DEF Special
<1>. QED  BY <1>1, <1>2 DEF Cleaning, Draining

LEMMA AwakeStep ==
  ASSUME Inv, Awake, [Next]_vars
  PROVE  Awake'
<1>1. /\ TypeOK /\ stack \in Seq(Frame) /\ notify \in Seq(Message) /\ Depth \in Nat
  BY LenProperties DEF Inv, TypeOK, Depth
<1>2. CASE Quiet
  <2>1. (Cleaning => Cleaning') /\ (Draining => Draining')
    BY <1>1, <1>2, SameKeepsLoops DEF Quiet, SpecialAt
  <2>. QED  BY <1>2, <2>1, KeepAwake DEF Quiet, async
<1>3. ASSUME NEW l \in Leaf, Remove(l)
      PROVE  Awake'
  BY <1>3, PostKeepsAwake DEF Remove, AddDelayedCleanup, Cleaning, Depth
<1>4. ASSUME NEW c \in Control, SendNotify(c)
      PROVE  Awake'
  BY <1>4, PostKeepsAwake DEF SendNotify, Cleaning, Depth
<1>5. ASSUME NEW d \in Dialog, AttachDialog(d)
      PROVE  Awake'
  <2>. DEFINE f == On("attach", None, d)
              s == Append(stack, f)
  <2>1. SetFocus(None, s) /\ UNCHANGED async
    BY <1>5 DEF AttachDialog
  <2>2. f \in Frame
    BY WaitFrame DEF Ref, Control, Aimed, Callback, Between
  <2>. HIDE DEF f
  <2>3. /\ s \in Seq(Frame) /\ Len(s) = Depth + 1
        /\ \A j \in 1 .. Depth : s[j] = stack[j]
    BY <1>1, <2>2, PushFrame DEF Depth
  <2>. HIDE DEF s
  <2>4. stack' \in Seq(Frame) /\ Same(s, stack')
    BY <1>1, <2>1, <2>3, SetFocusSteps DEF Ref
  <2>5. \A j \in 1 .. Depth : SpecialAt(stack, j) => SpecialAt(s, j) /\ s[j] = stack[j]
    BY <1>1, <2>3 DEF SpecialAt
  <2>6. (Cleaning => Cleaning') /\ (Draining => Draining')
    BY <1>1, <2>4, <2>5, SameKeepsLoops
  <2>. QED  BY <2>1, <2>6, KeepAwake DEF async
<1>6. CASE ResumeAttach
  <2>1. /\ Depth > 0 /\ Top.k = "attach" /\ stack' = Below /\ notify' = notify
        /\ \/ UNCHANGED <<cleanup, posted, queued>>
           \/ PostAsyncNotify
    BY <1>6 DEF ResumeAttach, At
  <2>2. /\ Depth' = Depth - 1 /\ \A j \in 1 .. Depth - 1 : stack'[j] = stack[j]
    BY <1>1, <2>1, PopFrame DEF Below, Depth
  <2>3. (Cleaning => Cleaning') /\ (Draining => Draining')
    BY <1>1, <2>1, <2>2 DEF Cleaning, Draining, Top
  <2>. QED  BY <2>1, <2>3, KeepAwake, PostKeepsAwake
<1>7. CASE AsyncMessage
  <2>1. LoopAt(1) \in Frame /\ LoopAt(1).k = "loop"
    BY DEF LoopAt, Frame, Ref, Callback, Between, Aimed
  <2>2. /\ stack' = Append(stack, LoopAt(1)) /\ UNCHANGED <<cleanup, notify, posted>>
    BY <1>7 DEF AsyncMessage
  <2>3. Cleaning' /\ (Draining => Draining')
    BY <1>1, <2>1, <2>2, PushStructure, PushKeepsLoops DEF Cleaning
  <2>. QED  BY <2>2, <2>3 DEF Awake
<1>8. CASE BeginDelete
  <2>1. /\ At("loop") /\ Top.i <= Len(cleanup) /\ UNCHANGED async
        /\ \E c \in Victims(cleanup[Top.i]) : stack' = Append(stack, On("destroy", c, None))
    BY <1>8 DEF BeginDelete
  <2>2. Top.i \in 1 .. Len(cleanup)
    BY <1>1, <2>1, FrameFacts DEF At, Top, Inv, OneLoop
  <2>3. Victims(cleanup[Top.i]) \subseteq Control
    BY <1>1, <2>2, FrameFacts DEF Victims, Items, Control
  <2>4. \A c \in Control : On("destroy", c, None) \in Frame
    BY CallFrame DEF Aimed, Callback, Ref
  <2>5. (Cleaning => Cleaning') /\ (Draining => Draining')
    BY <1>1, <2>1, <2>3, <2>4, PushKeepsLoops
  <2>. QED  BY <2>1, <2>5, KeepAwake DEF async
<1>9. CASE EndOfLoop
  <2>1. /\ Depth > 0 /\ cleanup' = <<>> /\ posted' = FALSE
        /\ stack' = Append(Below, Drain)
    BY <1>9 DEF EndOfLoop, At
  <2>2. Drain \in Frame /\ Drain.k = "drain"
    BY WaitFrame DEF Drain, On, Aimed, Callback, Between, Ref
  <2>3. Below \in Seq(Frame) /\ Len(Below) = Depth - 1
    BY <1>1, <2>1, PopFrame DEF Below, Depth
  <2>4. Draining'
    BY <1>1, <2>1, <2>2, <2>3, PushFrame DEF Draining, Depth
  <2>. QED  BY <2>1, <2>4 DEF Awake
<1>10. CASE Deliver
  <2>1. /\ At("drain") /\ notify # <<>> /\ UNCHANGED <<cleanup, posted, queued>>
        /\ stack' = Append(stack, On("notify", Head(notify).sender, None))
    BY <1>10 DEF Deliver
  <2>2. Head(notify).sender \in Ref
    BY <1>1, <2>1, TailMessages DEF Message
  <2>3. On("notify", Head(notify).sender, None) \in Frame
    BY <2>2, WaitFrame DEF Callback, Between, Aimed, Ref
  <2>4. (Cleaning => Cleaning') /\ (Draining => Draining')
    BY <1>1, <2>1, <2>3, PushKeepsLoops
  <2>5. Draining
    BY <1>1, <2>1 DEF At, Top, Draining
  <2>. QED  BY <2>1, <2>4, <2>5 DEF Awake
<1>11. CASE EndOfDrain
  <2>1. /\ Depth > 0 /\ Top.k = "drain" /\ notify = <<>> /\ stack' = Below /\ UNCHANGED async
    BY <1>11 DEF EndOfDrain, At
  <2>2. Cleaning => Cleaning'
    BY <1>1, <2>1, PopStructure DEF async
  <2>. QED  BY <2>1, <2>2 DEF Awake, async
<1>12. CASE ReturnDestroy /\ Intact /\ Depth > 0
  <2>1. /\ Depth >= 2 /\ Depth' = Depth - 1 /\ stack[Depth - 1].k = "loop"
        /\ stack'[Depth - 1].k = "loop"
        /\ \A j \in 1 .. Depth - 2 : stack'[j] = stack[j]
    BY <1>12, DestroyStructure
  <2>2. Top.k = "destroy" /\ UNCHANGED <<cleanup, posted, queued>> /\ ReapObjects(Top.c)
    BY <1>12 DEF ReturnDestroy
  <2>3. Cleaning'
    BY <1>1, <2>1 DEF Cleaning
  <2>4. Draining => Draining'
    <3>. SUFFICES ASSUME NEW j \in 1 .. Depth, stack[j].k = "drain" PROVE Draining'
      BY DEF Draining
    <3>1. j \in 1 .. Depth - 2
      BY <1>1, <2>1, <2>2 DEF Top
    <3>. QED  BY <1>1, <2>1, <3>1 DEF Draining
  <2>5. notify' # <<>> => notify # <<>>
    <3>1. notify' = [j \in 1 .. Len(notify) |->
                      [id |-> notify[j].id, sender |-> Forget(notify[j].sender, Top.c)]]
      BY <2>2 DEF ReapObjects
    <3>. QED  BY <1>1, <3>1
  <2>. QED  BY <2>2, <2>3, <2>4, <2>5 DEF Awake
<1>13. CASE UNCHANGED vars
  BY <1>13, KeepAwake DEF vars, async, Cleaning, Draining, Depth
<1>. QED
  BY <1>1, <1>2, <1>3, <1>4, <1>5, <1>6, <1>7, <1>8, <1>9, <1>10, <1>11, <1>12, <1>13,
     StepKinds

(* Nothing that waits in m_aDelayedCleanup or m_aAsyncNotify is forgotten: WM_APP+1 is in *)
(* the queue or is being handled, if the flag starts FALSE.                               *)
THEOREM NoLostWakeup == Spec => []NothingIsStranded
<1>1. Init => Awake
  BY DEF Init, Awake
<1>2. Inv /\ Awake /\ [Next]_vars => Awake'
  BY AwakeStep
<1>3. Awake => NothingIsStranded
  BY DEF Awake, NothingIsStranded
<1>. QED  BY <1>1, <1>2, <1>3, PaintInvariant, PTL DEF Spec
=============================================================================
