---------------------------- MODULE PaintManager ----------------------------
(***************************************************************************)
(* CPaintManagerUI: who receives a message, and when a control dies.       *)
(*                                                                         *)
(* One thread runs the window procedure, but every Event or notification   *)
(* runs application code, which may remove controls, replace the dialog,   *)
(* move the focus, send notifications or run a modal message loop before   *)
(* it returns to a handler that still has raw pointers in its locals.  The *)
(* C++ call stack is therefore part of the state: one frame for each       *)
(* handler in progress, the deepest last.                                  *)
(*                                                                         *)
(* A removed control is not deleted where it is removed: it joins          *)
(* m_aDelayedCleanup, and one posted WM_APP+1 message, announced by        *)
(* m_bAsyncNotifyPosted, deletes it and delivers m_aAsyncNotify.           *)
(***************************************************************************)
EXTENDS Naturals, Sequences

CONSTANTS
  Dialog,     \* the root containers that AttachDialog may be given
  Leaf,       \* the controls inside them
  Home,       \* [Leaf -> the dialog whose m_items has the leaf at first]
  None,       \* NULL
  Modal,      \* TRUE: application code may run a modal loop (CWindowWnd::ShowModal)
  Garbage,    \* what m_bAsyncNotifyPosted may hold at first: no constructor sets it
  MaxDepth,   \* bound: handlers in progress at once
  MaxNotify   \* bound: asynchronous notifications sent

Control == Dialog \cup Leaf
Ref == Control \cup {None}

ASSUME NoneAssumption == None \notin Control
ASSUME HomeAssumption == Home \in [Leaf -> Dialog] /\ Dialog \cap Leaf = {}
ASSUME FlagAssumption == Modal \in BOOLEAN /\ Garbage \subseteq BOOLEAN
ASSUME BoundAssumption == MaxDepth \in Nat /\ MaxNotify \in Nat

VARIABLES
  st,         \* [Control -> State]
  root,       \* m_pRoot
  hover,      \* m_pEventHover
  click,      \* m_pEventClick
  focus,      \* m_pFocus
  key,        \* m_pEventKey
  captured,   \* m_bMouseCapture
  cleanup,    \* m_aDelayedCleanup
  notify,     \* m_aAsyncNotify: the sender of each message and its number
  posted,     \* m_bAsyncNotifyPosted
  queued,     \* WM_APP+1 is in the message queue of the window
  stack,      \* the handlers in progress
  sent,       \* how many asynchronous notifications were sent ...
  delivered   \* ... and how many were delivered

targets == <<hover, click, focus, key>>
async == <<cleanup, notify, posted, queued, sent, delivered>>
vars == <<st, root, targets, captured, async, stack>>

(***************************************************************************)
(* Frames.  A handler is either inside application code, and goes on when  *)
(* that returns, or it is between two calls.                               *)
(***************************************************************************)
\* What a handler does when the Event or the notification it raised returns.
Callback == {"plain", "leave", "enter", "stick", "menu", "keydown", "keyup",
             "kill", "destroy", "notify"}
\* A handler that waits for a function it called, or is about to go on.
Between == {"down", "rdown", "close click", "close focus", "attach", "loop", "drain"}

State == {"new", "live", "delayed", "deleted"}
Message == [id : Nat, sender : Ref]
\* An event goes to a control; a notification may have lost its sender.
Aimed == (Callback \ {"notify"}) \cup {"down", "rdown"}

Frame == [k : Aimed, c : Control, n : Ref, i : Nat]
           \cup [k : (Callback \cup Between) \ Aimed, c : Ref, n : Ref, i : Nat]

\* The control the handler called into, and the other control it has in a local.
On(k, c, n) == [k |-> k, c |-> c, n |-> n, i |-> 0]
\* WM_APP+1 at the i-th entry of m_aDelayedCleanup.
LoopAt(i) == [k |-> "loop", c |-> None, n |-> None, i |-> i]
Drain == On("drain", None, None)

TypeOK ==
  /\ st \in [Control -> State]
  /\ root \in Dialog \cup {None}
  /\ hover \in Ref /\ click \in Ref /\ focus \in Ref /\ key \in Ref
  /\ captured \in BOOLEAN
  /\ cleanup \in Seq(Control)
  /\ notify \in Seq(Message)
  /\ posted \in BOOLEAN /\ queued \in BOOLEAN
  /\ stack \in Seq(Frame)
  /\ sent \in Nat /\ delivered \in Nat

Init ==
  /\ st = [c \in Control |-> IF c \in Dialog THEN "new" ELSE "live"]
  /\ root = None
  /\ hover = None /\ click = None /\ focus = None /\ key = None
  /\ captured = FALSE
  /\ cleanup = <<>> /\ notify = <<>>
  /\ posted \in Garbage
  /\ queued = FALSE
  /\ stack = <<>>
  /\ sent = 0 /\ delivered = 0

(***************************************************************************)
(* State functions.                                                        *)
(***************************************************************************)
Depth == Len(stack)
Top == stack[Depth]
Below == SubSeq(stack, 1, Depth - 1)
At(k) == Depth > 0 /\ Top.k = k

\* A handler still holds a control that was deleted under it: the next thing the process
\* does is undefined, and the model stops here.
Intact ==
  \A j \in 1 .. Depth :
    /\ stack[j].c # None => st[stack[j].c] # "deleted"
    /\ stack[j].n # None => st[stack[j].n] # "deleted"

InCallback == Depth > 0 /\ Top.k \in Callback

\* Application code is running: in a callback, or in a message that is not the manager's.
AppCode == Depth < MaxDepth /\ (Depth = 0 \/ InCallback) /\ Intact

\* The window's thread is in a message loop: the program's, or a modal one in a callback.
Pumping == Depth < MaxDepth /\ (Depth = 0 \/ (Modal /\ InCallback)) /\ Intact

\* Input reaches the window: a modal loop has disabled it.
Input == Depth = 0 /\ root # None

HomeOf(c) == IF c \in Leaf THEN Home[c] ELSE c

\* GetManager() == this: set when its dialog is attached, kept by AddDelayedCleanup.
Managed(c) == st[c] # "deleted" /\ st[HomeOf(c)] # "new"

\* A mutant: the handlers do not test what FindControl returned.
UntestedHits == {c \in Control : c = root \/ (st[c] = "live" /\ HomeOf(c) = root)} \cup {None}

\* What FindControl(pt) can return, NULL apart.
InTree == {c \in Control : c = root \/ (st[c] = "live" /\ HomeOf(c) = root)}

(***************************************************************************)
(* The two queues and the flag.                                            *)
(***************************************************************************)
PostAsyncNotify ==
  /\ posted' = TRUE
  /\ queued' = (queued \/ ~posted)

\* A mutant: Remove deletes at once.
DeleteNow(c) ==
  /\ st' = [st EXCEPT ![c] = "deleted"]
  /\ UNCHANGED <<cleanup, posted, queued>>

\* SetManager(this, NULL, false) keeps the manager: the control still receives events.
AddDelayedCleanup(c) ==
  /\ st' = [st EXCEPT ![c] = "delayed"]
  /\ cleanup' = Append(cleanup, c)
  /\ PostAsyncNotify

\* ReapObjects: every pointer of the manager that may name the dying control, and the
\* senders of the messages that wait.
Forget(p, c) == IF p = c THEN None ELSE p

\* Mutants: m_pEventHover or the waiting messages are forgotten.
ReapAllButHover(c) ==
  /\ hover' = hover
  /\ key' = Forget(key, c) /\ click' = Forget(click, c) /\ focus' = Forget(focus, c)
  /\ notify' = notify

ReapTargetsOnly(c) ==
  /\ key' = Forget(key, c) /\ hover' = Forget(hover, c)
  /\ click' = Forget(click, c) /\ focus' = Forget(focus, c)
  /\ notify' = notify

ReapObjects(c) ==
  /\ key' = Forget(key, c) /\ hover' = Forget(hover, c)
  /\ click' = Forget(click, c) /\ focus' = Forget(focus, c)
  /\ notify' = [j \in 1 .. Len(notify) |->
                 [id |-> notify[j].id, sender |-> Forget(notify[j].sender, c)]]

(***************************************************************************)
(* SetFocus(n) called from a handler whose frames are s.                   *)
(***************************************************************************)
\* The second half: the control takes the focus if it is visible and enabled, and its
\* SETFOCUS event and notification follow.
TakeFocus(n, s) ==
  \/ /\ n # None /\ Managed(n)
     /\ focus' = n
     /\ stack' = Append(s, On("plain", n, None))
  \/ /\ focus' = None
     /\ stack' = s

SetFocus(n, s) ==
  \/ /\ n = focus
     /\ focus' = focus /\ stack' = s
  \/ /\ n # focus /\ focus # None
     /\ focus' = focus /\ stack' = Append(s, On("kill", focus, n))
  \/ /\ n # focus /\ focus = None
     /\ TakeFocus(n, s)

(***************************************************************************)
(* What application code may do.                                           *)
(***************************************************************************)
\* CContainerUI::Remove with the default m_bAutoDestroy and m_bDelayedDestroy, on a
\* container that is not itself being deleted.
Remove(l) ==
  /\ st[l] = "live" /\ st[Home[l]] \in {"live", "delayed"}
  /\ AppCode
  /\ \A j \in 1 .. Depth : stack[j].k = "loop" => cleanup[stack[j].i] # Home[l]
  /\ AddDelayedCleanup(l)
  /\ UNCHANGED <<root, targets, captured, notify, stack, sent, delivered>>

\* SendNotify(..., bAsync = true).
SendNotify(c) ==
  /\ sent < MaxNotify /\ AppCode
  /\ Managed(c)
  /\ notify' = Append(notify, [id |-> sent + 1, sender |-> c])
  /\ sent' = sent + 1
  /\ PostAsyncNotify
  /\ UNCHANGED <<st, root, targets, captured, cleanup, stack, delivered>>

CallSetFocus(n) ==
  /\ AppCode
  /\ n # None => Managed(n)
  /\ SetFocus(n, stack)
  /\ UNCHANGED <<st, root, hover, click, key, captured, async>>

\* AttachDialog: SetFocus(NULL) first; ResumeAttach does the rest.
AttachDialog(d) ==
  /\ st[d] = "new"
  /\ AppCode
  /\ \A j \in 1 .. Depth : stack[j].n # d
  /\ SetFocus(None, Append(stack, On("attach", None, d)))
  /\ UNCHANGED <<st, root, hover, click, key, captured, async>>

ResumeAttach ==
  /\ At("attach") /\ Intact
  /\ LET d == Top.n IN
     /\ root' = d
     /\ IF root = None
        THEN /\ st' = [st EXCEPT ![d] = "live"]
             /\ UNCHANGED <<cleanup, posted, queued>>
        ELSE /\ st' = [st EXCEPT ![d] = "live", ![root] = "delayed"]
             /\ cleanup' = Append(cleanup, root)
             /\ PostAsyncNotify
  /\ key' = None /\ hover' = None /\ click' = None
  /\ stack' = Below
  /\ UNCHANGED <<focus, captured, notify, sent, delivered>>

(***************************************************************************)
(* Input messages.  hit is what FindControl returned for the position.     *)
(***************************************************************************)
\* The end of WM_MOUSEMOVE: the pressed control gets the event, or else the one under the
\* mouse.
RaiseMove(hit, s) ==
  stack' = IF click # None THEN Append(s, On("plain", click, None))
           ELSE IF hit # None THEN Append(s, On("plain", hit, None)) ELSE s

MouseMove(hit) ==
  /\ Input
  /\ IF captured \/ hit = hover THEN RaiseMove(hit, <<>>)
     ELSE stack' = IF hover # None THEN <<On("leave", hover, hit)>>
                                   ELSE <<On("enter", hit, hit)>>
  /\ UNCHANGED <<st, root, targets, captured, async>>

LButtonDown(hit) ==
  /\ Input
  /\ captured' = TRUE
  /\ click' = hit
  /\ SetFocus(hit, <<On("down", hit, None)>>)
  /\ UNCHANGED <<st, root, hover, key, async>>

LButtonDblClk(hit) ==
  /\ Input
  /\ captured' = TRUE
  /\ stack' = <<On("stick", hit, None)>>
  /\ UNCHANGED <<st, root, targets, async>>

LButtonUp ==
  /\ Input /\ click # None
  /\ captured' = FALSE
  /\ click' = None
  /\ stack' = <<On("plain", click, None)>>
  /\ UNCHANGED <<st, root, hover, focus, key, async>>

\* WM_RBUTTONDOWN and WM_MBUTTONDOWN.
RButtonDown(hit) ==
  /\ Input
  /\ SetFocus(hit, <<On("rdown", hit, None)>>)
  /\ UNCHANGED <<st, root, hover, click, key, captured, async>>

\* WM_RBUTTONUP and WM_MBUTTONUP: nothing under the mouse leaves the mouse captured.
RButtonUp(hit) ==
  /\ Input
  /\ click' = hit
  /\ IF hit = None
     THEN UNCHANGED <<captured, stack>>
     ELSE /\ captured' = FALSE
          /\ stack' = <<On("plain", hit, None)>>
  /\ UNCHANGED <<st, root, hover, focus, key, async>>

ContextMenu ==
  /\ Input /\ click # None
  /\ captured' = FALSE
  /\ stack' = <<On("menu", click, None)>>
  /\ UNCHANGED <<st, root, targets, async>>

KeyDown ==
  /\ Input /\ focus # None
  /\ stack' = <<On("keydown", focus, None)>>
  /\ UNCHANGED <<st, root, targets, captured, async>>

KeyUp ==
  /\ Input /\ key # None
  /\ stack' = <<On("keyup", key, None)>>
  /\ UNCHANGED <<st, root, targets, captured, async>>

\* WM_MOUSEHOVER: the event goes to m_pEventHover, the tool tip is then read from hit.
MouseHover(hit) ==
  /\ Input
  /\ stack' = IF hover # None THEN <<On("plain", hover, hit)>> ELSE <<>>
  /\ UNCHANGED <<st, root, targets, captured, async>>

\* WM_CHAR, WM_SETFOCUS and WM_MOUSEWHEEL: one event and nothing after it.
PlainEvent(c) ==
  /\ Input
  /\ c \in InTree \cup ({focus} \ {None})
  /\ stack' = <<On("plain", c, None)>>
  /\ UNCHANGED <<st, root, targets, captured, async>>

\* WM_CLOSE: MOUSELEAVE, BUTTONUP and SetFocus(NULL), one after the other.
Close ==
  /\ Input
  /\ LET base == <<On("close click", None, None)>> IN
     stack' = IF hover # None THEN Append(base, On("plain", hover, None)) ELSE base
  /\ UNCHANGED <<st, root, targets, captured, async>>

KillFocus ==
  /\ captured /\ Pumping
  /\ captured' = FALSE
  /\ UNCHANGED <<st, root, targets, async, stack>>

(***************************************************************************)
(* The handlers between two calls.                                         *)
(***************************************************************************)
ResumeDown ==
  /\ At("down") /\ Intact
  /\ stack' = Append(Below, On("plain", Top.c, None))
  /\ UNCHANGED <<st, root, targets, captured, async>>

ResumeRDown ==
  /\ At("rdown") /\ Intact
  /\ captured' = TRUE
  /\ stack' = Append(Below, On("stick", Top.c, None))
  /\ UNCHANGED <<st, root, targets, async>>

ResumeCloseClick ==
  /\ At("close click") /\ Intact
  /\ LET base == Append(Below, On("close focus", None, None)) IN
     stack' = IF click # None THEN Append(base, On("plain", click, None)) ELSE base
  /\ UNCHANGED <<st, root, targets, captured, async>>

ResumeCloseFocus ==
  /\ At("close focus") /\ Intact
  /\ SetFocus(None, Below)
  /\ UNCHANGED <<st, root, hover, click, key, captured, async>>

(***************************************************************************)
(* WM_APP+1.                                                               *)
(***************************************************************************)
\* A mutant: the flag is reset before the entries are deleted.
EagerAsyncMessage ==
  /\ queued /\ Pumping
  /\ queued' = FALSE /\ posted' = FALSE
  /\ stack' = Append(stack, LoopAt(1))
  /\ UNCHANGED <<st, root, targets, captured, cleanup, notify, sent, delivered>>

AsyncMessage ==
  /\ queued /\ Pumping
  /\ queued' = FALSE
  /\ stack' = Append(stack, LoopAt(1))
  /\ UNCHANGED <<st, root, targets, captured, cleanup, notify, posted, sent, delivered>>

\* The delete of one entry: ~CContainerUI deletes the items first; each destructor calls
\* OnDestroy before ReapObjects.
Items(d) == {l \in Leaf : Home[l] = d /\ st[l] = "live"}

\* A mutant: the items are left to themselves.
ContainerOnly(c) == {c}

Victims(c) == IF Items(c) # {} THEN Items(c) ELSE {c}

BeginDelete ==
  /\ At("loop") /\ Intact /\ Top.i <= Len(cleanup)
  /\ \E c \in Victims(cleanup[Top.i]) : stack' = Append(stack, On("destroy", c, None))
  /\ UNCHANGED <<st, root, targets, captured, async>>

\* Mutants: the flag is never reset; the handler stops after the deletions.
FlagStaysSet ==
  /\ At("loop") /\ Intact /\ Top.i > Len(cleanup)
  /\ cleanup' = <<>>
  /\ stack' = Append(Below, Drain)
  /\ UNCHANGED <<st, root, targets, captured, notify, posted, queued, sent, delivered>>

NoDrain ==
  /\ At("loop") /\ Intact /\ Top.i > Len(cleanup)
  /\ cleanup' = <<>>
  /\ posted' = FALSE
  /\ stack' = Below
  /\ UNCHANGED <<st, root, targets, captured, notify, queued, sent, delivered>>

\* m_aDelayedCleanup.Empty(); m_bAsyncNotifyPosted = false.
EndOfLoop ==
  /\ At("loop") /\ Intact /\ Top.i > Len(cleanup)
  /\ cleanup' = <<>>
  /\ posted' = FALSE
  /\ stack' = Append(Below, Drain)
  /\ UNCHANGED <<st, root, targets, captured, notify, queued, sent, delivered>>

\* A mutant: the last message is taken.
DeliverLast ==
  /\ At("drain") /\ Intact /\ notify # <<>>
  /\ notify' = SubSeq(notify, 1, Len(notify) - 1)
  /\ delivered' = notify[Len(notify)].id
  /\ stack' = Append(stack, On("notify", notify[Len(notify)].sender, None))
  /\ UNCHANGED <<st, root, targets, captured, cleanup, posted, queued, sent>>

\* The message leaves the queue before the listeners see it.
Deliver ==
  /\ At("drain") /\ Intact /\ notify # <<>>
  /\ notify' = Tail(notify)
  /\ delivered' = Head(notify).id
  /\ stack' = Append(stack, On("notify", Head(notify).sender, None))
  /\ UNCHANGED <<st, root, targets, captured, cleanup, posted, queued, sent>>

EndOfDrain ==
  /\ At("drain") /\ Intact /\ notify = <<>>
  /\ stack' = Below
  /\ UNCHANGED <<st, root, targets, captured, async>>

(***************************************************************************)
(* Application code returns to the handler that called it.                 *)
(***************************************************************************)
ReturnPlain ==
  /\ Top.k \in {"plain", "notify"}
  /\ stack' = Below
  /\ UNCHANGED <<st, root, targets, captured, async>>

\* m_pEventHover = NULL, then MOUSEENTER to the control under the mouse.
ReturnLeave ==
  /\ Top.k = "leave"
  /\ hover' = None
  /\ IF Top.n # None THEN stack' = Append(Below, On("enter", Top.n, Top.n))
                     ELSE RaiseMove(None, Below)
  /\ UNCHANGED <<st, root, click, focus, key, captured, async>>

\* m_pEventHover = pNewHover only now.
ReturnEnter ==
  /\ Top.k = "enter"
  /\ hover' = Top.n
  /\ RaiseMove(Top.n, Below)
  /\ UNCHANGED <<st, root, click, focus, key, captured, async>>

\* WM_LBUTTONDBLCLK, WM_RBUTTONDOWN and WM_MBUTTONDOWN set m_pEventClick after the event,
\* WM_CONTEXTMENU clears it.
ReturnClick ==
  /\ Top.k \in {"stick", "menu"}
  /\ click' = IF Top.k = "stick" THEN Top.c ELSE None
  /\ stack' = Below
  /\ UNCHANGED <<st, root, hover, focus, key, captured, async>>

ReturnKey ==
  /\ Top.k \in {"keydown", "keyup"}
  /\ key' = IF Top.k = "keydown" THEN focus ELSE None
  /\ stack' = Below
  /\ UNCHANGED <<st, root, hover, click, focus, captured, async>>

\* KILLFOCUS is over: m_pFocus = NULL whatever the listeners did, then the new control.
ReturnKill ==
  /\ Top.k = "kill"
  /\ TakeFocus(Top.n, Below)
  /\ UNCHANGED <<st, root, hover, click, key, captured, async>>

\* OnDestroy is over: ReapObjects, and the memory is gone.  The loop goes on to the next
\* entry when the entry itself was deleted.
ReturnDestroy ==
  /\ Top.k = "destroy"
  /\ st' = [st EXCEPT ![Top.c] = "deleted"]
  /\ ReapObjects(Top.c)
  /\ LET i == stack[Depth - 1].i IN
     stack' = IF cleanup[i] = Top.c
              THEN [Below EXCEPT ![Depth - 1] = LoopAt(i + 1)]
              ELSE Below
  /\ UNCHANGED <<root, captured, cleanup, posted, queued, sent, delivered>>

Return ==
  /\ InCallback /\ Intact
  /\ \/ ReturnPlain \/ ReturnLeave \/ ReturnEnter \/ ReturnClick \/ ReturnKey
     \/ ReturnKill \/ ReturnDestroy

(***************************************************************************)
App ==
  \/ \E l \in Leaf : Remove(l)
  \/ \E c \in Control : SendNotify(c)
  \/ \E n \in Ref : CallSetFocus(n)
  \/ \E d \in Dialog : AttachDialog(d)

InputMessage ==
  \/ \E hit \in InTree : LButtonDown(hit) \/ LButtonDblClk(hit) \/ RButtonDown(hit)
                         \/ MouseHover(hit)
  \/ \E hit \in InTree \cup {None} : MouseMove(hit) \/ RButtonUp(hit)
  \/ \E c \in Control : PlainEvent(c)
  \/ LButtonUp \/ ContextMenu \/ KeyDown \/ KeyUp \/ Close

Resume ==
  \/ ResumeAttach \/ ResumeDown \/ ResumeRDown \/ ResumeCloseClick \/ ResumeCloseFocus
  \/ BeginDelete \/ EndOfLoop \/ Deliver \/ EndOfDrain

Next == App \/ InputMessage \/ KillFocus \/ AsyncMessage \/ Resume \/ Return

Spec == Init /\ [][Next]_vars

\* Application callbacks return, each at its own depth, however often the code they call
\* calls back (strong fairness); the handlers go on; the message loop takes a posted message
\* before it looks for input, so WM_APP+1 is not passed over for ever.
Fairness ==
  /\ WF_vars(Resume)
  /\ \A d \in 1 .. MaxDepth + 2 : SF_vars(Return /\ Depth = d)
  /\ SF_vars(AsyncMessage)

FairSpec == Spec /\ Fairness

(***************************************************************************)
(* Safety.                                                                 *)
(***************************************************************************)
\* AttachDialog, UIManager.cpp: "We might have gotten inside this function as a result of an
\* event fired or similar, so we cannot just delete the objects and pull the internal memory
\* of the calling code. We'll delay the cleanup."  No handler in progress, at whatever depth,
\* holds a control that was deleted under it.  It is true as long as no callback runs a
\* modal loop.
CallersKeepTheirControls == Intact

\* What the manager remembers between messages is never a deleted control, whatever order
\* removals, focus changes and late assignments after an event come in: ReapObjects runs
\* after the last callback of the dying control, and a pointer assigned after an event comes
\* from a frame whose control was kept.
RememberedControlsExist ==
  /\ \A p \in {hover, click, focus, key} : p # None => st[p] # "deleted"
  /\ \A j \in 1 .. Len(notify) :
       notify[j].sender # None => st[notify[j].sender] # "deleted"

Cleaning == \E j \in 1 .. Depth : stack[j].k = "loop"
Draining == \E j \in 1 .. Depth : stack[j].k = "drain"

\* No lost wakeup: what waits to be deleted or delivered has a WM_APP+1 in the message queue
\* or a handler in progress that will get to it, also when it was queued from an OnDestroy,
\* from a listener or from a modal loop.  It needs m_bAsyncNotifyPosted to start FALSE.
NothingIsStranded ==
  Garbage = {FALSE} =>
    /\ cleanup # <<>> => queued \/ Cleaning
    /\ notify # <<>> => queued \/ Cleaning \/ Draining

\* The flag keeps a modal loop inside OnDestroy from starting a second cleanup over the same
\* entries: no control is deleted twice.
NoControlDiesTwice ==
  /\ \A j, k \in 1 .. Depth : stack[j].k = "loop" /\ stack[k].k = "loop" => j = k
  /\ \A j, k \in 1 .. Len(cleanup) : cleanup[j] = cleanup[k] => j = k
  /\ \A j \in 1 .. Depth : stack[j].k = "destroy" => st[stack[j].c] # "deleted"

\* Asynchronous notifications are delivered exactly once and in the order they were sent,
\* although listeners send more and modal loops drain the queue inside a delivery.
DeliveredInOrder ==
  /\ delivered + Len(notify) = sent
  /\ \A j \in 1 .. Len(notify) : notify[j].id = delivered + j

\* The entry of m_aDelayedCleanup that the loop of WM_APP+1 is at.
Position ==
  IF Cleaning THEN stack[CHOOSE j \in 1 .. Depth : stack[j].k = "loop"].i ELSE 1

Unmoved == {c \in Control : st[c] \in {"new", "live"}}
Pending == SubSeq(cleanup, Position, Len(cleanup))
Senders == [j \in 1 .. Len(notify) |-> notify[j].sender]

\* What the manager promises of removals and asynchronous notifications, with WM_APP+1, its
\* flag, its nested loops and the call stack hidden: they behave as DelayedWork.
Delayed == INSTANCE DelayedWork
             WITH kept <- Unmoved, doomed <- Pending, box <- Senders, got <- delivered

ImplementsDelayedWork == Delayed!Spec

(***************************************************************************)
(* Liveness.                                                               *)
(***************************************************************************)
\* "We'll delay the cleanup": a removed control is deleted in the end.
RemovedIsDeleted == \A c \in Control : st[c] = "delayed" ~> st[c] = "deleted"

\* An asynchronous notification is delivered in the end.
SentIsDelivered == \A m \in 1 .. MaxNotify : sent >= m ~> delivered >= m
=============================================================================
