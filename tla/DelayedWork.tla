----------------------------- MODULE DelayedWork -----------------------------
(***************************************************************************)
(* What CPaintManagerUI promises of the work it puts off, free of the      *)
(* posted message, its flag, the loops of its handler and the call stack.  *)
(*                                                                         *)
(* A control that leaves the tree is deleted later: in the order of the    *)
(* removals, a container after what is still in it, nothing twice.  A      *)
(* notification is delivered later: in the order of the calls, once, and   *)
(* from its own sender, or from nobody if the sender died meanwhile.       *)
(***************************************************************************)
EXTENDS Naturals, Sequences

CONSTANTS
  Dialog, Leaf,  \* the containers and the controls in them
  Home,          \* [Leaf -> the container that a leaf is in]
  None           \* no sender

VARIABLES
  kept,    \* the controls that were not removed
  doomed,  \* those that were and exist still, in the order of their removal
  box,     \* the senders of the notifications that wait, the first one first
  got      \* how many notifications were delivered

vars == <<kept, doomed, box, got>>

Control == Dialog \cup Leaf

Exists(c) == c \in kept \/ \E j \in 1 .. Len(doomed) : doomed[j] = c

Parts(d) == {l \in Leaf \cap kept : Home[l] = d}

Init == kept = Control /\ doomed = <<>> /\ box = <<>> /\ got = 0

Doom(c) ==
  /\ c \in kept
  /\ kept' = kept \ {c}
  /\ doomed' = Append(doomed, c)
  /\ UNCHANGED <<box, got>>

(* A control ends: its notifications lose their sender in the same step. *)
End(c) ==
  /\ box' = [j \in 1 .. Len(box) |-> IF box[j] = c THEN None ELSE box[j]]
  /\ got' = got

EndPart(c) ==
  /\ doomed # <<>> /\ c \in Parts(Head(doomed))
  /\ kept' = kept \ {c} /\ doomed' = doomed
  /\ End(c)

EndDoomed(c) ==
  /\ doomed # <<>> /\ c = Head(doomed) /\ Parts(c) = {}
  /\ doomed' = Tail(doomed) /\ kept' = kept
  /\ End(c)

Send(c) ==
  /\ Exists(c)
  /\ box' = Append(box, c)
  /\ UNCHANGED <<kept, doomed, got>>

Deliver ==
  /\ box # <<>>
  /\ box' = Tail(box) /\ got' = got + 1
  /\ UNCHANGED <<kept, doomed>>

Next == Deliver \/ \E c \in Control : Doom(c) \/ EndPart(c) \/ EndDoomed(c) \/ Send(c)

Spec == Init /\ [][Next]_vars
=============================================================================
