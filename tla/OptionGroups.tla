----------------------------- MODULE OptionGroups -----------------------------
(***************************************************************************)
(* What the groups of CPaintManagerUI promise to the options in them, free *)
(* of the table, of the manager pointers and of the skin builder: choosing *)
(* an option takes the choice from every other option of its group, and    *)
(* from no option of another group; nothing else but the option itself     *)
(* takes it, and an option brings no choice into a group that it joins.    *)
(***************************************************************************)
CONSTANTS Option, Group, None  \* None is not a group

VARIABLES
  in,      \* [Option -> the group that the option is in, or None]
  chosen   \* the options that were chosen in their group and are so still

vars == <<in, chosen>>

Init == in = [c \in Option |-> None] /\ chosen = {}

(* An option joins a group, leaves it, or goes from one to another. *)
Move(c) ==
  /\ in'[c] # in[c] /\ in'[c] \in Group \cup {None}
  /\ in' = [in EXCEPT ![c] = in'[c]]
  /\ chosen' = chosen \ {c}

Choose(c) ==
  /\ c \notin chosen /\ in[c] # None
  /\ chosen' = {d \in chosen : in[d] # in[c]} \cup {c}
  /\ in' = in

Drop(c) ==
  /\ c \in chosen
  /\ chosen' = chosen \ {c}
  /\ in' = in

Next ==
  \E c \in Option : Move(c) \/ Choose(c) \/ Drop(c)

Spec == Init /\ [][Next]_vars
=============================================================================
