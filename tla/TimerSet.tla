------------------------------ MODULE TimerSet ------------------------------
(***************************************************************************)
(* What CPaintManagerUI promises of its timers: a set of armed pairs of a  *)
(* control and an identifier of that control.  An event is raised for an   *)
(* armed pair only, and a control that dies takes its pairs with it.       *)
(***************************************************************************)
CONSTANTS Control, Local, None

VARIABLES
  alive,      \* the controls that exist
  armed,      \* the pairs that asked for events and still do
  tick        \* the pair that this step raised UIEVENT_TIMER for, or None

vars == <<alive, armed, tick>>

Of(c) == {c} \X Local

Init == alive \subseteq Control /\ armed = {} /\ tick = None

Create(c) == alive' = alive \cup {c} /\ armed' = armed /\ tick' = None

Arm(k) ==
  /\ k \in (alive \X Local) \ armed
  /\ armed' = armed \cup {k} /\ tick' = None /\ alive' = alive

Disarm(k) == k \in armed /\ armed' = armed \ {k} /\ tick' = None /\ alive' = alive

Tick(k) == k \in armed /\ tick' = k /\ UNCHANGED <<alive, armed>>

Destroy(c) ==
  /\ c \in alive
  /\ alive' = alive \ {c} /\ armed' = armed \ Of(c) /\ tick' = None

Clear == armed' = {} /\ tick' = None /\ alive' = alive

Quiet == tick' = None /\ UNCHANGED <<alive, armed>>

Next ==
  \/ \E c \in Control : Create(c) \/ Destroy(c)
  \/ \E k \in Control \X Local : Arm(k) \/ Disarm(k) \/ Tick(k)
  \/ Clear \/ Quiet

Spec == Init /\ [][Next]_vars
=============================================================================
