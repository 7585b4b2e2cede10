----------------------------- MODULE PaintTimers -----------------------------
(***************************************************************************)
(* CPaintManagerUI: the timers that controls share on one window.          *)
(*                                                                         *)
(* Each pair of a control and its own identifier has an entry in m_aTimers *)
(* with a Windows timer identifier taken from a counter modulo 0xF0.       *)
(* KillTimer keeps the entry, so that SetTimer can arm it again under the  *)
(* same Windows identifier; only the end of the control removes it.        *)
(* ::KillTimer does not take back a WM_TIMER that has elapsed already, and *)
(* the message names the Windows timer, not the pair that asked for it.    *)
(***************************************************************************)
EXTENDS Naturals

CONSTANTS
  Control,    \* addresses of controls: one may be used again
  Local,      \* the identifiers controls give to their timers
  None,       \* no pair
  Ids,        \* how many Windows identifiers there are: 0xF0
  Start,      \* m_uTimerID at first, modulo Ids: only its successors are used
  MaxMade     \* bound: Windows identifiers taken from the counter

Key == Control \X Local
Win == 0 .. Ids - 1

ASSUME IdsAssumption == Ids \in Nat \ {0} /\ Start \in Win
ASSUME NoneAssumption == None \notin Key
ASSUME MadeAssumption == MaxMade \in Nat

VARIABLES
  alive,      \* the controls that exist
  timers,     \* m_aTimers
  id,         \* m_uTimerID
  made,       \* how often the counter was advanced
  running,    \* [Win -> the pair that the Windows timer was last set for, or None]
  pending,    \* WM_TIMER messages that have elapsed and are not handled yet
  tick        \* the pair that this step raised UIEVENT_TIMER for, or None

vars == <<alive, timers, id, made, running, pending, tick>>

\* Entries are only appended and removed, so that their order in m_aTimers is the order of
\* the count "no" at which each was made.
Entry == [no : Nat, sender : Control, local : Local, win : Win, killed : BOOLEAN]

TypeOK ==
  /\ alive \subseteq Control
  /\ timers \subseteq Entry
  /\ id \in Win
  /\ made \in Nat
  /\ running \in [Win -> Key \cup {None}]
  /\ pending \subseteq [win : Win, by : Key]
  /\ tick \in Key \cup {None}

Init ==
  /\ alive = {}
  /\ timers = {}
  /\ id = Start
  /\ made = 0
  /\ running = [w \in Win |-> None]
  /\ pending = {}
  /\ tick = None

(***************************************************************************)
(* State functions.                                                        *)
(***************************************************************************)
KeyOf(e) == <<e.sender, e.local>>
Armed == {e \in timers : ~e.killed}
ArmedKeys == {KeyOf(e) : e \in Armed}

\* The loops of SetTimer and KillTimer take the first entry that matches.
First(e, S) == e \in S /\ \A f \in S : e.no <= f.no
\* Mutant of Matching: a killed entry is not found again.
MatchingArmed(k) == {e \in Armed : KeyOf(e) = k}
Matching(k) == {e \in timers : KeyOf(e) = k}

\* Mutant of Hits: bKilled is not tested.
HitsKilled(w) == {e \in timers : e.win = w}
\* The entries a WM_TIMER may be for; the handler stops at the first.
Hits(w) == {e \in timers : e.win = w /\ ~e.killed}

\* Mutants of NextId: no modulo; the lowest identifier that no entry has.
NextIdUnbounded == id + 1
LowestFree == CHOOSE w \in Win : \A v \in Win :
                /\ \A e \in timers : e.win # w
                /\ (v < w => \E e \in timers : e.win = v)
\* Mutant of NextId: the counter is not advanced.
SameId == id
NextId == (id + 1) % Ids

\* Mutant of Stop: the Windows timer goes on.
StopNothing(S) == running
\* ::SetTimer for a pair, and ::KillTimer for the entries of S that are not killed.
Set(w, k) == [running EXCEPT ![w] = k]
Stop(S) == [w \in Win |-> IF \E e \in S : e.win = w /\ ~e.killed THEN None ELSE running[w]]

\* Set the flag bKilled of an entry.
Mark(e, b) == (timers \ {e}) \cup {[e EXCEPT !.killed = b]}

(***************************************************************************)
(* The calls of controls: any code on the thread of the window.            *)
(***************************************************************************)
\* new, perhaps at the address of a control that is gone
Create(c) ==
  /\ c \notin alive
  /\ alive' = alive \cup {c}
  /\ tick' = None
  /\ UNCHANGED <<timers, id, made, running, pending>>

\* SetTimer without an entry: the counter is advanced also when ::SetTimer fails.
AddTimer(k) ==
  /\ k[1] \in alive
  /\ Matching(k) = {}
  /\ made < MaxMade
  /\ id' = NextId
  /\ made' = made + 1
  /\ \/ /\ timers' = timers \cup {[no |-> made + 1, sender |-> k[1], local |-> k[2],
                                   win |-> id', killed |-> FALSE]}
        /\ running' = Set(id', k)
     \/ UNCHANGED <<timers, running>>
  /\ tick' = None
  /\ UNCHANGED <<alive, pending>>

\* Mutant of RearmTimer: the flag is reset and ::SetTimer is not called again.
RearmFlagOnly(k) ==
  \E e \in timers :
    /\ k[1] \in alive
    /\ First(e, Matching(k))
    /\ e.killed
    /\ timers' = Mark(e, FALSE)
    /\ tick' = None
    /\ UNCHANGED <<alive, id, made, running, pending>>

\* SetTimer with an entry: it does nothing if that is armed or ::SetTimer fails.
RearmTimer(k) ==
  \E e \in timers :
    /\ k[1] \in alive
    /\ First(e, Matching(k))
    /\ e.killed
    /\ timers' = Mark(e, FALSE)
    /\ running' = Set(e.win, k)
    /\ tick' = None
    /\ UNCHANGED <<alive, id, made, pending>>

\* KillTimer(pControl, nTimerID)
KillTimer(k) ==
  \E e \in timers :
    /\ k[1] \in alive
    /\ First(e, {f \in Matching(k) : ~f.killed})
    /\ timers' = Mark(e, TRUE)
    /\ running' = Stop({e})
    /\ tick' = None
    /\ UNCHANGED <<alive, id, made, pending>>

\* ~CControlUI: ReapObjects calls KillTimer(pControl).
Destroy(c) ==
  LET own == {e \in timers : e.sender = c} IN
  /\ c \in alive
  /\ alive' = alive \ {c}
  /\ timers' = timers \ own
  /\ running' = Stop(own)
  /\ tick' = None
  /\ UNCHANGED <<id, made, pending>>

\* Init, when a window is given another skin
RemoveAllTimers ==
  /\ timers # {}
  /\ timers' = {}
  /\ running' = Stop(timers)
  /\ tick' = None
  /\ UNCHANGED <<alive, id, made, pending>>

(***************************************************************************)
(* Windows and the message loop.                                           *)
(***************************************************************************)
Elapse(w) ==
  /\ running[w] # None
  /\ pending' = pending \cup {[win |-> w, by |-> running[w]]}
  /\ tick' = None
  /\ UNCHANGED <<alive, timers, id, made, running>>

\* WM_TIMER
OnTimer(m) ==
  /\ m \in pending
  /\ pending' = pending \ {m}
  /\ \/ \E e \in timers : First(e, Hits(m.win)) /\ tick' = KeyOf(e)
     \/ Hits(m.win) = {} /\ tick' = None
  /\ UNCHANGED <<alive, timers, id, made, running>>

Next ==
  \/ \E c \in Control : Create(c) \/ Destroy(c)
  \/ \E k \in Key : AddTimer(k) \/ RearmTimer(k) \/ KillTimer(k)
  \/ RemoveAllTimers
  \/ \E w \in Win : Elapse(w)
  \/ \E m \in pending : OnTimer(m)

Spec == Init /\ [][Next]_vars

\* The queue runs empty again and again, which is when Windows makes a WM_TIMER.
Fairness ==
  /\ \A w \in Win : WF_vars(Elapse(w))
  /\ \A w \in Win, k \in Key : WF_vars(OnTimer([win |-> w, by |-> k]))

FairSpec == Spec /\ Fairness

(***************************************************************************)
(* Properties.                                                             *)
(***************************************************************************)
\* No identifier of the counter was given out a second time.
Unwrapped == made <= Ids

\* SetTimer looks for the entry of the pair, killed or not, before it makes one
\* (UIManager.cpp:2242-2256): a pair with two entries would keep ticking after KillTimer.
OneEntryEach == \A e, f \in timers : KeyOf(e) = KeyOf(f) => e = f

\* No Windows timer goes on without an armed entry, whatever is killed, re-armed or
\* destroyed and however often the counter wraps: KillTimer and ReapObjects stop what
\* SetTimer started (UIManager.cpp:2280, 2296).
NoOrphanTimer == \A w \in Win : running[w] # None => \E e \in Armed : e.win = w

\* Until the counter wraps, an armed entry has its own running Windows timer: nothing
\* else has set or stopped it (UIManager.cpp:2258).
ArmedIsRunning == Unwrapped => \A e \in Armed : running[e.win] = KeyOf(e)

\* Until the counter wraps, a WM_TIMER that elapsed before a KillTimer, or before the end of
\* its control, is for nobody or for the pair it was set for, never for another control
\* (UIManager.cpp:1330-1332).
TicksReachTheirOwner ==
  Unwrapped => \A m \in pending : \A e \in Hits(m.win) : KeyOf(e) = m.by

\* A timer that is armed and stays so ticks, also after it was killed and armed again,
\* until the counter wraps (UIManager.cpp:2247-2252).
ArmedTicks ==
  \A k \in Key : (Unwrapped /\ k \in ArmedKeys) ~> (tick = k \/ k \notin ArmedKeys \/ ~Unwrapped)

\* Seen from the controls, m_aTimers is the set of the armed pairs.
Timers == INSTANCE TimerSet WITH armed <- ArmedKeys
ImplementsTimerSet == Timers!Spec
=============================================================================
