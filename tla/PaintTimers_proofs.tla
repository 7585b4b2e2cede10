-------------------------- MODULE PaintTimers_proofs --------------------------
(***************************************************************************)
(* Proofs about PaintTimers, for any controls, identifiers and bound.      *)
(*                                                                         *)
(* Until the counter wraps, the n-th identifier it gives out is Slot(n),   *)
(* and two of those differ.  So an entry shares its Windows identifier     *)
(* with no other entry, past or present, and a WM_TIMER that elapsed       *)
(* earlier cannot be taken for another one.                                *)
(***************************************************************************)
EXTENDS PaintTimers, TLAPS

\* The n-th identifier of the counter, while n is at most Ids.
Slot(n) == IF Start + n < Ids THEN Start + n ELSE Start + n - Ids

\* The count of an entry is its own and was reached.
Numbered ==
  /\ \A e \in timers : e.no >= 1 /\ e.no <= made
  /\ \A e, f \in timers : e.no = f.no => e = f

SendersAlive == \A e \in timers : e.sender \in alive

\* Where the identifiers come from.
Slots ==
  Unwrapped =>
    /\ id = Slot(made)
    /\ \A e \in timers : e.win = Slot(e.no)
    /\ \A m \in pending : \E n \in 1 .. made : m.win = Slot(n)

\* TicksReachTheirOwner also for the entries that are killed and may be armed again.
Owned == Unwrapped => \A m \in pending : \A e \in timers : e.win = m.win => KeyOf(e) = m.by

Inv ==
  /\ TypeOK
  /\ OneEntryEach
  /\ Numbered
  /\ SendersAlive
  /\ Slots
  /\ NoOrphanTimer
  /\ ArmedIsRunning
  /\ Owned

USE IdsAssumption, NoneAssumption, MadeAssumption

\* Slot gives different identifiers for different counts up to Ids.
LEMMA SlotsDiffer ==
  ASSUME NEW i \in Nat, NEW j \in Nat, 1 <= i, i <= Ids, 1 <= j, j <= Ids, Slot(i) = Slot(j)
  PROVE  i = j
  BY DEF Slot, Win

\* The counter goes from one slot to the next.
LEMMA NextSlot ==
  ASSUME NEW n \in Nat, n < Ids, id = Slot(n), id \in Win
  PROVE  NextId = Slot(n + 1)
<1>1. CASE id + 1 < Ids
  BY <1>1 DEF Slot, NextId, Win
<1>2. CASE id + 1 = Ids
  <2>1. NextId = 0  BY <1>2 DEF NextId, Win
  <2>2. Slot(n + 1) = 0  BY <1>2 DEF Slot, Win
  <2> QED  BY <2>1, <2>2
<1> QED  BY <1>1, <1>2 DEF Win

\* The counter stays among the identifiers.
LEMMA NextIdIsWin == id \in Win => NextId \in Win
  BY DEF NextId, Win

\* Two entries with the same Windows identifier are one, until the counter wraps.
LEMMA OwnWindowsTimer ==
  ASSUME Inv, Unwrapped, NEW e \in timers, NEW f \in timers, e.win = f.win
  PROVE  e = f
<1>1. e.no \in Nat /\ f.no \in Nat /\ made \in Nat  BY DEF Inv, TypeOK, Entry
<1>2. e.no <= Ids /\ f.no <= Ids  BY <1>1 DEF Inv, Numbered, Unwrapped
<1>3. e.no = f.no  BY <1>1, <1>2, SlotsDiffer DEF Inv, Slots, Numbered
<1> QED  BY <1>3 DEF Inv, Numbered

LEMMA InitInv == Init => Inv
  BY DEF Init, Inv, TypeOK, OneEntryEach, Numbered, SendersAlive, Slots, NoOrphanTimer,
         ArmedIsRunning, Owned, Unwrapped, Armed, Slot, Win

(***************************************************************************)
(* One lemma for each action.                                              *)
(***************************************************************************)
LEMMA CreateInv == ASSUME Inv, NEW c \in Control, Create(c) PROVE Inv'
  BY DEF Inv, Create, TypeOK, OneEntryEach, Numbered, SendersAlive, Slots, NoOrphanTimer,
         ArmedIsRunning, Owned, Unwrapped, Armed, KeyOf

LEMMA AddTimerInv == ASSUME Inv, NEW k \in Key, AddTimer(k) PROVE Inv'
<1> DEFINE new == [no |-> made + 1, sender |-> k[1], local |-> k[2], win |-> id', killed |-> FALSE]
<1> USE DEF Inv
<1>1. /\ k[1] \in alive /\ Matching(k) = {} /\ id' = NextId /\ made' = made + 1
      /\ \/ timers' = timers \cup {new} /\ running' = Set(id', k)
         \/ timers' = timers /\ running' = running
      /\ tick' = None /\ alive' = alive /\ pending' = pending
  BY DEF AddTimer
<1>2. /\ k[1] \in Control /\ k[2] \in Local /\ k = <<k[1], k[2]>> /\ id \in Win /\ made \in Nat
      /\ id' \in Win /\ \A e \in timers : e \in Entry /\ e.no \in Nat /\ e.win \in Win
  BY <1>1, NextIdIsWin DEF TypeOK, Entry, Key
<1>3. new \in Entry /\ KeyOf(new) = k
  BY <1>2 DEF Entry, KeyOf
<1>4. TypeOK'
  <2>1. timers' \subseteq Entry  BY <1>1, <1>2, <1>3 DEF TypeOK
  <2>2. running' \in [Win -> Key \cup {None}]  BY <1>1, <1>2 DEF TypeOK, Set
  <2> QED  BY <1>1, <1>2, <2>1, <2>2 DEF TypeOK
<1>5. OneEntryEach'
  <2>1. \A e \in timers : KeyOf(e) # k  BY <1>1 DEF Matching
  <2> QED  BY <1>1, <1>3, <2>1 DEF OneEntryEach, KeyOf
<1>6. Numbered'
  <2>1. new.no = made + 1  OBVIOUS
  <2>2. \A e \in timers : e.no >= 1 /\ e.no <= made  BY DEF Numbered
  <2>3. \A e \in timers' : e \in timers \/ e = new  BY <1>1
  <2> HIDE DEF new
  <2>4. \A e \in timers' : e.no >= 1 /\ e.no <= made'  BY <1>1, <1>2, <2>1, <2>2, <2>3
  <2>5. \A e, f \in timers' : e.no = f.no => e = f
    BY <1>2, <2>1, <2>2, <2>3 DEF Numbered
  <2> QED  BY <2>4, <2>5 DEF Numbered
<1>7. SendersAlive'
  BY <1>1, <1>2 DEF SendersAlive
<1>8. ASSUME Unwrapped' PROVE Unwrapped /\ made < Ids /\ id' = Slot(made + 1)
  <2>1. made < Ids  BY <1>1, <1>2, <1>8 DEF Unwrapped
  <2>2. id = Slot(made)  BY <2>1, <1>2 DEF Slots, Unwrapped
  <2> QED  BY <1>1, <1>2, <2>1, <2>2, NextSlot DEF Unwrapped
<1>9. Slots'
  <2> SUFFICES ASSUME Unwrapped'
               PROVE  /\ id' = Slot(made')
                      /\ \A e \in timers' : e.win = Slot(e.no)
                      /\ \A m \in pending' : \E n \in 1 .. made' : m.win = Slot(n)
    BY DEF Slots, Slot
  <2>1. id' = Slot(made')  BY <1>1, <1>8
  <2>2. \A e \in timers' : e.win = Slot(e.no)  BY <1>1, <1>8 DEF Slots
  <2>3. \A m \in pending' : \E n \in 1 .. made' : m.win = Slot(n)
    BY <1>1, <1>2, <1>8 DEF Slots
  <2> QED  BY <2>1, <2>2, <2>3
\* The new identifier is not in use, nor is a message of it pending.
<1>10. ASSUME Unwrapped'
       PROVE  /\ \A e \in timers : e.win # id'
              /\ \A m \in pending : m.win # id'
  <2>1. \A n \in 1 .. made : Slot(n) # Slot(made + 1)
    BY <1>2, <1>8, <1>10, SlotsDiffer DEF Unwrapped
  <2>2. \A e \in timers : e.no \in 1 .. made  BY <1>2 DEF Numbered
  <2> QED  BY <1>8, <1>10, <2>1, <2>2 DEF Slots
<1>11. NoOrphanTimer'
  <2>1. CASE timers' = timers /\ running' = running
    BY <2>1 DEF NoOrphanTimer, Armed
  <2>2. CASE timers' = timers \cup {new} /\ running' = Set(id', k)
    <3> SUFFICES ASSUME NEW w \in Win, running'[w] # None
                 PROVE  \E e \in Armed' : e.win = w
      BY DEF NoOrphanTimer
    <3>1. CASE w = id'
      <4>1. new \in timers' /\ ~new.killed /\ new.win = w  BY <2>2, <3>1
      <4> QED  BY <4>1 DEF Armed
    <3>2. CASE w # id'
      <4>1. running[w] # None  BY <3>2, <2>2 DEF Set, TypeOK
      <4> QED  BY <4>1, <2>2 DEF NoOrphanTimer, Armed
    <3> QED  BY <3>1, <3>2
  <2> QED  BY <1>1, <2>1, <2>2
<1>12. ArmedIsRunning'
  <2> SUFFICES ASSUME Unwrapped', NEW e \in timers', ~e.killed
               PROVE  running'[e.win] = KeyOf(e)
    BY DEF ArmedIsRunning, Armed, KeyOf
  <2>1. CASE timers' = timers /\ running' = running
    BY <1>8, <2>1 DEF ArmedIsRunning, Armed
  <2>2. CASE timers' = timers \cup {new} /\ running' = Set(id', k)
    <3>1. CASE e = new
      BY <3>1, <2>2, <1>2, <1>3 DEF Set, TypeOK
    <3>2. CASE e \in timers
      <4>1. e.win \in Win /\ e.win # id'  BY <3>2, <1>2, <1>10
      <4>2. running[e.win] = KeyOf(e)  BY <3>2, <1>8 DEF ArmedIsRunning, Armed
      <4> QED  BY <4>1, <4>2, <2>2 DEF Set, TypeOK
    <3> QED  BY <3>1, <3>2, <2>2
  <2> QED  BY <1>1, <2>1, <2>2
<1>13. Owned'
  <2> SUFFICES ASSUME Unwrapped', NEW m \in pending, NEW e \in timers', e.win = m.win
               PROVE  KeyOf(e) = m.by
    BY <1>1 DEF Owned, KeyOf
  <2>1. e \in timers  BY <1>1, <1>10
  <2> QED  BY <2>1, <1>8 DEF Owned
<1> QED  BY <1>4, <1>5, <1>6, <1>7, <1>9, <1>11, <1>12, <1>13

\* Marking an entry changes its flag alone.
LEMMA MarkedEntries ==
  ASSUME Inv, NEW e \in timers, NEW b \in BOOLEAN
  PROVE  LET g == [e EXCEPT !.killed = b] IN
         /\ Mark(e, b) = (timers \ {e}) \cup {g}
         /\ g \in Entry /\ g.killed = b
         /\ g.no = e.no /\ g.sender = e.sender /\ g.local = e.local /\ g.win = e.win
         /\ KeyOf(g) = KeyOf(e)
<1>1. e \in Entry  BY DEF Inv, TypeOK
<1> QED  BY <1>1 DEF Mark, Entry, KeyOf

\* What a call that only marks an entry of m_aTimers leaves as it was.
LEMMA MarkKeeps ==
  ASSUME Inv, NEW e \in timers, NEW b \in BOOLEAN, timers' = Mark(e, b),
         UNCHANGED <<alive, id, made, pending>>
  PROVE  timers' \subseteq Entry /\ OneEntryEach' /\ Numbered' /\ SendersAlive' /\ Slots' /\ Owned'
<1> DEFINE g == [e EXCEPT !.killed = b]
<1>1. /\ timers' = (timers \ {e}) \cup {g}
      /\ g \in Entry /\ KeyOf(g) = KeyOf(e)
      /\ g.no = e.no /\ g.sender = e.sender /\ g.win = e.win
  BY MarkedEntries
<1>2. timers \subseteq Entry  BY DEF Inv, TypeOK
<1> HIDE DEF g
<1>3. \A f \in timers' : \E h \in timers :
        /\ KeyOf(f) = KeyOf(h) /\ f.no = h.no /\ f.sender = h.sender /\ f.win = h.win
        /\ (h = e => f = g) /\ (h # e => f = h)
  BY <1>1
<1>4. timers' \subseteq Entry  BY <1>1, <1>2
<1>5. OneEntryEach'
  <2> SUFFICES ASSUME NEW f1 \in timers', NEW f2 \in timers', KeyOf(f1) = KeyOf(f2)
               PROVE  f1 = f2
    BY DEF OneEntryEach, KeyOf
  <2> QED  BY <1>3 DEF Inv, OneEntryEach
<1>6. Numbered'  BY <1>3 DEF Inv, Numbered
<1>7. SendersAlive'  BY <1>3 DEF Inv, SendersAlive
<1>8. Slots'
  <2> SUFFICES ASSUME Unwrapped'
               PROVE  /\ id = Slot(made)
                      /\ \A f \in timers' : f.win = Slot(f.no)
                      /\ \A m \in pending : \E n \in 1 .. made : m.win = Slot(n)
    BY DEF Slots, Slot
  <2>1. Unwrapped  BY DEF Unwrapped
  <2> QED  BY <1>3, <2>1 DEF Inv, Slots
<1>9. Owned'
  <2> SUFFICES ASSUME Unwrapped', NEW m \in pending, NEW f \in timers', f.win = m.win
               PROVE  KeyOf(f) = m.by
    BY DEF Owned, KeyOf
  <2>1. Unwrapped  BY DEF Unwrapped
  <2> QED  BY <1>3, <2>1 DEF Inv, Owned
<1> QED  BY <1>4, <1>5, <1>6, <1>7, <1>8, <1>9

LEMMA RearmTimerInv == ASSUME Inv, NEW k \in Key, RearmTimer(k) PROVE Inv'
<1>1. PICK e \in timers :
        /\ First(e, Matching(k)) /\ timers' = Mark(e, FALSE) /\ running' = Set(e.win, k)
        /\ tick' = None /\ UNCHANGED <<alive, id, made, pending>>
  BY DEF RearmTimer
<1> DEFINE g == [e EXCEPT !.killed = FALSE]
<1>2. /\ timers' = (timers \ {e}) \cup {g} /\ ~g.killed /\ g.win = e.win /\ KeyOf(g) = KeyOf(e)
  BY <1>1, MarkedEntries
<1>3. KeyOf(e) = k /\ e.win \in Win
  BY <1>1 DEF First, Matching, Inv, TypeOK, Entry
<1>4. timers' \subseteq Entry /\ OneEntryEach' /\ Numbered' /\ SendersAlive' /\ Slots' /\ Owned'
  BY <1>1, MarkKeeps
<1> HIDE DEF g
<1>5. TypeOK'
  BY <1>1, <1>3, <1>4 DEF Inv, TypeOK, Set
<1>6. NoOrphanTimer'
  <2> SUFFICES ASSUME NEW w \in Win, running'[w] # None
               PROVE  \E f \in Armed' : f.win = w
    BY DEF NoOrphanTimer
  <2>1. g \in Armed'  BY <1>2 DEF Armed
  <2>2. CASE w # e.win
    <3>1. running[w] # None  BY <1>1, <2>2 DEF Set, Inv, TypeOK
    <3>2. PICK f \in Armed : f.win = w  BY <3>1 DEF Inv, NoOrphanTimer
    <3> QED  BY <1>2, <2>2, <3>2 DEF Armed
  <2> QED  BY <1>2, <2>1, <2>2
<1>7. ArmedIsRunning'
  <2> SUFFICES ASSUME Unwrapped', NEW f \in timers', ~f.killed
               PROVE  running'[f.win] = KeyOf(f)
    BY DEF ArmedIsRunning, Armed, KeyOf
  <2>1. Unwrapped  BY <1>1 DEF Unwrapped
  <2>2. CASE f = g
    BY <1>1, <1>2, <1>3, <2>2 DEF Set, Inv, TypeOK
  <2>3. CASE f \in timers /\ f # e
    <3>1. f.win # e.win  BY <2>1, <2>3, OwnWindowsTimer
    <3>2. f.win \in Win  BY <2>3 DEF Inv, TypeOK, Entry
    <3>3. running[f.win] = KeyOf(f)  BY <2>1, <2>3 DEF Inv, ArmedIsRunning, Armed
    <3> QED  BY <1>1, <3>1, <3>2, <3>3 DEF Set, Inv, TypeOK
  <2> QED  BY <1>2, <2>2, <2>3
<1> QED  BY <1>4, <1>5, <1>6, <1>7 DEF Inv

\* Stopping the Windows timers of entries that leave or are marked as killed.
LEMMA StopSafe ==
  ASSUME Inv, NEW S \in SUBSET timers, running' = Stop(S), made' = made,
         \A e \in timers : e \in timers' \/ e \in S,
         \A e \in timers' : ~e.killed => e \in timers /\ e \notin S
  PROVE  running' \in [Win -> Key \cup {None}] /\ NoOrphanTimer' /\ ArmedIsRunning'
<1>1. running' \in [Win -> Key \cup {None}]  BY DEF Stop, Inv, TypeOK
<1>2. NoOrphanTimer'
  <2> SUFFICES ASSUME NEW w \in Win, running'[w] # None
               PROVE  \E f \in Armed' : f.win = w
    BY DEF NoOrphanTimer
  <2>1. running[w] # None /\ \A e \in S : ~(e.win = w /\ ~e.killed)  BY DEF Stop
  <2>2. PICK f \in Armed : f.win = w  BY <2>1 DEF Inv, NoOrphanTimer
  <2> QED  BY <2>1, <2>2 DEF Armed
<1>3. ArmedIsRunning'
  <2> SUFFICES ASSUME Unwrapped', NEW f \in timers', ~f.killed
               PROVE  running'[f.win] = KeyOf(f)
    BY DEF ArmedIsRunning, Armed, KeyOf
  <2>1. Unwrapped  BY DEF Unwrapped
  <2>2. f \in timers /\ f \notin S  OBVIOUS
  <2>3. \A e \in S : e.win # f.win  BY <2>1, <2>2, OwnWindowsTimer
  <2>4. f.win \in Win  BY <2>2 DEF Inv, TypeOK, Entry
  <2>5. running[f.win] = KeyOf(f)  BY <2>1, <2>2 DEF Inv, ArmedIsRunning, Armed
  <2> QED  BY <2>3, <2>4, <2>5 DEF Stop
<1> QED  BY <1>1, <1>2, <1>3

LEMMA KillTimerInv == ASSUME Inv, NEW k \in Key, KillTimer(k) PROVE Inv'
<1>1. PICK e \in timers :
        /\ timers' = Mark(e, TRUE) /\ running' = Stop({e})
        /\ tick' = None /\ UNCHANGED <<alive, id, made, pending>>
  BY DEF KillTimer
<1>2. timers' \subseteq Entry /\ OneEntryEach' /\ Numbered' /\ SendersAlive' /\ Slots' /\ Owned'
  BY <1>1, MarkKeeps
<1>3. /\ \A f \in timers : f \in timers' \/ f \in {e}
      /\ \A f \in timers' : ~f.killed => f \in timers /\ f \notin {e}
  <2> DEFINE g == [e EXCEPT !.killed = TRUE]
  <2>1. timers' = (timers \ {e}) \cup {g} /\ g.killed  BY <1>1, MarkedEntries
  <2> HIDE DEF g
  <2> QED  BY <2>1
<1>4. running' \in [Win -> Key \cup {None}] /\ NoOrphanTimer' /\ ArmedIsRunning'
  BY <1>1, <1>3, StopSafe
<1>5. TypeOK'  BY <1>1, <1>2, <1>4 DEF Inv, TypeOK
<1> QED  BY <1>2, <1>4, <1>5 DEF Inv

\* Removing entries, all of a control or all there are.
LEMMA RemoveInv ==
  ASSUME Inv, NEW S \in SUBSET timers, timers' = timers \ S, running' = Stop(S), tick' = None,
         alive' \subseteq alive, \A e \in timers \ S : e.sender \in alive',
         UNCHANGED <<id, made, pending>>
  PROVE  Inv'
<1>1. running' \in [Win -> Key \cup {None}] /\ NoOrphanTimer' /\ ArmedIsRunning'
  BY StopSafe
<1>2. TypeOK' /\ SendersAlive'  BY <1>1 DEF Inv, TypeOK, SendersAlive
<1>3. OneEntryEach' /\ Numbered'  BY DEF Inv, OneEntryEach, Numbered, KeyOf
<1>4. Slots' /\ Owned'  BY DEF Inv, Slots, Owned, Unwrapped, KeyOf, Slot
<1> QED  BY <1>1, <1>2, <1>3, <1>4 DEF Inv

LEMMA DestroyInv == ASSUME Inv, NEW c \in Control, Destroy(c) PROVE Inv'
<1> DEFINE own == {e \in timers : e.sender = c}
<1>1. \A e \in timers \ own : e.sender \in alive'  BY DEF Destroy, Inv, SendersAlive
<1> QED  BY <1>1, RemoveInv DEF Destroy

LEMMA RemoveAllTimersInv == ASSUME Inv, RemoveAllTimers PROVE Inv'
<1>1. timers' = timers \ timers /\ \A e \in timers \ timers : e.sender \in alive'
  BY DEF RemoveAllTimers
<1> QED  BY <1>1, RemoveInv DEF RemoveAllTimers

LEMMA ElapseInv == ASSUME Inv, NEW w \in Win, Elapse(w) PROVE Inv'
<1>1. /\ running[w] # None /\ pending' = pending \cup {[win |-> w, by |-> running[w]]}
      /\ tick' = None /\ UNCHANGED <<alive, timers, id, made, running>>
  BY DEF Elapse
<1>2. running[w] \in Key  BY <1>1 DEF Inv, TypeOK
<1>3. TypeOK'  BY <1>1, <1>2 DEF Inv, TypeOK
<1>4. PICK f \in Armed : f.win = w  BY <1>1 DEF Inv, NoOrphanTimer
<1>5. Unwrapped => /\ \E n \in 1 .. made : w = Slot(n)
                   /\ \A e \in timers : e.win = w => KeyOf(e) = running[w]
  <2> SUFFICES ASSUME Unwrapped
               PROVE  /\ \E n \in 1 .. made : w = Slot(n)
                      /\ \A e \in timers : e.win = w => KeyOf(e) = running[w]
    OBVIOUS
  <2>1. f \in timers /\ f.no \in 1 .. made
    BY <1>4 DEF Armed, Inv, Numbered, TypeOK, Entry
  <2>2. w = Slot(f.no)  BY <1>4, <2>1 DEF Inv, Slots
  <2>3. running[w] = KeyOf(f)  BY <1>4 DEF Inv, ArmedIsRunning
  <2>4. \A e \in timers : e.win = w => e = f  BY <1>4, <2>1, OwnWindowsTimer
  <2> QED  BY <2>1, <2>2, <2>3, <2>4
<1>6. Slots' /\ Owned'
  BY <1>1, <1>5 DEF Inv, Slots, Owned, Unwrapped, KeyOf, Slot
<1>7. OneEntryEach' /\ Numbered' /\ SendersAlive' /\ NoOrphanTimer' /\ ArmedIsRunning'
  BY <1>1 DEF Inv, OneEntryEach, Numbered, SendersAlive, NoOrphanTimer, ArmedIsRunning, Unwrapped,
              Armed, KeyOf
<1> QED  BY <1>3, <1>6, <1>7 DEF Inv

LEMMA OnTimerInv == ASSUME Inv, NEW m \in pending, OnTimer(m) PROVE Inv'
<1>1. /\ pending' = pending \ {m} /\ UNCHANGED <<alive, timers, id, made, running>>
      /\ \/ \E e \in timers : tick' = KeyOf(e)
         \/ tick' = None
  BY DEF OnTimer
<1>2. \A e \in timers : KeyOf(e) \in Key  BY DEF Inv, TypeOK, Entry, KeyOf, Key
<1>3. TypeOK'  BY <1>1, <1>2 DEF Inv, TypeOK
<1>4. OneEntryEach' /\ Numbered' /\ SendersAlive' /\ NoOrphanTimer' /\ ArmedIsRunning'
  BY <1>1 DEF Inv, OneEntryEach, Numbered, SendersAlive, NoOrphanTimer, ArmedIsRunning, Unwrapped,
              Armed, KeyOf
<1>5. Slots' /\ Owned'  BY <1>1 DEF Inv, Slots, Owned, Unwrapped, KeyOf, Slot
<1> QED  BY <1>3, <1>4, <1>5 DEF Inv

(***************************************************************************)
(* The theorems.                                                           *)
(***************************************************************************)
\* The inductive invariant.
THEOREM TimerInvariant == Spec => []Inv
<1>1. Inv /\ [Next]_vars => Inv'
  <2> SUFFICES ASSUME Inv, [Next]_vars PROVE Inv'
    OBVIOUS
  <2>1. CASE UNCHANGED vars
    BY <2>1 DEF vars, Inv, TypeOK, OneEntryEach, Numbered, SendersAlive, Slots, NoOrphanTimer,
                ArmedIsRunning, Owned, Unwrapped, Armed, KeyOf, Slot
  <2>2. CASE Next
    BY <2>2, CreateInv, DestroyInv, AddTimerInv, RearmTimerInv, KillTimerInv,
       RemoveAllTimersInv, ElapseInv, OnTimerInv DEF Next
  <2> QED  BY <2>1, <2>2
<1> QED  BY <1>1, InitInv, PTL DEF Spec

\* Every variable keeps its type: the identifier stays below Ids.
THEOREM TimersTypeCorrect == Spec => []TypeOK
<1>1. Inv => TypeOK  BY DEF Inv
<1> QED  BY <1>1, TimerInvariant, PTL

\* m_aTimers has one entry for a pair, killed or not (UIManager.cpp:2242-2256).
THEOREM OneEntry == Spec => []OneEntryEach
<1>1. Inv => OneEntryEach  BY DEF Inv
<1> QED  BY <1>1, TimerInvariant, PTL

\* A Windows timer runs only while an armed entry has its identifier, wrapped or not.
THEOREM NoOrphans == Spec => []NoOrphanTimer
<1>1. Inv => NoOrphanTimer  BY DEF Inv
<1> QED  BY <1>1, TimerInvariant, PTL

\* Until the counter wraps, an armed entry has its own running Windows timer.
THEOREM ArmedTimersRun == Spec => []ArmedIsRunning
<1>1. Inv => ArmedIsRunning  BY DEF Inv
<1> QED  BY <1>1, TimerInvariant, PTL

\* Until the counter wraps, no late WM_TIMER reaches another pair.
THEOREM TicksOwned == Spec => []TicksReachTheirOwner
<1>1. Inv => TicksReachTheirOwner
  BY DEF Inv, Owned, TicksReachTheirOwner, Hits, TypeOK
<1> QED  BY <1>1, TimerInvariant, PTL

(***************************************************************************)
(* The refinement: armed is the set of the pairs of the armed entries.     *)
(***************************************************************************)
\* What marking an entry does to the set of armed pairs: no other entry has its pair.
LEMMA MarkedKeys ==
  ASSUME Inv, NEW e \in timers, NEW b \in BOOLEAN, timers' = Mark(e, b)
  PROVE  ArmedKeys' = IF b THEN ArmedKeys \ {KeyOf(e)} ELSE ArmedKeys \cup {KeyOf(e)}
<1> DEFINE g == [e EXCEPT !.killed = b]
<1>1. timers' = (timers \ {e}) \cup {g} /\ g.killed = b /\ KeyOf(g) = KeyOf(e)
  BY MarkedEntries
<1> HIDE DEF g
<1>2. \A f \in timers : KeyOf(f) = KeyOf(e) => f = e  BY DEF Inv, OneEntryEach
<1>3. ArmedKeys' = {KeyOf(f) : f \in {h \in timers' : ~h.killed}}  BY DEF ArmedKeys, Armed, KeyOf
<1>4. ArmedKeys = {KeyOf(f) : f \in {h \in timers : ~h.killed}}  BY DEF ArmedKeys, Armed
<1>5. CASE b = TRUE
  BY <1>1, <1>2, <1>3, <1>4, <1>5
<1>6. CASE b = FALSE
  BY <1>1, <1>2, <1>3, <1>4, <1>6
<1> QED  BY <1>5, <1>6

\* What removing entries does to it.
LEMMA RemovedKeys ==
  ASSUME Inv, NEW c \in Control, Destroy(c)
  PROVE  ArmedKeys' = ArmedKeys \ Timers!Of(c)
<1>1. timers' = {e \in timers : e.sender # c}  BY DEF Destroy
<1>2. \A e \in timers : e.local \in Local  BY DEF Inv, TypeOK, Entry
<1>3. \A e \in timers : e.sender = c <=> KeyOf(e) \in Timers!Of(c)
  BY <1>2 DEF KeyOf, Timers!Of
<1> QED  BY <1>1, <1>3 DEF ArmedKeys, Armed, KeyOf

\* PaintTimers implements TimerSet: the entries that KillTimer keeps, the identifiers and the
\* late messages cannot be seen from the controls.
THEOREM TimersImplementSet == Spec => ImplementsTimerSet
<1>1. Init => Timers!Init
  BY DEF Init, Timers!Init, ArmedKeys, Armed
<1>2. Inv /\ [Next]_vars => [Timers!Next]_(Timers!vars)
  <2> SUFFICES ASSUME Inv, [Next]_vars PROVE [Timers!Next]_(Timers!vars)
    OBVIOUS
  <2>1. CASE UNCHANGED vars
    BY <2>1 DEF vars, Timers!vars, ArmedKeys, Armed, KeyOf
  <2>2. ASSUME NEW c \in Control, Create(c) PROVE Timers!Next
    <3>1. ArmedKeys' = ArmedKeys  BY <2>2 DEF Create, ArmedKeys, Armed, KeyOf
    <3> QED  BY <3>1, <2>2 DEF Create, Timers!Next, Timers!Create
  <2>3. ASSUME NEW c \in Control, Destroy(c) PROVE Timers!Next
    <3>1. Timers!Destroy(c)  BY <2>3, RemovedKeys DEF Destroy, Timers!Destroy
    <3> QED  BY <3>1 DEF Timers!Next
  <2>4. ASSUME NEW k \in Key, AddTimer(k) PROVE Timers!Next
    <3> DEFINE new == [no |-> made + 1, sender |-> k[1], local |-> k[2],
                       win |-> id', killed |-> FALSE]
    <3>1. KeyOf(new) = k /\ k \in alive \X Local  BY <2>4 DEF AddTimer, Key, KeyOf
    <3>2. k \notin ArmedKeys
      BY <2>4 DEF AddTimer, ArmedKeys, Armed, Matching
    <3>3. alive' = alive /\ tick' = None  BY <2>4 DEF AddTimer
    <3>4. CASE timers' = timers
      <4>1. ArmedKeys' = ArmedKeys  BY <3>4 DEF ArmedKeys, Armed, KeyOf
      <4> QED  BY <4>1, <3>3 DEF Timers!Next, Timers!Quiet
    <3>5. CASE timers' = timers \cup {new}
      <4>1. Armed' = Armed \cup {new}  BY <3>5 DEF Armed
      <4>2. ArmedKeys' = ArmedKeys \cup {k}
        <5> HIDE DEF new
        <5> QED  BY <4>1, <3>1 DEF ArmedKeys, KeyOf
      <4>3. Timers!Arm(k)  BY <4>2, <3>1, <3>2, <3>3 DEF Timers!Arm
      <4> QED  BY <4>3 DEF Timers!Next, Key
    <3> QED  BY <2>4, <3>4, <3>5 DEF AddTimer
  <2>5. ASSUME NEW k \in Key, RearmTimer(k) PROVE Timers!Next
    <3>1. PICK e \in timers :
            /\ k[1] \in alive /\ First(e, Matching(k)) /\ e.killed
            /\ timers' = Mark(e, FALSE) /\ tick' = None /\ alive' = alive
      BY <2>5 DEF RearmTimer
    <3>2. KeyOf(e) = k  BY <3>1 DEF First, Matching
    <3>3. ArmedKeys' = ArmedKeys \cup {k}  BY <3>1, <3>2, MarkedKeys
    <3>4. k \notin ArmedKeys
      BY <3>1, <3>2 DEF ArmedKeys, Armed, Inv, OneEntryEach
    <3>5. k \in alive \X Local  BY <3>1 DEF Key
    <3>6. Timers!Arm(k)  BY <3>1, <3>3, <3>4, <3>5 DEF Timers!Arm
    <3> QED  BY <3>6 DEF Timers!Next, Key
  <2>6. ASSUME NEW k \in Key, KillTimer(k) PROVE Timers!Next
    <3>1. PICK e \in timers :
            /\ First(e, {f \in Matching(k) : ~f.killed})
            /\ timers' = Mark(e, TRUE) /\ tick' = None /\ alive' = alive
      BY <2>6 DEF KillTimer
    <3>2. KeyOf(e) = k /\ ~e.killed  BY <3>1 DEF First, Matching
    <3>3. ArmedKeys' = ArmedKeys \ {k}  BY <3>1, <3>2, MarkedKeys
    <3>4. k \in ArmedKeys  BY <3>2 DEF ArmedKeys, Armed
    <3>5. Timers!Disarm(k)  BY <3>1, <3>3, <3>4 DEF Timers!Disarm
    <3> QED  BY <3>5 DEF Timers!Next, Key
  <2>7. ASSUME RemoveAllTimers PROVE Timers!Next
    <3>1. Timers!Clear  BY <2>7 DEF RemoveAllTimers, Timers!Clear, ArmedKeys, Armed
    <3> QED  BY <3>1 DEF Timers!Next
  <2>8. ASSUME NEW w \in Win, Elapse(w) PROVE Timers!Next
    <3>1. ArmedKeys' = ArmedKeys  BY <2>8 DEF Elapse, ArmedKeys, Armed, KeyOf
    <3>2. Timers!Quiet  BY <2>8, <3>1 DEF Elapse, Timers!Quiet
    <3> QED  BY <3>2 DEF Timers!Next
  <2>9. ASSUME NEW m \in pending, OnTimer(m) PROVE Timers!Next
    <3>1. alive' = alive /\ ArmedKeys' = ArmedKeys
      BY <2>9 DEF OnTimer, ArmedKeys, Armed, KeyOf
    <3>2. CASE tick' = None
      BY <3>1, <3>2 DEF Timers!Next, Timers!Quiet
    <3>3. CASE \E e \in timers : First(e, Hits(m.win)) /\ tick' = KeyOf(e)
      <4>1. PICK e \in timers : First(e, Hits(m.win)) /\ tick' = KeyOf(e)  BY <3>3
      <4>2. KeyOf(e) \in ArmedKeys  BY <4>1 DEF First, Hits, ArmedKeys, Armed
      <4>3. KeyOf(e) \in Key  BY DEF Inv, TypeOK, Entry, KeyOf, Key
      <4>4. Timers!Tick(KeyOf(e))  BY <3>1, <4>1, <4>2 DEF Timers!Tick
      <4> QED  BY <4>3, <4>4 DEF Timers!Next, Key
    <3> QED  BY <2>9, <3>2, <3>3 DEF OnTimer
  <2> QED
    BY <2>1, <2>2, <2>3, <2>4, <2>5, <2>6, <2>7, <2>8, <2>9 DEF Next
<1> QED  BY <1>1, <1>2, TimerInvariant, PTL DEF Spec, Timers!Spec, ImplementsTimerSet
=============================================================================
