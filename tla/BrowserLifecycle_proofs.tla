----------------------- MODULE BrowserLifecycle_proofs -----------------------
(***************************************************************************)
(* Proofs about BrowserLifecycle, for any controls, clients and browsers.  *)
(*                                                                         *)
(* HeldIsAnnounced and OpenMainIsHeld are not inductive.  What they need   *)
(* is how browsers and clients are tied: a client that was never           *)
(* constructed has no browser, a browser that a DoInit asked for is alone  *)
(* on its client until it is announced, and nothing else is ever on a      *)
(* client whose main browser was not announced.                            *)
(***************************************************************************)
EXTENDS BrowserLifecycle, TLAPS

(* Clients and browsers refer to each other only once they exist. *)
Ties ==
  /\ \A b \in Browser : st[b] = "none" => client[b] = None /\ b \notin main
  /\ \A b \in Browser : st[b] # "none" => client[b] \in Client /\ owner[client[b]] # None

(* Until its announcement the main browser is alone on its client. *)
PostedMainIsAlone ==
  \A m \in main : st[m] = "posted" =>
    \A b \in Browser : client[b] = client[m] => b = m

(* DevTools windows and popups descend from a main browser that was announced. *)
SecondaryHasMain ==
  \A b \in Browser : st[b] # "none" /\ b \notin main =>
    \E m \in main : client[m] = client[b] /\ st[m] \notin {"none", "posted"}

BrowserInv ==
  /\ Ties
  /\ PostedMainIsAlone
  /\ SecondaryHasMain
  /\ HeldIsAnnounced
  /\ OpenMainIsHeld

browserVars == <<owner, held, id, st, client, main>>
-----------------------------------------------------------------------------
THEOREM TypeCorrect == Spec => []TypeOK
<1>1. Init => TypeOK
  BY DEF Init, TypeOK, Method, BrowserState
<1>2. TypeOK /\ [Next]_vars => TypeOK'
  <2> SUFFICES ASSUME TypeOK, [Next]_vars PROVE TypeOK'
    OBVIOUS
  <2> USE DEF TypeOK
  <2>1. ASSUME NEW c \in Control, NEW k \in Client, NEW b \in Browser, DoInit(c, k, b)
        PROVE  TypeOK'
    BY <2>1 DEF DoInit, BrowserState
  <2>2. ASSUME NEW c \in Control, NEW op \in Op, Begin(c, op) PROVE TypeOK'
    <3>1. ui' \in Method
      BY <2>2 DEF Begin, FirstStep, At, Method
    <3>2. created' \in [Control -> BOOLEAN]
      BY <2>2 DEF Begin
    <3>3. QED
      BY <2>2, <3>1, <3>2 DEF Begin, clientVars, cefVars
  <2>3. ASSUME NEW c \in Control, DestroyUncreated(c) PROVE TypeOK'
    BY <2>3 DEF DestroyUncreated, clientVars, cefVars
  <2>4. CASE Load
    <3>1. ui.ctl \in Control
      BY <2>4 DEF Load, Method, Idle, At
    <3>2. HeldBy(ui.ctl) \in Browser \cup {None}
      BY <3>1 DEF HeldBy
    <3>3. ui' \in Method
      <4>1. ui \in [step : {"test", "again", "call"}, op : Op, ctl : Control,
                    ptr : Browser \cup {None}, loaded : BOOLEAN]
        BY <2>4 DEF Load, Method, Idle, At
      <4>2. ui' = [ui EXCEPT !.ptr = HeldBy(ui.ctl), !.loaded = TRUE]
        BY <2>4 DEF Load
      <4>3. ui' \in [step : {"test", "again", "call"}, op : Op, ctl : Control,
                     ptr : Browser \cup {None}, loaded : BOOLEAN]
        BY <3>2, <4>1, <4>2
      <4>4. QED
        BY <4>3 DEF Method
    <3>4. QED
      BY <2>4, <3>3 DEF Load, clientVars, cefVars
  <2>5. CASE TestFails \/ CallBrowser
    <3>1. ui.step # "idle"
      BY <2>5 DEF TestFails, CallBrowser
    <3>2. ui' \in Method /\ ui.ctl \in Control
      BY <2>5, <3>1 DEF TestFails, CallBrowser, Return, Method, Idle, At
    <3>3. alive' \subseteq Control /\ handler' \in [Control -> Client \cup {None}]
      BY <2>5, <3>2 DEF TestFails, CallBrowser, Return
    <3>4. req' \subseteq Browser
      BY <2>5, <3>1 DEF TestFails, CallBrowser, Pinned, Method, Idle, At, cefVars
    <3>5. QED
      BY <2>5, <3>2, <3>3, <3>4 DEF TestFails, CallBrowser, clientVars, cefVars
  <2>6. CASE ReadAgain
    <3>1. ui' \in Method
      BY <2>6 DEF ReadAgain, Method, Idle, At
    <3>2. QED
      BY <2>6, <3>1 DEF ReadAgain, clientVars, cefVars
  <2>7. CASE DerefNull \/ AddRefFreed
    BY <2>7 DEF DerefNull, AddRefFreed, uiVars, clientVars, cefVars
  <2>8. CASE CloseWindow \/ HandleWmClose \/ Quit
    BY <2>8 DEF CloseWindow, HandleWmClose, Quit, clientVars, cefVars
  <2>9. ASSUME NEW b \in Browser, CefStep(b) PROVE TypeOK'
    <3>1. CASE OnAfterCreated(b)
      BY <3>1 DEF OnAfterCreated, BrowserState, uiVars, Adopts
    <3>2. CASE DoClose(b)
      BY <3>2 DEF DoClose, BrowserState, Matches, PostsWmClose
    <3>3. CASE OnBeforeClose(b)
      <4>1. held' \in [Client -> Browser \cup {None}]
        BY <3>3 DEF OnBeforeClose, Matches, HostIsGone
      <4>2. st' \in [Browser -> BrowserState]
        BY <3>3 DEF OnBeforeClose, BrowserState, Matches, HostIsGone
      <4>3. UNCHANGED <<uiVars, owner, id, isCreated, isClosing, client, main, req, fault>>
        BY <3>3 DEF OnBeforeClose, Matches, HostIsGone
      <4>4. QED
        BY <4>1, <4>2, <4>3 DEF uiVars
    <3>4. CASE CallbackOnDeletedSlot(b) \/ MenuOnNull(b)
      BY <3>4 DEF CallbackOnDeletedSlot, MenuOnNull, uiVars, clientVars, cefVars
    <3>5. ASSUME NEW d \in Browser, ShowDevTools(b, d) \/ OnBeforePopup(b, d) PROVE TypeOK'
      BY <3>5 DEF ShowDevTools, OnBeforePopup, BrowserState, uiVars, clientVars
    <3>6. CASE DropRequest(b) \/ CloseSecondary(b) \/ Free(b)
      BY <3>6 DEF DropRequest, CloseSecondary, Free, BrowserState, uiVars, clientVars
    <3>7. QED
      BY <2>9, <3>1, <3>2, <3>3, <3>4, <3>5, <3>6 DEF CefStep
  <2>10. CASE UNCHANGED vars
    BY <2>10 DEF vars, uiVars, clientVars, cefVars
  <2>11. QED
    BY <2>1, <2>2, <2>3, <2>4, <2>5, <2>6, <2>7, <2>8, <2>9, <2>10
    DEF Next, UiNext, UiStep, CefNext
<1>3. QED
  BY <1>1, <1>2, PTL DEF Spec
-----------------------------------------------------------------------------
(* Every action but five leaves what BrowserInv speaks about as it is. *)
LEMMA QuietSteps ==
  ASSUME UiNext, ~ \E c \in Control, k \in Client, b \in Browser : DoInit(c, k, b)
  PROVE  UNCHANGED browserVars
BY DEF UiNext, UiStep, browserVars, Begin, DestroyUncreated, Load, TestFails, ReadAgain,
       CallBrowser, DerefNull, AddRefFreed, CloseWindow, HandleWmClose, Quit, uiVars,
       clientVars, cefVars

LEMMA InitBrowserInv == Init => BrowserInv
BY NoneAssumption DEF Init, BrowserInv, Ties, PostedMainIsAlone, SecondaryHasMain,
   HeldIsAnnounced, OpenMainIsHeld, Announced

LEMMA KeepBrowserInv ==
  ASSUME BrowserInv, UNCHANGED browserVars
  PROVE  BrowserInv'
BY DEF BrowserInv, Ties, PostedMainIsAlone, SecondaryHasMain, HeldIsAnnounced,
   OpenMainIsHeld, browserVars

(* A client that does not exist holds nothing, and a browser not requested is held by none. *)
LEMMA HeldExists ==
  ASSUME TypeOK, BrowserInv, NEW k \in Client, held[k] # None
  PROVE  /\ held[k] \in Browser
         /\ st[held[k]] \in Announced
         /\ client[held[k]] = k
         /\ owner[k] # None
         /\ id[k] = held[k]
BY DEF TypeOK, BrowserInv, Ties, HeldIsAnnounced, Announced

LEMMA DoInitBrowserInv ==
  ASSUME TypeOK, BrowserInv, NEW c \in Control, NEW k \in Client, NEW b \in Browser,
         DoInit(c, k, b)
  PROVE  BrowserInv'
<1> USE DEF TypeOK, Announced
<1>1. /\ owner[k] = None /\ st[b] = "none" /\ held' = held
      /\ owner' = [owner EXCEPT ![k] = c]
      /\ st' = [st EXCEPT ![b] = "posted"]
      /\ client' = [client EXCEPT ![b] = k]
      /\ main' = main \cup {b}
      /\ \A j \in Client : j # k => id'[j] = id[j]
  BY DEF DoInit
<1>2. c # None /\ k # None
  BY NoneAssumption
<1>3. held[k] = None
  BY <1>1, HeldExists
<1>4. \A d \in Browser : client[d] # k
  BY <1>1, <1>2 DEF BrowserInv, Ties
<1>5. b \notin main /\ client[b] = None
  BY <1>1 DEF BrowserInv, Ties
<1>6. Ties'
  BY <1>1, <1>2 DEF BrowserInv, Ties
<1>7. PostedMainIsAlone'
  BY <1>1, <1>4, <1>5 DEF BrowserInv, PostedMainIsAlone
<1>8. SecondaryHasMain'
  <2> SUFFICES ASSUME NEW d \in Browser, st'[d] # "none", d \notin main'
               PROVE  \E m \in main' : client'[m] = client'[d] /\ st'[m] \notin {"none", "posted"}
    BY DEF SecondaryHasMain
  <2>1. d # b /\ st[d] # "none" /\ d \notin main
    BY <1>1
  <2>2. PICK m \in main : client[m] = client[d] /\ st[m] \notin {"none", "posted"}
    BY <2>1 DEF BrowserInv, SecondaryHasMain
  <2>3. QED
    BY <1>1, <1>5, <2>1, <2>2
<1>9. HeldIsAnnounced'
  BY <1>1, <1>3, HeldExists DEF HeldIsAnnounced
<1>10. OpenMainIsHeld'
  BY <1>1, <1>5 DEF BrowserInv, OpenMainIsHeld
<1>11. QED
  BY <1>6, <1>7, <1>8, <1>9, <1>10 DEF BrowserInv

LEMMA ShowDevToolsBrowserInv ==
  ASSUME TypeOK, BrowserInv, NEW b \in Browser, NEW d \in Browser, ShowDevTools(b, d)
  PROVE  BrowserInv'
<1> USE DEF TypeOK, Announced
<1>1. /\ st[b] = "open" /\ st[d] = "none" /\ UNCHANGED <<owner, held, id, main>>
      /\ st' = [st EXCEPT ![d] = "posted"]
      /\ client' = [client EXCEPT ![d] = client[b]]
  BY DEF ShowDevTools, clientVars
<1>2. d \notin main /\ client[d] = None /\ b # d
  BY <1>1 DEF BrowserInv, Ties
<1>3. client[b] \in Client /\ owner[client[b]] # None
  BY <1>1 DEF BrowserInv, Ties
<1>4. Ties'
  BY <1>1, <1>2, <1>3 DEF BrowserInv, Ties
<1>5. PostedMainIsAlone'
  BY <1>1, <1>2 DEF BrowserInv, PostedMainIsAlone
<1>6. SecondaryHasMain'
  <2> SUFFICES ASSUME NEW x \in Browser, st'[x] # "none", x \notin main
               PROVE  \E m \in main : client'[m] = client'[x] /\ st'[m] \notin {"none", "posted"}
    BY <1>1 DEF SecondaryHasMain
  <2> DEFINE y == IF x = d THEN b ELSE x
  <2>1. y \in Browser /\ st[y] # "none" /\ client'[x] = client[y] /\ (y \in main => x = d)
    BY <1>1
  <2>2. CASE y \in main
    BY <1>1, <1>2, <2>1, <2>2
  <2>3. CASE y \notin main
    <3>1. PICK m \in main : client[m] = client[y] /\ st[m] \notin {"none", "posted"}
      BY <2>1, <2>3 DEF BrowserInv, SecondaryHasMain
    <3>2. QED
      BY <1>1, <1>2, <2>1, <3>1
  <2>4. QED
    BY <2>2, <2>3
<1>7. HeldIsAnnounced'
  BY <1>1, <1>2, HeldExists DEF HeldIsAnnounced
<1>8. OpenMainIsHeld'
  BY <1>1, <1>2 DEF BrowserInv, OpenMainIsHeld
<1>9. QED
  BY <1>4, <1>5, <1>6, <1>7, <1>8 DEF BrowserInv

LEMMA OnAfterCreatedBrowserInv ==
  ASSUME TypeOK, BrowserInv, NEW b \in Browser, OnAfterCreated(b)
  PROVE  BrowserInv'
<1> USE DEF TypeOK, Announced
<1> DEFINE k == client[b]
<1>1. /\ st[b] = "posted" /\ UNCHANGED <<owner, client, main>>
      /\ st' = [st EXCEPT ![b] = "open"]
      /\ \/ /\ held[k] = None
            /\ held' = [held EXCEPT ![k] = b]
            /\ id' = [id EXCEPT ![k] = b]
         \/ /\ held[k] # None
            /\ UNCHANGED <<held, id>>
  BY DEF OnAfterCreated, Adopts
<1>2. k \in Client /\ owner[k] # None
  BY <1>1 DEF BrowserInv, Ties
<1>3. b # None
  BY NoneAssumption
<1>4. Ties' /\ PostedMainIsAlone'
  BY <1>1 DEF BrowserInv, Ties, PostedMainIsAlone
<1>5. SecondaryHasMain'
  BY <1>1 DEF BrowserInv, SecondaryHasMain
<1>6. HeldIsAnnounced'
  BY <1>1, <1>2, <1>3, HeldExists DEF HeldIsAnnounced
<1>7. OpenMainIsHeld'
  <2> SUFFICES ASSUME NEW m \in main, st'[m] \in Announced PROVE held'[client[m]] = m
    BY <1>1 DEF OpenMainIsHeld
  <2>1. CASE m = b
    <3>1. held[k] = None
      <4> SUFFICES ASSUME held[k] # None PROVE FALSE
        OBVIOUS
      <4>1. held[k] \in Browser /\ st[held[k]] \in Announced /\ client[held[k]] = k
        BY <1>2, HeldExists
      <4>2. held[k] = b
        BY <1>1, <2>1, <4>1 DEF BrowserInv, PostedMainIsAlone
      <4>3. QED
        BY <1>1, <4>1, <4>2
    <3>2. QED
      BY <1>1, <1>2, <2>1, <3>1
  <2>2. CASE m # b
    <3>1. m \in Browser /\ st[m] \in Announced /\ held[client[m]] = m /\ m # None
      BY <1>1, <2>2, NoneAssumption DEF BrowserInv, OpenMainIsHeld
    <3>2. client[m] \in Client
      BY <3>1 DEF BrowserInv, Ties
    <3>3. QED
      BY <1>1, <1>2, <3>1, <3>2
  <2>3. QED
    BY <2>1, <2>2
<1>8. QED
  BY <1>4, <1>5, <1>6, <1>7 DEF BrowserInv

LEMMA OnBeforeCloseBrowserInv ==
  ASSUME TypeOK, BrowserInv, NEW b \in Browser, OnBeforeClose(b)
  PROVE  BrowserInv'
<1> USE DEF TypeOK, Announced
<1> DEFINE k == client[b]
<1>1. /\ st[b] \in Announced /\ UNCHANGED <<owner, id, client, main>>
      /\ st' = [st EXCEPT ![b] = "closed"]
      /\ held' = IF id[k] = b THEN [held EXCEPT ![k] = None] ELSE held
  BY DEF OnBeforeClose, Matches, HostIsGone
<1>2. k \in Client
  BY <1>1 DEF BrowserInv, Ties
<1>3. Ties' /\ PostedMainIsAlone' /\ SecondaryHasMain'
  BY <1>1 DEF BrowserInv, Ties, PostedMainIsAlone, SecondaryHasMain
<1>4. HeldIsAnnounced'
  <2> SUFFICES ASSUME NEW j \in Client, held'[j] # None
               PROVE  st'[held'[j]] \in Announced /\ client[held'[j]] = j /\ id[j] = held'[j]
    BY <1>1 DEF HeldIsAnnounced
  <2>1. held'[j] = held[j] /\ ~(j = k /\ id[k] = b)
    BY <1>1, <1>2
  <2>2. held[j] \in Browser /\ st[held[j]] \in Announced /\ client[held[j]] = j /\ id[j] = held[j]
    BY <2>1, HeldExists
  <2>3. held[j] # b
    BY <2>1, <2>2
  <2>4. QED
    BY <1>1, <2>1, <2>2, <2>3
<1>5. OpenMainIsHeld'
  <2> SUFFICES ASSUME NEW m \in main, st'[m] \in Announced PROVE held'[client[m]] = m
    BY <1>1 DEF OpenMainIsHeld
  <2>1. m # b /\ m \in Browser /\ st[m] \in Announced /\ m # None
    BY <1>1, NoneAssumption
  <2>2. held[client[m]] = m /\ client[m] \in Client
    BY <2>1 DEF BrowserInv, OpenMainIsHeld, Ties
  <2>3. id[client[m]] = m
    BY <2>1, <2>2, HeldExists
  <2>4. QED
    BY <1>1, <1>2, <2>1, <2>2, <2>3
<1>6. QED
  BY <1>3, <1>4, <1>5 DEF BrowserInv

(* DoClose, DropRequest and Free move a browser on without touching what its client holds. *)
LEMMA OtherStatusBrowserInv ==
  ASSUME TypeOK, BrowserInv, NEW b \in Browser, DoClose(b) \/ DropRequest(b) \/ Free(b)
  PROVE  BrowserInv'
<1> USE DEF TypeOK, Announced
<1>1. /\ UNCHANGED <<owner, held, id, client, main>>
      /\ \/ st[b] = "open" /\ st' = [st EXCEPT ![b] = "closing"]
         \/ st[b] = "posted" /\ st' = [st EXCEPT ![b] = "freed"]
         \/ st[b] = "closed" /\ st' = [st EXCEPT ![b] = "freed"]
  BY DEF DoClose, DropRequest, Free, clientVars, Matches, PostsWmClose
<1>2. Ties' /\ PostedMainIsAlone'
  BY <1>1 DEF BrowserInv, Ties, PostedMainIsAlone
<1>3. SecondaryHasMain'
  BY <1>1 DEF BrowserInv, SecondaryHasMain
<1>4. HeldIsAnnounced' /\ OpenMainIsHeld'
  BY <1>1, HeldExists DEF BrowserInv, HeldIsAnnounced, OpenMainIsHeld
<1>5. QED
  BY <1>2, <1>3, <1>4 DEF BrowserInv

LEMMA StepBrowserInv == TypeOK /\ BrowserInv /\ [Next]_vars => BrowserInv'
<1> SUFFICES ASSUME TypeOK, BrowserInv, [Next]_vars PROVE BrowserInv'
  OBVIOUS
<1>1. CASE UiNext
  BY <1>1, QuietSteps, KeepBrowserInv, DoInitBrowserInv
<1>2. ASSUME NEW b \in Browser, CefStep(b) PROVE BrowserInv'
  <2>1. CASE CallbackOnDeletedSlot(b) \/ MenuOnNull(b) \/ CloseSecondary(b)
    BY <2>1, KeepBrowserInv
    DEF CallbackOnDeletedSlot, MenuOnNull, CloseSecondary, clientVars, cefVars, browserVars
  <2>2. ASSUME NEW d \in Browser, ShowDevTools(b, d) \/ OnBeforePopup(b, d) PROVE BrowserInv'
    BY <2>2, ShowDevToolsBrowserInv DEF OnBeforePopup
  <2>3. QED
    BY <1>2, <2>1, <2>2, OnAfterCreatedBrowserInv, OnBeforeCloseBrowserInv, OtherStatusBrowserInv
    DEF CefStep
<1>3. CASE UNCHANGED vars
  BY <1>3, KeepBrowserInv DEF vars, clientVars, cefVars, browserVars
<1>4. QED
  BY <1>1, <1>2, <1>3 DEF Next, CefNext

THEOREM BrowserInvariant == Spec => []BrowserInv
BY InitBrowserInv, StepBrowserInv, TypeCorrect, PTL DEF Spec

(* No client ever hands out a browser that CEF has not announced or has already ended. *)
THEOREM HeldBrowsersAreAnnounced == Spec => []HeldIsAnnounced
<1>1. BrowserInv => HeldIsAnnounced
  BY DEF BrowserInv
<1>2. QED
  BY <1>1, BrowserInvariant, PTL

(* While the browser of a DoInit is open, its client hands out that one and no other. *)
THEOREM MainBrowserIsHeld == Spec => []OpenMainIsHeld
<1>1. BrowserInv => OpenMainIsHeld
  BY DEF BrowserInv
<1>2. QED
  BY <1>1, BrowserInvariant, PTL
-----------------------------------------------------------------------------
(* The unlocked reads.  A first read that is not null proves that the main browser of the *)
(* control was announced, and then a null second read proves that it has ended.           *)
Launched(c) == \E m \in main : client[m] = handler[c] /\ st[m] \notin {"none", "posted"}

Ended(c) == \E m \in main : client[m] = handler[c] /\ st[m] \in {"closed", "freed"}

CallInv ==
  /\ ui.step = "again" => ui.op = "ExectueJS"
  /\ ui.step = "test" /\ ui.loaded /\ ui.ptr # None => Launched(ui.ctl)
  /\ ui.step = "call" /\ ui.op \in Checked => Launched(ui.ctl)
  /\ ui.step = "call" /\ ui.op \in Checked /\ ui.loaded /\ ui.ptr = None => Ended(ui.ctl)
  /\ fault = "null_browser" => ui.step \in {"again", "call"} /\ ui.loaded /\ ui.ptr = None

LEMMA MethodCases ==
  ASSUME TypeOK, ui.step # "idle"
  PROVE  ui \in [step : {"test", "again", "call"}, op : Op, ctl : Control,
                ptr : Browser \cup {None}, loaded : BOOLEAN]
BY DEF TypeOK, Method, Idle, At

LEMMA IdleCallInv == ASSUME ui' = Idle, fault' # "null_browser" PROVE CallInv'
BY DEF CallInv, Idle, At

LEMMA LoadCallInv == ASSUME TypeOK, BrowserInv, CallInv, Load PROVE CallInv'
<1> DEFINE c == ui.ctl
           k == handler[c]
           p == HeldBy(c)
<1>1. /\ ui.step # "idle" /\ fault = "none" /\ ~ui.loaded
      /\ ui' = [ui EXCEPT !.ptr = p, !.loaded = TRUE]
      /\ UNCHANGED <<handler, fault, st, client, main, held>>
  BY DEF Load, Running, clientVars, cefVars
<1>2. c \in Control /\ ui'.step = ui.step /\ ui'.op = ui.op /\ ui'.ctl = c /\ ui'.ptr = p
  BY <1>1, MethodCases
<1>3. k \in Client \cup {None}
  BY <1>2 DEF TypeOK
<1>4. p # None => Launched(c)
  <2> SUFFICES ASSUME p # None PROVE Launched(c)
    OBVIOUS
  <2>1. k \in Client /\ p = held[k]
    BY <1>3 DEF HeldBy
  <2>2. p \in Browser /\ st[p] \in Announced /\ client[p] = k
    BY <2>1, HeldExists
  <2>3. CASE p \in main
    BY <2>2, <2>3 DEF Launched, Announced
  <2>4. CASE p \notin main
    BY <2>2, <2>4 DEF Launched, BrowserInv, SecondaryHasMain, Announced
  <2>5. QED
    BY <2>3, <2>4
<1>5. p = None /\ Launched(c) => Ended(c)
  <2> SUFFICES ASSUME p = None, Launched(c) PROVE Ended(c)
    OBVIOUS
  <2>1. PICK m \in main : client[m] = k /\ st[m] \notin {"none", "posted"}
    BY DEF Launched
  <2>2. m \in Browser /\ st[m] \in BrowserState /\ m # None
    BY NoneAssumption DEF TypeOK
  <2>3. k \in Client
    BY <2>1, <2>2 DEF BrowserInv, Ties
  <2>4. held[k] = None
    BY <2>3, NoneAssumption DEF HeldBy
  <2>5. st[m] \notin Announced
    BY <2>1, <2>2, <2>4 DEF BrowserInv, OpenMainIsHeld
  <2>6. QED
    BY <2>1, <2>2, <2>5 DEF Ended, Announced, BrowserState
<1>6. (Launched(c) => Launched(c)') /\ (Ended(c) => Ended(c)')
  BY <1>1 DEF Launched, Ended
<1>7. QED
  BY <1>1, <1>2, <1>4, <1>5, <1>6 DEF CallInv

LEMMA UiCallInv == ASSUME TypeOK, BrowserInv, CallInv, UiNext PROVE CallInv'
<1>1. CASE \E c \in Control, k \in Client, b \in Browser : DoInit(c, k, b)
  BY <1>1, IdleCallInv DEF DoInit, Running
<1>2. ASSUME NEW c \in Control, NEW op \in Op, Begin(c, op) PROVE CallInv'
  <2>1. ui' = At(FirstStep(op), op, c) /\ fault' = "none"
    BY <1>2 DEF Begin, Running
  <2>2. QED
    BY <2>1 DEF At, FirstStep, CallInv
<1>3. CASE \E c \in Control : DestroyUncreated(c)
  BY <1>3, IdleCallInv DEF DestroyUncreated, Running
<1>4. CASE TestFails \/ CallBrowser
  BY <1>4, IdleCallInv DEF TestFails, CallBrowser, Return, Pinned, Running
<1>5. CASE ReadAgain
  <2>1. /\ ui.step \in {"test", "again"} /\ ui.loaded /\ ui.ptr # None /\ fault = "none"
        /\ ui' = At("call", ui.op, ui.ctl)
        /\ UNCHANGED <<handler, fault, st, client, main>>
    BY <1>5 DEF ReadAgain, Pinned, Running, cefVars
  <2>2. ui.op \in Checked => ui.step = "test"
    BY <2>1 DEF CallInv, Checked, Closers
  <2>3. Launched(ui.ctl) => Launched(ui.ctl)'
    BY <2>1 DEF Launched, At
  <2>4. QED
    BY <2>1, <2>2, <2>3 DEF CallInv, At
<1>6. CASE DerefNull \/ AddRefFreed
  <2>1. /\ UNCHANGED <<ui, handler, st, client, main>>
        /\ fault' = "null_browser" => ui.step \in {"again", "call"} /\ ui.loaded /\ ui.ptr = None
    BY <1>6 DEF DerefNull, AddRefFreed, uiVars, cefVars
  <2>2. QED
    BY <2>1 DEF CallInv, Launched, Ended
<1>7. CASE CloseWindow \/ HandleWmClose \/ Quit
  <2>1. UNCHANGED <<ui, handler, fault, st, client, main>>
    BY <1>7 DEF CloseWindow, HandleWmClose, Quit, cefVars
  <2>2. QED
    BY <2>1 DEF CallInv, Launched, Ended
<1>8. QED
  BY <1>1, <1>2, <1>3, <1>4, <1>5, <1>6, <1>7, LoadCallInv DEF UiNext, UiStep

(* CEF only moves a browser forward, and a new DevTools window or popup is not a main browser. *)
LEMMA CefMovesForward ==
  ASSUME TypeOK, BrowserInv, NEW b \in Browser, CefStep(b)
  PROVE  /\ UNCHANGED <<ui, handler, main>> /\ fault' # "null_browser"
         /\ \A m \in main :
              /\ client'[m] = client[m]
              /\ st[m] \notin {"none", "posted"} => st'[m] \notin {"none", "posted"}
              /\ st[m] \in {"closed", "freed"} => st'[m] \in {"closed", "freed"}
<1> USE DEF TypeOK, Running, uiVars, cefVars
<1>1. CASE OnAfterCreated(b) \/ OnBeforeClose(b)
  BY <1>1 DEF OnAfterCreated, OnBeforeClose, Announced, Adopts, Matches, HostIsGone
<1>2. CASE DoClose(b) \/ DropRequest(b) \/ CloseSecondary(b) \/ Free(b)
  BY <1>2 DEF DoClose, DropRequest, CloseSecondary, Free, Matches, PostsWmClose
<1>3. CASE CallbackOnDeletedSlot(b) \/ MenuOnNull(b)
  BY <1>3 DEF CallbackOnDeletedSlot, MenuOnNull
<1>4. ASSUME NEW d \in Browser, ShowDevTools(b, d)
      PROVE  /\ UNCHANGED <<ui, handler, main>> /\ fault' # "null_browser"
             /\ \A m \in main : client'[m] = client[m] /\ st'[m] = st[m]
  <2>1. d \notin main
    BY <1>4 DEF ShowDevTools, BrowserInv, Ties
  <2>2. QED
    BY <1>4, <2>1 DEF ShowDevTools
<1>5. QED
  BY <1>1, <1>2, <1>3, <1>4 DEF CefStep, OnBeforePopup

LEMMA CefCallInv ==
  ASSUME TypeOK, BrowserInv, CallInv, NEW b \in Browser, CefStep(b)
  PROVE  CallInv'
<1>1. (Launched(ui.ctl) => Launched(ui.ctl)') /\ (Ended(ui.ctl) => Ended(ui.ctl)')
  BY CefMovesForward DEF Launched, Ended
<1>2. QED
  BY <1>1, CefMovesForward DEF CallInv

(* A method that tests before it uses faults only if its browser ended between its reads. *)
THEOREM TestedCallsAreSafeBeforeClose == Spec => []TestedCallFaultsOnlyAfterClose
<1>1. Init => CallInv
  BY DEF Init, CallInv, Idle, At
<1>2. TypeOK /\ BrowserInv /\ CallInv /\ [Next]_vars => CallInv'
  <2> SUFFICES ASSUME TypeOK, BrowserInv, CallInv, [Next]_vars PROVE CallInv'
    OBVIOUS
  <2>1. CASE UNCHANGED vars
    BY <2>1 DEF vars, uiVars, cefVars, CallInv, Launched, Ended
  <2>2. QED
    BY <2>1, UiCallInv, CefCallInv DEF Next, CefNext
<1>3. CallInv => TestedCallFaultsOnlyAfterClose
  BY DEF CallInv, TestedCallFaultsOnlyAfterClose, Ended, Checked, Closers
<1>4. QED
  BY <1>1, <1>2, <1>3, TypeCorrect, BrowserInvariant, PTL DEF Spec
-----------------------------------------------------------------------------
(* A reference in hand outlives what happened to browser_ since.  CallsReachOwnBrowser is    *)
(* inductive with BrowserInv: a reference was taken from a client whose main browser, if it  *)
(* was still to be announced, was alone on it (PostedMainIsAlone), so no later announcement  *)
(* can bring a main browser to a client of which a method already holds another one.         *)
LEMMA InHand ==
  ASSUME TypeOK, ui.loaded, ui.ptr # None
  PROVE  ui.step # "idle" /\ ui.ptr \in Browser /\ ui.ctl \in Control
<1>1. ui.step # "idle"
  BY DEF TypeOK, Method, Idle, At
<1>2. QED
  BY <1>1, MethodCases

LEMMA CefKeepsKnown ==
  ASSUME TypeOK, BrowserInv, NEW b \in Browser, CefStep(b), NEW x \in Browser, st[x] # "none"
  PROVE  /\ client'[x] = client[x]
         /\ st[x] # "posted" => st'[x] \notin {"none", "posted"}
         /\ st'[x] \in Announced => st[x] \in Announced \cup {"posted"}
<1> USE DEF TypeOK, Announced, clientVars, cefVars
<1>1. CASE OnAfterCreated(b) \/ OnBeforeClose(b)
  BY <1>1 DEF OnAfterCreated, OnBeforeClose, Adopts, Matches, HostIsGone
<1>2. CASE DoClose(b) \/ DropRequest(b) \/ CloseSecondary(b) \/ Free(b)
  BY <1>2 DEF DoClose, DropRequest, CloseSecondary, Free, Matches, PostsWmClose
<1>3. CASE CallbackOnDeletedSlot(b) \/ MenuOnNull(b)
  BY <1>3 DEF CallbackOnDeletedSlot, MenuOnNull
<1>4. ASSUME NEW d \in Browser, ShowDevTools(b, d) \/ OnBeforePopup(b, d)
      PROVE  client'[x] = client[x] /\ st'[x] = st[x]
  BY <1>4 DEF ShowDevTools, OnBeforePopup
<1>5. QED
  BY <1>1, <1>2, <1>3, <1>4 DEF CefStep

LEMMA LoadReachesOwn == ASSUME TypeOK, BrowserInv, Load PROVE CallsReachOwnBrowser'
<1> DEFINE k == handler[ui.ctl]
           p == HeldBy(ui.ctl)
<1>1. /\ ui.step # "idle" /\ ui' = [ui EXCEPT !.ptr = p, !.loaded = TRUE]
      /\ UNCHANGED <<handler, st, client, main>>
  BY DEF Load, cefVars
<1>2. ui'.ptr = p /\ ui'.ctl = ui.ctl /\ ui.ctl \in Control
  BY <1>1, MethodCases
<1>3. SUFFICES ASSUME p # None
               PROVE  /\ client[p] = k /\ st[p] \in Announced
                      /\ \A b \in main : client[b] = k /\ st[b] \in Announced => p = b
  BY <1>1, <1>2 DEF CallsReachOwnBrowser, Announced
<1>4. k \in Client /\ p = held[k]
  BY <1>2, <1>3 DEF HeldBy, TypeOK
<1>5. client[p] = k /\ st[p] \in Announced
  BY <1>3, <1>4, HeldExists
<1>6. QED
  BY <1>4, <1>5 DEF BrowserInv, OpenMainIsHeld

LEMMA CefReachesOwn ==
  ASSUME TypeOK, BrowserInv, CallsReachOwnBrowser, NEW b \in Browser, CefStep(b)
  PROVE  CallsReachOwnBrowser'
<1> DEFINE p == ui.ptr
<1>1. UNCHANGED <<ui, handler, main>>
  BY CefMovesForward
<1>2. SUFFICES ASSUME ui.loaded, p # None
               PROVE  /\ client'[p] = handler[ui.ctl] /\ st'[p] \notin {"none", "posted"}
                      /\ \A m \in main :
                           client'[m] = client'[p] /\ st'[m] \in Announced => p = m
  BY <1>1 DEF CallsReachOwnBrowser
<1>3. /\ p \in Browser /\ client[p] = handler[ui.ctl] /\ st[p] \notin {"none", "posted"}
      /\ \A m \in main : client[m] = client[p] /\ st[m] \in Announced => p = m
  BY <1>2, InHand DEF CallsReachOwnBrowser
<1>4. client'[p] = client[p] /\ st'[p] \notin {"none", "posted"}
  BY <1>3, CefKeepsKnown
<1>5. ASSUME NEW m \in main, client'[m] = client'[p], st'[m] \in Announced PROVE p = m
  <2>1. m \in Browser /\ st[m] # "none"
    BY DEF TypeOK, BrowserInv, Ties
  <2>2. client[m] = client[p] /\ st[m] \in Announced \cup {"posted"}
    BY <1>4, <1>5, <2>1, CefKeepsKnown
  <2>3. CASE st[m] = "posted"
    BY <1>3, <2>2, <2>3 DEF BrowserInv, PostedMainIsAlone
  <2>4. QED
    BY <1>3, <2>2, <2>3
<1>6. QED
  BY <1>3, <1>4, <1>5

(* A stale reference is never one to another control's browser, nor to a popup or DevTools  *)
(* window while the control's own browser is open.                                          *)
THEOREM CallsStayWithTheirBrowser == Spec => []CallsReachOwnBrowser
<1> USE DEF CallsReachOwnBrowser
<1>1. Init => CallsReachOwnBrowser
  BY DEF Init, Idle, At
<1>2. TypeOK /\ BrowserInv /\ CallsReachOwnBrowser /\ [Next]_vars => CallsReachOwnBrowser'
  <2> SUFFICES ASSUME TypeOK, BrowserInv, CallsReachOwnBrowser, [Next]_vars
               PROVE  CallsReachOwnBrowser'
    OBVIOUS
  <2>1. CASE \/ \E c \in Control, k \in Client, b \in Browser : DoInit(c, k, b)
             \/ \E c \in Control, op \in Op : Begin(c, op)
             \/ \E c \in Control : DestroyUncreated(c)
             \/ TestFails \/ ReadAgain \/ CallBrowser
    <3>1. ~ui'.loaded
      BY <2>1 DEF DoInit, Begin, DestroyUncreated, TestFails, ReadAgain, CallBrowser, Return,
                  Idle, At
    <3>2. QED
      BY <3>1
  <2>2. CASE \/ DerefNull \/ AddRefFreed \/ CloseWindow \/ HandleWmClose \/ Quit
             \/ UNCHANGED vars
    <3>1. UNCHANGED <<ui, handler, st, client, main>>
      BY <2>2 DEF DerefNull, AddRefFreed, CloseWindow, HandleWmClose, Quit, vars, uiVars,
                  cefVars
    <3>2. QED
      BY <3>1
  <2>3. QED
    BY <2>1, <2>2, LoadReachesOwn, CefReachesOwn DEF Next, UiNext, UiStep, CefNext
<1>3. QED
  BY <1>1, <1>2, TypeCorrect, BrowserInvariant, PTL DEF Spec
-----------------------------------------------------------------------------
(* A menu command finds browser_ null only on a popup or DevTools window whose main browser  *)
(* has ended.                                                                                *)
THEOREM MenuIsSafeBeforeClose == Spec => []MenuFindsBrowserBeforeClose
<1>1. TypeOK /\ BrowserInv => MenuFindsBrowserBeforeClose
  <2> SUFFICES ASSUME TypeOK, BrowserInv, NEW b \in Browser, st[b] = "open",
                      held[client[b]] = None
               PROVE  /\ b \notin main
                      /\ \E m \in main : client[m] = client[b] /\ st[m] \in {"closed", "freed"}
    BY DEF MenuFindsBrowserBeforeClose
  <2>1. ASSUME NEW m \in main, client[m] = client[b] PROVE st[m] \notin Announced
    BY <2>1, NoneAssumption DEF TypeOK, BrowserInv, OpenMainIsHeld
  <2>2. b \notin main
    BY <2>1 DEF Announced
  <2>3. PICK m \in main : client[m] = client[b] /\ st[m] \notin {"none", "posted"}
    BY <2>2 DEF BrowserInv, SecondaryHasMain
  <2>4. st[m] \in {"closed", "freed"}
    BY <2>1, <2>3 DEF TypeOK, BrowserState, Announced
  <2>5. QED
    BY <2>2, <2>3, <2>4
<1>2. QED
  BY <1>1, TypeCorrect, BrowserInvariant, PTL

(* A fault stops the process. *)
LEMMA Stopped == ASSUME fault # "none", Next PROVE FALSE
<1>1. ~Running
  BY DEF Running
<1>2. ~UiNext
  BY <1>1 DEF UiNext, UiStep, DoInit, Begin, DestroyUncreated, Load, TestFails, ReadAgain,
              CallBrowser, Pinned, DerefNull, AddRefFreed, CloseWindow, HandleWmClose, Quit
<1>3. ASSUME NEW b \in Browser, CefStep(b) PROVE FALSE
  BY <1>1, <1>3 DEF CefStep, OnAfterCreated, DoClose, OnBeforeClose, CallbackOnDeletedSlot,
                    ShowDevTools, OnBeforePopup, MenuOnNull, DropRequest, CloseSecondary, Free
<1>4. QED
  BY <1>2, <1>3 DEF Next, CefNext

LEMMA SlotFaultStep ==
  ASSUME TypeOK, BrowserInv, NEW b \in Browser, CallbackOnDeletedSlot(b)
  PROVE  \E j, k \in Client : j # k /\ owner[j] = owner[k] /\ owner[k] \in Slotted
<1> DEFINE k == client[b]
<1>1. st[b] \in Announced \cup {"posted"} /\ SlotDangling(k)
  BY DEF CallbackOnDeletedSlot
<1>2. k \in Client /\ ~Destroyed(k)
  BY <1>1 DEF BrowserInv, Ties, Announced, Destroyed
<1>3. PICK j \in Client : owner[j] = owner[k] /\ Destroyed(j)
  BY <1>1 DEF SlotDangling, SlotDeleted
<1>4. QED
  BY <1>1, <1>2, <1>3 DEF SlotDangling

(* With one DoInit for each control no callback ever meets a deleted slot: the browsers of a *)
(* client keep it, and the client keeps the slot.                                            *)
THEOREM SlotsOutliveTheirBrowsers == Spec => []SlotDiesOnlyWithSecondClient
<1> USE DEF SlotDiesOnlyWithSecondClient
<1>1. Init => SlotDiesOnlyWithSecondClient
  BY DEF Init
<1>2. TypeOK /\ BrowserInv /\ SlotDiesOnlyWithSecondClient /\ [Next]_vars
        => SlotDiesOnlyWithSecondClient'
  <2> SUFFICES ASSUME TypeOK, BrowserInv, SlotDiesOnlyWithSecondClient, [Next]_vars,
                      fault' = "freed_slot"
               PROVE  SlotDiesOnlyWithSecondClient'
    OBVIOUS
  <2>1. CASE UNCHANGED vars
    BY <2>1 DEF vars, clientVars
  <2>2. CASE Next
    <3>1. fault = "none"
      BY <2>2, Stopped
    <3>2. ~UiNext
      BY <3>1 DEF UiNext, UiStep, DoInit, Begin, DestroyUncreated, Load, TestFails, ReadAgain,
                  CallBrowser, DerefNull, AddRefFreed, CloseWindow, HandleWmClose, Quit
    <3>3. PICK b \in Browser : CefStep(b)
      BY <2>2, <3>2 DEF Next, CefNext
    <3>4. CallbackOnDeletedSlot(b)
      BY <3>1, <3>3 DEF CefStep, OnAfterCreated, DoClose, OnBeforeClose, ShowDevTools,
                        OnBeforePopup, MenuOnNull, DropRequest, CloseSecondary, Free
    <3>5. UNCHANGED owner
      BY <3>4 DEF CallbackOnDeletedSlot, clientVars
    <3>6. QED
      BY <3>4, <3>5, SlotFaultStep
  <2>3. QED
    BY <2>1, <2>2
<1>3. QED
  BY <1>1, <1>2, TypeCorrect, BrowserInvariant, PTL DEF Spec
-----------------------------------------------------------------------------
(* Refinement: OnAfterCreated is Announce, OnBeforeClose is End, all else a stutter. *)
LEMMA AnnouncedToMembers ==
  ASSUME NEW k \in Client
  PROVE  AnnouncedTo[k] = {b \in Browser : client[b] = k /\ st[b] \in Announced}
BY DEF AnnouncedTo

LEMMA AnnounceStep ==
  ASSUME TypeOK, BrowserInv, NEW b \in Browser, OnAfterCreated(b)
  PROVE  Holder!Announce(client[b], b) /\ client[b] \in Client
<1> USE DEF TypeOK
<1> DEFINE k == client[b]
<1>1. /\ st[b] = "posted" /\ UNCHANGED client /\ st' = [st EXCEPT ![b] = "open"]
      /\ held' = IF held[k] = None THEN [held EXCEPT ![k] = b] ELSE held
  BY DEF OnAfterCreated, Adopts
<1>2. k \in Client
  BY <1>1 DEF BrowserInv, Ties
<1>3. b \notin AnnouncedTo[k]
  BY <1>1, <1>2 DEF AnnouncedTo, Announced
<1>4. AnnouncedTo' = [AnnouncedTo EXCEPT ![k] = @ \cup {b}]
  <2>1. \A j \in Client : AnnouncedTo'[j] = IF j = k THEN AnnouncedTo[j] \cup {b} ELSE AnnouncedTo[j]
    BY <1>1, <1>2 DEF AnnouncedTo, Announced
  <2>2. QED
    BY <2>1, <1>2 DEF AnnouncedTo
<1>5. held' = [held EXCEPT ![k] = IF @ = None THEN b ELSE @]
  BY <1>1, <1>2
<1>6. QED
  BY <1>2, <1>3, <1>4, <1>5 DEF Holder!Announce

LEMMA EndStep ==
  ASSUME TypeOK, BrowserInv, NEW b \in Browser, OnBeforeClose(b)
  PROVE  Holder!End(client[b], b) /\ client[b] \in Client
<1> USE DEF TypeOK
<1> DEFINE k == client[b]
<1>1. /\ st[b] \in Announced /\ UNCHANGED client /\ st' = [st EXCEPT ![b] = "closed"]
      /\ held' = IF id[k] = b THEN [held EXCEPT ![k] = None] ELSE held
  BY DEF OnBeforeClose, Matches, HostIsGone
<1>2. k \in Client
  BY <1>1 DEF BrowserInv, Ties, Announced
<1>3. b \in AnnouncedTo[k]
  BY <1>1, <1>2 DEF AnnouncedTo
<1>4. AnnouncedTo' = [AnnouncedTo EXCEPT ![k] = @ \ {b}]
  <2>1. \A j \in Client : AnnouncedTo'[j] = IF j = k THEN AnnouncedTo[j] \ {b} ELSE AnnouncedTo[j]
    BY <1>1, <1>2 DEF AnnouncedTo, Announced
  <2>2. QED
    BY <2>1, <1>2 DEF AnnouncedTo
<1>5. held' = [held EXCEPT ![k] = IF @ = b THEN None ELSE @]
  <2>1. CASE held[k] = None
    BY <1>1, <1>2, <2>1, NoneAssumption
  <2>2. CASE held[k] # None
    <3>1. id[k] = held[k]
      BY <1>2, <2>2, HeldExists
    <3>2. QED
      BY <1>1, <1>2, <3>1
  <2>3. QED
    BY <2>1, <2>2
<1>6. QED
  BY <1>2, <1>3, <1>4, <1>5 DEF Holder!End

LEMMA HolderStutter ==
  ASSUME UNCHANGED held,
         \A b \in Browser : /\ st'[b] \in Announced <=> st[b] \in Announced
                            /\ st[b] \in Announced => client'[b] = client[b]
  PROVE  UNCHANGED Holder!vars
<1>1. AnnouncedTo' = AnnouncedTo
  BY DEF AnnouncedTo
<1>2. QED
  BY <1>1 DEF Holder!vars

(* The clients of BrowserLifecycle keep the promise of BrowserHolder. *)
THEOREM ClientsImplementHolder == Spec => ImplementsHolder
<1>1. Init => Holder!Init
  BY DEF Init, Holder!Init, AnnouncedTo, Announced
<1>2. TypeOK /\ BrowserInv /\ [Next]_vars => [Holder!Next]_Holder!vars
  <2> SUFFICES ASSUME TypeOK, BrowserInv, [Next]_vars PROVE Holder!Next \/ UNCHANGED Holder!vars
    OBVIOUS
  <2>1. CASE UiNext
    <3>1. ASSUME NEW c \in Control, NEW k \in Client, NEW b \in Browser, DoInit(c, k, b)
          PROVE  UNCHANGED Holder!vars
      BY <3>1, HolderStutter DEF DoInit, TypeOK, Announced
    <3>2. QED
      BY <2>1, <3>1, QuietSteps, HolderStutter DEF browserVars
  <2>2. ASSUME NEW b \in Browser, CefStep(b) PROVE Holder!Next \/ UNCHANGED Holder!vars
    <3>1. CASE OnAfterCreated(b) \/ OnBeforeClose(b)
      BY <3>1, AnnounceStep, EndStep DEF Holder!Next
    <3>2. CASE DoClose(b) \/ DropRequest(b) \/ Free(b)
      BY <3>2, HolderStutter DEF DoClose, DropRequest, Free, clientVars, TypeOK, Announced, Matches, PostsWmClose
    <3>3. CASE CallbackOnDeletedSlot(b) \/ MenuOnNull(b) \/ CloseSecondary(b)
      BY <3>3, HolderStutter DEF CallbackOnDeletedSlot, MenuOnNull, CloseSecondary, clientVars, cefVars
    <3>4. ASSUME NEW d \in Browser, ShowDevTools(b, d) \/ OnBeforePopup(b, d)
          PROVE  UNCHANGED Holder!vars
      BY <3>4, HolderStutter DEF OnBeforePopup, ShowDevTools, clientVars, TypeOK, Announced
    <3>5. QED
      BY <2>2, <3>1, <3>2, <3>3, <3>4 DEF CefStep
  <2>3. CASE UNCHANGED vars
    BY <2>3, HolderStutter DEF vars, clientVars, cefVars
  <2>4. QED
    BY <2>1, <2>2, <2>3 DEF Next, CefNext
<1>3. QED
  BY <1>1, <1>2, TypeCorrect, BrowserInvariant, PTL DEF Spec, ImplementsHolder, Holder!Spec
=============================================================================
