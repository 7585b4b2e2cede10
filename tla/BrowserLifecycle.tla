-------------------------- MODULE BrowserLifecycle --------------------------
(***************************************************************************)
(* The life of the browsers behind CCefBrowserUI controls.                 *)
(*                                                                         *)
(* Two threads of the browser process meet here (InitCef sets              *)
(* multi_threaded_message_loop): the DuiLib thread, which runs every       *)
(* method of the controls and the window procedure of their top-level      *)
(* window, and CEF's UI thread, which runs the CefLifeSpanHandler          *)
(* callbacks of the CBrowserClient that each control creates.  The         *)
(* callbacks hold lock_; the DuiLib thread reads browser_ without it, and  *)
(* most methods read it twice, so each read is two steps here: the copy of *)
(* the raw pointer, then the AddRef and what is done with it.              *)
(*                                                                         *)
(* The CEF library is external: a browser is requested by CreateBrowser or *)
(* by a browser already open, announced once by OnAfterCreated, perhaps    *)
(* asked to close by DoClose, ended once by OnBeforeClose and freed when   *)
(* nobody holds a reference.                                               *)
(***************************************************************************)
CONSTANTS
  Control,   \* the CCefBrowserUI controls of one top-level window
  Client,    \* the CBrowserClient objects, one for each CreateCefWindow
  Browser,   \* the browsers CEF may create, named by GetIdentifier()
  Slotted,   \* the controls constructed with a COtherHandleSlot (set_handle_)
  None       \* the null reference

ASSUME NoneAssumption == None \notin Control \cup Client \cup Browser
ASSUME SlottedAssumption == Slotted \subseteq Control

VARIABLES
  \* the DuiLib thread
  alive,     \* controls constructed and not yet destructed
  created,   \* [Control -> is_created_ of the control]
  handler,   \* [Control -> m_handler, or None]
  ui,        \* the method of a control the thread is in
  wnd,       \* the top-level window: "open" or "destroyed"
  wmClose,   \* WM_CLOSE is queued for the top-level window
  quit,      \* CefShutdown was called
  \* the clients
  owner,     \* [Client -> the control that created it, or None: not constructed yet]
  held,      \* [Client -> browser_]
  id,        \* [Client -> m_BrowserId, uninitialised until the first OnAfterCreated]
  isCreated, \* [Client -> is_created_ of the client]
  isClosing, \* [Client -> is_closing_]
  \* the CEF library
  st,        \* [Browser -> BrowserState]
  client,    \* [Browser -> the client it reports to, or None]
  main,      \* the browsers that a DoInit asked for
  req,       \* the browsers that were asked to close
  \* the process
  fault      \* the memory fault that stopped the process, if any

uiVars == <<alive, created, handler, ui, wnd, wmClose, quit>>
clientVars == <<owner, held, id, isCreated, isClosing>>
cefVars == <<st, client, main, req>>
vars == <<uiVars, clientVars, cefVars, fault>>

(***************************************************************************)
(* Types.                                                                  *)
(***************************************************************************)
BrowserState == {"none", "posted", "open", "closing", "closed", "freed"}

Announced == {"open", "closing"}  \* between OnAfterCreated and the end of OnBeforeClose

\* Methods that test GetBrowser() and call it again: LoadURL, CloseCefWindow (also
\* as the destructor) and GetBrowserHwnd (SetPos, SetVisible, SetInternVisible, ResizeBrowser).
Closers == {"CloseCefWindow", "Destroy"}
Checked == Closers \cup {"LoadURL", "GetBrowserHwnd"}
\* Methods that dereference GetBrowser() untested: Reload, StopLoad, GoBack, GoForward,
\* CanGoBack, SetZoomLevel, GetURL and the like once, ExectueJS twice.
Unchecked == {"Navigate", "ExectueJS"}
Op == Checked \cup Unchecked

\* A method at a step at which it has no reference in hand.
At(step, op, c) == [step |-> step, op |-> op, ctl |-> c, ptr |-> None, loaded |-> FALSE]

Idle == At("idle", "LoadURL", None)

\* The method in progress: the step it is at, its name, its control, the reference in hand.
Method ==
  {Idle} \cup [step : {"test", "again", "call"}, op : Op, ctl : Control,
               ptr : Browser \cup {None}, loaded : BOOLEAN]

TypeOK ==
  /\ alive \subseteq Control
  /\ created \in [Control -> BOOLEAN]
  /\ handler \in [Control -> Client \cup {None}]
  /\ ui \in Method
  /\ wnd \in {"open", "destroyed"}
  /\ wmClose \in BOOLEAN
  /\ quit \in BOOLEAN
  /\ owner \in [Client -> Control \cup {None}]
  /\ held \in [Client -> Browser \cup {None}]
  /\ id \in [Client -> Browser \cup {None}]
  /\ isCreated \in [Client -> BOOLEAN]
  /\ isClosing \in [Client -> BOOLEAN]
  /\ st \in [Browser -> BrowserState]
  /\ client \in [Browser -> Client \cup {None}]
  /\ main \subseteq Browser
  /\ req \subseteq Browser
  /\ fault \in {"none", "null_browser", "freed_browser", "null_in_menu", "freed_slot"}

Init ==
  /\ alive = Control
  /\ created = [c \in Control |-> FALSE]
  /\ handler = [c \in Control |-> None]
  /\ ui = Idle
  /\ wnd = "open"
  /\ wmClose = FALSE
  /\ quit = FALSE
  /\ owner = [k \in Client |-> None]
  /\ held = [k \in Client |-> None]
  /\ id = [k \in Client |-> None]
  /\ isCreated = [k \in Client |-> FALSE]
  /\ isClosing = [k \in Client |-> FALSE]
  /\ st = [b \in Browser |-> "none"]
  /\ client = [b \in Browser |-> None]
  /\ main = {}
  /\ req = {}
  /\ fault = "none"

(***************************************************************************)
(* The references that keep a client, and what its destructor does: it     *)
(* calls Release on the slot without a test, then unique_ptr deletes it.   *)
(***************************************************************************)
\* A mutant: a browser does not keep its client.
LetGo(k) == owner[k] # None /\ handler[owner[k]] # k

Destroyed(k) ==
  /\ owner[k] # None
  /\ handler[owner[k]] # k
  /\ \A b \in Browser : client[b] = k => st[b] = "freed"

SlotDeleted(c) == \E k \in Client : owner[k] = c /\ Destroyed(k)

\* The destructor of a client without a slot dereferences a null other_handle_; the second
\* client made of one set_handle_ deletes the same slot again.
DtorFault ==
  \E k \in Client :
    /\ Destroyed(k)
    /\ \/ owner[k] \notin Slotted
       \/ \E j \in Client \ {k} : owner[j] = owner[k] /\ Destroyed(j)

\* A callback would run on a slot that another client of the same control has deleted.
SlotDangling(k) == owner[k] \in Slotted /\ SlotDeleted(owner[k])

Running == fault = "none" /\ ~quit /\ ~DtorFault

(***************************************************************************)
(* The DuiLib thread.                                                      *)
(***************************************************************************)
\* DoInit with CreateCefWindow: a new client replaces m_handler, and CreateBrowser posts
\* the creation to CEF's UI thread.  The constructor leaves m_BrowserId uninitialised.
\* Nothing happens when is_created_ is already set.
DoInit(c, k, b) ==
  /\ Running /\ ui = Idle /\ wnd = "open" /\ c \in alive
  /\ ~created[c]
  /\ owner[k] = None
  /\ st[b] = "none"
  /\ handler' = [handler EXCEPT ![c] = k]
  /\ owner' = [owner EXCEPT ![k] = c]
  /\ st' = [st EXCEPT ![b] = "posted"]
  /\ client' = [client EXCEPT ![b] = k]
  /\ main' = main \cup {b}
  /\ created' = [created EXCEPT ![c] = TRUE]
  /\ \E garbage \in Browser \cup {None} : id' = [id EXCEPT ![k] = garbage]
  /\ UNCHANGED <<alive, ui, wnd, wmClose, quit, held, isCreated, isClosing, req, fault>>

\* A mutant: the methods forget to test GetBrowser().
UntestedStep(op) == IF op = "ExectueJS" THEN "again" ELSE "call"

FirstStep(op) ==
  IF op \in Checked THEN "test" ELSE IF op = "ExectueJS" THEN "again" ELSE "call"

\* The entry of a method: all but LoadURL return early when is_created_ is not set, and
\* CloseCefWindow resets it before it looks at the browser.
Begin(c, op) ==
  /\ Running /\ ui = Idle /\ c \in alive
  /\ op = "LoadURL" \/ created[c]
  /\ created' = IF op \in Closers THEN [created EXCEPT ![c] = FALSE] ELSE created
  /\ ui' = At(FirstStep(op), op, c)
  /\ UNCHANGED <<alive, handler, wnd, wmClose, quit, clientVars, cefVars, fault>>

\* ~CCefBrowserUI when CloseCefWindow returns at once: only the members are destructed.
DestroyUncreated(c) ==
  /\ Running /\ ui = Idle /\ c \in alive
  /\ ~created[c]
  /\ alive' = alive \ {c}
  /\ handler' = [handler EXCEPT ![c] = None]
  /\ UNCHANGED <<created, ui, wnd, wmClose, quit, clientVars, cefVars, fault>>

\* A mutant: the handler is taken for its browser.
HandlerOf(c) == handler[c]

HeldBy(c) == IF handler[c] = None THEN None ELSE held[handler[c]]

\* GetBrowser(), first half: the raw pointer is copied out of browser_ without lock_.
Load ==
  /\ Running /\ ui.step # "idle" /\ ~ui.loaded
  /\ ui' = [ui EXCEPT !.ptr = HeldBy(ui.ctl), !.loaded = TRUE]
  /\ UNCHANGED <<alive, created, handler, wnd, wmClose, quit, clientVars, cefVars, fault>>

\* The method returns; the destructor goes on to drop m_handler.
Return ==
  /\ ui' = Idle
  /\ IF ui.op = "Destroy"
     THEN /\ alive' = alive \ {ui.ctl}
          /\ handler' = [handler EXCEPT ![ui.ctl] = None]
     ELSE UNCHANGED <<alive, handler>>

\* if (GetBrowser()) is false.
TestFails ==
  /\ Running /\ ui.step = "test" /\ ui.loaded /\ ui.ptr = None
  /\ Return
  /\ UNCHANGED <<created, wnd, wmClose, quit, clientVars, cefVars, fault>>

Pinned == Running /\ ui.loaded /\ ui.ptr # None /\ st[ui.ptr] # "freed"

\* The test holds, or ExectueJS has used its first reference: the next GetBrowser() follows.
ReadAgain ==
  /\ Pinned /\ ui.step \in {"test", "again"}
  /\ ui' = At("call", ui.op, ui.ctl)
  /\ UNCHANGED <<alive, created, handler, wnd, wmClose, quit, clientVars, cefVars, fault>>

\* The call on the browser: CloseBrowser(true) for the closers; the other methods change
\* nothing here.
CallBrowser ==
  /\ Pinned /\ ui.step = "call"
  /\ Return
  /\ req' = IF ui.op \in Closers THEN req \cup {ui.ptr} ELSE req
  /\ UNCHANGED <<created, wnd, wmClose, quit, clientVars, st, client, main, fault>>

\* The outcomes of the race and of the missing tests: operator-> on null, AddRef on a
\* browser whose last reference went between the two halves of GetBrowser().
DerefNull ==
  /\ Running /\ ui.step \in {"again", "call"} /\ ui.loaded /\ ui.ptr = None
  /\ fault' = "null_browser"
  /\ UNCHANGED <<uiVars, clientVars, cefVars>>

AddRefFreed ==
  /\ Running /\ ui.loaded /\ ui.ptr # None /\ st[ui.ptr] = "freed"
  /\ fault' = "freed_browser"
  /\ UNCHANGED <<uiVars, clientVars, cefVars>>

\* The user or the host closes the top-level window.
CloseWindow ==
  /\ Running /\ wnd = "open" /\ ~wmClose
  /\ wmClose' = TRUE
  /\ UNCHANGED <<alive, created, handler, ui, wnd, quit, clientVars, cefVars, fault>>

\* WindowImplBase::OnClose leaves WM_CLOSE to DefWindowProc, which destroys the window and
\* with it the host windows of its browsers.
HandleWmClose ==
  /\ Running /\ ui = Idle /\ wmClose /\ wnd = "open"
  /\ wnd' = "destroyed"
  /\ wmClose' = FALSE
  /\ UNCHANGED <<alive, created, handler, ui, quit, clientVars, cefVars, fault>>

\* Quit after MessageLoop(), the controls gone with their window.
Quit ==
  /\ Running /\ ui = Idle /\ wnd = "destroyed" /\ alive = {}
  /\ quit' = TRUE
  /\ UNCHANGED <<alive, created, handler, ui, wnd, wmClose, clientVars, cefVars, fault>>

(***************************************************************************)
(* CEF's UI thread: the callbacks of CBrowserClient, each under lock_.     *)
(***************************************************************************)
\* Mutants: every announced browser is adopted; an ended browser is dropped without
\* comparing identifiers, or only if it went through DoClose; DoClose answers true.
AdoptsAny(b) == TRUE
AnyBrowser(b) == TRUE
MatchesOnceClosing(b) == id[client[b]] = b /\ isClosing[client[b]]
NeverPosts(b) == FALSE
HostIsPopup(b) == st[b] = "closing"

\* if (!browser_)
Adopts(b) == held[client[b]] = None

\* m_BrowserId == browser->GetIdentifier()
Matches(b) == id[client[b]] = b

\* DoClose always answers false, so CEF sends WM_CLOSE to the top-level window that owns
\* the browser: the DuiLib window for a child browser, its own window for the others.
PostsWmClose(b) == b \in main

\* DoInit makes the browser a child of the DuiLib window (SetAsChild), so its host window
\* goes with that window; the host window of a popup or DevTools browser is its own.
HostIsGone(b) == IF b \in main THEN wnd = "destroyed" ELSE st[b] = "closing"

\* The first browser announced to an empty client becomes its browser_.
OnAfterCreated(b) ==
  LET k == client[b] IN
  /\ Running /\ st[b] = "posted" /\ ~SlotDangling(k)
  /\ b \in main => wnd = "open"
  /\ st' = [st EXCEPT ![b] = "open"]
  /\ IF Adopts(b)
     THEN /\ held' = [held EXCEPT ![k] = b]
          /\ id' = [id EXCEPT ![k] = b]
          /\ isCreated' = [isCreated EXCEPT ![k] = TRUE]
     ELSE UNCHANGED <<held, id, isCreated>>
  /\ UNCHANGED <<uiVars, owner, isClosing, client, main, req, fault>>

\* CEF asks before it closes a browser it was asked to close.
DoClose(b) ==
  LET k == client[b] IN
  /\ Running /\ st[b] = "open" /\ b \in req /\ ~SlotDangling(k)
  /\ b \in main => wnd = "open"
  /\ st' = [st EXCEPT ![b] = "closing"]
  /\ isClosing' = IF Matches(b) THEN [isClosing EXCEPT ![k] = TRUE] ELSE isClosing
  /\ wmClose' = (wmClose \/ PostsWmClose(b))
  /\ UNCHANGED <<alive, created, handler, ui, wnd, quit, owner, held, id, isCreated,
                 client, main, req, fault>>

\* The host window of the browser is gone: browser_ is dropped if the identifiers agree.
OnBeforeClose(b) ==
  LET k == client[b] IN
  /\ Running /\ st[b] \in Announced /\ ~SlotDangling(k)
  /\ HostIsGone(b)
  /\ st' = [st EXCEPT ![b] = "closed"]
  /\ held' = IF Matches(b) THEN [held EXCEPT ![k] = None] ELSE held
  /\ UNCHANGED <<uiVars, owner, id, isCreated, isClosing, client, main, req, fault>>

\* Any of the three callbacks on a client whose slot is already deleted.
CallbackOnDeletedSlot(b) ==
  /\ Running /\ st[b] \in Announced \cup {"posted"} /\ SlotDangling(client[b])
  /\ fault' = "freed_slot"
  /\ UNCHANGED <<uiVars, clientVars, cefVars>>

\* OnContextMenuCommand, SHOW_DEVTOOLS: the new browser reports to the same client.
ShowDevTools(b, d) ==
  /\ Running /\ st[b] = "open" /\ st[d] = "none"
  /\ st' = [st EXCEPT ![d] = "posted"]
  /\ client' = [client EXCEPT ![d] = client[b]]
  /\ UNCHANGED <<uiVars, clientVars, main, req, fault>>

\* OnBeforePopup: without a slot the popup is cancelled; a slot may let CEF create it,
\* with the same client.
OnBeforePopup(b, p) ==
  /\ st[b] = "open"
  /\ owner[client[b]] \in Slotted /\ ~SlotDangling(client[b])
  /\ ShowDevTools(b, p)

\* OnContextMenuCommand, REFRESH, FORWARD and BACKOFF use browser_, whichever browser the
\* menu belongs to; without a fault they change nothing here.
MenuOnNull(b) ==
  /\ Running /\ st[b] = "open" /\ held[client[b]] = None
  /\ fault' = "null_in_menu"
  /\ UNCHANGED <<uiVars, clientVars, cefVars>>

(***************************************************************************)
(* The CEF library on its own.                                             *)
(***************************************************************************)
\* The parent window is gone before the browser could be made.
DropRequest(b) ==
  /\ Running /\ st[b] = "posted" /\ b \in main /\ wnd = "destroyed"
  /\ st' = [st EXCEPT ![b] = "freed"]
  /\ UNCHANGED <<uiVars, clientVars, client, main, req, fault>>

\* The user closes a popup or a DevTools window.
CloseSecondary(b) ==
  /\ Running /\ st[b] = "open" /\ b \notin main \cup req
  /\ req' = req \cup {b}
  /\ UNCHANGED <<uiVars, clientVars, st, client, main, fault>>

\* CEF drops its references to an ended browser, and with them the one to its client.
Free(b) ==
  /\ Running /\ st[b] = "closed"
  /\ st' = [st EXCEPT ![b] = "freed"]
  /\ UNCHANGED <<uiVars, clientVars, client, main, req, fault>>

(***************************************************************************)
UiStep == Load \/ TestFails \/ ReadAgain \/ CallBrowser \/ DerefNull \/ AddRefFreed

UiNext ==
  \/ \E c \in Control, k \in Client, b \in Browser : DoInit(c, k, b)
  \/ \E c \in Control, op \in Op : Begin(c, op)
  \/ \E c \in Control : DestroyUncreated(c)
  \/ UiStep
  \/ CloseWindow \/ HandleWmClose \/ Quit

CefStep(b) ==
  \/ OnAfterCreated(b) \/ DoClose(b) \/ OnBeforeClose(b)
  \/ CallbackOnDeletedSlot(b)
  \/ \E d \in Browser : ShowDevTools(b, d)
  \/ \E p \in Browser : OnBeforePopup(b, p)
  \/ MenuOnNull(b)
  \/ DropRequest(b) \/ CloseSecondary(b) \/ Free(b)

CefNext == \E b \in Browser : CefStep(b)

Next == UiNext \/ CefNext

Spec == Init /\ [][Next]_vars

\* The DuiLib thread finishes the method it is in.  Each method runs inside the handling of
\* one message and the queue is first in, first out, so WM_CLOSE is not passed over for ever
\* by later calls (strong fairness).  CEF finishes the closes it has begun.  Nothing makes the
\* user or the host act.
Fairness ==
  /\ WF_vars(UiStep)
  /\ SF_vars(HandleWmClose)
  /\ \A b \in Browser : /\ WF_vars(DoClose(b)) /\ WF_vars(OnBeforeClose(b))
                        /\ WF_vars(DropRequest(b)) /\ WF_vars(Free(b))
                        /\ WF_vars(CallbackOnDeletedSlot(b))

FairSpec == Spec /\ Fairness

(***************************************************************************)
(* Safety.                                                                 *)
(***************************************************************************)
\* A client never hands out a browser that CEF has not announced to it or has already
\* ended, and m_BrowserId always names the browser it hands out: the reset in
\* OnBeforeClose compares identifiers, and m_BrowserId starts as garbage and is never
\* reset, so a second adoption after the first browser ended must overwrite it.
HeldIsAnnounced ==
  \A k \in Client : held[k] # None =>
    /\ st[held[k]] \in Announced
    /\ client[held[k]] = k
    /\ id[k] = held[k]

\* As long as the browser a DoInit asked for is open, its client hands out that browser
\* and no other, whatever popups and DevTools windows come and go on the same client:
\* the guard in OnAfterCreated and the comparison in OnBeforeClose together.
OpenMainIsHeld ==
  \A b \in main : st[b] \in Announced => held[client[b]] = b

\* A method that tests GetBrowser() before it uses it (LoadURL, CloseCefWindow,
\* GetBrowserHwnd) dereferences null only if the OnBeforeClose of the control's own
\* browser ran between its two unlocked reads: it is safe before OnAfterCreated.
TestedCallFaultsOnlyAfterClose ==
  fault = "null_browser" /\ ui.op \in Checked =>
    \E b \in main : client[b] = handler[ui.ctl] /\ st[b] \in {"closed", "freed"}

\* The reference a method took without lock_ is never another control's browser, nor a popup
\* or DevTools window while the browser its control asked for is open, however long ago
\* browser_ was read and whatever was announced and ended since: a stale reference is at
\* worst one to a browser of this control that has ended.
CallsReachOwnBrowser ==
  ui.loaded /\ ui.ptr # None =>
    /\ client[ui.ptr] = handler[ui.ctl]
    /\ st[ui.ptr] \notin {"none", "posted"}
    /\ \A b \in main :
         client[b] = client[ui.ptr] /\ st[b] \in Announced => ui.ptr = b

\* REFRESH, FORWARD and BACKOFF use browser_ whichever browser the menu belongs to: they find
\* it null on no menu of the browser a DoInit asked for, and on the menu of a popup or DevTools
\* window only after the browser it comes from has ended.
MenuFindsBrowserBeforeClose ==
  \A b \in Browser : st[b] = "open" /\ held[client[b]] = None =>
    /\ b \notin main
    /\ \E m \in main : client[m] = client[b] /\ st[m] \in {"closed", "freed"}

\* A callback meets a deleted slot only if DoInit made two clients for one control, which both
\* own set_handle_: with one DoInit the browsers of a client keep it, and so its slot, until
\* the last of them is freed, also after the control is gone.
SlotDiesOnlyWithSecondClient ==
  fault = "freed_slot" =>
    \E j, k \in Client : j # k /\ owner[j] = owner[k] /\ owner[k] \in Slotted

\* What the clients promise, with identifiers, threads and garbage hidden: the announced
\* browsers and browser_ behave as BrowserHolder.
AnnouncedTo == [k \in Client |-> {b \in Browser : client[b] = k /\ st[b] \in Announced}]

Holder == INSTANCE BrowserHolder WITH announced <- AnnouncedTo

ImplementsHolder == Holder!Spec

(***************************************************************************)
(* Liveness.                                                               *)
(***************************************************************************)
\* A browser that was open when it was asked to close is ended, unless the process stops:
\* the request goes through DoClose, the WM_CLOSE CEF sends to the DuiLib thread and the
\* destruction of the window back to OnBeforeClose.
CloseRequestCompletes ==
  \A b \in Browser :
    (b \in req /\ st[b] = "open") ~> (st[b] \in {"closed", "freed"} \/ ~Running)

\* No browser of a control outlives the top-level window for ever, not even one whose
\* CloseCefWindow was skipped because OnAfterCreated had not run yet.
WindowTakesItsBrowsers ==
  wnd = "destroyed" ~> (~Running \/ \A b \in main : st[b] = "freed")

(***************************************************************************)
(* What the documents say and the code does not do.                        *)
(***************************************************************************)
\* cef_life_span_handler.h on OnBeforeClose: "do not attempt to execute any methods on the
\* browser object after this callback returns".
NoCallAfterBeforeClose ==
  [][CallBrowser => st[ui.ptr] \notin {"closed", "freed"}]_vars

\* cef_life_span_handler.h on DoClose: "The application should only exit after
\* OnBeforeClose() has been called for all existing browsers."
QuitAfterAllClosed ==
  quit => \A b \in Browser : st[b] \notin Announced
=============================================================================
