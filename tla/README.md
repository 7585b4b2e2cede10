# Verification of cefMultiBrowser

cefMultiBrowser puts Chromium browsers (CEF) into windows drawn by DuiLib, a
single-threaded Win32 control library. This directory holds TLA+ models of the
parts of it in which order matters, the TLC instances that check them, and
TLAPS proofs of their main properties for every size of the system.

Paths below are relative to the repository: `CefUIWrapper/` and `DuiLib/` are in
`src/Source/`.

## 1. The system

| Component | State | Operations | Talks to |
|---|---|---|---|
| `CCefBrowserUI` (`CefUIWrapper/UICefBrowser.cpp`), the control that shows a browser | `is_created_`, `m_handler`, `set_handle_` | `DoInit`, `CloseCefWindow`, the destructor, `LoadURL`, navigation, `ExectueJS`, `SetPos`, `SetVisible`, `Quit` | creates a `CBrowserClient`; reads its `browser_` from the DuiLib thread |
| `CBrowserClient` (`BrowserClient.cpp`), the `CefClient` of that control | `browser_`, `m_BrowserId`, `is_created_`, `is_closing_`, `other_handle_`, `lock_` | `OnAfterCreated`, `DoClose`, `OnBeforeClose`, `OnBeforePopup`, `OnContextMenuCommand`, the destructor | called by CEF on its UI thread; calls the slot under `lock_` |
| `COtherHandleSlot` (`CefHandlerBack.h`) | the application's | one callback for each CEF callback | owned by one client after another |
| CEF | browsers, their host windows, queued tasks | creates, closes and frees browsers | external |
| `WindowImplBase`, `CWindowWnd` (`DuiLib/Utils/WinImplBase.cpp`, `DuiLib/Core/UIBase.cpp`) | the window | `OnClose`, `ShowModal`, message maps | owns a `CPaintManagerUI` |
| `CPaintManagerUI` (`DuiLib/Core/UIManager.cpp`), dispatch and lifetimes | `m_pRoot`, `m_pFocus`, `m_pEventHover`, `m_pEventClick`, `m_pEventKey`, `m_bMouseCapture`, `m_aDelayedCleanup`, `m_aAsyncNotify`, `m_bAsyncNotifyPosted` | `MessageHandler` (one case for each message), `AttachDialog`, `SetFocus`, `SendNotify`, `AddDelayedCleanup`, `ReapObjects` | raises events in controls and notifications in listeners, which call back |
| the same class, timers | `m_aTimers`, `m_uTimerID` | `SetTimer`, `KillTimer`, `RemoveAllTimers`, WM_TIMER | Win32 timers |
| the same class, name table and option groups | `m_mNameHash`, `m_mOptionGroup` | `InitControls`, `FindControl`, `AddOptionGroup`, `GetOptionGroup`, `RemoveOptionGroup`, `ReapObjects` | controls, which register when they get a manager and sign off when they die |
| `COptionUI`, `CCheckBoxUI` (`DuiLib/Control/UIOption.cpp`) | `m_sGroupName`, `m_bSelected` | `SetGroup`, `Selected`, `SetManager`, the destructor | the manager's group arrays, the other options of the group |
| `CContainerUI`, `CControlUI` (`UIContainer.cpp`, `UIControl.cpp`) | `m_items`, `m_pManager`, `m_pParent`, flags | `Add`, `Remove`, `RemoveAll`, destructors | the manager |
| JavaScript bridge (`V8ExtensionHandler.cpp`, `RenderAndBrowserApp.cpp`, `ClientApp.cpp`) | function names | `Execute` sends a process message; `OnProcessMessageReceived` calls `m_jscallfunc` | between processes |
| event sources (`Utils/UIDelegate.cpp`) | an array of delegates | add, remove, call | controls |
| layouts, list, tree, combo, edit and other controls, rendering, resources, skins, utilities | geometry, appearance | | the manager |

Not part of the project: `src/3rd`, the libcef_dll wrapper, `unzip.cpp` and
`stb_image.h`, which are third-party code, and the sample program, all of whose
code is commented out.

### What is hard here

*Browsers.* Two threads meet in `CBrowserClient`: `InitCef` sets
`multi_threaded_message_loop`, so CEF's callbacks run on CEF's thread under
`lock_`, while the control reads `browser_` on the DuiLib thread without it, and
most methods read it twice. Creation is asynchronous; `is_created_` of the
control means "asked for", not "there". One client serves the main browser and
every popup and DevTools window opened from it, and tells them apart by
`m_BrowserId`, which starts uninitialised and is never reset. A close goes from
the DuiLib thread to CEF, back as WM_CLOSE to the DuiLib window, and through
the destruction of that window to `OnBeforeClose`.

*Controls.* One thread, but any event or notification runs application code that
may remove controls, replace the whole dialog, move the focus or run a modal loop,
under a handler that still has raw pointers in its locals and will store some of
them after the callback returns. Deletion is therefore delayed: removed controls
wait in `m_aDelayedCleanup` for a posted WM_APP+1, and a flag makes one message
stand for all of them and for all asynchronous notifications.

*Registers.* The manager keeps raw pointers to controls in three more places: timers, the
name table and the option groups. A control enters them at different moments (when it is
added, when it asks for a timer, when it gets a group) and leaves them in its
destructor, through `m_pManager`, which `CDialogBuilder` sets and resets on the way. Windows
timers are named by a counter modulo 0xF0, and a WM_TIMER that has elapsed cannot be
taken back.

The hazards are listed one by one, at their lines, in `PROJECT.json`.

### What makes each component correct

- Client: what it hands out was announced by CEF to it and has not ended; the main
  browser is never displaced by a popup; the end of a popup does not empty it.
- Control: a method that tests for a browser must not fail because creation is
  late; a close request ends in `OnBeforeClose`; no browser outlives its window.
- Manager: no handler returns to a control that is gone; nothing it remembers
  between messages is gone; what is queued is not forgotten, not handled twice,
  and handled in order.
- Timers: an event reaches the control that asked for it, while it still asks.
- Name table: `FindControl` returns no control that is gone, and forgets none that is there.
- Option groups: `Selected(true)` reaches exactly the living options of its group and leaves
  one selected.
- Containers: each item is deleted once, also when callbacks change the container.

## 2. The modules

| Module | What it is |
|---|---|
| `BrowserHolder` | the abstract promise of a client: which announced browser it holds |
| `BrowserLifecycle` | the control, its client, the window and CEF: two threads |
| `MCBrowserLifecycle` | TLC's instance: the symmetry of clients and of browsers |
| `BrowserLifecycle_proofs` | proofs about it, with the refinement of `BrowserHolder` |
| `PaintManager` | dispatch, event targets, delayed cleanup, asynchronous notifications |
| `DelayedWork` | the abstract promise of the manager's two queues: what is put off is done later, in order and once |
| `MCPaintManager` | TLC's instance: which leaf is in which dialog |
| `PaintManager_proofs` | its inductive invariant, targets, no double delete |
| `PaintQueues_proofs` | order of delivery, no lost wakeup |
| `PaintCallers_proofs` | no handler returns to a deleted control |
| `PaintDelayed_proofs` | the refinement of `DelayedWork` |
| `TimerSet` | the abstract promise of the timers: a set of armed pairs of a control and an identifier |
| `PaintTimers` | `m_aTimers`, the identifiers, Windows' timers and their messages |
| `PaintTimers_proofs` | its inductive invariant, and the refinement of `TimerSet` |
| `ControlTables` | `m_mNameHash`, `m_mOptionGroup` and the options themselves |
| `OptionGroups` | the abstract promise of the groups: choosing one takes the choice from the others of its group |
| `MCControlTables` | TLC's instance: the symmetry of options |
| `ControlTables_proofs` | what the tables hold, for any application and for a careful one |

### BrowserLifecycle

The DuiLib thread is `ui`, the method it is in: `Begin` is its entry with the test
of `is_created_`, `Load` copies the raw pointer out of `browser_`, and
`TestFails`, `ReadAgain`, `CallBrowser` are what follows once the reference is
taken. `DerefNull` and `AddRefFreed` are what the build does when the test is
missing or the other thread was faster; they set `fault` and the process stops.
Methods that differ only in which method of the browser they call are one: `LoadURL`,
`CloseCefWindow` (as itself and in the destructor), `GetBrowserHwnd` (for `SetPos`,
`SetVisible`, `SetInternVisible`, `ResizeBrowser`), `Navigate` (`Reload`,
`StopLoad`, `GoBack`, ...) and `ExectueJS`. `DoInit`, `CloseWindow`,
`HandleWmClose` and `Quit` are one step each: they do not read `browser_`.

CEF's callbacks are `OnAfterCreated`, `DoClose`, `OnBeforeClose`, each one step
since it runs under `lock_`, `ShowDevTools`, `OnBeforePopup` and `MenuOnNull` (the
context menu commands that use `browser_` and find it null). CEF itself is external: `DropRequest`, `CloseSecondary` and
`Free`, and the conditions under which it calls back, are taken from the contract
in `cef_life_span_handler.h` as the code uses it. A browser becomes usable (`open`) in the
step of `OnAfterCreated`, ends in `OnBeforeClose` and is freed later; the client's
last reference and the last browser's go together (`Destroyed`). The
uninitialised `m_BrowserId` is any browser's identifier or none.

`BrowserHolder` is the same seen from outside: browsers are announced and end;
an empty client takes the first, a full one ignores the others.

### PaintManager

The C++ call stack is in the state, because the question is what a handler finds
when a callback returns. `stack` holds one frame for each handler in progress: `c` is
the control it called into, `n` the other control it has in a local (the new hover
control, the control that gets the focus, the new dialog), `i` the loop index of
WM_APP+1. An input message pushes the frame of its first event; while a callback is
on top (`AppCode`), application code may `Remove` a control, `SendNotify`,
`CallSetFocus` or `AttachDialog`; `Return` gives control back, and each
kind of frame then does what the code does after that `Event` call: `ReturnLeave`
resets `m_pEventHover`, `ReturnEnter` assigns it, `ReturnClick` assigns or clears
`m_pEventClick`, `ReturnKill` resets `m_pFocus` and goes on with the new control.
`Resume...` actions are a handler between two of its calls (WM_LBUTTONDOWN after
`SetFocus`, WM_CLOSE between its three events, `AttachDialog` after `SetFocus(NULL)`).

WM_APP+1 is `AsyncMessage`, then one `BeginDelete`/`ReturnDestroy` for each control
that dies (`OnDestroy` is a callback; `ReapObjects` follows it; the items of a
dialog die before it), `EndOfLoop`, one `Deliver` for each notification and
`EndOfDrain`. With `Modal`, a callback may pump messages, as `CWindowWnd::ShowModal`
does, so that WM_APP+1 may run inside a callback. When a handler in progress
holds a deleted control the model stops there: what the process does next is
undefined.

`DelayedWork` is what removals and asynchronous notifications come to when WM_APP+1, its
flag, its loops and the stack are hidden. `kept` are the controls not removed, `doomed` those that
wait for their deletion, which is `m_aDelayedCleanup` from the entry the loop is at (`Position`),
`box` the senders of the notifications that wait and `got` the number delivered. A control ends
only at the head of `doomed`, or as an item of the container that is there, and the container only
when it has none left; the end of a control and the loss of its pointer in `box` are one step,
since `ReapObjects` runs after the last callback.

Left out, because no property distinguishes them: drag mode, tool tips, cursors, the
virtual window name, `m_aPreMessages` filters, and the WM_SETFOCUS and WM_MOUSEMOVE
that Win32 sends inside another handler (they are modelled as messages of their own).
A dialog has one level of items, which is what deletion order needs.
`m_aNeedMouseLeaveNeeded` is not modelled, nor is the destructor of the manager, which
deletes the two queues and the tree without a message. The edit controls release the
capture themselves; `KillFocus` stands for any such release.

### PaintTimers

`timers` is `m_aTimers`: entries with their sender, its identifier, the Windows identifier
and `bKilled`. Entries are appended and removed and nothing else, so each has the count `no`
at which it was made instead of a position. `AddTimer` and `RearmTimer` are the two halves of
`SetTimer`: a pair without an entry takes the next Windows identifier, (`m_uTimerID` + 1)
modulo 0xF0; a killed entry is armed again under the identifier it had. A `::SetTimer`
that fails leaves the counter advanced. `KillTimer` stops the Windows timer and keeps the entry;
`Destroy` is `ReapObjects` in the destructor of a control, which removes its entries, and an
address may be used again by the next `Create`; `RemoveAllTimers` comes from `Init`.

Windows is external: `running` says which pair each Windows timer was last set for, `Elapse`
puts a WM_TIMER into `pending`, and neither `::KillTimer` nor `::SetTimer` takes it back.
`OnTimer` is the handler, which takes the first armed entry with the identifier of
the message. The message does not carry the pair it was set for; the model remembers it
in `by`, to be able to say that the wrong one got it. What the control does
with the event is one of the other actions.

`TimerSet` is what a control sees: pairs are armed and disarmed, an event is raised only for an
armed pair, and a control that dies takes its pairs along.

Left out: the window that is destroyed with its timers, a control that moves to
another manager, and the length of the interval.

### ControlTables

One address per option is enough for both tables, since any control may have a name. `life`
follows an option from `New` through being added, `Remove` (which goes through
`AddDelayedCleanup` and sets the manager) or `Release` (from a container that does not destroy its
items), to `BeginDelete` (`~COptionUI`) and `EndDelete` (`~CControlUI`, after the
`OnDestroy` callback, during which the name is still in the table). `ParseBegin` and `ParseEnd` are
`CDialogBuilder` around the attributes of a control: it sets the manager without registering,
applies the attributes (here: any of the calls) and resets the manager, also of a control that
it has just added to a parent that has one (`EndAdd` with `inBuilder`). `Rename`, `SetGroup`,
`LeaveGroup` (`SetGroup(NULL)`), `Select` and `Unselect` are the calls of the application and of
attributes.

`Add` and `AttachDialog` call `InitControls`, which is several steps, because `OnInit`, application
code, runs inside (`UIControl.cpp:96-101` and `795-799`). `BeginAdd` gives the manager to the first
item (`life` is "init"), and its callback begins. When that ends the item enters its
group (`UIOption.cpp:29-31`; "entered"), and either the walk of `CContainerUI::SetManager` comes to
the next item (`NextItem`) or it was the last and all the names are entered (`EndAdd`; "attached").
While an option is in "init", any other action may come, and that is the callback; it may be another
`BeginAdd`, one `level` deeper, and only the deepest call goes on (`Innermost`). Which loose options
are the items of the subtree is left open, and so is which of two items with one name is visited last.
`waiting` are the options in "init" whose `AddOptionGroup` is still to come although they have a
group: they got it before they had a manager. An option that gets its group from `SetGroup`
in its own `OnInit` does not wait, nor does one that `CDialogBuilder` or an earlier tree
entered. A control without a parent has no callback: its steps follow each other, which is one of
the orders of the model. Not in the model: removing or deleting an option while it is being added, or
an item of a container while that is being added (the walk would go on with it).

`elected` is a history variable: the options that were selected through their group and
have neither been unselected nor changed the group since. `m_bSelected` itself does not give
"at most one", because an option that is selected already when it joins a group stays
selected: the `Selected(m_bSelected)` at the end of `SetGroup` (`UIOption.cpp:59`) returns at its
first line.

The code is correct only under rules it states nowhere; `ControlTables` has them as guards,
`MayRename`, `MayParse`, `MayTouch`, `MaySelect` and `MayLeave`. `Careful` and `Leaves` switch them. A careful application

- does not rename a control that `FindControl` finds (`SetName` neither enters the new
  name nor removes the old one);
- gives `CDialogBuilder` no option that got its group elsewhere (its manager pointer comes
  back without a registration);
- does not delete or regroup a control that `CDialogBuilder` made before that is in a tree
  with a manager again (it would not sign off);
- does not call `Selected(true)`, in the `OnInit` of an option that had its group when it got its
  manager, on that option: the array of the group may not exist yet, and the call dereferences NULL
  (`UIOption.cpp:78-79`), or it lacks the option, and a later choice of another one leaves both selected;
- does not call `SetGroup(NULL)` on an option with a manager (`Leaves` is FALSE; see section 5).

Types and `NamesAreKept` need none of the rules, and are proved without them.

`OptionGroups` is what the options of a group see of each other: an option is in a group once
it exists with a name for it and has registered (`GroupOf`; one that waits in its `SetManager` has
not), moves to another, is chosen or
drops its choice. The arrays, the manager pointers, `CDialogBuilder` and `m_bSelected` are hidden;
that `Selected` reaches exactly the others of the group, through an array that options join and
leave at all these moments, is the content of the refinement.

Left out: the notification that `Selected` sends (application code on notifications is in
`PaintManager`), tree nodes (which the builder leaves with a manager), and `Init` and the destructor
of the manager, which empty the tables when no control is registered.

## 3. The runs

| Run | Instance | Shows |
|---|---|---|
| `lifecycle_safety` | 2 controls (one with a slot), 2 clients, 3 browsers, with symmetry; 850 thousand states | `HeldIsAnnounced`, `OpenMainIsHeld`, `TestedCallFaultsOnlyAfterClose`, `CallsReachOwnBrowser`, `MenuFindsBrowserBeforeClose`, `SlotDiesOnlyWithSecondClient`, and that the clients implement `BrowserHolder` |
| `lifecycle_live` | 1 control, 2 clients, 2 browsers, fair | `CloseRequestCompletes`, `WindowTakesItsBrowsers` |
| `lifecycle_race` | 1 control, 1 client, 2 browsers | violation: a browser is called after its `OnBeforeClose` |
| `lifecycle_quit` | the same | violation: `CefShutdown` with browsers not yet ended |
| `paint_safety` | 2 dialogs, 1 leaf, 3 frames, no modal loop; 2.1 million states | `CallersKeepTheirControls`, `RememberedControlsExist`, and that removals implement `DelayedWork`, a leaf that dies with its container included |
| `paint_modal` | 2 dialogs, 3 frames, modal loops, 2 notifications; 1.4 million states | `RememberedControlsExist`, `NothingIsStranded`, `NoControlDiesTwice`, `DeliveredInOrder`, and that removals and notifications implement `DelayedWork` below modal loops |
| `paint_live` | 1 dialog, 1 leaf, 2 frames, 1 notification, fair | `RemovedIsDeleted`, `SentIsDelivered` |
| `paint_callers` | 2 dialogs, 3 frames, modal loops | violation: the control of a waiting handler is deleted |
| `paint_flag` | 2 dialogs, flag uninitialised, fair | violation: nothing is ever deleted |
| `timers_safety` | 2 controls, 2 timers each, 3 Windows identifiers, 4 entries made, fair; 114 thousand states | `OneEntryEach`, `NoOrphanTimer`, `ArmedIsRunning`, `TicksReachTheirOwner`, `ArmedTicks`, and that the timers implement `TimerSet` |
| `tables_safety` | 3 options, 1 name, 1 group, calls of `InitControls` two deep, a careful application, with symmetry; 1.2 million states | `NamesExist`, `NamesAreKept`, `GroupMembersExist`, `SelectedFindsItsGroup`, `OneElected`, and that the options implement `OptionGroups` |
| `tables_group` | 2 options, careful but for `SetGroup(NULL)` | violation: a deleted option is still in the array of its old group |

Every property of a passing run fails when a definition of the model is replaced by a
plausible bug of that code; the replacements stand in the modules, each
marked as a mutant in its comment, and are listed in `PROJECT.json`.

### Bounds

The counts of controls, clients and browsers bound nothing else: `BrowserLifecycle`
has no counter. Three browsers are a main browser, a popup of it and one more that
comes after one of them has ended; two clients are what a control uses when it is
initialised again, or what two controls use. The proofs remove these bounds for the
safety properties.

`PaintManager` has two bounds in its guards: `MaxDepth`, the handlers in progress when
application code or the message loop starts another (a handler may stack up to two
more frames by itself), and `MaxNotify`, the asynchronous notifications sent. Three
frames are a handler, a callback in it and a callback in that, which is what a modal
loop with its own WM_APP+1 needs; two dialogs are the old and the new one of
`AttachDialog`, and the leaf can be removed alone or die with its dialog. Two
notifications are the least for which order means something. The proofs hold for any
bounds.

`PaintTimers`: three identifiers stand for 0xF0 and `MaxMade`, the entries ever made, is one more
than that, so that the counter gives an identifier out a second time while its first entry may
still be there. `ArmedIsRunning`, `TicksReachTheirOwner` and `ArmedTicks` are stated until
then (`Unwrapped`): after 0xF0 entries on one window two controls may share a Windows timer,
and the code does nothing about it. `OneEntryEach`, `NoOrphanTimer` and the refinement hold beyond. The
counter starts at 0x1000, which is 16 modulo 0xF0; `Start` is any residue. `ControlTables` has one
bound in its guards, `MaxNested`, the calls of `InitControls` below each other: with two, an option
is added in the `OnInit` of another, alone or as one of two items. Three options are also two in a group and a third that is selected over both, and one
name is what they can contend for. In `tables_safety` there is one group, which an option can
join and leave; that a choice in one group leaves another alone is in the proof of
`GroupsAreImplemented`, which holds for any number of groups. The proofs hold for any sizes.

`CHECK_DEADLOCK FALSE` is set in the runs of `BrowserLifecycle`, where the process ends
(`Quit`, a fault), and in `paint_modal`, `paint_callers` and `paint_flag`, where the
stack stops at a deleted control or no fresh dialog is left. `paint_safety` and
`paint_live` check deadlock and find none, and so do `timers_safety` and the two runs of
`ControlTables`.

### Fairness

`BrowserLifecycle`: the DuiLib thread finishes the method it is in (weak fairness of its
steps); WM_CLOSE in the first-in first-out queue of that thread is handled although
other calls keep coming (strong fairness, since each method call disables it for a
while); CEF goes on with a close it has begun and frees what has ended. Neither
the user nor the host is assumed to do anything.

`PaintManager`: application callbacks return, each at its own depth (strong, since the code they call
may call back again and again at greater depth); a handler goes on; a posted message is
retrieved before input, so WM_APP+1 is handled (strong, since it is only enabled when a
loop pumps). None of it is assumed of the user's input.

`PaintTimers`: Windows makes a WM_TIMER for an elapsed timer when the queue of the thread runs
empty, which it does again and again because handlers return (weak fairness of `Elapse` for each
identifier), and the loop dispatches it (weak fairness of `OnTimer`). No call of a control is assumed.
`ControlTables` has no fairness: its properties are safety properties.

## 4. What is proved

All theorems are checked by TLAPS for every value of the constants, from the
assumptions named in the modules: `None` is not a control, client or browser, a leaf's home is a
dialog and dialogs are not leaves, the flags are Booleans, the bounds are naturals.

**BrowserLifecycle_proofs.** `TypeCorrect`. `HeldIsAnnounced` and `OpenMainIsHeld` are
not inductive: they fail after a step from an unreachable state in which a client that does
not exist yet has browsers, or in which a popup is posted beside a main browser that was
never announced and takes its place. `BrowserInv` adds the three facts that exclude this: browsers
and clients refer to each other only once they exist (`Ties`), a main browser is alone on its
client until it is announced (`PostedMainIsAlone`), and every popup has a main browser on its client that
was announced (`SecondaryHasMain`). From it follow `HeldBrowsersAreAnnounced` and
`MainBrowserIsHeld`. `TestedCallsAreSafeBeforeClose` adds `CallInv`: a first read that is
not null proves that the control's own browser was announced, and that cannot be undone.
Three more theorems are about what is used without the lock or without a test.
`CallsStayWithTheirBrowser`: however long ago `browser_` was read, the reference in hand is to a
browser of the same control, and to the main one while that is open. `CallsReachOwnBrowser` is
inductive with `BrowserInv`, because a main browser still to be announced is alone on its
client, so none can appear on a client of which a method already holds another browser.
`MenuIsSafeBeforeClose` follows from `BrowserInv` alone: a client is empty while a popup of it is
open only when the main browser has ended. `SlotsOutliveTheirBrowsers`: a callback on a deleted
slot needs two clients of one control, since a browser that can still call keeps its own client.
`ClientsImplementHolder` proves the refinement: every step announces, ends or
stutters.

**PaintManager_proofs.** The inductive invariant `Inv` says which frames the safety of the
queues depends on: the root is alive (`RootLive`), the targets and the senders are
(`TargetsAlive`, `SendersAlive`), queued controls have left the tree and each is queued
once (`EntriesLeft`), those a cleanup has not passed are not deleted (`EntriesPending`), an
`AttachDialog` in progress holds a new dialog (`Attaching`), there is at most one cleanup
loop (`OneLoop`), a dying control is on top of the loop at its own entry or is a live
item of it (`Dying`), and a queued message or a loop in progress implies the flag and
excludes the other (`Flag`). Most steps only push or pop frames that none of these parts look at; the lemma
`QuietInv` treats them together and each of the others has a lemma of its own.
`RememberedControls` and `NothingDiesTwice` follow, for any nesting and with modal loops.

**PaintQueues_proofs.** `NotificationsInOrder` is inductive relative to `Inv`.
`NoLostWakeup` needs `Awake`, the other direction of `Flag`: if the flag started FALSE, it
is true only while a message or a loop is there, and what is queued has the flag set (or,
for notifications, a delivery in progress).

**PaintCallers_proofs.** `CallersKeep`: without modal loops WM_APP+1 is the first frame of the
stack (`FirstFrame`), so no handler with a control in its locals is ever below a
deletion. With modal loops the statement is false (`paint_callers`).

**PaintDelayed_proofs.** `DelayedWorkIsImplemented`, for any nesting and with modal loops. `Inv`
says of every entry that it is a removed control; the refinement also needs the converse, that
every removed control is an entry from `Position` on, or the end of the loop, which clears
`m_aDelayedCleanup`, would drop one: `RemovedWait`. With it `WorkInv` says that leaves are in
their dialog from the start (`LeavesInTree`), that the loop is at an entry or past the last one
(`InLoop`), and that when the entry itself dies nothing is left in it (`LastOfAll`).
`RemovedAreEntries` proves it; with `NoLostWakeup` it says that no removed control can leak. In the
refinement most steps are stutters because they move no frame of the loop (`SameLoops`);
`Remove` and the end of `AttachDialog` are `Doom`, `ReturnDestroy` is `EndPart` or `EndDoomed` and
advances `Position` only in the second case, `EndOfLoop` empties an array of which nothing is
left, and `SendNotify` and `Deliver` are their namesakes.

**PaintTimers_proofs.** That a stale WM_TIMER is for nobody or for its owner is not
inductive: it depends on identifiers that were given out long ago. `Inv` says where they come from:
the n-th one is `Slot(n)`, a function of n alone (`Slots`), entries have different counts
that were reached (`Numbered`), and `SlotsDiffer` says that two counts up to 0xF0 have different slots. So
until the counter wraps no two entries, past or present, share an identifier, and every message
in the queue belongs to the entry with its slot if that still exists (`Owned`). From it follow
`TimersTypeCorrect`, `OneEntry`, `NoOrphans`, `ArmedTimersRun`, `TicksOwned`, and
`TimersImplementSet`, the refinement: of all steps only `OnTimer` raises an event, and only for an
armed pair.

**ControlTables_proofs.** `TablesTypeCorrect` and `NamesAreHeld` for every application. For a careful one
`MembersAreRegistered` is the heart: the array of a group is exactly the existing options that
have the group and a reason to be registered (a manager, or having been through
`CDialogBuilder`), but for those that wait. It needs that an option in a tree has such a reason
(`AttachedIsRegistered`), one that is being added too (`AddingIsManaged`), that only an option in its
`OnInit` waits (`WaitingIsInit`), that each nested call has one such option (`InitsAreApart`: the end
of a call ends no other option's wait), and that the builder works on existing options
(`ParsingIsParsed`); with
`ElectedAreMembers` it gives `MembersExist`, `GroupIsFound` and `OneIsElected`. `NamedControlsExist`
rests on `NamesAreRegistered`: what the table names has that name and will find itself there
when it dies. `GroupsAreImplemented` is the refinement of `OptionGroups`: `MembersAreRegistered`
makes the array of a group the options that are in it (`InGroup`), so that the loop of `Selected`
reaches all of them (the wait of an option ends with its `Move` into the group, `Enters`), and
`ElectedAreSelected` that an option which `Selected(true)` selects had
lost its choice before. These theorems assume `Careful`, and those about groups `~Leaves`, as hypotheses.

Only model-checked: the liveness properties `CloseRequestCompletes`, `WindowTakesItsBrowsers`,
`RemovedIsDeleted`, `SentIsDelivered` and `ArmedTicks`, which rest on weak and strong fairness and
so on ENABLED, out of the prover's reach; and the five violations. The abstract modules state
safety only, so the refinements do not promise that anything happens; `NoLostWakeup` and
`RemovedAreEntries` are the safety half of `RemovedIsDeleted`. Every invariant, every action
property and every refinement that a passing run checks has a theorem.

## 5. Where the code and its documents disagree

1. A control's method can call a browser after its `OnBeforeClose` returned
   (`lifecycle_race`): `browser_` is copied without `lock_`, and the copy outlives the
   callback. `cef_life_span_handler.h:192-195` forbids it.
2. `Quit` does not wait for `OnBeforeClose` (`lifecycle_quit`), which
   `cef_life_span_handler.h:132-133` asks of the application.
3. `SetGroup(NULL)`, the default call of `UIOption.h:49`, empties the name before it signs off
   (`tables_group`): the option stays in the array of its old group, also after it is deleted.
4. The delay of the cleanup that `UIManager.cpp:1904-1906` promises to calling code does
   not hold if a callback runs a modal loop (`paint_callers`).
5. `m_bAsyncNotifyPosted` is never initialised (`paint_flag`): from a value that happens to
   be true, WM_APP+1 is never posted. The other runs take it as FALSE.

Two more defects are in the models without a run of their own, because they show in one step: a
client without a slot, the default argument of `BrowserClient.h:19`, faults in `~CBrowserClient`
(`DtorFault`), and a context menu command after the main browser ended uses a null `browser_`
(`MenuOnNull`).

## 6. Not modelled

- *The other callbacks of `CBrowserClient`*: each forwards to the slot and writes no state.
- *JavaScript bridge*: `Execute` sends one process message, answers "TRUE" and keeps nothing;
  `m_jscallfunc` is set before the browser is requested and never changed. There is no
  protocol between the two ends to check; what the function does on CEF's thread is the
  application's.
- *Event sources and delegates*: one array and one loop; the hazard of a delegate that changes
  the array during a call is listed, and no document says what should happen then.
- *Selection of `CListUI` and `CTabLayoutUI`*: indices kept beside the items. `CListUI::Remove`
  leaves `m_aSelItems` stale and `CTabLayoutUI::RemoveAt` leaves `m_iCurSel`; a model would have to
  restrict the application to single selection without removals to have anything that holds.
- *Tab order and focus events*: the target pointers are in `PaintManager`; which
  control believes it has the focus, `m_bFocusNeeded` and `SetNextTabControl` are not.
- *A control that dies without a manager*: `Destroy` in `PaintTimers` reaps every control;
  `~CControlUI` does so only while `m_pManager` is set (`UIControl.cpp:55`). A control that has a
  timer had a manager, and only `CDialogBuilder` takes it away again; the rule in `MayTouch` of
  `ControlTables` is about those.
- *Layouts, rendering, resources, skins, utilities, the other controls*: computations in one
  pass, GDI calls, parsing and appearance, with no order of events for a property to be about.
- *Third-party code and the sample program*: see section 1.

The three models of the manager are separate because they share no state but the control
itself: `Destroy` in `PaintTimers`, `EndDelete` in `ControlTables` and `ReturnDestroy` in
`PaintManager` are the three parts of one `ReapObjects`, and none of the parts reads what
another writes.
