# Verification of NodalKit

NodalKit (`nk`) is a C++23 toolkit for native desktop user interfaces: a retained
tree of widgets, an event loop, native windows on Wayland, Win32 and macOS, models,
actions and accessibility. This directory holds TLA+ specifications of the parts of
it whose correctness depends on *order*: which callback runs inside which operation,
which thread gets there first, what a handler still holds in its hands when user
code has changed the world under it. The specifications are checked with TLC on
small instances, and most of their safety properties are proved with TLAPS for every
value of the constants. Source paths below are relative to the repository.

## 1. The system

### Threads and calls

One thread, the UI thread, owns nearly everything: the event loop, the windows,
the widgets, the models. Handlers and slots run synchronously on it, nested to any
depth, and may call any operation of the object that is calling them. Other threads
reach it in two ways only: `EventLoop::post` / the `TaskPoster` handle, and the
cross-thread delivery of `Signal`, which is itself a post. The accessibility and
preference workers of the Wayland backend are such threads.

    worker threads --post / TaskPoster--> EventLoop --callbacks--> application code
          ^                                  ^  |                     |
          |                     Signal::emit |  | frame tasks         | show, hide,
       D-Bus (AT-SPI, portal)      (queued)  |  v                     v focus, ...
    platform loop --wakes, input--> Window <---> Widget tree <--> controllers
                                                    |
                                    models, selection, actions, settings

### Inventory

| component | state | operations | what is hard | what makes it correct |
|---|---|---|---|---|
| **event loop** `src/runtime/event_loop.cpp` | task queue under a mutex, timers, idles, `running`; per `poll()`: batch, snapshot of due timers, moved idles | `run`, `poll`, `quit`, `post`, `task_poster`, `set_timeout`, `set_interval`, `add_idle`, `cancel`, destruction | posts from other threads against the wait; nested `poll()` over the same vectors; cancellation of what a snapshot holds | no lost wakeup; each task at most once and in order; cancel is final; a one-shot fires once, an interval stays scheduled; quit stops run |
| **signal** `include/nk/foundation/signal.h` | list of slots, `connected` flags, home thread and poster of each | `connect`, `emit`, `disconnect`, `disconnect_all`, destruction | emission over a copy while slots connect, disconnect, emit, destroy; queued deliveries; emit that throws half-way | a slot runs on its own thread, at most once per emission, never after its own thread disconnected it; none missed |
| **window input state** `src/platform/window.cpp` | hovered, pressed, focused (raw pointers), overlays with restore targets, pending restore | mouse and key dispatch, `focus_widget`, `show_overlay`, `dismiss_overlay`, `set_child`, window focus in and out | handlers that change the tree in the middle of a dispatch; nested modal sheets | pointers never dangle; focus stays in the top modal sheet and returns where it came from |
| **widget tree** `src/ui_core/widget.cpp` | parent/child links, visible, sensitive, focusable, flags | `append_child`, `insert_child`, `remove_child`, `set_visible`, `set_sensitive`, `set_focusable`, `grab_focus` | some of these clear part of the host window's state, some tell it nothing | an unusable subtree holds neither pointer nor focus |
| **controllers** `src/controllers` | callbacks per widget | enter, leave, press, key, focus | user code inside the dispatch | appear as user code in the window model |
| **frame scheduling** `src/platform/window.cpp`, `src/ui_core/widget.cpp`, `src/render/renderer.cpp` | dirty widgets and their queued regions, `frame_pending`, the framebuffer | `queue_redraw`, `queue_layout`, `request_frame`, the frame task, `present`, `hide` | requests of every kind before, in and between frames and while hidden | what a widget asked for is drawn while the window is visible |
| **application** `src/platform/application.cpp` | loop, backend, preferences, observer | `run`, `quit`, preference updates, destruction | an observer on another thread that starts, stops and restarts | the preferences follow the desktop; destruction ends everything |
| **Wayland loop** `src/platform/linux/wayland_backend.cpp` | `quit_requested`, worker threads with their stop flags and main loops | `run_event_loop`, `request_quit`, worker start, stop and join, `shutdown` | stop before, between or after the worker's publication of its loop | every call returns; no freed context is used |
| **clipboard transfer** `src/platform/linux/clipboard_transfer.cpp` | buffer, deadline, size bound | read, write, poll | pipe in pieces against a deadline and a size bound | complete or failed, never truncated; it ends |
| **Wayland surface** `src/platform/linux/wayland_surface.cpp` | two buffers, which is free, which was last | `present`, release | partial uploads into alternating buffers, both busy, new sizes | the screen shows the framebuffer |
| **Wayland input and drop** `src/platform/linux/wayland_input.cpp`, `wayland_drop.cpp` | offers, sources, generations, the drag over a window, pending transfers | `set_clipboard_text`, `read_clipboard_text_async`, the data-device events | selections replaced during a read, drops outlived by leaves, windows closed by handlers | an offer is destroyed once; drag events pair; a read is answered |
| **portals** `src/platform/linux/wayland_portal_helpers.cpp` | | blocking desktop services | | I/O |
| **Win32, macOS backends** | native queues | as the Wayland loop | re-entrant native loops | as the Wayland loop |
| **AT-SPI bridge** `src/accessibility`, `src/platform/linux/atspi_dbus.cpp` | tree and pending events shared with the bus thread | `publish`, `sync`, `detach`, client calls, actions | a tree replaced while it is being registered; an action posted to a loop that goes | changes reach the clients; every action is answered |
| **list models, selection** `src/model` | rows, pending change, selected rows | insert, remove, move, reset; select | two-phase notification, re-entrant changes | observers can replay the change; selection follows its rows |
| **adapters** `src/model/list_model_adapters.cpp` | row mapping over a source | source notifications, `set_filter`, `set_sort` | mapping stale between the two phases | mapping = filter or sort of the source |
| **tree, table models** `src/model` | nodes | as lists | as lists | as lists |
| **settings** `src/model/settings.cpp` | entries, file, temporary file | set, load, save | any call fails, a crash between any two, power failure, two processes | the file is replaced whole or not at all |
| **property, state store** `property.h`, `state_store.h` | a value, its signal | `set`, `update_state` | nested updates seen in the wrong order | last value seen = value held |
| **actions** `src/actions` | enabled, state | `activate`, `change_state` | re-entrant observers | a disabled action never activates |
| **drag and drop** `src/platform/drag_drop.cpp` | current target | enter, move, leave, drop | target removed during the drag | enter and leave pair up |
| **animation** `src/animation` | interval handle | start, stop | a client of the loop | one end callback |
| layout, style, l10n, text, rendering, widgets, services, diagnostics | | | sequential or pixels | not a matter of order |

`PROJECT.json` lists each with its status (*partly* for what is modelled, but for the settings: section 6 says
which operations are missing); section 7 says why parts are left out.

## 2. Modules

| module | what it is |
|---|---|
| `TaskExecutor` | abstract specification of posting: accept, execute at most once, drop only by destruction |
| `EventLoop` | `nk::EventLoop` in full detail, with posting workers |
| `EventLoopProofs` | theorems about `EventLoop`, and that it implements `TaskExecutor` |
| `EventLoopNestingProofs` | theorems about nested polls: what their callbacks may not re-enter or lose, and when timers fire |
| `Signal` | `nk::Signal`, `nk::Connection` and the loops deliveries are queued on |
| `SignalProofs` | theorems about `Signal` |
| `WindowFocus` | input state and overlays of `nk::Window`, with the widget operations that touch it |
| `WindowFocusMC` | the widget trees `WindowFocus` is checked on |
| `WindowFocusProofs` | theorems about `WindowFocus` |
| `WaylandPlatform` | `nk::Application` over the Wayland backend: the UI thread, the accessibility thread, the preferences thread |
| `WaylandPlatformProofs` | theorems about `WaylandPlatform` |
| `FramePipeline` | from a widget's redraw request to the compositor's screen |
| `FramePipelineMC` | the widgets `FramePipeline` is checked on |
| `FramePipelineProofs` | theorems about `FramePipeline` |
| `WaylandTransfers` | selections, external drops and the pipes they come over |
| `WaylandTransfersProofs` | theorems about `WaylandTransfers` |
| `AtomicFile` | abstract specification of the settings file: a save replaces it in one step |
| `Settings` | `nk::Settings` as its system calls, with failures, crashes and other processes |
| `SettingsProofs` | theorems about `Settings`, and that it implements `AtomicFile` |

### EventLoop

The variables are the fields of `TaskQueue` and `EventLoop::Impl`; for each local
variable of `poll()` there is a function over frames `1..MaxDepth`, because a
callback may call `poll()` again. `phase` says which of the three loops of `poll()`
(tasks, timers, idles) a frame is in and `call` which callback it is inside of.
`runPc` is the control point of `run()`: the test of `running`, the poll, the second
test, the computation under the lock, and the wait.

Steps are as fine as another thread or a callback can observe. `post()` from a worker
is a push under the mutex (`WorkerPost`) and, later, a notify (`Notify`), because the
notify is outside the lock; `run()` between `RunRecheck` and `RunLock` holds no lock.
`poll()` is `EnterPoll` (swap of the queue), `RunTask`, `CollectDue` (the snapshot),
one `FireTimer` or `SkipTimer` per snapshot entry, `EndTimers` (purge; idles moved
out), one `RunIdle` or `SkipIdle` per idle, `EndIdles`. Between the start of a
callback and its `Return` the loop thread may take any `UserStep`. Handles increase
and vectors are appended to, so a vector is a function from handle to entry.

### Signal

`stack[t]` holds the emissions thread `t` is in the middle of, innermost first; a
frame has the slots left to walk and where it is between reading `connected`
(`Check`) and calling or queueing (`Call`, `PostCall`). A queued delivery (`Take`)
is a frame with a single slot that checks `connected` again, as the closure in
`emit()` does, and nothing else: where `emit()` compares threads to decide between a
call and a post (`Direct`), the frame of a delivery, which is marked `queued`, calls
the slot on whatever thread runs it (`CallsHere`). `loops` and `inbox` are what `Signal` sees of `EventLoop`: a poster
accepts until the loop is destroyed, a destroyed loop drops its queue. That view is
the one `TaskExecutor` gives and `EventLoopProofs` justifies.

### WindowFocus

A handler of the window is a stack of frames, what it has yet to do, next first:
`dismiss_overlay` of a focused sheet is `Dismiss`, then `Focus(None)` with its
callback, `DismissLeave`, `Detached`, `DismissErase`, `Restore`, each with user code
where the source calls any. A `user` frame is user code in control. A frame holds
only what the C++ function keeps in a local variable at that point, an iterator
included: `IteratorValid` says whether the vector operations since have invalidated
it. Use of a null, dangling or invalidated value sets `crashed`.

`Restore` and `RestoreFirst` are `restore_focus_or_first()`; `StateChanged` is
`handle_widget_state_change()`; `Detached` is `handle_widget_detached()`; `Forget`
and `Unlink` are the rest of `remove_child()`.

`parent`, `visible`, `sensitive` and `focusable` are state: `InsertChild` puts a detached
widget under any container that is not in its own tree, as `append_child()` and
`insert_child()` do, so the opener of a sheet may end up inside it, and `SetFocusable`
tells nobody, so the focus owner keeps the focus. The order of children is left open:
where the source takes the next or the first focusable widget, the model takes any.
What user code may call depends on the callback it is in (`CallbackOps`), and how deep
callbacks nest is bounded when a call is made (`MaxNesting`).

### WaylandPlatform

`place` is where the UI thread is in `Application`'s life and in `run_event_loop()`
(the test at the top, the dispatch of display events, `poll()`); `todo` is what a call
of the backend has left to do. The calls are cut where they let go of a lock or wait:
stopping a worker is `StopLock` (flag set and pointers copied under the lock),
`InvokeQuit` (with the copied pointers, after the lock) and `Join`; a refresh of the
accessible tree is `Publish` and `InvokeSync`. A worker thread is a stage (`at`), its
stop flag, whether its pointers are published (`ptr`) and still good (`alive`), and the
`inbox` of its GLib context. The accessibility thread publishes its pointers and tests
the flag in one critical section (`PublishAccess`), the preferences thread in two
(`PublishPrefs`, `TestStop`), as the source does. `sync()` is `SyncTake` (the tree is
copied) and `SyncEmit` (the events are taken); `publish()` may fall in between.

The accessible tree and the desktop's settings are version numbers: `access.tree`,
`published` and `registered` are the widgets', the server's and the bus's, and `announced` is the newest
that somebody asked to have published, or that work of `poll()` made; `pref.sys` and
`pref.applied` are the desktop's and the application's. `Announces` says where a change of
the widgets announces itself: handlers of display events do or do not (`EditWidgets`), tasks
and timers do, and callbacks of finished pastes, which run between `poll()` and the
test for a refresh (`LeavePoll`, `RefreshIfDue`), do not. A change posted to the UI thread
(`PostChange`) carries the version read when it was handled (`HandleChange`).

### FramePipeline

A widget covers some *cells*, the parts `queue_redraw(Rect)` can tell apart, and the
look of a cell is a version number. `content` is what the widgets would draw now,
`renderer.pixels` the framebuffer, `buffers[b].cells` the shared memory and `screen` what
the compositor was given last. `dirty` and `queued` are the window's dirty widgets and
each widget's regions, where no region stands for the whole widget. The frame task is
`FrameBegin`, `FrameSnapshot` (layout, then the widgets are asked for their drawing),
`FrameFinish` (damage, render, upload, and forgetting of the requests); widgets may
request before the layout ends and between snapshot and finish, since user code runs
there. `Upload` is `WaylandSurface::present()` with its choice of buffer, its
reallocation and its copy of the last buffer.

Two history variables except what the code is known to lose (section 4): `lost`, the
cells of frames skipped for want of a buffer, and `overlooked`, the cells whose request
the bookkeeping forgot. A cell leaves them when it is drawn again.

### WaylandTransfers

One thread, so an action is an event handler or a step of one; the handlers that call the
application (drag events, answers of reads) are lists of steps in `todo`, and user code
may act between them, where the source has let go of what it holds or not. A pipe is
what was sent, whether it is closed, what was read and whether its deadline passed;
`Ends`, `Succeeds` and `Advance` are `ClipboardTransfer::poll()`. The loop of
`poll_clipboard_transfers()` is `EraseTransfer` or `KeepTransfer` for the transfer it is at,
until `PollEnd`; other programs may write, read and close between two rounds of it, the
application acts only in the answers after it. `inbox` is the
compositor's events in order, so that an event may be about an object the client has
replaced since. `offers` is the set of protocol objects that exist.

### Settings and AtomicFile

`save()` is its system calls: `OpenTemporary`, `WritePart` (a full stream buffer),
`Flush` (the rest, `flush()` and `close()`), `Sync`, `Rename`; each may `Fail`, a
process may `Crash` and `Restart`, what is not synced may vanish in a `PowerFailure`. A
file knows whether it holds a whole store, whether it is on the disk, and who truncated
it, which is how two processes that save at the same time are seen to mix.
`AtomicFile` has one step, `Commit`, that changes the file to the saver's store; it
excepts savers that met another (`disturbed`). The refinement maps a file that is not on the
disk as it is to a damaged one, which is what makes the order of `fsync` and `rename`
matter.

## 3. What the runs show

| run | instance | properties |
|---|---|---|
| `loop_safety` | 1 worker that posts and quits, 3 tasks, 2 timers or idles, polls nested to 2, clock 0..1, delays 0 and 1 | types; `NotReentrant`, `IntervalStaysScheduled`, `OvertakenOnlyByNestedPoll`, `NoLostWakeup`, `CancelledTimerNeverFires`, `OneShotFiresOnce`, `OneShotNeverEarly`, `ImplementsExecutor` |
| `loop_live` | 1 worker, 1 task, 2 timers or idles, polls nested to 2, clock 0..2, delays 1 and 2, quit on the loop thread | `PostedTaskRuns`, `DueTimerFires`, `QuitStopsRun` |
| `signal` | threads `ui` (with a loop) and `worker`, 2 slots, 2 emissions, nesting 2 | types; `NoneMissed`, `RunsAtHome`, `OwnDisconnectIsFinal`, `AtMostOnce`, `CallsAreSettled` |
| `window_focus` | content `root(box(a), b)`, sheets `dialog(c)` and `alert`, `box` moving between `root` and `dialog`, callbacks nested to 2 | types; `PointersStayGood`, `FocusedIsUsable`, `UnusableTreesAreReleased`, `FocusReturns`, `FocusMovesInsideModal`, `RestoreTargetsComeFromOutside` |
| `wayland_platform` | both workers, an accessibility bus or none, 3 events of application, clients and desktop, 1 action | types; `ServedContextIsAlive`, `ActionsAreAnswered`, `CallsReturn`, `PreferencesFollow`, `ClientsCatchUp` |
| `frame_pipeline` | a widget of two parts and one of one, 2 sizes, 2 changes | types with the merging of frame requests; `ScreenShowsPixels`, `RequestsAreDrawn` |
| `wayland_transfers` | one selection and a drag, 4 events, 2 reads, 2 transfers at a time, texts of at most 1 piece, sources that send 2 | types with the ownership of offers; `AnswersAreComplete`, `DragEventsPair`, `TransfersEnd` |
| `settings` | 2 processes, stores that are empty, small and over 1 MiB | types with the exclusiveness of the temporary file; `ReplacesAtomically` |

Each property is stated with a comment in its module. The other four runs are the
disagreements of section 4.

**Why these bounds are enough to be interesting.** In `loop_safety` two handles and two
nested polls are what the hazards need: a timer whose callback polls, and another
that the nested poll cancels, fires, purges or re-arms while the outer snapshot
holds both. Three tasks are what overtaking needs, one that runs and polls, one
that waits in the batch it belongs to and one posted since; delay 0 makes a timer
due in the poll that creates it. In `loop_live` two timers of different delays give the
wait an earliest one to choose, and a nested poll that re-arms an interval behind
the other; one task is enough, since the order of tasks is not the question there. The proofs of section 5 remove the bounds. In `signal` one slot acts on the other, in its own emission, in an outer
one and from the other thread. In `window_focus` two sheets give nesting and closing in
both orders; `box` can be detached with its child `a` hovered, pressed or focused, and put
back into the content or into `dialog`, where `a`, the opener, is then inside the sheet it
opened; `a` can be disabled and made unfocusable while it has the focus; `dialog` can be
hidden; `alert` has nothing to focus, so the sheet itself is the target. Event
handlers call every operation, focus controllers grab the focus for `b` and `c`, and two callbacks
in progress let a handler call an operation inside the callback of another.

In `wayland_platform` the hazards are in the handshake of two threads: one stop, one
restart and one refresh beside it are three events, and starting, stopping and
`shutdown()` themselves are not counted. In `frame_pipeline` two changes are a whole and
a partial request of one widget, a request in a frame and one after it, or a request
of one widget while a frame for the other is skipped; two sizes give a reallocation of
one buffer with the other still of the old size. In `wayland_transfers` a source can send
one piece too many; two reads fill the queue; four events are an offer, a read, a newer
offer and a second read, or a drag (enter, drop), a second drag and its end. The
primary selection is handled by the same functions over another object, so that one
kind is enough. In `settings` two processes give every way to disturb a save, and one
of them alone every crash and failure; there is no bound on the length of a behaviour.

Where a bound stops user code from making another call the instance may stop; that,
not the loop, is why deadlock is not checked for `EventLoop`, `Signal` and
`WaylandTransfers`. It is checked for the others; in `WaylandPlatform` the step `Gone`
stands for the end of the program, so that a deadlock would be two threads waiting on
each other.

**Fairness.** `EventLoop`: weak fairness of the loop thread's own steps and of a
poster's notify (threads are scheduled), of the clock, and strong fairness of the
return of a callback at each depth (a callback that keeps calling `poll()` still
returns). Nothing is assumed of user code or of workers starting anything, and not
of spurious wakeups: liveness must not depend on them. `Signal`: weak fairness of
each thread's emission steps, and of the loop's taking of a delivery when its thread is
idle. `WaylandPlatform`: weak fairness of each thread's steps, for threads are
scheduled, user code returns, the UI loop waits 8 ms at most and a GLib loop handles
what is pending; none of what clients, the desktop or the application start.
`FramePipeline`: weak fairness of the frame task alone; the compositor may keep both
buffers for ever. `WaylandTransfers`: weak fairness of the loop's poll and of what a handler
began, and of the clock; none of the programs at the other end of a pipe. `WindowFocus`
and `Settings` state safety only.

## 4. Where the code and its documentation disagree

Each of these is a run whose counterexample TLC prints.

- **`quit()` from another thread may not stop `run()`** (`loop_quit_from_worker`). The wait's
  predicate (`event_loop.cpp:145-147`) looks at the queue and at acceptance, not at
  `running`, and `quit()` stores `running` without the mutex. A worker that quits
  after the re-check of line 130 signals a wait that has not begun, or one whose
  predicate stays false. `run()` then sleeps until the next task or timer.
  `loop_live` shows that a `quit()` on the loop thread always works.
- **A cancelled idle callback may run** (`loop_cancelled_idle`). `poll()` moves the idles
  into a local vector (line 353), where `cancel()` does not look. Timers are checked
  again before each fire, and `CancelledTimerNeverFires` is proved.
- **An interval may fire before its time** (`loop_early_interval`). If an earlier timer of
  the same snapshot polls and that poll fires and re-arms the interval, the outer
  snapshot fires it again at once: line 322 looks at `cancelled` only. One-shots are
  safe, since firing marks them cancelled (`OneShotFiresOnce`).
- **A widget under a hidden or disabled ancestor may take the focus**
  (`window_focus_mapped`). `can_focus_widget()` tests the widget alone, while
  `widget.h:69-70` requires it to be mapped. Tab skips such widgets.

Met on the way and not given runs: `hit_test_widget()` ignores sensitivity, which `widget.h:74-75`
asks for; keys without a focused widget and without a modal sheet are not routed to
the root (`widget.h:76`); `set_child()` drops a focused widget of an overlay without
clearing its Focused flag; a modal sheet made visible again by `set_visible(true)`
contains input but does not take the focus; a focus controller that clears the focus
makes `focus_widget()` use a null pointer (`window.cpp:2766`, 2775, 2776); one that shows or
dismisses a sheet invalidates what `show_overlay()` and `dismiss_overlay()` hold (4330, 4403);
`set_focusable(false)` leaves the focus with its owner (`widget.cpp:558`), which then
keeps the keyboard although `focus_widget()` would refuse it; an opener that the
application moves into its own sheet leaves with the sheet, and the focus goes to the
first widget instead.

The later modules have these in their behaviours, and except them from their properties by
name where they would violate one:

- **Frames.** `queue_redraw()` followed by `queue_redraw(Rect)` before the next frame draws the
  rectangle only, because no region stands for the whole widget (`widget.cpp:651`,
  671). A redraw asked for after the snapshot of a frame is forgotten at its end, with the
  requests the frame served (`window.cpp:2652-2659`), although `widget.h:79-80` says of this
  kind of request (`mark_dirty()` there) "Safe to call anytime." (`overlooked`). A frame that finds both buffers busy, or
  gets no memory for one, is skipped ("Both buffers in use", `wayland_surface.cpp:472`),
  and with it its damage: nothing uploads it until those cells are damaged again (`lost`).
  `hide()` attaches no buffer, and the next `present()` attaches one without waiting
  for a new configure event.
- **Accessibility.** `sync()` takes the tree first and the events later: a `publish()` in
  between makes it emit events about objects that are not registered yet, until
  the next `sync()`, though the comment at `atspi_dbus.cpp:532-533` says "Emit only after
  new objects are registered". "The loop sees every task, timer, frame, and input dispatch"
  (`wayland_backend.cpp:1077-1078`), but only some of these make a refresh: a button, a
  press of a key, text, a scroll and a move of the keyboard ask for one
  (`wayland_input.cpp:357`, 1228, 1251, 1308, 1348, 1383, 1478); pointer motion and crossings,
  the release of a key, drags and the window's own events do not, and the
  callback of a finished paste (`wayland_backend.cpp:1484`) runs after `poll()` has
  reported its work. A change made there that queues no redraw is on the bus
  with the next announced change only, which is what `ClientsCatchUp` says.
- **Workers.** When there is no accessibility bus, and in the preferences thread always, the worker
  may free its context between another thread's copy of the pointer and the use
  of it (`wayland_backend.cpp:1303`, 1645): `Invoke` finds `alive` false there.
  `ServedContextIsAlive` shows that this cannot happen on a bus.
- **Preferences.** A setting that changes while the observer restarts is missed until the next
  change; an update posted before observation is switched off is still applied after
  it. `request_quit()` before `run_event_loop()` is forgotten (`wayland_backend.cpp:1443`).
- **Clipboard.** A source that dies midway closes its pipe, which is taken for the end of the text.
  The synchronous getter falls back to the application's own, older text,
  where `application.h:149-150` says "an incomplete or failed transfer returns empty text".
- **Input.** `keyboard_leave()` reads `keyboard_focus_` again after handlers ran
  (`wayland_input.cpp:1340-1345`).
- **Settings.** Two processes that save at once share one `.tmp` and may leave a mixture (`Damage` of
  `AtomicFile`). A store of more than 1 MiB saves, but `load()` then clears the values and
  fails (`settings.cpp:151-158`). A list with one empty string is read back as the empty list.

## 5. What is proved

### EventLoop

The first six in `EventLoopProofs`, the last four in `EventLoopNestingProofs`, from `BoundAssumption`
(the bounds are naturals, at least one frame) and `ThreadAssumption` (the loop thread is not a worker) alone. The
bounds are constants, so each theorem holds for every number of workers, tasks,
handles, nested polls and ticks.

| theorem | statement |
|---|---|
| `TypeCorrect` | `Spec => []TypeOK` |
| `CancelIsFinal` | `Spec => CancelledTimerNeverFires` |
| `OneShotOnce` | `Spec => OneShotFiresOnce` |
| `WakeupsAreNotLost` | `Spec => []NoLostWakeup` |
| `PostingOrder` | `Spec => OvertakenOnlyByNestedPoll` |
| `LoopImplementsExecutor` | `Spec => ImplementsExecutor` |
| `CallbacksAreNotReentered` | `Spec => []NotReentrant` |
| `IntervalsAreNotLost` | `Spec => []IntervalStaysScheduled`, if `0 \notin Intervals` |
| `TimersAreNotEarly` | `Spec => NeverEarly`, if `MaxDepth = 1` |
| `OneShotsAreNotEarly` | `Spec => OneShotNeverEarly`, at any depth |

`TypeOK` is inductive and is proved one part at a time (`QueueTypeStep`,
`TimerTypeStep`, `FrameTypeStep`, `RunTypeStep`, `FlagTypeStep`). The others need more:

- **Timers.** The two action properties are about the moment `FireTimer` starts a callback,
  whose guard is `Live(h)`, so the invariant must say that what may not fire is not
  live. `TimerInv` does: a cancelled handle still in the vector is marked
  (`CancelMarks`); a one-shot that has fired is marked (`FiringConsumes`, which also
  says that only intervals have a nonzero interval); a handle not yet given out has
  not fired (`UnissuedUnfired`, which keeps a new timer from starting with a past).
  `StartsWhenLive` shows that no other step can start a timer's callback.
- **Wakeups.** `NoLostWakeup` speaks of a waiting `run()`. It is inductive once one
  knows that no poll is in progress while `run()` waits (`RunDepth`), so that the
  loop thread itself cannot post then.
- **Tasks.** `TaskInv` gives the place of every accepted task and the order of the places. The queue
  is ascending and newer than any batch and anything run (`QueueNewest`); batches
  are ascending, disjoint from what ran, and an inner frame's tasks are newer than an
  outer one's (`BatchesOrdered`); only frames in their first phase hold tasks
  (`Drained`); after destruction nothing is queued (`Frozen`); and every task posted
  has run, was dropped, is queued or is in a batch (`Accounted`). Posting order is
  `Accounted` read with the orders at the moment `RunTask` starts the head of the
  innermost batch: an older task that has not run is not queued, for the queue is
  newer, nor in the same batch, for the head is its oldest, nor dropped, for the loop
  still accepts; so an outer batch holds it.
- **Refinement.** `Push` is `Accept` of `nextTask`, which no task accepted so far equals;
  `RunTask` is `Execute` of the head of the innermost batch, which by
  `BatchesOrdered` has not run and by `Frozen` was not dropped; `Destroy` is `Close`,
  and what it drops is what `Accounted` leaves: the queue, since no frame is in
  progress.
- **Nesting.** That no callback is inside itself (`CallsDiffer`) is not inductive: one must
  know that what is on the stack is out of reach of every later start (`CallInv`). A task
  on the stack has run and is in no queue or batch (`TasksStarted`); an idle is in no
  list, and each idle is in one list only (`IdlesTaken`, `MovedOnce`); a timer is
  cancelled or parked, and in no snapshot of a deeper poll (`TimersFenced`).
- **Intervals.** A parked interval is armed again by the return of its callback, so the
  invariant is that some frame is inside it (`ParkedInCall`), and that the purge does
  not remove it (`IntervalsLive`). The theorem assumes that no interval is 0:
  `set_interval(0)` makes a timer that `poll()` takes for a one-shot
  (`event_loop.cpp:221`, `:325`), and that one is removed after its first call.
- **Time.** Whatever a snapshot holds had come when it was taken (`DueArrived`) and stays so but
  for a timer that is armed again; that one is an interval, and it is not in the snapshot of the
  poll that fired it (`FiredIsTaken`), only in those of outer polls. So one-shots are
  never early, intervals only where polls nest: there `NeverEarly` is false (section 4), hence the
  condition of `TimersAreNotEarly`.

### Settings

In `SettingsProofs`, from `SettingsAssumption` (the empty store is a store) alone, for any
number of processes and any set of stores, also infinite ones.

| theorem | statement |
|---|---|
| `TypeCorrect` | `Spec => []TypeOK` |
| `SavesAreAtomic` | `Spec => ReplacesAtomically` |

`TypeOK` is inductive. Its types alone would say nothing about the refinement; what does is
its last conjunct: a saver that met no other is the only one, has truncated the temporary
file itself and nobody has written to it since, its stream still writes to that file
under that name, once flushed the file holds its store, and once synced it is on the
disk (`Exclusive`). A crashed process leaves its temporary file behind, which is why
`Exclusive` speaks of who truncated it last: `OpenTemporary` re-establishes it,
`WritePart` and `Flush` keep it because a lone saver's stream is the only one on the file,
and every step that lets a second process in marks both as disturbed first
(`AloneOrNot`, `SaversAfter`).

Refinement. Only `Rename`, a stream whose file was renamed under it (`Flush`, `WritePart`
on `"file"`), `WriteBack` and `PowerFailure` touch the file. An undisturbed
`Rename` is `Commit`: by `Exclusive` the temporary file holds the saver's store and is
on the disk. A disturbed one is `Commit` to anything; a write to the renamed file is
`Damage`, for then somebody is disturbed; every other step of a save is a stutter or
`BeginSave` or `Abort`. The order of the system calls is used in one place each: without
the `fsync`, `Content` of the renamed file would be damaged at `Rename`; without the temporary
file, at the first write.

### Signal

In `SignalProofs`, from `SignalAssumption` (bounds are naturals, loop threads are
threads), for any number of threads, slots, emissions and nested frames.

| theorem | statement |
|---|---|
| `TypeCorrect` | `Spec => []TypeOK` |
| `SlotsRunAtHome` | `Spec => []RunsAtHome` |
| `DisconnectIsFinal` | `Spec => OwnDisconnectIsFinal` |
| `NoSlotIsMissed` | `Spec => []NoneMissed` |
| `CalledAtMostOnce` | `Spec => AtMostOnce` |

The first three follow from `SigInv`. Each frame walks slots that its emission promised; a
slot that passed the check of `connected` was not silenced by the thread about to call it;
a frame inside a callback made that call at the slot's home. For a queued delivery, which compares
no threads, the last part needs that whatever an inbox holds is at home on that inbox's
thread and that the frame of a delivery has only such slots left, since `emit()` queues
on the loop of the slot's thread and only that thread takes from it. And only user code nests frames, so
a frame between the check and the call is the innermost and its thread can disconnect
nothing in between. That the same holds only of the thread's *own* disconnections is
why the property is about them: another thread may come between the check and the
call. `NoSlotIsMissed` adds that each promised, connected slot is started, excused,
left to a frame or queued (`AllOwed`). `CalledAtMostOnce` adds that
these places exclude each other: two walks of one emission have different slots left
(`Apart`, which matters because a delivery is a frame of the emission that queued
it), a call is queued once (`QueuedOnce`) and not also left to a walk (`Either`),
what is left to a walk was not started (`Fresh`), and an emission yet to begin has
started nothing (`Past`).

### WindowFocus

In `WindowFocusProofs`, from `TreeAssumption` (the widgets are finitely many and form trees at the
start; nothing is said of their number, their shape or the sheets) and from a condition on
what callbacks call. Event handlers and slots of map and unmap call any operation, at any depth.

| theorem | statement | of focus callbacks | of hover callbacks |
|---|---|---|---|
| `FocusIsContained` | `Spec => FocusMovesInsideModal` | only `HarmlessOps` | any |
| `TypeCorrect` | `Spec => []TypeOK` | none | none |
| `PointersAreGood` | `Spec => []PointersStayGood` | none | none |
| `RestoreTargets` | `Spec => RestoreTargetsComeFromOutside` | none | none |
| `FocusOwnerIsUsable` | `Spec => []FocusedIsUsable` | none | none |
| `UnusableIsReleased` | `Spec => []UnusableTreesAreReleased` | none | none |
| `FocusComesBack` | `Spec => []FocusReturns` | none | none |

`HarmlessOps` are `grab_focus()`, `set_sensitive()`, `set_focusable()` and `set_child()`: what moves no
sheet and no widget and hides none. The run `window_focus` checks all seven with focus
callbacks that grab the focus, which the last six theorems exclude.

`focus_widget()` tests containment first, then tells the old owner, then takes the focus:
between test and assignment is user code. For `FocusIsContained` the invariant `Guarded` says that
any frame that waits to take the focus, and with focus callbacks that grab it there may be several,
holds a widget of the top modal sheet, and that nothing comes before it but
what is left of other calls of `focus_widget()`, user code told of the focus and the handlers of its
changes (`Tells`): none of them changes a tree, a sheet or what is visible, and
each frame they push is contained in its turn (`TellsThen`). The
condition is needed: a controller that opens a sheet from its focus-out handler, or hides
the top one, would leave a frame waiting with a widget outside the sheet that is then on top.

The others rest on `Core`: types, `PointersStayGood` and `AllSound(stack)`. The pointers alone
are not inductive, because a frame goes on with what its C++ function had in a local variable
when it called user code. A frame is sound when what it will use is still what it was
(`Owed`: the entry a dismissal is about to erase is in `overlays`, its iterator valid; the widget a pointer
event is for is in the window) and only certain frames run before it (`Precedes`: an event handler, which may do
anything, only above frames that rely on nothing). Where the
source detaches in two steps, `Gone` says in between that no pointer is left in the subtree, or that the
frame which clears it is still above.

- `RestoreTargets`: a sheet takes its target when it is shown or shown again, and the target is the
  focus owner. A new sheet was no root of the window and is nobody's child, so no widget of the
  window, the focus owner among them, is in it (`FocusIsOutside`); a sheet that is up takes the owner
  only if it is not in it. Every other step keeps the targets (`OverlaysStay`). What `Core` must
  know is that the trees stay trees with roots where roots belong (`Rooted`, `ForestGrows`).
- `FocusOwnerIsUsable`: the owner is visible and sensitive, or a frame that clears it comes next
  (`Waits`), or the window is yet to be told of the change (`Told`), below any handler that runs first.
- `UnusableIsReleased`: while the handler of the change unwinds, only user code and frames that
  clear the focus are on the stack, and those come before anybody looks (`Unused`).
- `FocusComesBack`: the widget has the focus and nobody waits to take it, or exactly one frame
  is left that gives the focus and it gives it to that widget (`Returning`).

The path to the root is a recursive function; what the proofs use of it is its equation, which
has a solution (`EquationHasSolution`, the least set closed under taking parents), and that
what passes from each parent to its children holds of all widgets, since the trees have no
cycle (`DownTheTrees`).

### WaylandPlatform

In `WaylandPlatformProofs`, from `PlatformAssumption` (the bound is a natural) alone, for any
number of events and any actions.

| theorem | statement |
|---|---|
| `TypeCorrect` | `Spec => []TypeOK` |
| `ContextIsAlive` | `Spec => []ServedContextIsAlive` |
| `EveryRequestIsAnswered` | `Spec => []ActionsAreAnswered` |

Types need that the published pointers are cleared before what they point to is freed
(`Alive`). The UI thread uses its copy of the pointers after it let go of the lock, when
they may be cleared at any moment; what saves it is that on a bus the thread ends only
when it is stopped and its loop was quit (`EndsWhenStopped`), and that only the destructor
stops it, once, with the quit right after the copy and no sync behind it (`StopsOnce`).
Without a bus the thread may end by itself; there the property does not hold and is not
claimed. For the answers, the invariant `Kept` follows each posted request: it is a
task, or about to be answered by the step that ran it, and at the end only tasks can
hold one, which the destructor of the queue answers; no client can post another because the
thread has been joined.

### FramePipeline

In `FramePipelineProofs`, from `PipelineAssumption` (there is a size, `NoSize` is
none, the bound is a natural), for any widgets, cells and sizes.

| theorem | statement |
|---|---|
| `TypeCorrect` | `Spec => []TypeOK` |
| `ScreenIsRight` | `Spec => []ScreenShowsPixels` |

`TypeOK` is inductive once versions do not exceed the count of changes (`Counted`).
`ScreenShowsPixels` needs to know from which buffer the next partial upload starts:
`LastIsShown` says that the buffer presented last holds the screen, in the size the
renderer drew in, unless every cell was lost to skipped frames, and that before the
first frame no buffer has anything. A partial upload copies that buffer and the damaged cells, so
it holds all pixels; a whole upload needs nothing.

### WaylandTransfers

In `WaylandTransfersProofs`, from `TransferAssumption` (the bounds are naturals) alone, for any
selections, events, reads, transfers at a time and text sizes.

| theorem | statement |
|---|---|
| `TypeCorrect` | `Spec => []TypeOK` |
| `DragEventsArePaired` | `Spec => []DragEventsPair` |
| `AnswersAreWhole` | `Spec => AnswersAreComplete` |

They follow from one inductive invariant, `Consistent`, whose parts are:

- `Types`, with `Steps`: the shapes `todo` may have. A handler is one of a few sequences, or
  the answers that are left, or a round of the loop before the answers it has collected.
- `Told` and `LetGo`, for drags: `inside` is what the drag says it is, but for the steps between
  letting a drag go and telling of it. There the hand is full and the drag is empty, so that
  a new drag cannot find the old one, and `clipboard_enter()` over an unfinished drop tells of the end first.
- `Owned`, `Coming` and `Apart`, for the offers: those that exist are those that some slot holds;
  offers on their way are newer than all held ones and come in order, so a new offer is none
  of the held ones; and no two slots hold the same. Therefore each destruction destroys what was just
  let go and nothing that is still held. None of the three is inductive without the other two.
- `Asked`, for the answers: the read of a transfer is pending and of its kind; the
  generation it noted is not above the selection's, and if it is equal the offer the read
  was asked of is still the selection's; no two transfers answer one read. Ending at
  the right generation is thus what makes a text that of the current selection. That it is whole follows from
  `Succeeds`, which needs that no pipe gives more than it was sent.

### What is not proved

Every invariant and every action property of a passing run is stated by a theorem, those of
`WindowFocus` under the conditions above.
**Only model-checked** is liveness, since the prover does neither fairness nor `ENABLED`:
`PostedTaskRuns`, `DueTimerFires` and `QuitStopsRun`; `CallsAreSettled`; `CallsReturn`, `PreferencesFollow` and `ClientsCatchUp`; `RequestsAreDrawn`;
`TransfersEnd`. No module uses a `RECURSIVE` operator: the one recursion, the path to
the root in `WindowFocus`, is a recursive function, so that these modules stay open to proof.

## 6. Abstractions

- Tasks, slots, emissions and handles are numbers in the order they are made;
  payloads and callbacks have no content.
- `EventLoop`: `run()` is not nested in a callback (`poll()` is); the wake handler, which
  belongs to the platform loops, and the trace ring are left out. The clock ticks at
  any point, also within a poll, whose `now` is read once.
- `Signal`: loads and stores of `connected` are sequentially consistent. Slots are not given
  destructors with effects (`purge_disconnected()` destroys them under the mutex). The signal
  is destroyed by a thread while no other is in its locked regions, as any C++ object
  must be. Moves of a signal are left out.
- `WindowFocus`: event handlers and map and unmap slots call every operation; in the run focus
  controllers only grab the focus, since one that clears it or changes overlays makes the code use
  what is null or invalidated (section 4), and pointer controllers call nothing; the window
  survives its handlers. The content and the sheets are never children of a widget, an inserted widget
  is no root of the window, and the order of children is open: iterators into children are taken to be
  invalidated by any change. State flags, cursors, tooltips, drags, shortcuts and the inspector are left
  out. A visible modal sheet covers the window.
- `WaylandPlatform`: the order in which D-Bus delivers is that of the context; a tree, a setting and a
  refresh are versions. The user code of a task is one call of the backend at a time. The subscription to
  GSettings is one step with the publication of the loop it follows, and the observer that polls
  where there is none is left out.
  The registry, outputs, dialogs and portals are left out.
- `FramePipeline`: cells do not overlap and damage is a set of cells: clipping, merging and padding of
  rectangles, preserved and overlay damage are left out, and so are the GPU renderers.
  The window is not destroyed; it has a child.
- `WaylandTransfers`: text is counted in pieces of what one `poll()` reads; an offer comes with its types
  in one event; a request of the client reaches the compositor at once, an event waits in
  the queue. A drop is decoded or not. That `pipe2()` or a flush fails, and what is pending at shutdown, are left
  out. The synchronous read and key and text input are
  left out.
- `Settings`: a store is a value as a whole; `store` does not change during `save()`, which is synchronous. A
  lost power takes what was not synced as a whole; directories are synced in one step.

## 7. What is not modelled, and the plan

In order of importance; the lines at which each of these bites are in `PROJECT.json` under
`hazards`.

1. `ListModel` and `ListAdapters`: two-phase notifications with re-entrant changes, a selection
   and a filter that follow; the adapter shown to implement a filtered view of the
   source.
2. `StateStore`: the order in which observers see nested updates; `Actions`.
3. `WindowFocus`: the drag state inside the window, state flags, pointer controllers that
   change the tree, and the destruction of the window inside a handler; then its composition
   with `WaylandTransfers`, whose drag events it dispatches.
4. Keyboard and text input of `wayland_input.cpp`: key repeat (a timer whose window may
   go), the serials of text input, focus pointers that outlive a lost capability.
5. Proofs: the theorems about `WindowFocus` without the condition on
   pointer controllers, and with focus controllers that grab the focus, after item 3; and whatever items 1 and 2 give.

Left out for good: layout, style, text shaping, rendering and the widgets themselves (sequential,
numeric or pixels; unit tests reach them), D-Bus marshalling and protocol decoding
(I/O), logging, services and diagnostics (a map and a sink), and the Win32 and macOS loops
beyond what `WaylandPlatform` says, since they keep the same contract over native
queues.

## 8. Running

    tlc -config EventLoopSafety.cfg EventLoop        # and the other .cfg files
    tlc -config WindowFocus.cfg WindowFocusMC
    tlc -config FramePipeline.cfg FramePipelineMC
    tlapm EventLoopProofs.tla                        # and the other *Proofs modules

`PROJECT.json` maps every definition to the lines it stands for, and gives for each property a
mutant of the model, a definition marked `Mutant:` in its comment, under which TLC
finds the property violated.
