--------------------------- MODULE WaylandPlatform ---------------------------
(***************************************************************************)
(* nk::Application over the Wayland backend                                 *)
(* (src/platform/application.cpp, src/platform/linux/wayland_backend.cpp,   *)
(* src/platform/linux/atspi_dbus.cpp): the UI thread, the thread that       *)
(* serves the accessibility bus ("access") and the thread that observes the *)
(* desktop's preferences ("prefs"), each over a GLib main loop of its own.  *)
(*                                                                          *)
(* The tree of accessible objects and the desktop's settings are versions:  *)
(* numbers that grow with every change. What a client can ask, and how a    *)
(* tree becomes D-Bus objects, is left out.                                 *)
(*                                                                          *)
(* A call of the backend that takes several steps (lock, use, join) is a    *)
(* list of steps in `todo`; user code goes on when the list is empty.       *)
(***************************************************************************)
EXTENDS Integers, Sequences

CONSTANTS
  MaxEvents,    \* bound on what the application, the clients and the desktop do
  Actions       \* the actions clients may ask for

ASSUME PlatformAssumption == MaxEvents \in Nat

Kinds    == {"access", "prefs"}
Versions == 1..(MaxEvents + 1)
Settings == 0..MaxEvents

VARIABLES
  \* the UI thread
  place,         \* where it is in Application's life
  todo,          \* the steps left of the backend's calls it is in
  copied,        \* the context it copied under the lock is not null
  didWork,       \* run_event_loop()'s did_work
  batch,         \* the tasks left of the batch poll() took
  events,        \* counts the events from outside, against the bound
  quitRequested, \* quit_requested
  tasks,         \* the tasks posted to the event loop
  thread,        \* kind -> the worker thread and its main loop
  pref,          \* the preferences, from the desktop to Application
  access,        \* the accessible tree, from the widgets to the bus
  action         \* action a client asked for -> what became of it

loopVars == <<didWork, batch, tasks>>
vars == <<place, todo, copied, didWork, batch, events, quitRequested, tasks,
          thread, pref, access, action>>

-----------------------------------------------------------------------------
\* stop: ..._stop_requested; ptr: the context and loop pointers are not null;
\* alive: the context and loop they point to are not freed; inbox: what was
\* invoked on the context.
NewThread == [at |-> "created", stop |-> FALSE, ptr |-> FALSE, alive |-> TRUE,
              inbox |-> <<>>]

\* The thread got past its notifications' connection and not to its end.
Subscribed == thread["prefs"].at \in {"published", "running", "emitting"}

\* Handlers of the accessibility bus run while its loop is idle.
Serving == thread["access"].at = "running"

Event == events < MaxEvents /\ events' = events + 1

InLoop == place \in {"top", "dispatch", "poll", "transfers"}

\* The application's own code runs: before run(), in a handler of the display's events,
\* in a task or a timer, in the callback of a finished paste, or after run().
InUserCode == todo = <<>> /\ place \in {"before", "dispatch", "poll", "transfers", "after"}

\* Calls that do not care whether a handler or a task makes them are made from tasks
\* only.
InTask == InUserCode /\ place \notin {"dispatch", "transfers"}

\* The calls of the backend, as the steps they take.
StopThread(kind)  == << <<"stop", kind>> >>
StartThread(kind) == << <<"stop", kind>>, <<"start", kind>> >>
RefreshSnapshot   == << <<"publish">>, <<"sync">> >>

\* The application has the backend stop what it had it start.
StopObserver == IF pref.observing THEN StopThread("prefs") ELSE <<>>

\* The constructor started both threads and read the settings. sys: the desktop's
\* settings; applied: Application's; changed: notifications not yet handled; carried:
\* what the handler is about to post; missed: history, a change reached no handler.
\* tree: the tree of the widgets; published and pending: AtspiDbusServer's tree_ and
\* pending_events_; taken: the tree sync() works with; registered: the one whose objects
\* are on the bus; bus: whether there is an accessibility bus; announced: history, the
\* newest tree that somebody asked to have published or that work of poll() made.
Init ==
  /\ place = "before"
  /\ todo = <<>>
  /\ copied = FALSE
  /\ didWork = FALSE
  /\ batch = <<>>
  /\ events = 0
  /\ quitRequested = FALSE
  /\ tasks = <<>>
  /\ thread = [kind \in Kinds |-> NewThread]
  /\ pref = [sys |-> 0, applied |-> 0, observing |-> TRUE, observer |-> TRUE,
             changed |-> 0, carried |-> <<>>, missed |-> FALSE]
  /\ \E bus \in BOOLEAN :
       access = [tree |-> 1, published |-> 1, announced |-> 1, pending |-> {},
                 taken |-> 0, registered |-> 0, connected |-> FALSE, requested |-> FALSE,
                 inUse |-> FALSE, bus |-> bus]
  /\ action = [a \in Actions |-> "none"]

-----------------------------------------------------------------------------
(***************************************************************************)
(* The application's code on the UI thread.                                 *)
(***************************************************************************)

\* Widgets change. After a button, a press of a key, text, a scroll or a move of the
\* keyboard to another window the backend asks for a refresh; after motion, a crossing,
\* the release of a key, a drag or a window's own events it does not. A task or a timer
\* is work poll() reports; the callback of a finished paste is neither.
Announces == [before |-> {}, dispatch |-> BOOLEAN, poll |-> {TRUE}, transfers |-> {FALSE},
              after |-> {}]

EditWidgets(announced) ==
  /\ InUserCode
  /\ announced \in Announces[place]
  /\ Event
  /\ access' = [access EXCEPT
       !.tree = @ + 1,
       !.announced = IF announced THEN access.tree + 1 ELSE @,
       !.requested = @ \/ (announced /\ place = "dispatch")]
  /\ didWork' = (didWork \/ place = "poll")
  /\ UNCHANGED <<place, todo, copied, batch, quitRequested, tasks, thread, pref,
                 action>>

\* register_surface() and unregister_surface(), for a window that comes or goes.
ChangeWindows ==
  /\ InTask
  /\ Event
  /\ access' = [access EXCEPT !.tree = @ + 1, !.announced = access.tree + 1]
  /\ todo' = RefreshSnapshot
  /\ didWork' = (didWork \/ place = "poll")
  /\ UNCHANGED <<place, copied, batch, quitRequested, tasks, thread, pref, action>>

\* set_system_preferences_observation_enabled()
SetObservation(enabled) ==
  /\ InTask
  /\ pref.observing # enabled
  /\ Event
  /\ pref' = [pref EXCEPT !.observing = enabled]
  /\ todo' = IF enabled THEN StartThread("prefs") ELSE StopObserver
  /\ UNCHANGED <<place, copied, loopVars, quitRequested, thread, access, action>>

\* set_system_preferences_observation_interval(): the observer starts anew.
SetInterval ==
  /\ InTask
  /\ pref.observing
  /\ Event
  /\ todo' = StopObserver \o StartThread("prefs")
  /\ UNCHANGED <<place, copied, loopVars, quitRequested, thread, pref, access, action>>

RefreshPreferences ==
  /\ InTask
  /\ Event
  /\ pref' = [pref EXCEPT !.applied = pref.sys]
  /\ UNCHANGED <<place, todo, copied, loopVars, quitRequested, thread, access,
                 action>>

\* run_event_loop() forgets a quit requested before it.
Run ==
  /\ InUserCode
  /\ place = "before"
  /\ place' = "top"
  /\ quitRequested' = FALSE
  /\ UNCHANGED <<todo, copied, loopVars, events, thread, pref, access, action>>

\* Application::quit(), which any thread may call; after run() nobody looks at the flag.
Quit ==
  /\ place = "before" \/ InLoop
  /\ quitRequested' = TRUE
  /\ UNCHANGED <<place, todo, copied, loopVars, events, thread, pref, access, action>>

\* ~Application: the observer, shutdown() of the backend, then the event loop.
Destroy ==
  /\ InUserCode
  /\ place \in {"before", "after"}
  /\ place' = "closing"
  /\ todo' = StopObserver \o StopThread("access") \o StopThread("prefs")
               \o << <<"dispose">> >>
  /\ UNCHANGED <<copied, loopVars, events, quitRequested, thread, pref, access, action>>

-----------------------------------------------------------------------------
(***************************************************************************)
(* The steps of the backend's calls on the UI thread.                       *)
(***************************************************************************)

Doing(step) == todo # <<>> /\ Head(todo)[1] = step

\* stop_...(): the flag, and the pointers to quit the loop with, under the lock.
StopLock ==
  /\ Doing("stop")
  /\ LET kind == Head(todo)[2] IN
     /\ thread' = [thread EXCEPT ![kind].stop = TRUE]
     /\ copied' = thread[kind].ptr
     /\ todo' = (IF copied' THEN << <<"quit", kind>>, <<"join", kind>> >>
                 ELSE << <<"join", kind>> >>) \o Tail(todo)
     /\ pref' = IF kind = "prefs"
                THEN [pref EXCEPT !.observer = FALSE, !.missed = @ \/ pref.changed > 0]
                ELSE pref
  /\ UNCHANGED <<place, loopVars, events, quitRequested, access, action>>

\* g_main_context_invoke() with the copied pointers, after the lock: of a context that
\* was freed in between nothing is left to invoke it on.
Invoke(step, kind) ==
  /\ Doing(step)
  /\ thread' = IF copied /\ thread[kind].alive
               THEN [thread EXCEPT ![kind].inbox = Append(@, step)]
               ELSE thread
  /\ todo' = Tail(todo)
  /\ UNCHANGED <<place, copied, loopVars, events, quitRequested, pref, access, action>>

InvokeQuit == Doing("quit") /\ Invoke("quit", Head(todo)[2])
InvokeSync == Invoke("sync", "access")

Join ==
  /\ Doing("join")
  /\ thread[Head(todo)[2]].at = "ended"
  /\ todo' = Tail(todo)
  /\ UNCHANGED <<place, copied, loopVars, events, quitRequested, thread, pref, access,
                 action>>

\* start_system_preferences_observation()
StartObservation ==
  /\ Doing("start")
  /\ thread' = [thread EXCEPT !["prefs"] = NewThread]
  /\ pref' = [pref EXCEPT !.observer = TRUE, !.changed = 0]
  /\ todo' = Tail(todo)
  /\ UNCHANGED <<place, copied, loopVars, events, quitRequested, access, action>>

\* refresh_accessibility_snapshot(): the new tree and the events that lead to it are
\* published; then the context is copied, under another lock.
Publish ==
  /\ Doing("publish")
  /\ access' = [access EXCEPT
       !.published = access.tree,
       !.pending = IF access.tree = access.published THEN @ ELSE @ \cup {access.tree}]
  /\ copied' = thread["access"].ptr
  /\ todo' = Tail(todo)
  /\ UNCHANGED <<place, loopVars, events, quitRequested, thread, pref, action>>

\* Reply::answer(), after the action was tried and the tree published.
Answer ==
  /\ Doing("answer")
  /\ action' = [action EXCEPT ![Head(todo)[2]] =
       IF Head(todo)[3] THEN "performed" ELSE "refused"]
  /\ todo' = Tail(todo)
  /\ UNCHANGED <<place, copied, loopVars, events, quitRequested, thread, pref, access>>

\* Mutant: a dropped reply says nothing.
RefusedSilently(dropped) == action

\* The event loop goes, and the tasks in it; Reply's destructor answers for them.
Refused(dropped) ==
  [a \in Actions |->
     IF \E i \in 1..Len(dropped) : dropped[i] = <<"action", a>> THEN "refused" ELSE action[a]]

Dispose ==
  /\ Doing("dispose")
  /\ place' = "gone"
  /\ action' = Refused(tasks)
  /\ tasks' = <<>>
  /\ todo' = Tail(todo)
  /\ UNCHANGED <<copied, didWork, batch, events, quitRequested, thread, pref, access>>

-----------------------------------------------------------------------------
(***************************************************************************)
(* run_event_loop().                                                        *)
(***************************************************************************)

\* The test at the top of the loop. poll(2) waits for 8 ms at most.
Iterate ==
  /\ place = "top" /\ todo = <<>>
  /\ place' = IF quitRequested THEN "after" ELSE "dispatch"
  /\ UNCHANGED <<todo, copied, loopVars, events, quitRequested, thread, pref, access,
                 action>>

\* The display's events are handled; EventLoop::poll() takes the tasks posted so far.
EnterPoll ==
  /\ place = "dispatch" /\ todo = <<>>
  /\ place' = "poll"
  /\ batch' = tasks
  /\ tasks' = <<>>
  /\ didWork' = (tasks # <<>>)
  /\ UNCHANGED <<todo, copied, events, quitRequested, thread, pref, access, action>>

\* handle_system_preferences_update()
ApplyPreferences ==
  /\ place = "poll" /\ todo = <<>> /\ batch # <<>>
  /\ Head(batch)[1] = "prefs"
  /\ pref' = [pref EXCEPT !.applied = Head(batch)[2]]
  /\ batch' = Tail(batch)
  /\ UNCHANGED <<place, todo, copied, didWork, events, quitRequested, tasks, thread, access,
                 action>>

\* perform_accessible_action(): the action changes the tree, or finds no such widget;
\* a snapshot is published either way, and then the reply is sent.
PerformAction(performed) ==
  /\ place = "poll" /\ todo = <<>> /\ batch # <<>>
  /\ Head(batch)[1] = "action"
  /\ IF performed THEN Event ELSE UNCHANGED events
  /\ access' = IF performed
               THEN [access EXCEPT !.tree = @ + 1, !.announced = access.tree + 1]
               ELSE access
  /\ todo' = RefreshSnapshot \o << <<"answer", Head(batch)[2], performed>> >>
  /\ batch' = Tail(batch)
  /\ UNCHANGED <<place, copied, didWork, quitRequested, tasks, thread, pref, action>>

\* poll() returns; poll_clipboard_transfers() is next.
LeavePoll ==
  /\ place = "poll" /\ todo = <<>> /\ batch = <<>>
  /\ place' = "transfers"
  /\ UNCHANGED <<todo, copied, loopVars, events, quitRequested, thread, pref, access,
                 action>>

\* Mutant: the request is forgotten.
DueOnWork(elapsed) == didWork /\ (access.inUse \/ elapsed)

\* refresh_accessibility_if_due(): the request is taken, whether or not there is a
\* connection. Without a client, work alone publishes only every 500 ms.
Due(elapsed) == access.requested \/ (didWork /\ (access.inUse \/ elapsed))

RefreshIfDue(elapsed) ==
  /\ place = "transfers" /\ todo = <<>>
  /\ place' = "top"
  /\ access' = [access EXCEPT !.requested = FALSE]
  /\ todo' = IF Due(elapsed) /\ access.connected THEN RefreshSnapshot ELSE <<>>
  /\ UNCHANGED <<copied, loopVars, events, quitRequested, thread, pref, action>>

-----------------------------------------------------------------------------
(***************************************************************************)
(* What both worker threads do.                                             *)
(***************************************************************************)
At(kind, at) == thread[kind].at = at

Move(kind, at) == thread' = [thread EXCEPT ![kind].at = at]

\* Mutant: the pointers are left as they were.
EndDangling(kind) ==
  /\ At(kind, "leaving")
  /\ thread' = [thread EXCEPT ![kind].at = "ended", ![kind].alive = FALSE,
                              ![kind].inbox = <<>>]
  /\ access' = IF kind = "access" THEN [access EXCEPT !.connected = FALSE] ELSE access
  /\ UNCHANGED <<place, todo, copied, loopVars, events, quitRequested, pref, action>>

\* The pointers are made null under the lock, then the context and loop are freed;
\* nobody else can tell the two apart.
End(kind) ==
  /\ At(kind, "leaving")
  /\ thread' = [thread EXCEPT ![kind].at = "ended", ![kind].ptr = FALSE,
                              ![kind].alive = FALSE, ![kind].inbox = <<>>]
  /\ access' = IF kind = "access" THEN [access EXCEPT !.connected = FALSE] ELSE access
  /\ UNCHANGED <<place, todo, copied, loopVars, events, quitRequested, pref, action>>

\* The main loop runs what was invoked on its context, and stops at a quit; detach()
\* takes the objects from the bus.
QuitLoop(kind) ==
  /\ At(kind, "running")
  /\ thread[kind].inbox # <<>> /\ Head(thread[kind].inbox) = "quit"
  /\ thread' = [thread EXCEPT ![kind].at = "leaving", ![kind].inbox = Tail(@)]
  /\ access' = IF kind = "access" THEN [access EXCEPT !.registered = 0] ELSE access
  /\ UNCHANGED <<place, todo, copied, loopVars, events, quitRequested, pref, action>>

(***************************************************************************)
(* The accessibility thread. It publishes its pointers and tests the stop   *)
(* flag under one lock; there may be no accessibility bus.                  *)
(***************************************************************************)
\* Mutant: the stop flag is tested under a second lock.
PublishAccessSplit ==
  /\ \/ /\ At("access", "created")
        /\ thread' = [thread EXCEPT !["access"].ptr = TRUE, !["access"].at = "published"]
     \/ /\ At("access", "published")
        /\ Move("access", IF access.bus /\ ~thread["access"].stop
                          THEN "attaching" ELSE "leaving")
  /\ access' = [access EXCEPT !.connected = access.bus]
  /\ UNCHANGED <<place, todo, copied, loopVars, events, quitRequested, pref, action>>

\* Mutant: the stop flag is not tested.
PublishAccessUnheeding ==
  /\ At("access", "created")
  /\ thread' = [thread EXCEPT !["access"].ptr = TRUE,
       !["access"].at = IF access.bus THEN "attaching" ELSE "leaving"]
  /\ access' = [access EXCEPT !.connected = access.bus]
  /\ UNCHANGED <<place, todo, copied, loopVars, events, quitRequested, pref, action>>

PublishAccess ==
  /\ At("access", "created")
  /\ thread' = [thread EXCEPT !["access"].ptr = TRUE, !["access"].at =
       IF access.bus /\ ~thread["access"].stop THEN "attaching" ELSE "leaving"]
  /\ access' = [access EXCEPT !.connected = access.bus]
  /\ UNCHANGED <<place, todo, copied, loopVars, events, quitRequested, pref, action>>

\* sync(), when the thread attaches and whenever it is asked to: the tree is taken.
SyncTake ==
  /\ \/ At("access", "attaching") /\ Move("access", "syncing")
     \/ /\ At("access", "running")
        /\ thread["access"].inbox # <<>> /\ Head(thread["access"].inbox) = "sync"
        /\ thread' = [thread EXCEPT !["access"].at = "syncing", !["access"].inbox = Tail(@)]
  /\ access' = [access EXCEPT !.taken = access.published]
  /\ UNCHANGED <<place, todo, copied, loopVars, events, quitRequested, pref, action>>

\* Its objects are registered; then the queued events are taken and emitted.
SyncEmit ==
  /\ At("access", "syncing")
  /\ Move("access", "running")
  /\ access' = [access EXCEPT !.registered = access.taken, !.pending = {}]
  /\ UNCHANGED <<place, todo, copied, loopVars, events, quitRequested, pref, action>>

\* handle_method() and handle_get_property(): any call asks for a fresh tree.
Query ==
  /\ Serving
  /\ Event
  /\ access' = [access EXCEPT !.inUse = TRUE, !.requested = TRUE,
                              !.announced = access.tree]
  /\ UNCHANGED <<place, todo, copied, loopVars, quitRequested, thread, pref, action>>

\* DoAction and GrabFocus: the sink posts the action with its reply, or answers false
\* when the post fails.
AskAction(a, posted) ==
  /\ Serving
  /\ action[a] = "none"
  /\ Event
  /\ action' = [action EXCEPT ![a] = IF posted THEN "posted" ELSE "refused"]
  /\ tasks' = IF posted THEN Append(tasks, <<"action", a>>) ELSE tasks
  /\ access' = [access EXCEPT !.inUse = TRUE, !.requested = TRUE,
                              !.announced = access.tree]
  /\ UNCHANGED <<place, todo, copied, didWork, batch, quitRequested, thread, pref>>

(***************************************************************************)
(* The preferences thread. It publishes its pointers under one lock and     *)
(* tests the stop flag under another.                                       *)
(***************************************************************************)
PublishPrefs ==
  /\ At("prefs", "created")
  /\ thread' = [thread EXCEPT !["prefs"].ptr = TRUE, !["prefs"].at = "published"]
  /\ UNCHANGED <<place, todo, copied, loopVars, events, quitRequested, pref, access, action>>

TestStop ==
  /\ At("prefs", "published")
  /\ Move("prefs", IF thread["prefs"].stop THEN "leaving" ELSE "running")
  /\ UNCHANGED <<place, todo, copied, loopVars, events, quitRequested, pref, access, action>>

\* emit_linux_system_preferences_change(): the observer is copied under the lock, then
\* called with the settings as they are now; it posts them to the UI thread.
HandleChange ==
  /\ At("prefs", "running")
  /\ pref.changed > 0
  /\ IF pref.observer
     THEN /\ Move("prefs", "emitting")
          /\ pref' = [pref EXCEPT !.changed = @ - 1, !.carried = <<pref.sys>>]
     ELSE /\ pref' = [pref EXCEPT !.changed = @ - 1]
          /\ UNCHANGED thread
  /\ UNCHANGED <<place, todo, copied, loopVars, events, quitRequested, access, action>>

\* Mutant: what is posted counts for the notifications that came meanwhile.
PostChangeClearing ==
  /\ At("prefs", "emitting")
  /\ Move("prefs", "running")
  /\ tasks' = Append(tasks, <<"prefs", Head(pref.carried)>>)
  /\ pref' = [pref EXCEPT !.carried = <<>>, !.changed = 0]
  /\ UNCHANGED <<place, todo, copied, didWork, batch, events, quitRequested, access, action>>

PostChange ==
  /\ At("prefs", "emitting")
  /\ Move("prefs", "running")
  /\ tasks' = Append(tasks, <<"prefs", Head(pref.carried)>>)
  /\ pref' = [pref EXCEPT !.carried = <<>>]
  /\ UNCHANGED <<place, todo, copied, didWork, batch, events, quitRequested, access, action>>

\* The desktop changes a setting and notifies whoever is subscribed; a thread that is
\* being stopped has no observer to pass it on to.
ChangeSettings ==
  /\ Event
  /\ place # "gone"
  /\ pref' = [pref EXCEPT !.sys = @ + 1, !.changed = IF Subscribed THEN @ + 1 ELSE @,
                          !.missed = ~Subscribed \/ thread["prefs"].stop]
  /\ UNCHANGED <<place, todo, copied, loopVars, quitRequested, thread, access,
                 action>>

-----------------------------------------------------------------------------
UserStep ==
  \/ ChangeWindows \/ SetInterval \/ RefreshPreferences \/ Run \/ Destroy
  \/ \E announced \in BOOLEAN : EditWidgets(announced)
  \/ \E enabled \in BOOLEAN : SetObservation(enabled)

CallStep ==
  \/ StopLock \/ InvokeQuit \/ InvokeSync \/ Join \/ StartObservation \/ Publish
  \/ Answer \/ Dispose

LoopStep ==
  \/ Iterate \/ EnterPoll \/ ApplyPreferences \/ LeavePoll
  \/ \E performed \in BOOLEAN : PerformAction(performed)
  \/ \E elapsed \in BOOLEAN : RefreshIfDue(elapsed)

AccessStep ==
  \/ PublishAccess \/ SyncTake \/ SyncEmit \/ QuitLoop("access") \/ End("access")

PrefsStep ==
  \/ PublishPrefs \/ TestStop \/ HandleChange \/ PostChange
  \/ QuitLoop("prefs") \/ End("prefs")

ClientStep ==
  \/ Query
  \/ \E a \in Actions, posted \in BOOLEAN : AskAction(a, posted)

\* Nothing is left to do once the application is destroyed.
Gone == place = "gone" /\ UNCHANGED vars

Next ==
  \/ UserStep \/ CallStep \/ LoopStep \/ Quit
  \/ AccessStep \/ PrefsStep \/ ClientStep \/ ChangeSettings
  \/ Gone

\* Each thread goes on with what it is doing: user code returns, the loop turns (its
\* wait is bounded), and a main loop handles what is pending on its context. Clients,
\* the desktop and the application's decisions owe nothing.
Fairness ==
  /\ WF_vars(CallStep)
  /\ WF_vars(LoopStep)
  /\ WF_vars(AccessStep)
  /\ WF_vars(PrefsStep)
  /\ WF_vars(QuitLoop("prefs"))

Spec == Init /\ [][Next]_vars /\ Fairness

-----------------------------------------------------------------------------
BackendSteps ==
  {"stop", "quit", "join"} \X Kinds
    \cup {<<"start", "prefs">>, <<"publish">>, <<"sync">>, <<"dispose">>}
    \cup {"answer"} \X Actions \X BOOLEAN

Tasks == {"prefs"} \X Settings \cup {"action"} \X Actions

Stages == {"created", "published", "running", "emitting", "attaching", "syncing",
           "leaving", "ended"}

\* The shape of the state; a thread whose pointers are published has not freed them.
TypeOK ==
  /\ place \in {"before", "top", "dispatch", "poll", "transfers", "after", "closing", "gone"}
  /\ todo \in Seq(BackendSteps)
  /\ {copied, didWork, quitRequested} \subseteq BOOLEAN
  /\ batch \in Seq(Tasks) /\ tasks \in Seq(Tasks)
  /\ events \in 0..MaxEvents
  /\ thread \in [Kinds -> [at : Stages, stop : BOOLEAN, ptr : BOOLEAN, alive : BOOLEAN,
                            inbox : Seq({"quit", "sync"})]]
  /\ \A kind \in Kinds : thread[kind].ptr => thread[kind].alive
  /\ pref \in [sys : Settings, applied : Settings, observing : BOOLEAN,
               observer : BOOLEAN, changed : Settings, carried : Seq(Settings),
               missed : BOOLEAN]
  /\ access \in [tree : Versions, published : Versions, announced : Versions,
                 pending : SUBSET Versions, taken : 0..(MaxEvents + 1), registered : 0..(MaxEvents + 1),
                 connected : BOOLEAN, requested : BOOLEAN, inUse : BOOLEAN, bus : BOOLEAN]
  /\ action \in [Actions -> {"none", "posted", "performed", "refused"}]

\* The UI thread uses the accessibility context after it let go of the lock. Where
\* there is an accessibility bus, the context is not yet freed then, whatever the
\* thread does in between: windows come and go, or the application shuts down.
ServedContextIsAlive ==
  /\ access.bus
  /\ copied
  /\ Doing("sync") \/ (Doing("quit") /\ Head(todo)[2] = "access")
  => thread["access"].alive

\* A client that asked for an action is answered, at the latest when the application
\* goes with the task still queued: no reply is forgotten.
ActionsAreAnswered ==
  place = "gone" => \A a \in Actions : action[a] # "posted"

\* Every call of the backend returns: stopping a thread at any moment of its start,
\* from a task or from the destructor, does not wait for it for ever.
CallsReturn == (todo # <<>>) ~> (todo = <<>>)

\* While observation is on and the loop runs, a change of the settings that reached the
\* observing thread ends in the application's preferences, also when they were
\* refreshed by hand in between or older values are still on their way.
PreferencesFollow ==
  (InLoop /\ pref.observing /\ ~pref.missed /\ pref.applied # pref.sys)
    ~> (pref.applied = pref.sys \/ pref.missed \/ ~pref.observing \/ ~InLoop)

Stale == access.registered < access.announced \/ access.pending # {}

\* Once a client has used the accessible tree, what the backend asked to have published,
\* what a task, a timer or a client's action changed, and every change before those,
\* reaches the bus while the loop runs, with its events: no refresh is lost between the
\* two threads. A change that announces itself in none of these ways waits for the next
\* that does.
ClientsCatchUp ==
  (access.inUse /\ InLoop /\ Stale) ~> (~Stale \/ ~InLoop)
=============================================================================
