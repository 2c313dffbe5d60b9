------------------------------ MODULE EventLoop ------------------------------
(***************************************************************************)
(* nk::EventLoop (src/runtime/event_loop.cpp): the loop thread, which runs  *)
(* poll() and run() and the callbacks they start, and worker threads that   *)
(* post tasks.                                                              *)
(*                                                                          *)
(* A callback is user code: between its start and its return the loop       *)
(* thread may call any operation of the loop, a nested poll() included.     *)
(* The polls in progress are frames 1..depth, the innermost last, and       *)
(* each function below with domain Depths holds one local variable of       *)
(* poll() for every frame.                                                  *)
(*                                                                          *)
(* Handles are handed out in increasing order and entries are appended, so  *)
(* the order of the vectors of timers and idles is the order of handles:    *)
(* both are functions from handle to entry, walked by increasing handle.    *)
(***************************************************************************)
EXTENDS Integers, Sequences, FiniteSets

CONSTANTS
  Workers,      \* threads other than the loop's
  Quitters,     \* the threads that may call quit(): workers or LoopThread
  LoopThread,
  MaxTasks,     \* bound on the tasks posted
  MaxHandles,   \* bound on the timers and idles created
  MaxDepth,     \* bound on nested polls
  MaxClock,     \* bound on the clock
  Delays,       \* delays given to set_timeout
  Intervals     \* intervals given to set_interval

ASSUME BoundAssumption ==
  /\ MaxTasks \in Nat
  /\ MaxHandles \in Nat
  /\ MaxDepth \in Nat \ {0}
  /\ MaxClock \in Nat
  /\ Delays \subseteq Nat
  /\ Intervals \subseteq Nat

ASSUME ThreadAssumption ==
  /\ LoopThread \notin Workers
  /\ Quitters \subseteq Workers \cup {LoopThread}

Tasks   == 1..MaxTasks
Handles == 1..MaxHandles
Depths  == 1..MaxDepth

Never == -1                        \* time_point::max(): a parked fire_at
Times == Nat \cup {Never}

NoCall == [kind |-> "none", id |-> 0]
Calls  == {NoCall} \cup [kind : {"task"}, id : Tasks]
                   \cup [kind : {"timer", "idle"}, id : Handles]

Timers == [fireAt : Times, interval : Nat, cancelled : BOOLEAN]

VARIABLES
  \* TaskQueue, shared with the posting threads and guarded by its mutex
  queue,        \* posted_tasks
  accepting,    \* accepting_tasks
  \* EventLoop::Impl
  running,
  timers,       \* handle -> entry, for the entries not yet purged
  idles,        \* handle -> cancelled, for the idles not yet started
  nextHandle,
  \* the frames of poll() and the control point of run()
  depth,        \* polls in progress
  phase,        \* what the frame is walking: "tasks", "timers" or "idles"
  pollNow,      \* now
  batch,        \* tasks
  due,          \* due, as the handles still to visit
  moved,        \* idles, as handle -> cancelled
  didWork,      \* did_work
  call,         \* the callback the frame is inside of
  runPc,        \* run(): "out", "test", "poll", "recheck", "lock" or "wait"
  wakeAt,       \* next_fire of the wait
  notified,     \* the condition variable was signalled since the wait began
  \* environment
  clock,        \* steady_clock
  posting,      \* workers between the unlock and the notify of post()/quit()
  \* history
  nextTask,     \* the next task number
  ran,          \* tasks started
  dropped,      \* tasks discarded by the destructor
  cancelReq,    \* live handles given to cancel()
  repeating,    \* handles made by set_interval
  firedNow,     \* timer -> now of the poll that last fired it
  quitSeen      \* quit() was called since run() last started

frames   == <<depth, phase, pollNow, batch, due, moved, didWork, call>>
runVars  == <<runPc, wakeAt, notified>>
loopVars == <<queue, accepting, running, timers, idles, nextHandle>>
history  == <<nextTask, ran, dropped, cancelReq, repeating, firedNow, quitSeen>>
vars     == <<loopVars, frames, runVars, clock, posting, history>>

-----------------------------------------------------------------------------
Smallest(S) == CHOOSE s \in S : \A other \in S : s <= other

Without(f, k) == [x \in DOMAIN f \ {k} |-> f[x]]

\* Threads other than the loop's that are not inside post() or quit().
Free(w) == w \notin posting

\* The loop thread runs user code: outside run() and poll(), or in a callback.
InUserCode ==
  \/ depth = 0 /\ runPc = "out"
  \/ depth > 0 /\ call[depth] # NoCall

\* poll() has control: it is inside the innermost frame and in no callback.
Polling(p) == depth > 0 /\ call[depth] = NoCall /\ phase[depth] = p

\* Mutant: an entry found again is taken for live.
LiveIfFound(h) == h \in DOMAIN timers

Live(h) == h \in DOMAIN timers /\ ~timers[h].cancelled

\* Mutant: a parked interval, whose callback runs, is due as well.
DueIfParked(now) ==
  {h \in DOMAIN timers : ~timers[h].cancelled /\ timers[h].fireAt <= now}

\* Mutant: off by one.
DueOneEarly(now) ==
  {h \in DOMAIN timers : /\ ~timers[h].cancelled
                         /\ timers[h].fireAt # Never
                         /\ timers[h].fireAt <= now + 1}

DueTimers(now) ==
  {h \in DOMAIN timers : /\ ~timers[h].cancelled
                         /\ timers[h].fireAt # Never
                         /\ timers[h].fireAt <= now}

-----------------------------------------------------------------------------
Init ==
  /\ queue = <<>>
  /\ accepting = TRUE
  /\ running = FALSE
  /\ timers = [h \in {} |-> 0]
  /\ idles = [h \in {} |-> FALSE]
  /\ nextHandle = 1
  /\ depth = 0
  /\ phase = [d \in Depths |-> "tasks"]
  /\ pollNow = [d \in Depths |-> 0]
  /\ batch = [d \in Depths |-> <<>>]
  /\ due = [d \in Depths |-> {}]
  /\ moved = [d \in Depths |-> [h \in {} |-> FALSE]]
  /\ didWork = [d \in Depths |-> FALSE]
  /\ call = [d \in Depths |-> NoCall]
  /\ runPc = "out"
  /\ wakeAt = Never
  /\ notified = FALSE
  /\ clock = 0
  /\ posting = {}
  /\ nextTask = 1
  /\ ran = {}
  /\ dropped = {}
  /\ cancelReq = {}
  /\ repeating = {}
  /\ firedNow = [h \in Handles |-> Never]
  /\ quitSeen = FALSE

-----------------------------------------------------------------------------
(* Posting                                                                  *)

\* Mutant: the newest task goes first.
PushFront ==
  /\ nextTask <= MaxTasks
  /\ queue' = <<nextTask>> \o queue
  /\ nextTask' = nextTask + 1

Push ==
  /\ nextTask <= MaxTasks
  /\ queue' = Append(queue, nextTask)
  /\ nextTask' = nextTask + 1

\* post() from user code on the loop thread; nobody waits, so the notify and
\* the wake handler after the unlock have no effect of their own.
Post ==
  /\ InUserCode
  /\ accepting
  /\ Push
  /\ UNCHANGED <<accepting, running, timers, idles, nextHandle, frames, runVars,
                 clock, posting, ran, dropped, cancelReq, repeating, firedNow,
                 quitSeen>>

\* post() from a worker: the push under the lock; the notify comes after it.
WorkerPost(w) ==
  /\ Free(w)
  /\ accepting
  /\ Push
  /\ posting' = posting \cup {w}
  /\ UNCHANGED <<accepting, running, timers, idles, nextHandle, frames, runVars,
                 clock, ran, dropped, cancelReq, repeating, firedNow, quitSeen>>

\* The handle of task_poster(): it pushes and notifies under one lock, and is
\* a no-op once the queue stopped accepting.
PosterPost(w) ==
  /\ Free(w)
  /\ accepting
  /\ Push
  /\ notified' = (runPc = "wait" \/ notified)
  /\ UNCHANGED <<accepting, running, timers, idles, nextHandle, frames, runPc,
                 wakeAt, clock, posting, ran, dropped, cancelReq, repeating,
                 firedNow, quitSeen>>

\* notify_all() of post() and quit(), after the unlock.
Notify(w) ==
  /\ w \in posting
  /\ posting' = posting \ {w}
  /\ notified' = (runPc = "wait" \/ notified)
  /\ UNCHANGED <<loopVars, frames, runPc, wakeAt, clock, history>>

\* quit() writes the flag without the mutex, then notifies.
Quit ==
  /\ LoopThread \in Quitters
  /\ InUserCode
  /\ accepting
  /\ running' = FALSE
  /\ quitSeen' = TRUE
  /\ UNCHANGED <<queue, accepting, timers, idles, nextHandle, frames, runVars,
                 clock, posting, nextTask, ran, dropped, cancelReq, repeating,
                 firedNow>>

WorkerQuit(w) ==
  /\ w \in Quitters
  /\ Free(w)
  /\ accepting
  /\ running' = FALSE
  /\ quitSeen' = TRUE
  /\ posting' = posting \cup {w}
  /\ UNCHANGED <<queue, accepting, timers, idles, nextHandle, frames, runVars,
                 clock, nextTask, ran, dropped, cancelReq, repeating, firedNow>>

-----------------------------------------------------------------------------
(* Timers and idles, from user code on the loop thread                      *)

\* Mutant: the counter is not advanced.
NewHandleReused ==
  /\ InUserCode
  /\ accepting
  /\ nextHandle <= MaxHandles
  /\ nextHandle' = nextHandle

NewHandle ==
  /\ InUserCode
  /\ accepting
  /\ nextHandle <= MaxHandles
  /\ nextHandle' = nextHandle + 1

AddTimer(delay, interval) ==
  timers' = [h \in DOMAIN timers \cup {nextHandle} |->
               IF h = nextHandle
               THEN [fireAt |-> clock + delay, interval |-> interval,
                     cancelled |-> FALSE]
               ELSE timers[h]]

SetTimeout(delay) ==
  /\ NewHandle
  /\ AddTimer(delay, 0)
  /\ UNCHANGED <<queue, accepting, running, idles, frames, runVars, clock,
                 posting, history>>

SetInterval(interval) ==
  /\ NewHandle
  /\ AddTimer(interval, interval)
  /\ repeating' = repeating \cup {nextHandle}
  /\ UNCHANGED <<queue, accepting, running, idles, frames, runVars, clock,
                 posting, nextTask, ran, dropped, cancelReq, firedNow, quitSeen>>

AddIdle ==
  /\ NewHandle
  /\ idles' = [h \in DOMAIN idles \cup {nextHandle} |->
                 IF h = nextHandle THEN FALSE ELSE idles[h]]
  /\ UNCHANGED <<queue, accepting, running, timers, frames, runVars, clock,
                 posting, history>>

\* cancel() marks the entries it finds in the two vectors, and only those.
Cancel(h) ==
  /\ InUserCode
  /\ accepting
  /\ h < nextHandle
  /\ timers' = [k \in DOMAIN timers |->
                  IF k = h THEN [timers[k] EXCEPT !.cancelled = TRUE]
                  ELSE timers[k]]
  /\ idles' = [k \in DOMAIN idles |-> idles[k] \/ k = h]
  /\ cancelReq' = cancelReq \cup {h}
  /\ UNCHANGED <<queue, accepting, running, nextHandle, frames, runVars, clock,
                 posting, nextTask, ran, dropped, repeating, firedNow, quitSeen>>

-----------------------------------------------------------------------------
(* poll()                                                                   *)

\* Mutant: the tasks are copied out, not swapped out.
EnterPollCopying ==
  /\ depth < MaxDepth
  /\ depth' = depth + 1
  /\ pollNow' = [pollNow EXCEPT ![depth + 1] = clock]
  /\ batch' = [batch EXCEPT ![depth + 1] = queue]
  /\ UNCHANGED <<queue, phase, due, moved, didWork, call>>

\* The frame is entered: now is read, then the posted tasks are swapped out.
EnterPoll ==
  /\ depth < MaxDepth
  /\ depth' = depth + 1
  /\ pollNow' = [pollNow EXCEPT ![depth + 1] = clock]
  /\ batch' = [batch EXCEPT ![depth + 1] = queue]
  /\ queue' = <<>>
  /\ UNCHANGED <<phase, due, moved, didWork, call>>

\* poll() called by user code: a test, a modal wait, or a nested call.
Poll ==
  /\ InUserCode
  /\ accepting
  /\ EnterPoll
  /\ UNCHANGED <<accepting, running, timers, idles, nextHandle, runVars, clock,
                 posting, history>>

RunTask ==
  /\ Polling("tasks")
  /\ batch[depth] # <<>>
  /\ call' = [call EXCEPT ![depth] = [kind |-> "task", id |-> Head(batch[depth])]]
  /\ batch' = [batch EXCEPT ![depth] = Tail(@)]
  /\ ran' = ran \cup {Head(batch[depth])}
  /\ UNCHANGED <<loopVars, depth, phase, pollNow, due, moved, didWork, runVars,
                 clock, posting, nextTask, dropped, cancelReq, repeating,
                 firedNow, quitSeen>>

\* The due timers are copied out, with the `now` read when poll() began.
CollectDue ==
  /\ Polling("tasks")
  /\ batch[depth] = <<>>
  /\ phase' = [phase EXCEPT ![depth] = "timers"]
  /\ due' = [due EXCEPT ![depth] = DueTimers(pollNow[depth])]
  /\ UNCHANGED <<loopVars, depth, pollNow, batch, moved, didWork, call, runVars,
                 clock, posting, history>>

\* The next entry of the snapshot was purged or cancelled meanwhile.
SkipTimer ==
  /\ Polling("timers")
  /\ due[depth] # {}
  /\ ~Live(Smallest(due[depth]))
  /\ due' = [due EXCEPT ![depth] = @ \ {Smallest(@)}]
  /\ UNCHANGED <<loopVars, depth, phase, pollNow, batch, moved, didWork, call,
                 runVars, clock, posting, history>>

\* Mutant: only intervals are fenced.
FencedIntervalsOnly(entry) ==
  IF entry.interval = 0 THEN entry ELSE [entry EXCEPT !.fireAt = Never]

\* A one-shot is consumed, an interval parked.
Fenced(entry) ==
  [entry EXCEPT !.fireAt = Never, !.cancelled = (entry.interval = 0)]

\* The entry is fenced before its callback starts.
FireTimer ==
  /\ Polling("timers")
  /\ due[depth] # {}
  /\ LET h == Smallest(due[depth]) IN
       /\ Live(h)
       /\ timers' = [timers EXCEPT ![h] = Fenced(@)]
       /\ due' = [due EXCEPT ![depth] = @ \ {h}]
       /\ call' = [call EXCEPT ![depth] = [kind |-> "timer", id |-> h]]
       /\ firedNow' = [firedNow EXCEPT ![h] = pollNow[depth]]
  /\ UNCHANGED <<queue, accepting, running, idles, nextHandle, depth, phase,
                 pollNow, batch, moved, didWork, runVars, clock, posting,
                 nextTask, ran, dropped, cancelReq, repeating, quitSeen>>

\* A task or an idle callback returns.
Return ==
  /\ depth > 0
  /\ call[depth].kind \in {"task", "idle"}
  /\ call' = [call EXCEPT ![depth] = NoCall]
  /\ didWork' = [didWork EXCEPT ![depth] = TRUE]
  /\ UNCHANGED <<loopVars, depth, phase, pollNow, batch, due, moved, runVars,
                 clock, posting, history>>

\* A timer callback returns: its entry is looked up again and an interval that
\* nobody cancelled is re-armed from the poll's `now`.
ReturnTimer ==
  /\ depth > 0
  /\ call[depth].kind = "timer"
  /\ LET h == call[depth].id IN
       timers' = [k \in DOMAIN timers |->
                    IF k = h /\ Live(h) /\ timers[h].interval > 0
                    THEN [timers[h] EXCEPT
                            !.fireAt = pollNow[depth] + timers[h].interval]
                    ELSE timers[k]]
  /\ call' = [call EXCEPT ![depth] = NoCall]
  /\ didWork' = [didWork EXCEPT ![depth] = TRUE]
  /\ UNCHANGED <<queue, accepting, running, idles, nextHandle, depth, phase,
                 pollNow, batch, due, moved, runVars, clock, posting, history>>

\* Mutant: the purge takes a parked interval for a dead entry.
PurgedParked ==
  [h \in {k \in DOMAIN timers : ~timers[k].cancelled /\ timers[k].fireAt # Never}
     |-> timers[h]]

Purged == [h \in {k \in DOMAIN timers : ~timers[k].cancelled} |-> timers[h]]

\* poll() returns to its caller, run() or user code, and its locals die.
LeavePoll ==
  /\ depth' = depth - 1
  /\ phase' = [phase EXCEPT ![depth] = "tasks"]
  /\ pollNow' = [pollNow EXCEPT ![depth] = 0]
  /\ didWork' = [didWork EXCEPT ![depth] = FALSE]
  /\ runPc' = IF depth = 1 /\ runPc = "poll" THEN "recheck" ELSE runPc

\* Cancelled timers are purged. A poll that did work returns; one that did
\* not moves the idles out to walk them.
EndTimers ==
  /\ Polling("timers")
  /\ due[depth] = {}
  /\ timers' = Purged
  /\ IF didWork[depth]
     THEN /\ LeavePoll
          /\ UNCHANGED <<idles, moved>>
     ELSE /\ phase' = [phase EXCEPT ![depth] = "idles"]
          /\ moved' = [moved EXCEPT ![depth] = idles]
          /\ idles' = [h \in {} |-> FALSE]
          /\ UNCHANGED <<depth, pollNow, didWork, runPc>>
  /\ UNCHANGED <<queue, accepting, running, nextHandle, batch, due, call,
                 wakeAt, notified, clock, posting, history>>

SkipIdle ==
  /\ Polling("idles")
  /\ DOMAIN moved[depth] # {}
  /\ moved[depth][Smallest(DOMAIN moved[depth])]
  /\ moved' = [moved EXCEPT ![depth] = Without(@, Smallest(DOMAIN @))]
  /\ UNCHANGED <<loopVars, depth, phase, pollNow, batch, due, didWork, call,
                 runVars, clock, posting, history>>

RunIdle ==
  /\ Polling("idles")
  /\ DOMAIN moved[depth] # {}
  /\ LET h == Smallest(DOMAIN moved[depth]) IN
       /\ ~moved[depth][h]
       /\ moved' = [moved EXCEPT ![depth] = Without(@, h)]
       /\ call' = [call EXCEPT ![depth] = [kind |-> "idle", id |-> h]]
  /\ UNCHANGED <<loopVars, depth, phase, pollNow, batch, due, didWork, runVars,
                 clock, posting, history>>

EndIdles ==
  /\ Polling("idles")
  /\ DOMAIN moved[depth] = {}
  /\ LeavePoll
  /\ UNCHANGED <<loopVars, batch, due, moved, call, wakeAt, notified, clock,
                 posting, history>>

-----------------------------------------------------------------------------
(* run()                                                                    *)

RunBegin ==
  /\ depth = 0 /\ runPc = "out"
  /\ accepting
  /\ running' = TRUE
  /\ runPc' = "test"
  /\ quitSeen' = FALSE
  /\ UNCHANGED <<queue, accepting, timers, idles, nextHandle, frames, wakeAt,
                 notified, clock, posting, nextTask, ran, dropped, cancelReq,
                 repeating, firedNow>>

\* while (running) poll();
RunPoll ==
  /\ runPc = "test" /\ running
  /\ EnterPoll
  /\ runPc' = "poll"
  /\ UNCHANGED <<accepting, running, timers, idles, nextHandle, wakeAt, notified,
                 clock, posting, history>>

\* Mutant: running is not read again.
RunRecheckUnread ==
  /\ runPc = "recheck"
  /\ runPc' = "lock"
  /\ UNCHANGED <<loopVars, frames, wakeAt, notified, clock, posting, history>>

\* running is read again, before the lock is taken.
RunRecheck ==
  /\ runPc = "recheck" /\ running
  /\ runPc' = "lock"
  /\ UNCHANGED <<loopVars, frames, wakeAt, notified, clock, posting, history>>

RunReturn ==
  /\ runPc \in {"test", "recheck"} /\ ~running
  /\ runPc' = "out"
  /\ UNCHANGED <<loopVars, frames, wakeAt, notified, clock, posting, history>>

\* Mutant: the wait is for the first entry of the vector.
NextFireFirst ==
  LET armed == {h \in DOMAIN timers : ~timers[h].cancelled /\ timers[h].fireAt # Never}
  IN  IF armed = {} THEN Never ELSE timers[Smallest(armed)].fireAt

NextFire ==
  LET fires == {timers[h].fireAt : h \in {k \in DOMAIN timers :
                  ~timers[k].cancelled /\ timers[k].fireAt # Never}}
  IN  IF fires = {} THEN Never ELSE Smallest(fires)

\* Mutant: a waiter woken for a task sleeps again.
HasWorkClosed == ~accepting

HasWork == queue # <<>> \/ ~accepting

\* Mutant: the queue is not looked at before the wait.
RunLockUnlooked ==
  /\ runPc = "lock"
  /\ runPc' = "wait" /\ wakeAt' = NextFire /\ notified' = FALSE
  /\ UNCHANGED <<loopVars, frames, clock, posting, history>>

\* Under the lock: go round again if something was posted, else wait until
\* the next timer or, with none, until signalled.
RunLock ==
  /\ runPc = "lock"
  /\ IF queue # <<>>
     THEN runPc' = "test" /\ UNCHANGED <<wakeAt, notified>>
     ELSE runPc' = "wait" /\ wakeAt' = NextFire /\ notified' = FALSE
  /\ UNCHANGED <<loopVars, frames, clock, posting, history>>

TimedOut == wakeAt # Never /\ wakeAt <= clock

\* The waiter leaves when the predicate holds or the time has come.
WaitDone ==
  /\ runPc = "wait"
  /\ (notified /\ HasWork) \/ TimedOut
  /\ runPc' = "test"
  /\ wakeAt' = Never
  /\ notified' = FALSE
  /\ UNCHANGED <<loopVars, frames, clock, posting, history>>

\* Signalled before its time with the predicate false: it sleeps again.
WaitAgain ==
  /\ runPc = "wait"
  /\ notified /\ ~HasWork /\ ~TimedOut
  /\ notified' = FALSE
  /\ UNCHANGED <<loopVars, frames, runPc, wakeAt, clock, posting, history>>

\* Condition variables may wake by themselves.
SpuriousWake ==
  /\ runPc = "wait" /\ ~notified
  /\ notified' = TRUE
  /\ UNCHANGED <<loopVars, frames, runPc, wakeAt, clock, posting, history>>

-----------------------------------------------------------------------------
\* ~EventLoop, on the loop thread outside run() and poll(). A worker that
\* still posts does so through a task_poster handle.
Destroy ==
  /\ depth = 0 /\ runPc = "out"
  /\ accepting
  /\ posting = {}
  /\ accepting' = FALSE
  /\ dropped' = {queue[i] : i \in DOMAIN queue}
  /\ queue' = <<>>
  /\ UNCHANGED <<running, timers, idles, nextHandle, frames, runVars, clock,
                 posting, nextTask, ran, cancelReq, repeating, firedNow, quitSeen>>

Tick ==
  /\ clock < MaxClock
  /\ clock' = clock + 1
  /\ UNCHANGED <<loopVars, frames, runVars, posting, history>>

-----------------------------------------------------------------------------
UserStep ==
  \/ Post \/ AddIdle \/ Poll \/ Quit \/ RunBegin \/ Destroy
  \/ \E delay \in Delays : SetTimeout(delay)
  \/ \E interval \in Intervals : SetInterval(interval)
  \/ \E h \in Handles : Cancel(h)

PollStep ==
  \/ RunTask \/ CollectDue \/ SkipTimer \/ FireTimer \/ Return \/ ReturnTimer
  \/ EndTimers \/ SkipIdle \/ RunIdle \/ EndIdles

RunStep ==
  RunPoll \/ RunRecheck \/ RunReturn \/ RunLock \/ WaitDone \/ WaitAgain

WorkerStep(w) ==
  WorkerPost(w) \/ PosterPost(w) \/ WorkerQuit(w) \/ Notify(w)

Next ==
  \/ UserStep
  \/ PollStep
  \/ RunStep
  \/ SpuriousWake
  \/ \E w \in Workers : WorkerStep(w)
  \/ Tick

Spec == Init /\ [][Next]_vars

\* The loop thread is scheduled, every callback returns (even one that keeps
\* calling poll()), notifications are made and time passes. Nothing obliges
\* user code to call anything.
Fairness ==
  /\ WF_vars(PollStep)
  /\ \A d \in Depths : SF_vars(depth = d /\ (Return \/ ReturnTimer))
  /\ WF_vars(RunStep)
  /\ WF_vars(Tick)
  /\ \A w \in Workers : WF_vars(Notify(w))

FairSpec == Spec /\ Fairness

-----------------------------------------------------------------------------
(* Properties                                                               *)

QueueType ==
  /\ queue \in Seq(Tasks)
  /\ nextTask \in 1..(MaxTasks + 1)
  /\ ran \subseteq Tasks
  /\ dropped \subseteq Tasks

Issued == 1..(nextHandle - 1)      \* the handles given out so far

TimerType ==
  /\ nextHandle \in 1..(MaxHandles + 1)
  /\ DOMAIN timers \subseteq Issued
  /\ \A h \in DOMAIN timers : timers[h] \in Timers
  /\ DOMAIN idles \subseteq Issued
  /\ \A d \in Depths : DOMAIN moved[d] \subseteq Issued
  /\ cancelReq \subseteq Issued
  /\ repeating \subseteq Issued
  /\ firedNow \in [Handles -> Times]

FrameType ==
  /\ depth \in 0..MaxDepth
  /\ phase \in [Depths -> {"tasks", "timers", "idles"}]
  /\ pollNow \in [Depths -> Nat]
  /\ batch \in [Depths -> Seq(Tasks)]
  /\ due \in [Depths -> SUBSET Handles]
  /\ DOMAIN moved = Depths
  /\ call \in [Depths -> Calls]

RunType ==
  /\ runPc \in {"out", "test", "poll", "recheck", "lock", "wait"}
  /\ wakeAt \in Times
  /\ clock \in 0..MaxClock
  /\ posting \subseteq Workers

FlagType ==
  /\ accepting \in BOOLEAN
  /\ running \in BOOLEAN
  /\ notified \in BOOLEAN
  /\ quitSeen \in BOOLEAN
  /\ didWork \in [Depths -> BOOLEAN]
  /\ \A h \in DOMAIN idles : idles[h] \in BOOLEAN
  /\ \A d \in Depths : \A h \in DOMAIN moved[d] : moved[d][h] \in BOOLEAN

\* Every variable keeps its type; handles and tasks are those handed out.
TypeOK == QueueType /\ TimerType /\ FrameType /\ RunType /\ FlagType

\* The tasks accepted so far are numbered below nextTask.
Executor == INSTANCE TaskExecutor WITH
  Tasks    <- Tasks,
  open     <- accepting,
  accepted <- 1..(nextTask - 1),
  executed <- ran,
  dropped  <- dropped

\* post() and task_poster(): whatever the interleaving of posting threads,
\* nested polls, quit() and destruction, an accepted task is executed at most
\* once and is dropped only by the destructor.
ImplementsExecutor == Executor!Spec

Holds(seq, t) == \E i \in DOMAIN seq : seq[i] = t

\* poll() runs tasks in the order they were posted. A task overtakes an older
\* one only from a nested poll(), while the older one waits in the batch an
\* outer poll() has swapped out.
OvertakenOnlyByNestedPoll ==
  [][\A t \in ran' \ ran : \A s \in 1..(t - 1) :
       s \in ran \/ \E d \in 1..(depth - 1) : Holds(batch[d], s)]_vars

\* run() never sleeps through a task: when one is queued the waiter has been
\* signalled, or the thread that posted it has yet to signal.
NoLostWakeup ==
  runPc = "wait" /\ queue # <<>> => notified \/ posting # {}

Starts(kind, h) ==
  \E d \in Depths : /\ call[d] = NoCall
                    /\ call'[d] = [kind |-> kind, id |-> h]

\* cancel() of a timer is final: not even a poll() that already copied the
\* timer into its snapshot starts the callback afterwards.
CancelledTimerNeverFires ==
  [][\A h \in Handles : Starts("timer", h) => h \notin cancelReq]_vars

\* The same of an idle callback, as cancel() is documented.
CancelledIdleNeverRuns ==
  [][\A h \in Handles : Starts("idle", h) => h \notin cancelReq]_vars

\* A one-shot timer fires once, also when the polls nested in its callback, or
\* in that of another timer of the same snapshot, find it due.
OneShotFiresOnce ==
  [][\A h \in Handles \ repeating : Starts("timer", h) => firedNow[h] = Never]_vars

\* Polls nested in a callback never start that callback again.
NotReentrant ==
  \A d \in 1..depth : \A e \in 1..(d - 1) :
    call[d] # NoCall => call[e] # call[d]

\* An interval nobody cancelled stays scheduled, and is parked only while its
\* own callback is on the stack: no order of nested polls, cancellations and
\* purges leaves it parked for good.
IntervalStaysScheduled ==
  \A h \in repeating \ cancelReq :
    /\ Live(h)
    /\ timers[h].fireAt = Never =>
         \E d \in 1..depth : call[d] = [kind |-> "timer", id |-> h]

\* A one-shot timer fires at its fire_at or later, at any depth of nested polls, each
\* of which reads a now of its own and walks a snapshot of its own.
OneShotNeverEarly ==
  [][\A h \in Handles \ repeating : Starts("timer", h) => timers[h].fireAt <= clock]_vars

\* The same of every timer.
NeverEarly ==
  [][\A h \in Handles : Starts("timer", h) => timers[h].fireAt <= clock]_vars

Inside == runPc # "out"

\* While run() is in progress an accepted task is eventually started.
PostedTaskRuns ==
  \A t \in Tasks : (t < nextTask /\ Inside) ~> (t \in ran \/ ~Inside)

\* While run() is in progress a timer whose time has come is fenced for firing
\* or cancelled: the wait never outlasts the earliest fire_at of several timers, in
\* whatever order nested polls have fired, purged and re-armed them.
DueTimerFires ==
  \A h \in Handles :
    (h \in DueTimers(clock) /\ Inside) ~> (h \notin DueTimers(clock) \/ ~Inside)

\* run() returns once quit() was called.
QuitStopsRun == (quitSeen /\ Inside) ~> ~Inside
=============================================================================
