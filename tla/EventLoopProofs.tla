--------------------------- MODULE EventLoopProofs ---------------------------
(***************************************************************************)
(* Theorems about EventLoop for every number of workers, tasks, handles     *)
(* and nested polls.                                                        *)
(***************************************************************************)
EXTENDS EventLoop, WellFoundedInduction, TLAPS

Below == {pair \in Nat \X Nat : pair[1] < pair[2]}

(***************************************************************************)
(* The walks of poll() take the smallest handle of a set: a nonempty set of *)
(* naturals has one.                                                        *)
(***************************************************************************)
LEMMA SmallestIsLeast ==
  ASSUME NEW S, S \subseteq Nat, S # {}
  PROVE  /\ Smallest(S) \in S
         /\ \A other \in S : Smallest(S) <= other
<1>0. IsWellFoundedOn(Below, Nat)
  BY NatLessThanWellFounded, Zenon DEF OpToRel, Below
<1>1. \E s \in S : \A t \in S : <<t, s>> \notin Below
  BY <1>0, WFMin, Zenon
<1>2. PICK s \in S : \A t \in S : <<t, s>> \notin Below
  BY <1>1
<1>3. \A t \in S : s <= t
  <2> SUFFICES ASSUME NEW t \in S PROVE s <= t
    OBVIOUS
  <2>1. <<t, s>> \notin Below
    BY <1>2
  <2>2. s \in Nat /\ t \in Nat
    OBVIOUS
  <2>. QED
    BY <2>1, <2>2 DEF Below
<1>. QED
  BY <1>3 DEF Smallest

\* The initial state of the loop is well typed.
LEMMA TypeInit == Init => TypeOK
<1>. SUFFICES ASSUME Init PROVE TypeOK
  OBVIOUS
<1>1. QueueType
  BY BoundAssumption DEF Init, QueueType
<1>2. TimerType
  BY BoundAssumption DEF Init, TimerType, Issued, Times
<1>3. FrameType
  BY BoundAssumption DEF Init, FrameType, Calls
<1>4. RunType
  BY BoundAssumption DEF Init, RunType, Times
<1>5. FlagType
  BY Zenon DEF Init, FlagType
<1>. QED
  BY <1>1, <1>2, <1>3, <1>4, <1>5 DEF TypeOK

(***************************************************************************)
(* The locals of the innermost frame.                                       *)
(***************************************************************************)
LEMMA Innermost ==
  ASSUME TypeOK, depth > 0
  PROVE  /\ depth \in Depths
         /\ phase[depth] \in {"tasks", "timers", "idles"}
         /\ pollNow[depth] \in Nat
         /\ batch[depth] \in Seq(Tasks)
         /\ due[depth] \in SUBSET Handles
         /\ DOMAIN moved[depth] \subseteq Issued
         /\ call[depth] \in Calls
         /\ Issued \subseteq Handles
<1>1. depth \in Depths
  BY BoundAssumption DEF TypeOK, FrameType, Depths
<1>2. Issued \subseteq Handles
  BY BoundAssumption DEF TypeOK, TimerType, Issued, Handles
<1>. QED
  BY <1>1, <1>2 DEF TypeOK, FrameType, TimerType

(***************************************************************************)
(* A new frame is one deeper, within the bound.                             *)
(***************************************************************************)
LEMMA Deeper ==
  ASSUME TypeOK, depth < MaxDepth
  PROVE  depth + 1 \in Depths /\ depth + 1 \in 0..MaxDepth
  BY BoundAssumption DEF TypeOK, FrameType, Depths

\* Posting, draining and destruction keep the queue a sequence of tasks.
LEMMA QueueTypeStep == TypeOK /\ [Next]_vars => QueueType'
<1>. SUFFICES ASSUME TypeOK, [Next]_vars PROVE QueueType'
  OBVIOUS
<1>. USE BoundAssumption DEF loopVars, frames, runVars, history
<1>0. QueueType /\ TimerType /\ FrameType /\ RunType
  BY DEF TypeOK
<1>1. ASSUME Post
      PROVE  QueueType'
  BY <1>1, <1>0 DEF QueueType, Post, Push, Tasks
<1>2. ASSUME NEW w \in Workers, WorkerPost(w)
      PROVE  QueueType'
  BY <1>2, <1>0 DEF QueueType, WorkerPost, Push, Tasks
<1>3. ASSUME NEW w \in Workers, PosterPost(w)
      PROVE  QueueType'
  BY <1>3, <1>0 DEF QueueType, PosterPost, Push, Tasks
<1>4. ASSUME Poll
      PROVE  QueueType'
  BY <1>4, <1>0 DEF QueueType, Poll, EnterPoll
<1>5. ASSUME RunTask
      PROVE  QueueType'
  <2>1. depth \in Depths /\ batch[depth] \in Seq(Tasks)
    BY <1>5, Innermost DEF RunTask, Polling
  <2>2. Head(batch[depth]) \in Tasks
    BY <1>5, <2>1 DEF RunTask
  <2>. QED
    BY <1>5, <1>0, <2>2 DEF QueueType, RunTask
<1>6. ASSUME RunPoll
      PROVE  QueueType'
  BY <1>6, <1>0 DEF QueueType, RunPoll, EnterPoll
<1>7. ASSUME Destroy
      PROVE  QueueType'
  <2>1. \A i \in DOMAIN queue : queue[i] \in Tasks
    BY <1>0 DEF QueueType
  <2>. QED
    BY <1>7, <1>0, <2>1 DEF QueueType, Destroy
<1>8. ASSUME \/ \E w \in Workers : Notify(w)
             \/ Quit
             \/ \E w \in Workers : WorkerQuit(w)
             \/ \E delay \in Delays : SetTimeout(delay)
             \/ \E interval \in Intervals : SetInterval(interval)
             \/ AddIdle
             \/ \E h \in Handles : Cancel(h)
             \/ CollectDue
             \/ SkipTimer
             \/ FireTimer
             \/ Return
             \/ ReturnTimer
             \/ EndTimers
             \/ SkipIdle
             \/ RunIdle
             \/ EndIdles
             \/ RunBegin
             \/ RunRecheck
             \/ RunReturn
             \/ RunLock
             \/ WaitDone
             \/ WaitAgain
             \/ SpuriousWake
             \/ Tick
             \/ UNCHANGED vars
      PROVE  QueueType'
  <2>1. UNCHANGED <<queue, nextTask, ran, dropped>>
    BY <1>8 DEF
       Notify, Quit, WorkerQuit, SetTimeout, SetInterval, AddIdle, Cancel,
       CollectDue, SkipTimer, FireTimer, Return, ReturnTimer, EndTimers,
       SkipIdle, RunIdle, EndIdles, RunBegin, RunRecheck, RunReturn, RunLock,
       WaitDone, WaitAgain, SpuriousWake, Tick, NewHandle, LeavePoll, vars
  <2>. QED
    BY <2>1, <1>0 DEF QueueType
<1>. QED
  BY <1>1, <1>2, <1>3, <1>4, <1>5, <1>6, <1>7, <1>8 DEF Next, UserStep, PollStep, RunStep, WorkerStep

\* No step of poll() leaves a frame with locals of another type.
LEMMA FrameTypeStep == TypeOK /\ [Next]_vars => FrameType'
<1>. SUFFICES ASSUME TypeOK, [Next]_vars PROVE FrameType'
  OBVIOUS
<1>. USE BoundAssumption DEF loopVars, frames, runVars, history
<1>0. QueueType /\ TimerType /\ FrameType /\ RunType
  BY DEF TypeOK
<1>1. ASSUME Poll
      PROVE  FrameType'
  <2>1. depth + 1 \in Depths /\ depth + 1 \in 0..MaxDepth
    BY <1>1, Deeper DEF Poll, EnterPoll
  <2>. QED
    BY <1>1, <1>0, <2>1 DEF FrameType, QueueType, RunType, Poll, EnterPoll
<1>2. ASSUME RunTask
      PROVE  FrameType'
  <2>1. depth \in Depths /\ batch[depth] \in Seq(Tasks)
    BY <1>2, Innermost DEF RunTask, Polling
  <2>2. Head(batch[depth]) \in Tasks /\ Tail(batch[depth]) \in Seq(Tasks)
    BY <1>2, <2>1 DEF RunTask
  <2>3. [kind |-> "task", id |-> Head(batch[depth])] \in Calls
    BY <2>2 DEF Calls
  <2>. QED
    BY <1>2, <1>0, <2>1, <2>2, <2>3 DEF FrameType, RunTask
<1>3. ASSUME CollectDue
      PROVE  FrameType'
  <2>1. depth \in Depths /\ DueTimers(pollNow[depth]) \subseteq Handles
    BY <1>3, <1>0, Innermost DEF CollectDue, Polling, DueTimers, TimerType
  <2>. QED
    BY <1>3, <1>0, <2>1 DEF FrameType, CollectDue
<1>4. ASSUME SkipTimer
      PROVE  FrameType'
  <2>1. depth \in Depths /\ due[depth] \in SUBSET Handles
    BY <1>4, Innermost DEF SkipTimer, Polling
  <2>. QED
    BY <1>4, <1>0, <2>1 DEF FrameType, SkipTimer
<1>5. ASSUME FireTimer
      PROVE  FrameType'
  <2>. DEFINE h == Smallest(due[depth])
  <2>1. depth \in Depths /\ due[depth] \in SUBSET Handles /\ h \in Handles
    BY <1>5, <1>0, Innermost DEF FireTimer, Fenced, Polling, Live, TimerType
  <2>2. [kind |-> "timer", id |-> h] \in Calls
    BY <2>1 DEF Calls
  <2>3. due' = [due EXCEPT ![depth] = @ \ {h}]
        /\ call' = [call EXCEPT ![depth] = [kind |-> "timer", id |-> h]]
        /\ UNCHANGED <<depth, phase, pollNow, batch, moved>>
    BY <1>5 DEF FireTimer, Fenced
  <2>. HIDE DEF h
  <2>. QED
    BY <1>0, <2>1, <2>2, <2>3 DEF FrameType
<1>6. ASSUME Return
      PROVE  FrameType'
  <2>1. depth \in Depths /\ NoCall \in Calls
    BY <1>6, Innermost DEF Return, Calls
  <2>. QED
    BY <1>6, <1>0, <2>1 DEF FrameType, Return
<1>7. ASSUME ReturnTimer
      PROVE  FrameType'
  <2>1. depth \in Depths /\ NoCall \in Calls
    BY <1>7, Innermost DEF ReturnTimer, Calls
  <2>. QED
    BY <1>7, <1>0, <2>1 DEF FrameType, ReturnTimer
<1>8. ASSUME EndTimers
      PROVE  FrameType'
  <2>1. depth \in Depths
    BY <1>8, Innermost DEF EndTimers, Polling
  <2>2. depth \in 0..MaxDepth /\ depth - 1 \in 0..MaxDepth
    BY <1>0, <2>1 DEF FrameType, Depths
  <2>3. CASE didWork[depth]
    BY <1>8, <1>0, <2>1, <2>2, <2>3 DEF FrameType, EndTimers, LeavePoll
  <2>4. CASE ~didWork[depth]
    BY <1>8, <1>0, <2>1, <2>4 DEF FrameType, EndTimers
  <2>. QED
    BY <2>3, <2>4
<1>9. ASSUME SkipIdle
      PROVE  FrameType'
  BY <1>9, <1>0 DEF FrameType, SkipIdle
<1>10. ASSUME RunIdle
      PROVE  FrameType'
  <2>. DEFINE h == Smallest(DOMAIN moved[depth])
  <2>1. depth \in Depths /\ DOMAIN moved[depth] \subseteq Handles
    BY <1>10, Innermost DEF RunIdle, Polling
  <2>2. h \in Handles
    BY <1>10, <2>1, SmallestIsLeast DEF RunIdle, Handles
  <2>3. [kind |-> "idle", id |-> h] \in Calls
    BY <2>2 DEF Calls
  <2>4. /\ moved' = [moved EXCEPT ![depth] = Without(@, h)]
        /\ call' = [call EXCEPT ![depth] = [kind |-> "idle", id |-> h]]
        /\ UNCHANGED <<depth, phase, pollNow, batch, due>>
    BY <1>10 DEF RunIdle
  <2>. HIDE DEF h
  <2>. QED
    BY <1>0, <2>1, <2>3, <2>4 DEF FrameType
<1>11. ASSUME EndIdles
      PROVE  FrameType'
  <2>1. depth \in Depths
    BY <1>11, Innermost DEF EndIdles, Polling
  <2>2. depth \in 0..MaxDepth /\ depth - 1 \in 0..MaxDepth
    BY <1>0, <2>1 DEF FrameType, Depths
  <2>. QED
    BY <1>11, <1>0, <2>1, <2>2 DEF FrameType, EndIdles, LeavePoll
<1>12. ASSUME RunPoll
      PROVE  FrameType'
  <2>1. depth + 1 \in Depths /\ depth + 1 \in 0..MaxDepth
    BY <1>12, Deeper DEF RunPoll, EnterPoll
  <2>. QED
    BY <1>12, <1>0, <2>1 DEF FrameType, QueueType, RunType, RunPoll, EnterPoll
<1>13. ASSUME \/ Post
              \/ \E w \in Workers : WorkerPost(w)
              \/ \E w \in Workers : PosterPost(w)
              \/ \E w \in Workers : Notify(w)
              \/ Quit
              \/ \E w \in Workers : WorkerQuit(w)
              \/ \E delay \in Delays : SetTimeout(delay)
              \/ \E interval \in Intervals : SetInterval(interval)
              \/ AddIdle
              \/ \E h \in Handles : Cancel(h)
              \/ RunBegin
              \/ RunRecheck
              \/ RunReturn
              \/ RunLock
              \/ WaitDone
              \/ WaitAgain
              \/ SpuriousWake
              \/ Destroy
              \/ Tick
              \/ UNCHANGED vars
      PROVE  FrameType'
  <2>1. UNCHANGED <<depth, phase, pollNow, batch, due, moved, call>>
    BY <1>13 DEF
       Post, WorkerPost, PosterPost, Notify, Quit, WorkerQuit, SetTimeout,
       SetInterval, AddIdle, Cancel, RunBegin, RunRecheck, RunReturn, RunLock,
       WaitDone, WaitAgain, SpuriousWake, Destroy, Tick, Push, NewHandle, vars
  <2>. QED
    BY <2>1, <1>0 DEF FrameType
<1>. QED
  BY <1>1, <1>2, <1>3, <1>4, <1>5, <1>6, <1>7, <1>8, <1>9, <1>10, <1>11,
     <1>12, <1>13 DEF Next, UserStep, PollStep, RunStep, WorkerStep

(***************************************************************************)
(* The wait of run() ends at the fire_at of a timer, or never.              *)
(***************************************************************************)
LEMMA NextFireType ==
  ASSUME TimerType
  PROVE  NextFire \in Times
<1>. DEFINE fires == {timers[h].fireAt : h \in {k \in DOMAIN timers :
                        ~timers[k].cancelled /\ timers[k].fireAt # Never}}
<1>1. fires \subseteq Nat
  BY DEF TimerType, Timers, Times
<1>2. CASE fires = {}
  BY <1>2 DEF NextFire, Times
<1>3. CASE fires # {}
  <2>1. Smallest(fires) \in fires
    BY <1>1, <1>3, SmallestIsLeast
  <2>2. NextFire = Smallest(fires)
    BY <1>3 DEF NextFire
  <2>. QED
    BY <1>1, <2>1, <2>2 DEF Times
<1>. QED
  BY <1>2, <1>3

\* The control point of run(), the clock and the posters keep their types.
LEMMA RunTypeStep == TypeOK /\ [Next]_vars => RunType'
<1>. SUFFICES ASSUME TypeOK, [Next]_vars PROVE RunType'
  OBVIOUS
<1>. USE BoundAssumption DEF loopVars, frames, runVars, history
<1>0. QueueType /\ TimerType /\ FrameType /\ RunType
  BY DEF TypeOK
<1>1. ASSUME NEW w \in Workers, WorkerPost(w)
      PROVE  RunType'
  BY <1>1, <1>0 DEF RunType, WorkerPost
<1>2. ASSUME NEW w \in Workers, Notify(w)
      PROVE  RunType'
  BY <1>2, <1>0 DEF RunType, Notify
<1>3. ASSUME NEW w \in Workers, WorkerQuit(w)
      PROVE  RunType'
  BY <1>3, <1>0 DEF RunType, WorkerQuit
<1>4. ASSUME EndTimers
      PROVE  RunType'
  <2>1. runPc' \in {runPc, "recheck"} /\ UNCHANGED <<wakeAt, clock, posting>>
    BY <1>4 DEF EndTimers, LeavePoll
  <2>. QED
    BY <1>0, <2>1 DEF RunType
<1>5. ASSUME EndIdles
      PROVE  RunType'
  <2>1. runPc' \in {runPc, "recheck"} /\ UNCHANGED <<wakeAt, clock, posting>>
    BY <1>5 DEF EndIdles, LeavePoll
  <2>. QED
    BY <1>0, <2>1 DEF RunType
<1>6. ASSUME RunBegin
      PROVE  RunType'
  BY <1>6, <1>0 DEF RunType, RunBegin
<1>7. ASSUME RunPoll
      PROVE  RunType'
  BY <1>7, <1>0 DEF RunType, RunPoll
<1>8. ASSUME RunRecheck
      PROVE  RunType'
  BY <1>8, <1>0 DEF RunType, RunRecheck
<1>9. ASSUME RunReturn
      PROVE  RunType'
  BY <1>9, <1>0 DEF RunType, RunReturn
<1>10. ASSUME RunLock
      PROVE  RunType'
  <2>1. NextFire \in Times
    BY <1>0, NextFireType DEF TypeOK
  <2>. QED
    BY <1>10, <1>0, <2>1 DEF RunType, RunLock
<1>11. ASSUME WaitDone
      PROVE  RunType'
  BY <1>11, <1>0 DEF RunType, WaitDone, Times
<1>12. ASSUME Tick
      PROVE  RunType'
  BY <1>12, <1>0 DEF RunType, Tick
<1>13. ASSUME \/ Post
              \/ \E w \in Workers : PosterPost(w)
              \/ Quit
              \/ \E delay \in Delays : SetTimeout(delay)
              \/ \E interval \in Intervals : SetInterval(interval)
              \/ AddIdle
              \/ \E h \in Handles : Cancel(h)
              \/ Poll
              \/ RunTask
              \/ CollectDue
              \/ SkipTimer
              \/ FireTimer
              \/ Return
              \/ ReturnTimer
              \/ SkipIdle
              \/ RunIdle
              \/ WaitAgain
              \/ SpuriousWake
              \/ Destroy
              \/ UNCHANGED vars
      PROVE  RunType'
  <2>1. UNCHANGED <<runPc, wakeAt, clock, posting>>
    BY <1>13 DEF
       Post, PosterPost, Quit, SetTimeout, SetInterval, AddIdle, Cancel, Poll,
       RunTask, CollectDue, SkipTimer, FireTimer, Return, ReturnTimer,
       SkipIdle, RunIdle, WaitAgain, SpuriousWake, Destroy, Push, NewHandle,
       EnterPoll, vars
  <2>. QED
    BY <2>1, <1>0 DEF RunType
<1>. QED
  BY <1>1, <1>2, <1>3, <1>4, <1>5, <1>6, <1>7, <1>8, <1>9, <1>10, <1>11,
     <1>12, <1>13 DEF Next, UserStep, PollStep, RunStep, WorkerStep

\* Timers, idles and the snapshots of them name handles that were given out.
LEMMA TimerTypeStep == TypeOK /\ [Next]_vars => TimerType'
<1>. SUFFICES ASSUME TypeOK, [Next]_vars PROVE TimerType'
  OBVIOUS
<1>. USE BoundAssumption DEF loopVars, frames, runVars, history
<1>0. QueueType /\ TimerType /\ FrameType /\ RunType
  BY DEF TypeOK
<1>1. ASSUME NEW delay \in Delays, SetTimeout(delay)
      PROVE  TimerType'
  <2>1. /\ nextHandle \in Issued'
        /\ Issued \subseteq Issued'
        /\ nextHandle' \in 1..(MaxHandles + 1)
    BY <1>1, <1>0 DEF TimerType, Issued, SetTimeout, NewHandle
  <2>2. [fireAt |-> clock + delay, interval |-> 0, cancelled |-> FALSE] \in Timers
    BY <1>1, <1>0 DEF RunType, Timers, Times
  <2>3. /\ DOMAIN timers' \subseteq Issued'
        /\ \A h \in DOMAIN timers' : timers'[h] \in Timers
    BY <1>1, <1>0, <2>1, <2>2 DEF TimerType, SetTimeout, AddTimer
  <2>. QED
    BY <1>1, <1>0, <2>1, <2>3 DEF TimerType, SetTimeout
<1>2. ASSUME NEW interval \in Intervals, SetInterval(interval)
      PROVE  TimerType'
  <2>1. /\ nextHandle \in Issued'
        /\ Issued \subseteq Issued'
        /\ nextHandle' \in 1..(MaxHandles + 1)
    BY <1>2, <1>0 DEF TimerType, Issued, SetInterval, NewHandle
  <2>2. [fireAt |-> clock + interval, interval |-> interval, cancelled |-> FALSE] \in Timers
    BY <1>2, <1>0 DEF RunType, Timers, Times
  <2>3. /\ DOMAIN timers' \subseteq Issued'
        /\ \A h \in DOMAIN timers' : timers'[h] \in Timers
    BY <1>2, <1>0, <2>1, <2>2 DEF TimerType, SetInterval, AddTimer
  <2>. QED
    BY <1>2, <1>0, <2>1, <2>3 DEF TimerType, SetInterval
<1>3. ASSUME AddIdle
      PROVE  TimerType'
  <2>1. /\ nextHandle \in Issued'
        /\ Issued \subseteq Issued'
        /\ nextHandle' \in 1..(MaxHandles + 1)
    BY <1>3, <1>0 DEF TimerType, Issued, AddIdle, NewHandle
  <2>. QED
    BY <1>3, <1>0, <2>1 DEF TimerType, AddIdle
<1>4. ASSUME NEW h \in Handles, Cancel(h)
      PROVE  TimerType'
  <2>1. h \in Issued /\ Issued' = Issued
    BY <1>4, <1>0 DEF TimerType, Issued, Cancel, Handles
  <2>2. \A k \in DOMAIN timers :
          [timers[k] EXCEPT !.cancelled = TRUE] \in Timers
    BY <1>0 DEF TimerType, Timers
  <2>3. \A k \in DOMAIN timers' : timers'[k] \in Timers
    BY <1>4, <1>0, <2>2 DEF TimerType, Cancel
  <2>. QED
    BY <1>4, <1>0, <2>1, <2>3 DEF TimerType, Cancel
<1>5. ASSUME FireTimer
      PROVE  TimerType'
  <2>. DEFINE h == Smallest(due[depth])
  <2>1. h \in DOMAIN timers /\ h \in Handles
    BY <1>5, <1>0, Innermost DEF FireTimer, Fenced, Live, TimerType, Polling
  <2>2. /\ timers' = [timers EXCEPT ![h].fireAt = Never,
                                    ![h].cancelled = (timers[h].interval = 0)]
        /\ firedNow' = [firedNow EXCEPT ![h] = pollNow[depth]]
        /\ UNCHANGED <<nextHandle, idles, moved, cancelReq, repeating>>
    BY <1>5 DEF FireTimer, Fenced
  <2>3. pollNow[depth] \in Times
    BY <1>5, Innermost DEF FireTimer, Fenced, Polling, Times
  <2>. HIDE DEF h
  <2>4. \A k \in DOMAIN timers' : timers'[k] \in Timers
    BY <1>0, <2>1, <2>2 DEF TimerType, Timers, Times
  <2>. QED
    BY <1>0, <2>1, <2>2, <2>3, <2>4 DEF TimerType, Issued
<1>6. ASSUME ReturnTimer
      PROVE  TimerType'
  <2>1. pollNow[depth] \in Nat
    BY <1>6, Innermost DEF ReturnTimer
  <2>2. \A k \in DOMAIN timers :
          [timers[k] EXCEPT !.fireAt = pollNow[depth] + timers[k].interval] \in Timers
    BY <1>0, <2>1 DEF TimerType, Timers, Times
  <2>3. \A k \in DOMAIN timers' : timers'[k] \in Timers
    BY <1>6, <1>0, <2>2 DEF TimerType, ReturnTimer
  <2>. QED
    BY <1>6, <1>0, <2>3 DEF TimerType, ReturnTimer, Issued
<1>7. ASSUME EndTimers
      PROVE  TimerType'
  <2>1. depth \in Depths
    BY <1>7, Innermost DEF EndTimers, Polling
  <2>2. DOMAIN timers' \subseteq Issued /\ \A k \in DOMAIN timers' : timers'[k] \in Timers
    BY <1>7, <1>0 DEF TimerType, EndTimers, Purged
  <2>3. /\ DOMAIN idles' \subseteq Issued
        /\ \A d \in Depths : DOMAIN moved'[d] \subseteq Issued
    BY <1>7, <1>0, <2>1 DEF TimerType, FrameType, EndTimers
  <2>. QED
    BY <1>7, <1>0, <2>2, <2>3 DEF TimerType, EndTimers, Issued
<1>8. ASSUME SkipIdle
      PROVE  TimerType'
  BY <1>8, <1>0 DEF TimerType, FrameType, SkipIdle, Without, Issued
<1>9. ASSUME RunIdle
      PROVE  TimerType'
  BY <1>9, <1>0 DEF TimerType, FrameType, RunIdle, Without, Issued
<1>10. ASSUME \/ Post
              \/ \E w \in Workers : WorkerPost(w)
              \/ \E w \in Workers : PosterPost(w)
              \/ \E w \in Workers : Notify(w)
              \/ Quit
              \/ \E w \in Workers : WorkerQuit(w)
              \/ Poll
              \/ RunTask
              \/ CollectDue
              \/ SkipTimer
              \/ Return
              \/ EndIdles
              \/ RunBegin
              \/ RunPoll
              \/ RunRecheck
              \/ RunReturn
              \/ RunLock
              \/ WaitDone
              \/ WaitAgain
              \/ SpuriousWake
              \/ Destroy
              \/ Tick
              \/ UNCHANGED vars
      PROVE  TimerType'
  <2>1. UNCHANGED <<timers, idles, nextHandle, moved, cancelReq, repeating, firedNow>>
    BY <1>10 DEF
       Post, WorkerPost, PosterPost, Notify, Quit, WorkerQuit, Poll, RunTask,
       CollectDue, SkipTimer, Return, EndIdles, RunBegin, RunPoll, RunRecheck,
       RunReturn, RunLock, WaitDone, WaitAgain, SpuriousWake, Destroy, Tick,
       Push, EnterPoll, LeavePoll, vars
  <2>. QED
    BY <2>1, <1>0 DEF TimerType, Issued
<1>. QED
  BY <1>1, <1>2, <1>3, <1>4, <1>5, <1>6, <1>7, <1>8, <1>9, <1>10 DEF Next, UserStep, PollStep, RunStep, WorkerStep

\* Flags stay Boolean, the cancelled marks of idles included.
LEMMA FlagTypeStep == TypeOK /\ [Next]_vars => FlagType'
<1>. SUFFICES ASSUME TypeOK, [Next]_vars PROVE FlagType'
  OBVIOUS
<1>. USE DEF loopVars, frames, runVars, history
<1>0. FlagType
  BY DEF TypeOK
<1>1. ASSUME NEW w \in Workers, PosterPost(w)
      PROVE  FlagType'
  BY <1>1, <1>0 DEF FlagType, PosterPost
<1>2. ASSUME NEW w \in Workers, Notify(w)
      PROVE  FlagType'
  BY <1>2, <1>0 DEF FlagType, Notify
<1>3. ASSUME Quit
      PROVE  FlagType'
  BY <1>3, <1>0 DEF FlagType, Quit
<1>4. ASSUME NEW w \in Workers, WorkerQuit(w)
      PROVE  FlagType'
  BY <1>4, <1>0 DEF FlagType, WorkerQuit
<1>5. ASSUME AddIdle
      PROVE  FlagType'
  BY <1>5, <1>0 DEF FlagType, AddIdle
<1>6. ASSUME NEW h \in Handles, Cancel(h)
      PROVE  FlagType'
  BY <1>6, <1>0 DEF FlagType, Cancel
<1>7. ASSUME Return
      PROVE  FlagType'
  BY <1>7, <1>0 DEF FlagType, Return
<1>8. ASSUME ReturnTimer
      PROVE  FlagType'
  BY <1>8, <1>0 DEF FlagType, ReturnTimer
<1>9. ASSUME EndTimers
      PROVE  FlagType'
  <2>1. CASE didWork[depth]
    <3>1. /\ didWork' = [didWork EXCEPT ![depth] = FALSE]
          /\ UNCHANGED <<accepting, running, notified, quitSeen, idles, moved>>
      BY <1>9, <2>1 DEF EndTimers, LeavePoll
    <3>. QED
      BY <1>0, <3>1 DEF FlagType
  <2>2. CASE ~didWork[depth]
    <3>1. /\ moved' = [moved EXCEPT ![depth] = idles]
          /\ DOMAIN idles' = {}
          /\ UNCHANGED <<accepting, running, notified, quitSeen, didWork>>
      BY <1>9, <2>2 DEF EndTimers
    <3>2. \A d \in Depths : \A h \in DOMAIN moved'[d] : moved'[d][h] \in BOOLEAN
      BY <1>0, <3>1, Zenon DEF FlagType, TypeOK, FrameType
    <3>. QED
      BY <1>0, <3>1, <3>2 DEF FlagType
  <2>. QED
    BY <2>1, <2>2
<1>10. ASSUME SkipIdle
      PROVE  FlagType'
  BY <1>10, <1>0 DEF FlagType, SkipIdle, Without
<1>11. ASSUME RunIdle
      PROVE  FlagType'
  BY <1>11, <1>0 DEF FlagType, RunIdle, Without
<1>12. ASSUME EndIdles
      PROVE  FlagType'
  BY <1>12, <1>0 DEF FlagType, EndIdles, LeavePoll
<1>13. ASSUME RunBegin
      PROVE  FlagType'
  BY <1>13, <1>0 DEF FlagType, RunBegin
<1>14. ASSUME RunLock
      PROVE  FlagType'
  BY <1>14, <1>0 DEF FlagType, RunLock
<1>15. ASSUME WaitDone
      PROVE  FlagType'
  BY <1>15, <1>0 DEF FlagType, WaitDone
<1>16. ASSUME WaitAgain
      PROVE  FlagType'
  BY <1>16, <1>0 DEF FlagType, WaitAgain
<1>17. ASSUME SpuriousWake
      PROVE  FlagType'
  BY <1>17, <1>0 DEF FlagType, SpuriousWake
<1>18. ASSUME Destroy
      PROVE  FlagType'
  BY <1>18, <1>0 DEF FlagType, Destroy
<1>19. ASSUME \/ Post
              \/ \E w \in Workers : WorkerPost(w)
              \/ \E delay \in Delays : SetTimeout(delay)
              \/ \E interval \in Intervals : SetInterval(interval)
              \/ Poll
              \/ RunTask
              \/ CollectDue
              \/ SkipTimer
              \/ FireTimer
              \/ RunPoll
              \/ RunRecheck
              \/ RunReturn
              \/ Tick
              \/ UNCHANGED vars
      PROVE  FlagType'
  <2>1. UNCHANGED <<accepting, running, notified, quitSeen, didWork, idles, moved>>
    BY <1>19 DEF
       Post, WorkerPost, SetTimeout, SetInterval, Poll, RunTask, CollectDue,
       SkipTimer, FireTimer, RunPoll, RunRecheck, RunReturn, Tick, Push,
       NewHandle, EnterPoll, vars
  <2>. QED
    BY <2>1, <1>0 DEF FlagType
<1>. QED
  BY <1>1, <1>2, <1>3, <1>4, <1>5, <1>6, <1>7, <1>8, <1>9, <1>10, <1>11,
     <1>12, <1>13, <1>14, <1>15, <1>16, <1>17, <1>18, <1>19 DEF Next, UserStep, PollStep, RunStep, WorkerStep

(***************************************************************************)
(* Every reachable state of the loop, its frames and its waits is well      *)
(* typed, whatever user code calls from callbacks.                          *)
(***************************************************************************)
THEOREM TypeCorrect == Spec => []TypeOK
<1>1. TypeOK /\ [Next]_vars => TypeOK'
  BY QueueTypeStep, TimerTypeStep, FrameTypeStep, RunTypeStep, FlagTypeStep
  DEF TypeOK
<1>. QED
  BY TypeInit, <1>1, PTL DEF Spec

-----------------------------------------------------------------------------
(***************************************************************************)
(* Cancellation and one-shots. A cancelled timer that is still in the vector *)
(* is marked; a one-shot that fired is marked too, because FireTimer         *)
(* consumes it before its callback starts; handles are not reused.           *)
(***************************************************************************)
CancelMarks == \A h \in cancelReq \cap DOMAIN timers : timers[h].cancelled

FiringConsumes ==
  \A h \in DOMAIN timers \ repeating :
    timers[h].interval = 0 /\ (firedNow[h] # Never => timers[h].cancelled)

UnissuedUnfired == \A h \in Handles : h >= nextHandle => firedNow[h] = Never

TimerInv == CancelMarks /\ FiringConsumes /\ UnissuedUnfired

\* Every step preserves the inductive invariant of the timers.
LEMMA TimerInvStep == TypeOK /\ TimerInv /\ [Next]_vars => TimerInv'
<1>. SUFFICES ASSUME TypeOK, TimerInv, [Next]_vars PROVE TimerInv'
  OBVIOUS
<1>. USE DEF loopVars, frames, runVars, history
<1>0. CancelMarks /\ FiringConsumes /\ UnissuedUnfired /\ TimerType
  BY DEF TypeOK, TimerInv
<1>1. ASSUME NEW delay \in Delays, SetTimeout(delay)
      PROVE  TimerInv'
  <2>1. CancelMarks'
    BY <1>1, <1>0 DEF CancelMarks, SetTimeout, NewHandle, AddTimer, TimerType, Issued
  <2>2. FiringConsumes'
    BY <1>1, <1>0, BoundAssumption DEF FiringConsumes, UnissuedUnfired, SetTimeout, NewHandle, AddTimer,
       TimerType, Issued, Handles
  <2>3. UnissuedUnfired'
    BY <1>1, <1>0, BoundAssumption DEF UnissuedUnfired, SetTimeout, NewHandle, AddTimer, TimerType, Issued, Handles
  <2>. QED
    BY <2>1, <2>2, <2>3 DEF TimerInv
<1>2. ASSUME NEW interval \in Intervals, SetInterval(interval)
      PROVE  TimerInv'
  <2>1. CancelMarks'
    BY <1>2, <1>0 DEF CancelMarks, SetInterval, NewHandle, AddTimer, TimerType, Issued
  <2>2. FiringConsumes'
    BY <1>2, <1>0, BoundAssumption DEF FiringConsumes, UnissuedUnfired, SetInterval, NewHandle, AddTimer,
       TimerType, Issued, Handles
  <2>3. UnissuedUnfired'
    BY <1>2, <1>0, BoundAssumption DEF UnissuedUnfired, SetInterval, NewHandle, AddTimer, TimerType, Issued, Handles
  <2>. QED
    BY <2>1, <2>2, <2>3 DEF TimerInv
<1>3. ASSUME AddIdle
      PROVE  TimerInv'
  <2>1. CancelMarks'
    BY <1>3, <1>0 DEF CancelMarks, AddIdle, NewHandle, TimerType, Issued
  <2>2. FiringConsumes'
    BY <1>3, <1>0, BoundAssumption DEF FiringConsumes, UnissuedUnfired, AddIdle, NewHandle,
       TimerType, Issued, Handles
  <2>3. UnissuedUnfired'
    BY <1>3, <1>0, BoundAssumption DEF UnissuedUnfired, AddIdle, NewHandle, TimerType, Issued, Handles
  <2>. QED
    BY <2>1, <2>2, <2>3 DEF TimerInv
<1>4. ASSUME NEW h \in Handles, Cancel(h)
      PROVE  TimerInv'
  <2>1. CancelMarks'
    BY <1>4, <1>0 DEF CancelMarks, Cancel, TimerType, Issued
  <2>2. FiringConsumes'
    BY <1>4, <1>0, BoundAssumption DEF FiringConsumes, UnissuedUnfired, Cancel,
       TimerType, Issued, Handles
  <2>3. UnissuedUnfired'
    BY <1>4, <1>0, BoundAssumption DEF UnissuedUnfired, Cancel, TimerType, Issued, Handles
  <2>. QED
    BY <2>1, <2>2, <2>3 DEF TimerInv
<1>5. ASSUME FireTimer
      PROVE  TimerInv'
  <2>. DEFINE f == Smallest(due[depth])
  <2>1. /\ f \in DOMAIN timers
        /\ timers' = [timers EXCEPT ![f].fireAt = Never,
                                    ![f].cancelled = (timers[f].interval = 0)]
        /\ firedNow' = [firedNow EXCEPT ![f] = pollNow[depth]]
        /\ UNCHANGED <<nextHandle, cancelReq, repeating>>
    BY <1>5 DEF FireTimer, Fenced, Live
  <2>. HIDE DEF f
  <2>2. \A k \in DOMAIN timers : k # f => timers'[k] = timers[k] /\ firedNow'[k] = firedNow[k]
    BY <1>0, <2>1 DEF TimerType
  <2>3. timers[f].interval = 0 => timers'[f].cancelled
    BY <1>0, <2>1 DEF TimerType, Timers
  <2>4. timers'[f].interval = timers[f].interval /\ DOMAIN timers' = DOMAIN timers
    BY <1>0, <2>1 DEF TimerType, Timers
  <2>5. CancelMarks'
    <3>1. f \notin cancelReq
      BY <1>5, <1>0 DEF CancelMarks, FireTimer, Fenced, Live, f
    <3>. QED
      BY <1>0, <2>1, <2>2, <2>4, <3>1 DEF CancelMarks
  <2>6. FiringConsumes'
    BY <1>0, <2>1, <2>2, <2>3, <2>4 DEF FiringConsumes
  <2>7. UnissuedUnfired'
    BY <1>0, <2>1 DEF UnissuedUnfired, TimerType, Issued, Handles
  <2>. QED
    BY <2>5, <2>6, <2>7 DEF TimerInv
<1>6. ASSUME ReturnTimer
      PROVE  TimerInv'
  <2>1. CancelMarks'
    BY <1>6, <1>0 DEF CancelMarks, ReturnTimer, TimerType, Issued
  <2>2. FiringConsumes'
    BY <1>6, <1>0, BoundAssumption DEF FiringConsumes, UnissuedUnfired, ReturnTimer,
       TimerType, Issued, Handles
  <2>3. UnissuedUnfired'
    BY <1>6, <1>0, BoundAssumption DEF UnissuedUnfired, ReturnTimer, TimerType, Issued, Handles
  <2>. QED
    BY <2>1, <2>2, <2>3 DEF TimerInv
<1>7. ASSUME EndTimers
      PROVE  TimerInv'
  <2>1. CancelMarks'
    BY <1>7, <1>0 DEF CancelMarks, EndTimers, Purged, TimerType, Issued
  <2>2. FiringConsumes'
    BY <1>7, <1>0, BoundAssumption DEF FiringConsumes, UnissuedUnfired, EndTimers, Purged,
       TimerType, Issued, Handles
  <2>3. UnissuedUnfired'
    BY <1>7, <1>0, BoundAssumption DEF UnissuedUnfired, EndTimers, Purged, TimerType, Issued, Handles
  <2>. QED
    BY <2>1, <2>2, <2>3 DEF TimerInv
<1>8. ASSUME \/ Post
             \/ \E w \in Workers : WorkerPost(w)
             \/ \E w \in Workers : PosterPost(w)
             \/ \E w \in Workers : Notify(w)
             \/ Quit
             \/ \E w \in Workers : WorkerQuit(w)
             \/ Poll
             \/ RunTask
             \/ CollectDue
             \/ SkipTimer
             \/ Return
             \/ SkipIdle
             \/ RunIdle
             \/ EndIdles
             \/ RunBegin
             \/ RunPoll
             \/ RunRecheck
             \/ RunReturn
             \/ RunLock
             \/ WaitDone
             \/ WaitAgain
             \/ SpuriousWake
             \/ Destroy
             \/ Tick
             \/ UNCHANGED vars
      PROVE  TimerInv'
  <2>1. UNCHANGED <<timers, nextHandle, cancelReq, repeating, firedNow>>
    BY <1>8 DEF
       Post, WorkerPost, PosterPost, Notify, Quit, WorkerQuit, Poll, RunTask,
       CollectDue, SkipTimer, Return, SkipIdle, RunIdle, EndIdles, RunBegin,
       RunPoll, RunRecheck, RunReturn, RunLock, WaitDone, WaitAgain,
       SpuriousWake, Destroy, Tick, Push, EnterPoll, LeavePoll, vars
  <2>. QED
    BY <2>1,
       <1>0 DEF TimerInv, CancelMarks, FiringConsumes, UnissuedUnfired
<1>. QED
  BY <1>1, <1>2, <1>3, <1>4, <1>5, <1>6, <1>7, <1>8 DEF Next, UserStep, PollStep, RunStep, WorkerStep

\* It holds before any timer was made.
LEMMA TimerInvInit == Init => TimerInv
  BY DEF Init, TimerInv, CancelMarks, FiringConsumes, UnissuedUnfired

\* So it holds in every reachable state, together with the types.
LEMMA TimerInvariant == Spec => [](TypeOK /\ TimerInv)
<1>1. Init => TypeOK /\ TimerInv
  BY TypeInit, TimerInvInit
<1>2. TypeOK /\ TimerInv /\ [Next]_vars => (TypeOK /\ TimerInv)'
  BY QueueTypeStep, TimerTypeStep, FrameTypeStep, RunTypeStep, FlagTypeStep,
     TimerInvStep DEF TypeOK
<1>. QED
  BY <1>1, <1>2, PTL DEF Spec

(***************************************************************************)
(* The only step that starts a timer callback is the one that found its     *)
(* entry live, and fenced it.                                               *)
(***************************************************************************)
LEMMA StartsWhenLive ==
  ASSUME TypeOK, [Next]_vars, NEW k \in Handles, Starts("timer", k)
  PROVE  FireTimer /\ k = Smallest(due[depth]) /\ Live(k)
<1>. USE DEF loopVars, frames, runVars, history
<1>. DEFINE goal == FireTimer /\ k = Smallest(due[depth]) /\ Live(k)
<1>0. PICK d \in Depths : /\ call[d] = NoCall
                          /\ call'[d] = [kind |-> "timer", id |-> k]
  BY DEF Starts
<1>00. call'[d] # call[d] /\ call'[d].kind = "timer" /\ call'[d].id = k
  BY <1>0 DEF NoCall
<1>01. call \in [Depths -> Calls]
  BY DEF TypeOK, FrameType
<1>1. ASSUME RunTask
      PROVE  goal
  <2>1. call' = [call EXCEPT ![depth] = [kind |-> "task", id |-> Head(batch[depth])]]
    BY <1>1 DEF RunTask
  <2>. QED
    BY <1>00, <1>01, <2>1
<1>2. ASSUME FireTimer
      PROVE  goal
  <2>. DEFINE f == Smallest(due[depth])
  <2>1. /\ Live(f)
        /\ call' = [call EXCEPT ![depth] = [kind |-> "timer", id |-> f]]
    BY <1>2 DEF FireTimer, Fenced
  <2>. HIDE DEF f
  <2>2. f = k
    BY <1>00, <1>01, <2>1
  <2>. QED
    BY <1>2, <2>1, <2>2 DEF f
<1>3. ASSUME Return
      PROVE  goal
  <2>1. call' = [call EXCEPT ![depth] = NoCall]
    BY <1>3 DEF Return
  <2>. QED
    BY <1>00, <1>01, <2>1 DEF NoCall
<1>4. ASSUME ReturnTimer
      PROVE  goal
  <2>1. call' = [call EXCEPT ![depth] = NoCall]
    BY <1>4 DEF ReturnTimer
  <2>. QED
    BY <1>00, <1>01, <2>1 DEF NoCall
<1>5. ASSUME RunIdle
      PROVE  goal
  <2>. DEFINE f == Smallest(DOMAIN moved[depth])
  <2>1. call' = [call EXCEPT ![depth] = [kind |-> "idle", id |-> f]]
    BY <1>5 DEF RunIdle
  <2>. QED
    BY <1>00, <1>01, <2>1
<1>6. ASSUME \/ Post
             \/ \E w \in Workers : WorkerPost(w)
             \/ \E w \in Workers : PosterPost(w)
             \/ \E w \in Workers : Notify(w)
             \/ Quit
             \/ \E w \in Workers : WorkerQuit(w)
             \/ \E delay \in Delays : SetTimeout(delay)
             \/ \E interval \in Intervals : SetInterval(interval)
             \/ AddIdle
             \/ \E h \in Handles : Cancel(h)
             \/ Poll
             \/ CollectDue
             \/ SkipTimer
             \/ EndTimers
             \/ SkipIdle
             \/ EndIdles
             \/ RunBegin
             \/ RunPoll
             \/ RunRecheck
             \/ RunReturn
             \/ RunLock
             \/ WaitDone
             \/ WaitAgain
             \/ SpuriousWake
             \/ Destroy
             \/ Tick
             \/ UNCHANGED vars
      PROVE  goal
  <2>1. call' = call
    BY <1>6 DEF
       Post, WorkerPost, PosterPost, Notify, Quit, WorkerQuit, SetTimeout,
       SetInterval, AddIdle, Cancel, Poll, CollectDue, SkipTimer, EndTimers,
       SkipIdle, EndIdles, RunBegin, RunPoll, RunRecheck, RunReturn, RunLock,
       WaitDone, WaitAgain, SpuriousWake, Destroy, Tick, Push, NewHandle,
       EnterPoll, LeavePoll, vars
  <2>. QED
    BY <2>1, <1>00
<1>. QED
  BY <1>1, <1>2, <1>3, <1>4, <1>5, <1>6 DEF Next, UserStep, PollStep, RunStep, WorkerStep

(***************************************************************************)
(* cancel() of a timer is final, whatever snapshots and nested polls are in *)
(* progress when it is called.                                              *)
(***************************************************************************)
THEOREM CancelIsFinal == Spec => CancelledTimerNeverFires
<1>1. TypeOK /\ TimerInv /\ [Next]_vars =>
        [\A h \in Handles : Starts("timer", h) => h \notin cancelReq]_vars
  BY StartsWhenLive DEF TimerInv, CancelMarks, Live
<1>. QED
  BY <1>1, TimerInvariant, PTL DEF Spec, CancelledTimerNeverFires

(***************************************************************************)
(* A one-shot fires at most once, however deep the polls that see it due.   *)
(***************************************************************************)
THEOREM OneShotOnce == Spec => OneShotFiresOnce
<1>1. TypeOK /\ TimerInv /\ [Next]_vars =>
        [\A h \in Handles \ repeating :
           Starts("timer", h) => firedNow[h] = Never]_vars
  BY StartsWhenLive DEF TimerInv, FiringConsumes, Live
<1>. QED
  BY <1>1, TimerInvariant, PTL DEF Spec, OneShotFiresOnce

-----------------------------------------------------------------------------
(***************************************************************************)
(* Sleeping. While run() tests, locks or waits no poll is in progress, so   *)
(* the loop thread is in no callback and only workers can fill the queue;   *)
(* the wait starts with the queue seen empty under the lock.                *)
(***************************************************************************)
RunDepth ==
  /\ runPc \in {"test", "recheck", "lock", "wait"} => depth = 0
  /\ runPc = "poll" => depth > 0

WakeInv == RunDepth /\ NoLostWakeup

\* Every step of run(), of a poster and of quit() preserves the invariant of the wait.
LEMMA WakeInvStep == TypeOK /\ WakeInv /\ [Next]_vars => WakeInv'
<1>. SUFFICES ASSUME TypeOK, WakeInv, [Next]_vars PROVE WakeInv'
  OBVIOUS
<1>. USE DEF loopVars, frames, runVars, history
<1>0. /\ RunDepth /\ NoLostWakeup
      /\ depth \in 0..MaxDepth
      /\ posting \subseteq Workers
      /\ runPc \in {"out", "test", "poll", "recheck", "lock", "wait"}
  BY DEF TypeOK, WakeInv, FrameType, RunType
<1>1. ASSUME Post
      PROVE  WakeInv'
  BY <1>1, <1>0 DEF WakeInv, RunDepth, NoLostWakeup, Post, InUserCode, Push
<1>2. ASSUME NEW w \in Workers, WorkerPost(w)
      PROVE  WakeInv'
  BY <1>2, <1>0 DEF WakeInv, RunDepth, NoLostWakeup, WorkerPost
<1>3. ASSUME NEW w \in Workers, PosterPost(w)
      PROVE  WakeInv'
  BY <1>3, <1>0 DEF WakeInv, RunDepth, NoLostWakeup, PosterPost
<1>4. ASSUME NEW w \in Workers, Notify(w)
      PROVE  WakeInv'
  BY <1>4, <1>0 DEF WakeInv, RunDepth, NoLostWakeup, Notify
<1>5. ASSUME NEW w \in Workers, WorkerQuit(w)
      PROVE  WakeInv'
  BY <1>5, <1>0 DEF WakeInv, RunDepth, NoLostWakeup, WorkerQuit
<1>6. ASSUME Poll
      PROVE  WakeInv'
  BY <1>6, <1>0 DEF WakeInv, RunDepth, NoLostWakeup, Poll, EnterPoll, InUserCode
<1>7. ASSUME EndTimers
      PROVE  WakeInv'
  BY <1>7, <1>0 DEF WakeInv, RunDepth, NoLostWakeup, EndTimers, Polling, LeavePoll
<1>8. ASSUME EndIdles
      PROVE  WakeInv'
  BY <1>8, <1>0 DEF WakeInv, RunDepth, NoLostWakeup, EndIdles, Polling, LeavePoll
<1>9. ASSUME RunBegin
      PROVE  WakeInv'
  BY <1>9, <1>0 DEF WakeInv, RunDepth, NoLostWakeup, RunBegin
<1>10. ASSUME RunPoll
      PROVE  WakeInv'
  BY <1>10, <1>0 DEF WakeInv, RunDepth, NoLostWakeup, RunPoll, EnterPoll
<1>11. ASSUME RunRecheck
      PROVE  WakeInv'
  BY <1>11, <1>0 DEF WakeInv, RunDepth, NoLostWakeup, RunRecheck
<1>12. ASSUME RunReturn
      PROVE  WakeInv'
  BY <1>12, <1>0 DEF WakeInv, RunDepth, NoLostWakeup, RunReturn
<1>13. ASSUME RunLock
      PROVE  WakeInv'
  BY <1>13, <1>0 DEF WakeInv, RunDepth, NoLostWakeup, RunLock
<1>14. ASSUME WaitDone
      PROVE  WakeInv'
  BY <1>14, <1>0 DEF WakeInv, RunDepth, NoLostWakeup, WaitDone
<1>15. ASSUME WaitAgain
      PROVE  WakeInv'
  BY <1>15, <1>0 DEF WakeInv, RunDepth, NoLostWakeup, WaitAgain, HasWork
<1>16. ASSUME SpuriousWake
      PROVE  WakeInv'
  BY <1>16, <1>0 DEF WakeInv, RunDepth, NoLostWakeup, SpuriousWake
<1>17. ASSUME Destroy
      PROVE  WakeInv'
  BY <1>17, <1>0 DEF WakeInv, RunDepth, NoLostWakeup, Destroy
<1>18. ASSUME \/ Quit
              \/ \E delay \in Delays : SetTimeout(delay)
              \/ \E interval \in Intervals : SetInterval(interval)
              \/ AddIdle
              \/ \E h \in Handles : Cancel(h)
              \/ RunTask
              \/ CollectDue
              \/ SkipTimer
              \/ FireTimer
              \/ Return
              \/ ReturnTimer
              \/ SkipIdle
              \/ RunIdle
              \/ Tick
              \/ UNCHANGED vars
      PROVE  WakeInv'
  <2>1. UNCHANGED <<queue, depth, runPc, notified, posting>>
    BY <1>18 DEF
       Quit, SetTimeout, SetInterval, AddIdle, Cancel, RunTask, CollectDue,
       SkipTimer, FireTimer, Return, ReturnTimer, SkipIdle, RunIdle, Tick,
       NewHandle, vars
  <2>. QED
    BY <2>1, <1>0 DEF WakeInv, RunDepth, NoLostWakeup
<1>. QED
  BY <1>1, <1>2, <1>3, <1>4, <1>5, <1>6, <1>7, <1>8, <1>9, <1>10, <1>11,
     <1>12, <1>13, <1>14, <1>15, <1>16, <1>17, <1>18 DEF Next, UserStep, PollStep, RunStep, WorkerStep

(***************************************************************************)
(* run() is never asleep on a queued task with nobody left to wake it.      *)
(***************************************************************************)
THEOREM WakeupsAreNotLost == Spec => []NoLostWakeup
<1>1. Init => TypeOK /\ WakeInv
  BY TypeInit DEF Init, WakeInv, RunDepth, NoLostWakeup
<1>2. TypeOK /\ WakeInv /\ [Next]_vars => (TypeOK /\ WakeInv)'
  BY QueueTypeStep, TimerTypeStep, FrameTypeStep, RunTypeStep, FlagTypeStep,
     WakeInvStep DEF TypeOK
<1>3. WakeInv => NoLostWakeup
  BY DEF WakeInv
<1>. QED
  BY <1>1, <1>2, <1>3, PTL DEF Spec

-----------------------------------------------------------------------------
(***************************************************************************)
(* Tasks. The queue and every batch hold task numbers in increasing order;  *)
(* everything queued is newer than everything taken out, and a frame's      *)
(* batch is newer than those of the frames around it.                       *)
(***************************************************************************)
Ascending(seq) == \A i, j \in DOMAIN seq : i < j => seq[i] < seq[j]

\* What post() appends is the newest element, and the order is kept.
LEMMA AppendHolds ==
  ASSUME NEW seq \in Seq(Nat), NEW x \in Nat
  PROVE  /\ \A t : Holds(Append(seq, x), t) <=> (t = x \/ Holds(seq, t))
         /\ Ascending(seq) /\ (\A t : Holds(seq, t) => t < x)
              => Ascending(Append(seq, x))
<1>1. ASSUME NEW t PROVE Holds(Append(seq, x), t) <=> (t = x \/ Holds(seq, t))
  <2>1. ASSUME Holds(seq, t) PROVE Holds(Append(seq, x), t)
    <3>1. PICK i \in DOMAIN seq : seq[i] = t
      BY <2>1 DEF Holds
    <3>2. i \in DOMAIN Append(seq, x) /\ Append(seq, x)[i] = t
      BY <3>1
    <3>. QED
      BY <3>2 DEF Holds
  <2>2. Holds(Append(seq, x), x)
    <3>1. Len(seq) + 1 \in DOMAIN Append(seq, x) /\ Append(seq, x)[Len(seq) + 1] = x
      OBVIOUS
    <3>. QED
      BY <3>1 DEF Holds
  <2>3. ASSUME Holds(Append(seq, x), t), t # x PROVE Holds(seq, t)
    BY <2>3 DEF Holds
  <2>. QED
    BY <2>1, <2>2, <2>3
<1>2. ASSUME Ascending(seq), \A t : Holds(seq, t) => t < x
      PROVE  Ascending(Append(seq, x))
  <2>1. \A i \in DOMAIN seq : seq[i] < x
    BY <1>2 DEF Holds
  <2>. QED
    BY <1>2, <2>1 DEF Ascending
<1>. QED
  BY <1>1, <1>2

\* What RunTask takes off a batch is its oldest element.
LEMMA TailHolds ==
  ASSUME NEW seq \in Seq(Nat), seq # <<>>
  PROVE  /\ \A t : Holds(seq, t) <=> (t = Head(seq) \/ Holds(Tail(seq), t))
         /\ Ascending(seq) =>
              /\ Ascending(Tail(seq))
              /\ \A t : Holds(Tail(seq), t) => Head(seq) < t
<1>1. ASSUME NEW t PROVE Holds(seq, t) <=> (t = Head(seq) \/ Holds(Tail(seq), t))
  <2>1. ASSUME Holds(seq, t), t # Head(seq) PROVE Holds(Tail(seq), t)
    <3>1. PICK i \in DOMAIN seq : seq[i] = t
      BY <2>1 DEF Holds
    <3>2. i # 1
      BY <2>1, <3>1
    <3>3. i - 1 \in DOMAIN Tail(seq) /\ Tail(seq)[i - 1] = t
      BY <3>1, <3>2
    <3>. QED
      BY <3>3 DEF Holds
  <2>2. Holds(seq, Head(seq))
    <3>1. 1 \in DOMAIN seq /\ seq[1] = Head(seq)
      OBVIOUS
    <3>. QED
      BY <3>1 DEF Holds
  <2>3. ASSUME Holds(Tail(seq), t) PROVE Holds(seq, t)
    <3>1. PICK i \in DOMAIN Tail(seq) : Tail(seq)[i] = t
      BY <2>3 DEF Holds
    <3>2. i + 1 \in DOMAIN seq /\ seq[i + 1] = t
      BY <3>1
    <3>. QED
      BY <3>2 DEF Holds
  <2>. QED
    BY <2>1, <2>2, <2>3
<1>2. ASSUME Ascending(seq)
      PROVE  /\ Ascending(Tail(seq))
             /\ \A t : Holds(Tail(seq), t) => Head(seq) < t
  <2>1. \A i \in DOMAIN Tail(seq) : i + 1 \in DOMAIN seq /\ Tail(seq)[i] = seq[i + 1]
    OBVIOUS
  <2>2. Ascending(Tail(seq))
    BY <1>2, <2>1 DEF Ascending
  <2>3. \A i \in DOMAIN Tail(seq) : Head(seq) < Tail(seq)[i]
    <3>1. 1 \in DOMAIN seq /\ Head(seq) = seq[1]
      OBVIOUS
    <3>. QED
      BY <1>2, <2>1, <3>1 DEF Ascending
  <2>. QED
    BY <2>2, <2>3 DEF Holds
<1>. QED
  BY <1>1, <1>2

Posted == 1..(nextTask - 1)

\* After the destructor nothing is queued and no poll runs.
Frozen ==
  /\ ~accepting => queue = <<>> /\ depth = 0 /\ runPc = "out"
  /\ accepting => dropped = {}

\* Only frames in progress, and only before their timers, hold tasks.
Drained ==
  \A d \in Depths : /\ phase[d] # "tasks" => batch[d] = <<>>
                    /\ d > depth => phase[d] = "tasks" /\ batch[d] = <<>>

QueueNewest ==
  /\ Ascending(queue)
  /\ \A t : Holds(queue, t) =>
       /\ t \in Posted
       /\ \A s \in ran : s < t
       /\ \A d \in Depths : \A s : Holds(batch[d], s) => s < t

BatchesOrdered ==
  /\ \A d \in Depths : Ascending(batch[d])
  /\ \A d \in Depths : \A t : Holds(batch[d], t) => t \in Posted \ ran
  /\ \A d, e \in Depths : \A s, t :
       d < e /\ Holds(batch[d], s) /\ Holds(batch[e], t) => s < t

\* Only posted tasks are run or dropped.
Known ==
  /\ ran \subseteq Posted
  /\ dropped \subseteq Posted

\* No accepted task is ever lost track of.
Accounted ==
  \A t \in Posted :
    \/ t \in ran \cup dropped
    \/ Holds(queue, t)
    \/ \E d \in Depths : Holds(batch[d], t)

TaskInv ==
  Frozen /\ Drained /\ QueueNewest /\ BatchesOrdered /\ Known
    /\ Accounted

\* An empty queue holds nothing and is in order.
LEMMA EmptyHolds == Ascending(<<>>) /\ \A t : ~Holds(<<>>, t)
  BY DEF Ascending, Holds

\* The invariant of the tasks holds before any was posted.
LEMMA TaskInvInit == Init => TaskInv
<1>. SUFFICES ASSUME Init PROVE TaskInv
  OBVIOUS
<1>. /\ queue = <<>> /\ accepting = TRUE /\ depth = 0 /\ dropped = {} /\ ran = {}
     /\ nextTask = 1 /\ batch = [d \in Depths |-> <<>>]
  BY DEF Init
<1>1. Posted = {}
  BY DEF Posted
<1>2. \A d \in Depths : batch[d] = <<>> /\ phase[d] = "tasks"
  BY DEF Init
<1>3. Frozen /\ Drained
  BY <1>2 DEF Frozen, Drained
<1>4. QueueNewest
  BY EmptyHolds DEF QueueNewest
<1>5. BatchesOrdered
  BY <1>2, EmptyHolds DEF BatchesOrdered
<1>6. Known /\ Accounted
  BY <1>1 DEF Known, Accounted
<1>. QED
  BY <1>3, <1>4, <1>5, <1>6 DEF TaskInv

\* The new task is newer than every other.
LEMMA PushStep ==
  ASSUME TypeOK, TaskInv, Push, accepting,
         UNCHANGED <<accepting, depth, phase, batch, ran, dropped, runPc>>
  PROVE  TaskInv'
<1>. USE DEF TaskInv
<1>1. queue \in Seq(Nat) /\ nextTask \in Nat \ {0} /\ ran \subseteq Nat
  BY BoundAssumption DEF TypeOK, QueueType, Tasks
<1>2. /\ Posted' = Posted \cup {nextTask}
      /\ \A s \in Posted : s < nextTask
      /\ nextTask \in Posted'
  BY <1>1 DEF Posted, Push
<1>3. \A t : Holds(queue', t) <=> (t = nextTask \/ Holds(queue, t))
  BY <1>1, AppendHolds DEF Push
<1>4. Ascending(queue')
  <2>1. \A t : Holds(queue, t) => t < nextTask
    BY <1>2 DEF QueueNewest
  <2>. QED
    BY <1>1, <2>1, AppendHolds DEF Push, QueueNewest
<1>5. Frozen'
  BY DEF Frozen
<1>6. Drained'
  BY DEF Drained
<1>7. QueueNewest'
  <2>1. /\ \A s \in ran : s < nextTask
        /\ \A d \in Depths : \A s : Holds(batch[d], s) => s < nextTask
    BY <1>2 DEF Known, BatchesOrdered
  <2>. QED
    BY <1>2, <1>3, <1>4, <2>1 DEF QueueNewest
<1>8. BatchesOrdered'
  BY <1>2 DEF BatchesOrdered
<1>9. Known'
  BY <1>2 DEF Known
<1>10. Accounted'
  BY <1>2, <1>3 DEF Accounted
<1>. QED
  BY <1>5, <1>6, <1>7, <1>8, <1>9, <1>10

\* The queue becomes the batch of a frame that was empty.
LEMMA EnterStep ==
  ASSUME TypeOK, TaskInv, EnterPoll, accepting,
         UNCHANGED <<accepting, nextTask, ran, dropped>>
  PROVE  TaskInv'
<1>. USE DEF TaskInv
<1>. DEFINE inner == depth + 1
<1>1. inner \in Depths /\ depth \in Nat
  BY Deeper DEF EnterPoll, TypeOK, FrameType
<1>2. /\ \A d \in Depths : batch'[d] = IF d = inner THEN queue ELSE batch[d]
      /\ queue' = <<>> /\ depth' = inner /\ phase' = phase
      /\ Posted' = Posted
  BY <1>1 DEF EnterPoll, TypeOK, FrameType, Posted
<1>3. \A d \in Depths : d >= inner => batch[d] = <<>>
  BY <1>1 DEF Drained, Depths
<1>4. Frozen'
  BY DEF Frozen
<1>5. Drained'
  <2>1. phase[inner] = "tasks"
    BY <1>1 DEF Drained, Depths
  <2>. QED
    BY <1>1, <1>2, <1>3, <2>1 DEF Drained, Depths
<1>6. QueueNewest'
  BY <1>2, EmptyHolds DEF QueueNewest
<1>7. BatchesOrdered'
  <2>1. \A d \in Depths : Ascending(batch'[d])
    BY <1>2 DEF BatchesOrdered, QueueNewest
  <2>2. \A d \in Depths : \A t : Holds(batch'[d], t) => t \in Posted \ ran
    <3>1. \A t : Holds(queue, t) => t \in Posted \ ran
      BY DEF QueueNewest, Posted
    <3>. QED
      BY <1>2, <3>1 DEF BatchesOrdered
  <2>3. ASSUME NEW d \in Depths, NEW e \in Depths, NEW x, NEW y,
               d < e, Holds(batch'[d], x), Holds(batch'[e], y)
        PROVE  x < y
    <3>1. CASE e = inner
      BY <1>1, <1>2, <2>3, <3>1 DEF QueueNewest, Depths
    <3>2. CASE e # inner /\ d # inner
      BY <1>2, <2>3, <3>2 DEF BatchesOrdered
    <3>3. CASE e # inner /\ d = inner
      BY <1>1, <1>2, <1>3, <2>3, <3>3, EmptyHolds DEF Depths
    <3>. QED
      BY <3>1, <3>2, <3>3
  <2>. QED
    BY <1>2, <2>1, <2>2, <2>3 DEF BatchesOrdered
<1>8. Known'
  BY <1>2 DEF Known
<1>9. Accounted'
  BY <1>1, <1>2, <1>3, EmptyHolds DEF Accounted
<1>. QED
  BY <1>4, <1>5, <1>6, <1>7, <1>8, <1>9

\* Every step preserves the invariant of the tasks.
LEMMA TaskInvStep == TypeOK /\ TaskInv /\ [Next]_vars => TaskInv'
<1>. SUFFICES ASSUME TypeOK, TaskInv, [Next]_vars PROVE TaskInv'
  OBVIOUS
<1>. USE DEF loopVars, frames, runVars, history
<1>0. /\ Frozen /\ Drained /\ QueueNewest /\ BatchesOrdered /\ Known
      /\ Accounted
  BY DEF TaskInv
<1>1. ASSUME Post
      PROVE  TaskInv'
  BY <1>1, PushStep DEF Post
<1>2. ASSUME NEW w \in Workers, WorkerPost(w)
      PROVE  TaskInv'
  BY <1>2, PushStep DEF WorkerPost
<1>3. ASSUME NEW w \in Workers, PosterPost(w)
      PROVE  TaskInv'
  BY <1>3, PushStep DEF PosterPost
<1>4. ASSUME Poll
      PROVE  TaskInv'
  BY <1>4, EnterStep DEF Poll
<1>5. ASSUME RunTask
      PROVE  TaskInv'
  <2>. DEFINE t == Head(batch[depth])
  <2>1. depth \in Depths /\ phase[depth] = "tasks"
    BY <1>5, Innermost DEF RunTask, Polling
  <2>2. batch[depth] \in Seq(Nat) /\ batch[depth] # <<>> /\ batch \in [Depths -> Seq(Tasks)]
    <3>1. batch[depth] # <<>> /\ batch \in [Depths -> Seq(Tasks)]
      BY <1>5 DEF RunTask, TypeOK, FrameType
    <3>2. batch[depth] \in Seq(Tasks)
      BY <2>1, <3>1
    <3>3. batch[depth] \in Seq(Nat)
      BY <3>2, BoundAssumption DEF Tasks
    <3>. QED
      BY <3>1, <3>3
  <2>3. /\ batch' = [batch EXCEPT ![depth] = Tail(batch[depth])]
        /\ ran' = ran \cup {t}
        /\ UNCHANGED <<queue, accepting, depth, phase, runPc, nextTask, dropped>>
    BY <1>5 DEF RunTask
  <2>. HIDE DEF t
  <2>4. /\ \A x : Holds(batch[depth], x) <=> (x = t \/ Holds(batch'[depth], x))
        /\ Ascending(batch'[depth])
        /\ \A x : Holds(batch'[depth], x) => t < x
    BY <1>0, <2>1, <2>2, <2>3, TailHolds DEF BatchesOrdered, t
  <2>5. \A d \in Depths : d # depth => batch'[d] = batch[d]
    BY <2>3, <2>2
  <2>6. t \in Posted \ ran /\ Posted' = Posted
    BY <1>0, <2>1, <2>3, <2>4 DEF BatchesOrdered, Posted
  <2>7. accepting /\ dropped = {}
    BY <1>0, <2>1 DEF Frozen, Depths
  <2>8. Frozen'
    BY <1>0, <2>3 DEF Frozen
  <2>9. Drained'
    BY <1>0, <2>1, <2>3, <2>5 DEF Drained, TypeOK, FrameType, Depths
  <2>10. QueueNewest'
    BY <1>0, <2>1, <2>3, <2>4, <2>5, <2>6 DEF QueueNewest
  <2>11. BatchesOrdered'
    <3>1. \A d \in Depths : Ascending(batch'[d])
      BY <1>0, <2>4, <2>5 DEF BatchesOrdered
    <3>2. \A d \in Depths : \A x : Holds(batch'[d], x) => Holds(batch[d], x)
      BY <2>4, <2>5
    <3>3. \A d \in Depths : ~Holds(batch'[d], t)
      <4>1. ~Holds(batch'[depth], t)
        BY <2>4, <2>6 DEF Posted
      <4>2. t \in Nat /\ Holds(batch[depth], t)
        BY <2>4, <2>6 DEF Posted
      <4>3. ASSUME NEW d \in Depths, d # depth PROVE ~Holds(batch[d], t)
        <5>1. depth \in Nat /\ d \in Nat
          BY <2>1 DEF Depths
        <5>2. CASE d < depth
          BY <1>0, <2>1, <4>2, <5>2 DEF BatchesOrdered
        <5>3. CASE depth < d
          BY <1>0, <2>1, <4>2, <5>3 DEF BatchesOrdered
        <5>. QED
          BY <4>3, <5>1, <5>2, <5>3
      <4>. QED
        BY <2>5, <4>1, <4>3
    <3>. QED
      BY <1>0, <2>3, <2>6, <3>1, <3>2, <3>3 DEF BatchesOrdered
  <2>12. Known'
    BY <1>0, <2>3, <2>6, <2>7 DEF Known
  <2>13. Accounted'
    BY <1>0, <2>1, <2>3, <2>4, <2>5, <2>6 DEF Accounted
  <2>. QED
    BY <2>8, <2>9, <2>10, <2>11, <2>12, <2>13 DEF TaskInv
<1>6. ASSUME CollectDue
      PROVE  TaskInv'
  <2>1. depth \in Depths /\ batch[depth] = <<>>
    BY <1>6, Innermost DEF CollectDue, Polling
  <2>2. Drained'
    BY <1>6, <1>0, <2>1 DEF Drained, CollectDue, Polling, TypeOK, FrameType, Depths
  <2>. QED
    BY <1>6, <1>0, <2>2 DEF TaskInv, CollectDue, Frozen, QueueNewest, BatchesOrdered,
       Known, Accounted, Posted
<1>7. ASSUME EndTimers
      PROVE  TaskInv'
  <2>1. depth \in Depths /\ phase[depth] = "timers" /\ batch[depth] = <<>>
    BY <1>7, <1>0, Innermost DEF EndTimers, Polling, Drained
  <2>3. Drained'
    <3>1. depth \in Nat /\ batch' = batch /\ phase \in [Depths -> {"tasks", "timers", "idles"}]
      BY <1>7, <2>1 DEF EndTimers, TypeOK, FrameType, Depths
    <3>2. CASE didWork[depth]
      <4>1. depth' = depth - 1 /\ phase' = [phase EXCEPT ![depth] = "tasks"]
        BY <1>7, <3>2 DEF EndTimers, LeavePoll
      <4>. QED
        BY <1>0, <2>1, <3>1, <4>1 DEF Drained, Depths
    <3>3. CASE ~didWork[depth]
      <4>1. depth' = depth /\ phase' = [phase EXCEPT ![depth] = "idles"]
        BY <1>7, <3>3 DEF EndTimers
      <4>. QED
        BY <1>0, <2>1, <3>1, <4>1 DEF Drained, Depths
    <3>. QED
      BY <3>2, <3>3
  <2>4. accepting
    BY <1>0, <2>1 DEF Frozen, Depths
  <2>. QED
    BY <1>7, <1>0, <2>3, <2>4 DEF TaskInv, Frozen, QueueNewest, BatchesOrdered,
       Known, Accounted, Posted, EndTimers
<1>8. ASSUME EndIdles
      PROVE  TaskInv'
  <2>1. depth \in Depths /\ phase[depth] = "idles" /\ batch[depth] = <<>>
    BY <1>8, <1>0, Innermost DEF EndIdles, LeavePoll, Polling, Drained
  <2>3. Drained'
    BY <1>8, <1>0, <2>1 DEF Drained, EndIdles, LeavePoll, LeavePoll, TypeOK, FrameType, Depths
  <2>4. accepting
    BY <1>0, <2>1 DEF Frozen, Depths
  <2>. QED
    BY <1>8, <1>0, <2>3, <2>4 DEF TaskInv, Frozen, QueueNewest, BatchesOrdered,
       Known, Accounted, Posted, EndIdles, LeavePoll
<1>9. ASSUME RunBegin
      PROVE  TaskInv'
  BY <1>9, <1>0 DEF TaskInv, RunBegin, Frozen, Drained, QueueNewest, BatchesOrdered,
     Known, Accounted, Posted
<1>10. ASSUME RunPoll
      PROVE  TaskInv'
  <2>1. accepting
    BY <1>10, <1>0 DEF RunPoll, Frozen
  <2>. QED
    BY <1>10, <2>1, EnterStep DEF RunPoll
<1>11. ASSUME RunRecheck
      PROVE  TaskInv'
  BY <1>11, <1>0 DEF TaskInv, RunRecheck, Frozen, Drained, QueueNewest, BatchesOrdered,
     Known, Accounted, Posted
<1>12. ASSUME RunReturn
      PROVE  TaskInv'
  BY <1>12, <1>0 DEF TaskInv, RunReturn, Frozen, Drained, QueueNewest, BatchesOrdered,
     Known, Accounted, Posted
<1>13. ASSUME RunLock
      PROVE  TaskInv'
  BY <1>13, <1>0 DEF TaskInv, RunLock, Frozen, Drained, QueueNewest, BatchesOrdered,
     Known, Accounted, Posted
<1>14. ASSUME WaitDone
      PROVE  TaskInv'
  BY <1>14, <1>0 DEF TaskInv, WaitDone, Frozen, Drained, QueueNewest, BatchesOrdered,
     Known, Accounted, Posted
<1>15. ASSUME Destroy
      PROVE  TaskInv'
  <2>1. \A t : t \in dropped' <=> Holds(queue, t)
    BY <1>15 DEF Destroy, Holds
  <2>2. /\ queue' = <<>> /\ accepting' = FALSE /\ depth = 0 /\ runPc = "out"
        /\ accepting /\ dropped = {}
        /\ UNCHANGED <<depth, phase, batch, runPc, nextTask, ran>>
    BY <1>15, <1>0 DEF Destroy, Frozen
  <2>3. Posted' = Posted
    BY <2>2 DEF Posted
  <2>4. Frozen' /\ Drained'
    BY <1>0, <2>2 DEF Frozen, Drained
  <2>5. QueueNewest' /\ BatchesOrdered'
    BY <1>0, <2>2, <2>3, EmptyHolds DEF QueueNewest, BatchesOrdered
  <2>6. Known'
    BY <1>0, <2>1, <2>2, <2>3 DEF QueueNewest, Known
  <2>7. Accounted'
    BY <1>0, <2>1, <2>2, <2>3 DEF Accounted
  <2>. QED
    BY <2>4, <2>5, <2>6, <2>7 DEF TaskInv
<1>16. ASSUME \/ \E w \in Workers : Notify(w)
              \/ Quit
              \/ \E w \in Workers : WorkerQuit(w)
              \/ \E delay \in Delays : SetTimeout(delay)
              \/ \E interval \in Intervals : SetInterval(interval)
              \/ AddIdle
              \/ \E h \in Handles : Cancel(h)
              \/ SkipTimer
              \/ FireTimer
              \/ Return
              \/ ReturnTimer
              \/ SkipIdle
              \/ RunIdle
              \/ WaitAgain
              \/ SpuriousWake
              \/ Tick
              \/ UNCHANGED vars
      PROVE  TaskInv'
  <2>1. UNCHANGED <<queue, accepting, depth, phase, batch, runPc, nextTask, ran,
                  dropped>>
    BY <1>16 DEF
       Notify, Quit, WorkerQuit, SetTimeout, SetInterval, AddIdle, Cancel,
       SkipTimer, FireTimer, Return, ReturnTimer, SkipIdle, RunIdle,
       WaitAgain, SpuriousWake, Tick, NewHandle, vars
  <2>. QED
    BY <2>1,
       <1>0 DEF TaskInv, Frozen, Drained, QueueNewest, BatchesOrdered,
       Known, Accounted, Posted
<1>. QED
  BY <1>1, <1>2, <1>3, <1>4, <1>5, <1>6, <1>7, <1>8, <1>9, <1>10, <1>11,
     <1>12, <1>13, <1>14, <1>15, <1>16 DEF Next, UserStep, PollStep, RunStep, WorkerStep

\* So it holds in every reachable state, together with the types.
LEMMA TaskInvariant == Spec => [](TypeOK /\ TaskInv)
<1>1. Init => TypeOK /\ TaskInv
  BY TypeInit, TaskInvInit
<1>2. TypeOK /\ TaskInv /\ [Next]_vars => (TypeOK /\ TaskInv)'
  BY QueueTypeStep, TimerTypeStep, FrameTypeStep, RunTypeStep, FlagTypeStep,
     TaskInvStep DEF TypeOK
<1>. QED
  BY <1>1, <1>2, PTL DEF Spec

\* Tasks are started by RunTask and nowhere else.
LEMMA OnlyRunTaskStarts == [Next]_vars => RunTask \/ UNCHANGED ran
  BY DEF Next, UserStep, PollStep, RunStep, WorkerStep,
     Post, WorkerPost, PosterPost, Notify, Quit, WorkerQuit, SetTimeout,
     SetInterval, AddIdle, Cancel, Poll, CollectDue, SkipTimer, FireTimer,
     Return, ReturnTimer, EndTimers, SkipIdle, RunIdle, EndIdles, RunBegin,
     RunPoll, RunRecheck, RunReturn, RunLock, WaitDone, WaitAgain, SpuriousWake,
     Tick, Destroy, EnterPoll, LeavePoll, NewHandle, Push,
     vars, loopVars, frames, runVars, history

\* A task starts before an older one only while an outer frame holds the older.
LEMMA StartsInOrder ==
  ASSUME TypeOK, TaskInv, RunTask,
         NEW t \in ran' \ ran, NEW s \in 1..(t - 1), s \notin ran
  PROVE  \E d \in 1..(depth - 1) : Holds(batch[d], s)
<1>1. /\ depth \in Depths
      /\ batch[depth] \in Seq(Tasks) /\ batch[depth] # <<>>
      /\ t = Head(batch[depth])
  BY Innermost DEF RunTask, Polling
<1>2. Holds(batch[depth], t) /\ \A i \in DOMAIN batch[depth] : ~(batch[depth][i] < t)
  <2>1. 1 \in DOMAIN batch[depth] /\ batch[depth][1] = t
    BY <1>1
  <2>2. DOMAIN batch[depth] \subseteq Nat \ {0}
    BY <1>1
  <2>3. \A i \in DOMAIN batch[depth] : batch[depth][i] \in Nat
    <3>1. \A i \in DOMAIN batch[depth] : batch[depth][i] \in Tasks
      BY <1>1
    <3>2. Tasks \subseteq Nat
      BY BoundAssumption DEF Tasks
    <3>. QED
      BY <3>1, <3>2
  <2>4. Ascending(batch[depth])
    BY <1>1 DEF TaskInv, BatchesOrdered
  <2>. QED
    BY <2>1, <2>2, <2>3, <2>4 DEF Ascending, Holds
<1>3. t \in Posted /\ s \in Posted /\ s < t
  BY <1>1, <1>2 DEF TaskInv, BatchesOrdered, Posted, TypeOK, QueueType
<1>4. s \notin dropped
  BY <1>1 DEF TaskInv, Frozen, Depths, TypeOK, FlagType
<1>5. ~Holds(queue, s)
  <2>. SUFFICES ASSUME Holds(queue, s) PROVE t < s
    BY <1>3 DEF Posted
  <2>. QED
    BY <1>1, <1>2 DEF TaskInv, QueueNewest
<1>6. PICK d \in Depths : Holds(batch[d], s)
  BY <1>3, <1>4, <1>5 DEF TaskInv, Accounted
<1>7. d # depth
  BY <1>2, <1>3, <1>6 DEF Holds
<1>8. d \in 1..depth
  BY <1>6, EmptyHolds DEF TaskInv, Drained, Depths, TypeOK, FrameType
<1>. QED
  BY <1>1, <1>6, <1>7, <1>8 DEF Depths

(***************************************************************************)
(* Tasks are started in posting order, nested polls apart.                  *)
(***************************************************************************)
THEOREM PostingOrder == Spec => OvertakenOnlyByNestedPoll
<1>1. TypeOK /\ TaskInv /\ [Next]_vars =>
        [\A t \in ran' \ ran : \A s \in 1..(t - 1) :
           s \in ran \/ \E d \in 1..(depth - 1) : Holds(batch[d], s)]_vars
  BY OnlyRunTaskStarts, StartsInOrder
<1>. QED
  BY <1>1, TaskInvariant, PTL DEF Spec, OvertakenOnlyByNestedPoll

(***************************************************************************)
(* The loop implements the executor: posting accepts, starting a task       *)
(* executes, the destructor closes, and no other step is seen.              *)
(***************************************************************************)
LEMMA PushAccepts ==
  ASSUME TypeOK, TaskInv, Push, accepting, UNCHANGED <<accepting, ran, dropped>>
  PROVE  Executor!Next
<1>1. nextTask \in Tasks /\ nextTask \in Nat /\ nextTask' = nextTask + 1
  BY BoundAssumption DEF Push, TypeOK, QueueType, Tasks
<1>2. /\ nextTask \notin 1..(nextTask - 1)
      /\ 1..(nextTask' - 1) = 1..(nextTask - 1) \cup {nextTask}
  BY <1>1 DEF Tasks
<1>3. Executor!Accept(nextTask)
  BY <1>2 DEF Executor!Accept
<1>. QED
  BY <1>1, <1>3 DEF Executor!Next

\* Every step of the loop is a step of the abstract executor or leaves it alone.
LEMMA ExecutorStep ==
  TypeOK /\ TaskInv /\ [Next]_vars => [Executor!Next]_(Executor!vars)
<1>. SUFFICES ASSUME TypeOK, TaskInv, [Next]_vars
              PROVE  [Executor!Next]_(Executor!vars)
  OBVIOUS
<1>. USE DEF loopVars, frames, runVars, history
<1>1. ASSUME Post
      PROVE  [Executor!Next]_(Executor!vars)
  BY <1>1, PushAccepts DEF Post
<1>2. ASSUME NEW w \in Workers, WorkerPost(w)
      PROVE  [Executor!Next]_(Executor!vars)
  BY <1>2, PushAccepts DEF WorkerPost
<1>3. ASSUME NEW w \in Workers, PosterPost(w)
      PROVE  [Executor!Next]_(Executor!vars)
  BY <1>3, PushAccepts DEF PosterPost
<1>4. ASSUME RunTask
      PROVE  [Executor!Next]_(Executor!vars)
  <2>. DEFINE t == Head(batch[depth])
  <2>1. /\ depth \in Depths
        /\ batch[depth] # <<>>
        /\ ran' = ran \cup {t}
        /\ UNCHANGED <<accepting, nextTask, dropped>>
    BY <1>4, Innermost DEF RunTask, Polling
  <2>2. Holds(batch[depth], t)
    <3>1. batch[depth] \in Seq(Tasks)
      BY <2>1 DEF TypeOK, FrameType
    <3>. QED
      BY <2>1, <3>1 DEF Holds
  <2>. HIDE DEF t
  <2>3. t \in Posted \ ran
    BY <2>1, <2>2 DEF TaskInv, BatchesOrdered
  <2>4. dropped = {}
    BY <2>1 DEF TaskInv, Frozen, Depths, TypeOK, FlagType
  <2>5. Executor!Execute(t)
    BY <2>1, <2>3, <2>4 DEF Executor!Execute, Posted
  <2>. QED
    BY <2>3, <2>5 DEF Executor!Next, Posted
<1>5. ASSUME Destroy
      PROVE  [Executor!Next]_(Executor!vars)
  <2>1. /\ accepting /\ accepting' = FALSE /\ depth = 0
        /\ dropped' = {queue[i] : i \in DOMAIN queue}
        /\ UNCHANGED <<nextTask, ran>>
    BY <1>5 DEF Destroy
  <2>2. \A t : t \in dropped' <=> Holds(queue, t)
    BY <2>1 DEF Holds
  <2>3. dropped = {} /\ \A d \in Depths : batch[d] = <<>>
    BY <2>1 DEF TaskInv, Frozen, Drained, Depths
  <2>4. \A t : t \in Posted \ ran => Holds(queue, t)
    BY <2>3, EmptyHolds DEF TaskInv, Accounted
  <2>5. \A t : Holds(queue, t) => t \in Posted \ ran
    BY DEF TaskInv, QueueNewest, Posted
  <2>6. dropped' = Posted \ ran
    BY <2>2, <2>4, <2>5
  <2>7. Executor!Close
    BY <2>1, <2>6 DEF Executor!Close, Posted
  <2>. QED
    BY <2>7 DEF Executor!Next
<1>6. ASSUME \/ \E w \in Workers : Notify(w)
             \/ Quit
             \/ \E w \in Workers : WorkerQuit(w)
             \/ \E delay \in Delays : SetTimeout(delay)
             \/ \E interval \in Intervals : SetInterval(interval)
             \/ AddIdle
             \/ \E h \in Handles : Cancel(h)
             \/ Poll
             \/ CollectDue
             \/ SkipTimer
             \/ FireTimer
             \/ Return
             \/ ReturnTimer
             \/ EndTimers
             \/ SkipIdle
             \/ RunIdle
             \/ EndIdles
             \/ RunBegin
             \/ RunPoll
             \/ RunRecheck
             \/ RunReturn
             \/ RunLock
             \/ WaitDone
             \/ WaitAgain
             \/ SpuriousWake
             \/ Tick
             \/ UNCHANGED vars
      PROVE  [Executor!Next]_(Executor!vars)
  <2>1. UNCHANGED <<accepting, nextTask, ran, dropped>>
    BY <1>6 DEF
       Notify, Quit, WorkerQuit, SetTimeout, SetInterval, AddIdle, Cancel,
       Poll, CollectDue, SkipTimer, FireTimer, Return, ReturnTimer, EndTimers,
       SkipIdle, RunIdle, EndIdles, RunBegin, RunPoll, RunRecheck, RunReturn,
       RunLock, WaitDone, WaitAgain, SpuriousWake, Tick, NewHandle, EnterPoll,
       LeavePoll, vars
  <2>. QED
    BY <2>1 DEF Executor!vars
<1>. QED
  BY <1>1, <1>2, <1>3, <1>4, <1>5, <1>6 DEF Next, UserStep, PollStep, RunStep, WorkerStep

\* An accepted task is executed at most once and dropped only by the destructor:
\* the specification of the loop implies that of the executor.
THEOREM LoopImplementsExecutor == Spec => ImplementsExecutor
<1>1. Init => Executor!Init
  <2>. SUFFICES ASSUME Init PROVE Executor!Init
    OBVIOUS
  <2>1. 1..(nextTask - 1) = {}
    BY DEF Init
  <2>. QED
    BY <2>1 DEF Init, Executor!Init
<1>2. TypeOK /\ TaskInv /\ [Next]_vars => [Executor!Next]_(Executor!vars)
  BY ExecutorStep
<1>. QED
  BY <1>1, <1>2, TaskInvariant, PTL DEF Spec, ImplementsExecutor, Executor!Spec

=============================================================================
