------------------------ MODULE EventLoopNestingProofs ------------------------
(***************************************************************************)
(* Theorems about the callbacks that nested polls of EventLoop have on the  *)
(* stack, for every depth of nesting: none is ever started inside itself,   *)
(* and an interval timer is not lost to the polls nested in its callback.   *)
(***************************************************************************)
EXTENDS EventLoopProofs

\* Frames yet to be entered are in no callback; only a frame that walks its
\* timers holds a snapshot.
Beyond ==
  \A d \in Depths : /\ d > depth => call[d].kind = "none" /\ due[d] = {}
                    /\ phase[d] # "timers" => due[d] = {}

\* A callback on the stack is out of reach of another start: a task was run,
\* an idle is in no list, a timer is fenced and in no snapshot of a deeper poll.
TasksStarted == \A d \in Depths : call[d].kind = "task" => call[d].id \in ran

IdlesTaken ==
  \A d \in Depths : call[d].kind = "idle" =>
    /\ call[d].id \in Issued \ DOMAIN idles
    /\ \A e \in Depths : call[d].id \notin DOMAIN moved[e]

TimersFenced ==
  \A d \in Depths : call[d].kind = "timer" =>
    /\ call[d].id \in Issued
    /\ call[d].id \in DOMAIN timers =>
         timers[call[d].id].cancelled \/ timers[call[d].id].fireAt = Never
    /\ \A e \in Depths : d < e => call[d].id \notin due[e]

\* An idle is in one list only.
MovedOnce ==
  \A d \in Depths : /\ DOMAIN moved[d] \cap DOMAIN idles = {}
                    /\ \A e \in Depths \ {d} : DOMAIN moved[d] \cap DOMAIN moved[e] = {}

SameCall(c, other) == c.kind = other.kind /\ c.id = other.id

CallsDiffer ==
  \A d, e \in Depths : d < e /\ call[d].kind # "none" => ~SameCall(call[d], call[e])

CallInv ==
  Beyond /\ TasksStarted /\ IdlesTaken /\ TimersFenced /\ MovedOnce /\ CallsDiffer

\* A call is known by its kind and its number.
LEMMA CallShape ==
  ASSUME NEW c \in Calls
  PROVE  /\ c.kind \in {"none", "task", "timer", "idle"}
         /\ c.kind = "none" <=> c = NoCall
         /\ c.kind = "timer" => c = [kind |-> "timer", id |-> c.id]
         /\ c.kind \in {"timer", "idle"} => c.id \in Handles
  BY DEF Calls, NoCall

LEMMA CallInvInit == Init => CallInv
<1> SUFFICES ASSUME Init PROVE CallInv
  OBVIOUS
<1>1. \A d \in Depths : /\ call[d].kind = "none" /\ due[d] = {}
                        /\ DOMAIN moved[d] = {}
  BY DEF Init, NoCall
<1> QED
  BY <1>1 DEF CallInv, Beyond, TasksStarted, IdlesTaken, TimersFenced, MovedOnce,
     CallsDiffer

\* Steps that change no call and no list of timers or idles.
LEMMA CallInvEnter ==
  ASSUME TypeOK, TaskInv, CallInv, EnterPoll,
         UNCHANGED <<timers, idles, nextHandle, ran>>
  PROVE  CallInv'
<1>1. depth' = depth + 1 /\ depth \in Nat /\ UNCHANGED <<phase, due, moved, call>>
  BY DEF EnterPoll, TypeOK, FrameType
<1>2. Beyond'
  BY <1>1 DEF CallInv, Beyond, Depths
<1> QED
  BY <1>1, <1>2 DEF CallInv, TasksStarted, IdlesTaken, TimersFenced, MovedOnce,
     CallsDiffer, Issued

\* A timer or an idle is made with a handle that was never given out.
LEMMA CallInvMake ==
  ASSUME TypeOK, CallInv, NewHandle,
         UNCHANGED <<depth, phase, due, moved, call, ran>>,
         DOMAIN timers' \subseteq DOMAIN timers \cup {nextHandle},
         DOMAIN idles' \subseteq DOMAIN idles \cup {nextHandle},
         \A h \in DOMAIN timers : h # nextHandle => timers'[h] = timers[h]
  PROVE  CallInv'
<1>1. /\ nextHandle \notin Issued /\ Issued \subseteq Issued'
      /\ \A d \in Depths : DOMAIN moved[d] \subseteq Issued
  BY DEF NewHandle, TypeOK, TimerType, Issued
<1>2. Beyond' /\ TasksStarted' /\ CallsDiffer'
  BY DEF CallInv, Beyond, TasksStarted, CallsDiffer
<1>3. IdlesTaken' /\ MovedOnce'
  BY <1>1 DEF CallInv, IdlesTaken, MovedOnce
<1>4. TimersFenced'
  BY <1>1 DEF CallInv, TimersFenced
<1> QED
  BY <1>2, <1>3, <1>4 DEF CallInv

LEMMA CallInvCancel ==
  ASSUME TypeOK, CallInv, NEW h \in Handles, Cancel(h)
  PROVE  CallInv'
<1>1. /\ UNCHANGED <<depth, phase, due, moved, call, ran, nextHandle>>
      /\ DOMAIN timers' = DOMAIN timers /\ DOMAIN idles' = DOMAIN idles
  BY DEF Cancel, frames
<1>2. \A k \in DOMAIN timers : /\ timers'[k].fireAt = timers[k].fireAt
                               /\ timers[k].cancelled => timers'[k].cancelled
  BY DEF Cancel, TypeOK, TimerType, Timers
<1>3. TimersFenced'
  BY <1>1, <1>2 DEF CallInv, TimersFenced, Issued
<1> QED
  BY <1>1, <1>3 DEF CallInv, Beyond, TasksStarted, IdlesTaken, MovedOnce, CallsDiffer,
     Issued

\* The innermost frame starts a callback: no frame around it is inside the same one,
\* and no frame is inside it.
LEMMA StartDiffers ==
  ASSUME TypeOK, CallInv, depth \in Depths, NEW c, call' = [call EXCEPT ![depth] = c],
         \A d \in Depths : d < depth => ~SameCall(call[d], c)
  PROVE  CallsDiffer'
<1>1. /\ call'[depth] = c /\ \A d \in Depths : d # depth => call'[d] = call[d]
      /\ \A d \in Depths : d > depth => call'[d].kind = "none"
      /\ Depths \subseteq Nat
  BY DEF TypeOK, FrameType, CallInv, Beyond, Depths
<1>2. ASSUME NEW d \in Depths, NEW e \in Depths, d < e, call'[d].kind # "none"
      PROVE  ~SameCall(call'[d], call'[e])
  <2>1. CASE e = depth
    BY <1>1, <1>2, <2>1
  <2>2. CASE e > depth
    BY <1>1, <1>2, <2>2 DEF SameCall
  <2>3. CASE e < depth
    <3>1. call'[d] = call[d] /\ call'[e] = call[e]
      BY <1>1, <1>2, <2>3
    <3> QED
      BY <1>2, <3>1 DEF CallInv, CallsDiffer
  <2> QED
    BY <1>1, <2>1, <2>2, <2>3
<1> QED
  BY <1>2 DEF CallsDiffer, SameCall

\* A callback returns: there is one call less to differ from.
LEMMA ReturnDiffers ==
  ASSUME TypeOK, CallInv, depth \in Depths, call' = [call EXCEPT ![depth] = NoCall]
  PROVE  CallsDiffer' /\ call'[depth].kind = "none"
         /\ \A d \in Depths : d # depth => call'[d] = call[d]
<1>1. /\ call'[depth] = NoCall /\ NoCall.kind = "none"
      /\ \A d \in Depths : d # depth => call'[d] = call[d]
  BY DEF TypeOK, FrameType, NoCall
<1>2. ASSUME NEW d \in Depths, NEW e \in Depths, d < e, call'[d].kind # "none"
      PROVE  ~SameCall(call'[d], call'[e])
  <2>1. d # depth /\ call'[d] = call[d]
    BY <1>1, <1>2
  <2>2. CASE e = depth
    BY <1>1, <1>2, <2>2 DEF SameCall
  <2>3. CASE e # depth
    BY <1>1, <1>2, <2>1, <2>3 DEF CallInv, CallsDiffer
  <2> QED
    BY <2>2, <2>3
<1> QED
  BY <1>1, <1>2 DEF CallsDiffer, SameCall

LEMMA CallInvRunTask ==
  ASSUME TypeOK, TaskInv, CallInv, RunTask
  PROVE  CallInv'
<1>1. /\ depth \in Depths /\ batch[depth] \in Seq(Tasks) /\ batch[depth] # <<>>
      /\ UNCHANGED <<depth, phase, due, moved, timers, idles, nextHandle>>
  BY Innermost DEF RunTask, Polling, loopVars
<1>2. PICK t : t = Head(batch[depth])
  OBVIOUS
<1>3. call' = [call EXCEPT ![depth] = [kind |-> "task", id |-> t]] /\ ran' = ran \cup {t}
  BY <1>2 DEF RunTask
<1>4. t \notin ran
  <2>1. 1 \in DOMAIN batch[depth] /\ batch[depth][1] = t
    BY <1>1, <1>2
  <2>2. Holds(batch[depth], t)
    BY <2>1 DEF Holds
  <2> QED
    BY <1>1, <2>2 DEF TaskInv, BatchesOrdered
<1>5. /\ call'[depth] = [kind |-> "task", id |-> t]
      /\ \A d \in Depths : d # depth => call'[d] = call[d]
  BY <1>1, <1>3 DEF TypeOK, FrameType
<1>6. CallsDiffer'
  <2>1. \A d \in Depths : ~SameCall(call[d], [kind |-> "task", id |-> t])
    BY <1>4 DEF CallInv, TasksStarted, SameCall
  <2> QED
    BY <1>1, <1>3, <2>1, StartDiffers
<1>7. Beyond' /\ TasksStarted'
  BY <1>1, <1>3, <1>5 DEF CallInv, Beyond, TasksStarted, Depths
<1>8. IdlesTaken' /\ TimersFenced' /\ MovedOnce'
  BY <1>1, <1>5 DEF CallInv, IdlesTaken, TimersFenced, MovedOnce, Issued
<1> QED
  BY <1>6, <1>7, <1>8 DEF CallInv

\* A parked, consumed or cancelled timer is in no new snapshot.
LEMMA CallInvCollect ==
  ASSUME TypeOK, CallInv, CollectDue
  PROVE  CallInv'
<1>1. /\ depth \in Depths
      /\ UNCHANGED <<depth, moved, call, timers, idles, nextHandle, ran>>
  BY Innermost DEF CollectDue, Polling, loopVars, history
<1>2. PICK now : now = pollNow[depth]
  OBVIOUS
<1>3. /\ due'[depth] = DueTimers(now) /\ phase'[depth] = "timers"
      /\ \A d \in Depths : d # depth => due'[d] = due[d] /\ phase'[d] = phase[d]
  BY <1>1, <1>2 DEF CollectDue, TypeOK, FrameType
<1>4. Beyond'
  BY <1>1, <1>3 DEF CallInv, Beyond, Depths
<1>5. TimersFenced'
  BY <1>1, <1>3 DEF CallInv, TimersFenced, DueTimers, Issued
<1> QED
  BY <1>1, <1>4, <1>5 DEF CallInv, TasksStarted, IdlesTaken, MovedOnce, CallsDiffer, Issued

LEMMA CallInvSkipTimer ==
  ASSUME TypeOK, CallInv, SkipTimer
  PROVE  CallInv'
<1>1. /\ depth \in Depths /\ depth \in Nat
      /\ UNCHANGED <<depth, phase, moved, call, timers, idles, nextHandle, ran>>
  BY Innermost DEF SkipTimer, Polling, loopVars, history, Depths
<1>2. PICK h : h = Smallest(due[depth])
  OBVIOUS
<1>3. due' = [due EXCEPT ![depth] = @ \ {h}] /\ phase[depth] = "timers"
  BY <1>2 DEF SkipTimer, Polling
<1>4. \A d \in Depths : due'[d] \subseteq due[d]
  BY <1>3 DEF TypeOK, FrameType
<1>5. Beyond'
  BY <1>1, <1>4 DEF CallInv, Beyond
<1>6. TimersFenced'
  BY <1>1, <1>4 DEF CallInv, TimersFenced, Issued
<1> QED
  BY <1>1, <1>5, <1>6 DEF CallInv, TasksStarted, IdlesTaken, MovedOnce, CallsDiffer, Issued

LEMMA CallInvFire ==
  ASSUME TypeOK, CallInv, FireTimer
  PROVE  CallInv'
<1>1. /\ depth \in Depths /\ depth \in Nat
      /\ UNCHANGED <<depth, phase, moved, idles, nextHandle, ran>>
  BY Innermost DEF FireTimer, Polling, Depths
<1>2. PICK h : h = Smallest(due[depth])
  OBVIOUS
<1>3. /\ Live(h) /\ h \in DOMAIN timers /\ timers' = [timers EXCEPT ![h] = Fenced(@)]
      /\ due' = [due EXCEPT ![depth] = @ \ {h}]
      /\ call' = [call EXCEPT ![depth] = [kind |-> "timer", id |-> h]]
      /\ phase[depth] = "timers"
  BY <1>2 DEF FireTimer, Live, Polling
<1>4. h \in due[depth] /\ h \in Issued
  <2>1. due[depth] \subseteq Nat /\ due[depth] # {}
    BY <1>1 DEF FireTimer, TypeOK, FrameType, Handles
  <2>2. h \in due[depth]
    BY <1>2, <2>1, SmallestIsLeast
  <2> QED
    BY <1>3, <2>2 DEF TypeOK, TimerType
<1>5. /\ call'[depth] = [kind |-> "timer", id |-> h]
      /\ \A d \in Depths : d # depth => call'[d] = call[d]
      /\ \A d \in Depths : due'[d] \subseteq due[d]
      /\ \A d \in Depths : d > depth => due'[d] = {}
  BY <1>1, <1>3 DEF TypeOK, FrameType, CallInv, Beyond
<1>6. /\ timers'[h].fireAt = Never /\ DOMAIN timers' = DOMAIN timers
      /\ \A k \in DOMAIN timers : k # h => timers'[k] = timers[k]
  <2>1. timers'[h] = Fenced(timers[h]) /\ timers[h] \in Timers
    BY <1>3 DEF TypeOK, TimerType
  <2> QED
    BY <1>3, <2>1 DEF Fenced, Timers
<1>7. CallsDiffer'
  <2>1. \A d \in Depths : d < depth => ~SameCall(call[d], [kind |-> "timer", id |-> h])
    BY <1>1, <1>4 DEF CallInv, TimersFenced, SameCall
  <2> QED
    BY <1>1, <1>3, <2>1, StartDiffers
<1>8. Beyond'
  BY <1>1, <1>5 DEF CallInv, Beyond
<1>9. TasksStarted' /\ IdlesTaken' /\ MovedOnce'
  <2>1. \A d \in Depths : call'[d].kind \in {"task", "idle"} => call'[d] = call[d]
    BY <1>5
  <2>2. TasksStarted'
    BY <1>1, <2>1 DEF CallInv, TasksStarted
  <2>3. IdlesTaken'
    BY <1>1, <2>1 DEF CallInv, IdlesTaken, Issued
  <2>4. MovedOnce'
    BY <1>1 DEF CallInv, MovedOnce
  <2> QED
    BY <2>2, <2>3, <2>4
<1>10. TimersFenced'
  <2>1. ASSUME NEW d \in Depths, call'[d].kind = "timer"
        PROVE  /\ call'[d].id \in Issued
               /\ call'[d].id \in DOMAIN timers =>
                    timers'[call'[d].id].cancelled \/ timers'[call'[d].id].fireAt = Never
               /\ \A e \in Depths : d < e => call'[d].id \notin due'[e]
    <3>1. CASE d = depth
      BY <1>4, <1>5, <1>6, <3>1
    <3>2. CASE d # depth
      BY <1>5, <1>6, <2>1, <3>2 DEF CallInv, TimersFenced
    <3> QED
      BY <3>1, <3>2
  <2> QED
    BY <1>1, <1>6, <2>1 DEF TimersFenced, Issued
<1> QED
  BY <1>7, <1>8, <1>9, <1>10 DEF CallInv

LEMMA CallInvReturn ==
  ASSUME TypeOK, CallInv, Return
  PROVE  CallInv'
<1>1. /\ depth \in Depths /\ call' = [call EXCEPT ![depth] = NoCall]
      /\ UNCHANGED <<depth, phase, due, moved, timers, idles, nextHandle, ran>>
  BY Innermost DEF Return, loopVars, history
<1>2. /\ CallsDiffer' /\ call'[depth].kind = "none"
      /\ \A d \in Depths : d # depth => call'[d] = call[d]
  BY <1>1, ReturnDiffers
<1>3. Beyond' /\ TasksStarted'
  BY <1>1, <1>2 DEF CallInv, Beyond, TasksStarted
<1>4. IdlesTaken' /\ MovedOnce'
  BY <1>1, <1>2 DEF CallInv, IdlesTaken, MovedOnce, Issued
<1>5. TimersFenced'
  BY <1>1, <1>2 DEF CallInv, TimersFenced, Issued
<1> QED
  BY <1>2, <1>3, <1>4, <1>5 DEF CallInv

\* Only the timer whose callback returns is armed again: no other frame is inside it.
LEMMA CallInvReturnTimer ==
  ASSUME TypeOK, CallInv, ReturnTimer
  PROVE  CallInv'
<1>1. /\ depth \in Depths /\ call' = [call EXCEPT ![depth] = NoCall]
      /\ call[depth].kind = "timer"
      /\ UNCHANGED <<depth, phase, due, moved, idles, nextHandle, ran>>
  BY Innermost DEF ReturnTimer, history
<1>2. /\ CallsDiffer' /\ call'[depth].kind = "none"
      /\ \A d \in Depths : d # depth => call'[d] = call[d]
  BY <1>1, ReturnDiffers
<1>3. PICK h : h = call[depth].id
  OBVIOUS
<1>4. DOMAIN timers' = DOMAIN timers /\ \A k \in DOMAIN timers : k # h => timers'[k] = timers[k]
  BY <1>3 DEF ReturnTimer
<1>5. \A d \in Depths : d # depth /\ call[d].kind = "timer" => call[d].id # h
  <2>1. Depths \subseteq Nat
    BY DEF Depths
  <2> QED
    BY <1>1, <1>3, <2>1 DEF CallInv, CallsDiffer, SameCall
<1>6. Beyond' /\ TasksStarted'
  BY <1>1, <1>2 DEF CallInv, Beyond, TasksStarted
<1>7. IdlesTaken' /\ MovedOnce'
  BY <1>1, <1>2 DEF CallInv, IdlesTaken, MovedOnce, Issued
<1>8. TimersFenced'
  <2>1. ASSUME NEW d \in Depths, call'[d].kind = "timer"
        PROVE  call'[d] = call[d] /\ call[d].kind = "timer" /\ call[d].id # h
    BY <1>2, <1>5, <2>1
  <2> QED
    BY <1>1, <1>4, <2>1 DEF CallInv, TimersFenced, Issued
<1> QED
  BY <1>2, <1>6, <1>7, <1>8 DEF CallInv

\* The purge removes timers, and the idles move from one list to another.
LEMMA CallInvEndTimers ==
  ASSUME TypeOK, TaskInv, CallInv, EndTimers
  PROVE  CallInv'
<1>1. /\ depth \in Depths /\ depth \in Nat /\ due[depth] = {} /\ call[depth] = NoCall
      /\ NoCall.kind = "none"
      /\ UNCHANGED <<due, call, nextHandle, ran>>
  BY Innermost DEF EndTimers, Polling, NoCall, history, Depths
<1>2. /\ DOMAIN timers' \subseteq DOMAIN timers
      /\ \A k \in DOMAIN timers' : timers'[k] = timers[k]
  BY DEF EndTimers, Purged
<1>3. \/ depth' = depth - 1 /\ UNCHANGED <<idles, moved>>
      \/ /\ depth' = depth /\ DOMAIN idles' = {}
         /\ moved' = [moved EXCEPT ![depth] = idles]
  <2>1. DOMAIN [h \in {} |-> FALSE] = {}
    OBVIOUS
  <2> QED
    BY <2>1 DEF EndTimers, LeavePoll
<1>4. \A d \in Depths : d # depth => phase'[d] = phase[d]
  BY DEF EndTimers, LeavePoll, TypeOK, FrameType
<1>5. Beyond'
  BY <1>1, <1>3, <1>4 DEF CallInv, Beyond, Depths
<1>6. TimersFenced'
  BY <1>1, <1>2 DEF CallInv, TimersFenced, Issued
<1>7. TasksStarted' /\ CallsDiffer'
  BY <1>1 DEF CallInv, TasksStarted, CallsDiffer
<1>8. IdlesTaken' /\ MovedOnce'
  <2>1. CASE UNCHANGED <<idles, moved>>
    BY <1>1, <2>1 DEF CallInv, IdlesTaken, MovedOnce, Issued
  <2>2. CASE DOMAIN idles' = {} /\ moved' = [moved EXCEPT ![depth] = idles]
    <3>1. /\ DOMAIN moved'[depth] = DOMAIN idles
          /\ \A d \in Depths : d # depth => DOMAIN moved'[d] = DOMAIN moved[d]
      BY <1>1, <2>2 DEF TypeOK, FrameType
    <3>2. IdlesTaken'
      BY <1>1, <2>2, <3>1 DEF CallInv, IdlesTaken, Issued
    <3>3. MovedOnce'
      BY <2>2, <3>1 DEF CallInv, MovedOnce
    <3> QED
      BY <3>2, <3>3
  <2> QED
    BY <1>3, <2>1, <2>2
<1> QED
  BY <1>5, <1>6, <1>7, <1>8 DEF CallInv

\* An idle leaves the list of its frame, started or not.
LEMMA WithoutIs ==
  ASSUME TypeOK, depth \in Depths, NEW h, moved' = [moved EXCEPT ![depth] = Without(@, h)]
  PROVE  /\ DOMAIN moved'[depth] = DOMAIN moved[depth] \ {h}
         /\ \A d \in Depths : d # depth => moved'[d] = moved[d]
  BY DEF TypeOK, FrameType, Without

LEMMA CallInvSkipIdle ==
  ASSUME TypeOK, CallInv, SkipIdle
  PROVE  CallInv'
<1>1. /\ depth \in Depths
      /\ UNCHANGED <<depth, phase, due, call, timers, idles, nextHandle, ran>>
  BY Innermost DEF SkipIdle, Polling, loopVars, history
<1>2. PICK h : h = Smallest(DOMAIN moved[depth])
  OBVIOUS
<1>3. \A d \in Depths : DOMAIN moved'[d] \subseteq DOMAIN moved[d]
  <2>1. moved' = [moved EXCEPT ![depth] = Without(@, h)]
    BY <1>2 DEF SkipIdle
  <2> QED
    BY <1>1, <2>1, WithoutIs
<1>4. Beyond' /\ TasksStarted' /\ TimersFenced' /\ CallsDiffer'
  BY <1>1 DEF CallInv, Beyond, TasksStarted, TimersFenced, CallsDiffer, Issued
<1>5. IdlesTaken' /\ MovedOnce'
  BY <1>1, <1>3 DEF CallInv, IdlesTaken, MovedOnce, Issued
<1> QED
  BY <1>4, <1>5 DEF CallInv

LEMMA CallInvRunIdle ==
  ASSUME TypeOK, CallInv, RunIdle
  PROVE  CallInv'
<1>1. /\ depth \in Depths
      /\ UNCHANGED <<depth, phase, due, timers, idles, nextHandle, ran>>
  BY Innermost DEF RunIdle, Polling, loopVars, history
<1>2. PICK h : h = Smallest(DOMAIN moved[depth])
  OBVIOUS
<1>3. /\ moved' = [moved EXCEPT ![depth] = Without(@, h)]
      /\ call' = [call EXCEPT ![depth] = [kind |-> "idle", id |-> h]]
  BY <1>2 DEF RunIdle
<1>4. h \in DOMAIN moved[depth] /\ h \in Issued /\ h \notin DOMAIN idles
  <2>1. DOMAIN moved[depth] \subseteq Issued /\ DOMAIN moved[depth] # {} /\ Issued \subseteq Nat
    BY <1>1 DEF RunIdle, TypeOK, TimerType, Issued
  <2>2. h \in DOMAIN moved[depth]
    BY <1>2, <2>1, SmallestIsLeast
  <2> QED
    BY <1>1, <2>1, <2>2 DEF CallInv, MovedOnce
<1>5. /\ DOMAIN moved'[depth] = DOMAIN moved[depth] \ {h}
      /\ \A d \in Depths : d # depth => moved'[d] = moved[d]
  BY <1>1, <1>3, WithoutIs
<1>6. /\ call'[depth] = [kind |-> "idle", id |-> h]
      /\ \A d \in Depths : d # depth => call'[d] = call[d]
  BY <1>1, <1>3 DEF TypeOK, FrameType
<1>7. CallsDiffer'
  <2>1. \A d \in Depths : ~SameCall(call[d], [kind |-> "idle", id |-> h])
    BY <1>1, <1>4 DEF CallInv, IdlesTaken, SameCall
  <2> QED
    BY <1>1, <1>3, <2>1, StartDiffers
<1>8. Beyond'
  BY <1>1, <1>6 DEF CallInv, Beyond, RunIdle, Polling, Depths
<1>9. TasksStarted' /\ TimersFenced'
  <2>1. \A d \in Depths : call'[d].kind \in {"task", "timer"} => call'[d] = call[d]
    BY <1>6
  <2> QED
    BY <1>1, <2>1 DEF CallInv, TasksStarted, TimersFenced, Issued
<1>10. \A e \in Depths : /\ DOMAIN moved'[e] \subseteq DOMAIN moved[e]
                         /\ h \notin DOMAIN moved'[e]
  BY <1>1, <1>4, <1>5 DEF CallInv, MovedOnce
<1>11. MovedOnce'
  BY <1>1, <1>10 DEF CallInv, MovedOnce
<1>12. IdlesTaken'
  <2>1. ASSUME NEW d \in Depths, call'[d].kind = "idle"
        PROVE  /\ call'[d].id \in Issued \ DOMAIN idles
               /\ \A e \in Depths : call'[d].id \notin DOMAIN moved'[e]
    <3>1. CASE d = depth
      BY <1>4, <1>6, <1>10, <3>1
    <3>2. CASE d # depth
      BY <1>6, <1>10, <2>1, <3>2 DEF CallInv, IdlesTaken
    <3> QED
      BY <3>1, <3>2
  <2> QED
    BY <1>1, <2>1 DEF IdlesTaken, Issued
<1> QED
  BY <1>7, <1>8, <1>9, <1>11, <1>12 DEF CallInv

LEMMA CallInvEndIdles ==
  ASSUME TypeOK, CallInv, EndIdles
  PROVE  CallInv'
<1>1. /\ depth \in Depths /\ depth \in Nat /\ depth' = depth - 1
      /\ call[depth].kind = "none" /\ phase[depth] = "idles"
      /\ UNCHANGED <<due, moved, call, timers, idles, nextHandle, ran>>
  BY Innermost DEF EndIdles, LeavePoll, Polling, NoCall, loopVars, history, Depths
<1>2. \A d \in Depths : d # depth => phase'[d] = phase[d]
  BY DEF EndIdles, LeavePoll, TypeOK, FrameType
<1>3. Beyond'
  BY <1>1, <1>2 DEF CallInv, Beyond, Depths
<1> QED
  BY <1>1, <1>3 DEF CallInv, TasksStarted, IdlesTaken, TimersFenced, MovedOnce,
     CallsDiffer, Issued

\* Every step preserves what is known of the callbacks on the stack.
LEMMA CallInvStep == TypeOK /\ TaskInv /\ CallInv /\ [Next]_vars => CallInv'
<1> SUFFICES ASSUME TypeOK, TaskInv, CallInv, [Next]_vars PROVE CallInv'
  OBVIOUS
<1>1. ASSUME Poll \/ RunPoll PROVE CallInv'
  BY <1>1, CallInvEnter DEF Poll, RunPoll, history
<1>2. ASSUME NEW delay \in Delays, SetTimeout(delay) PROVE CallInv'
  BY <1>2, CallInvMake DEF SetTimeout, AddTimer, frames, history
<1>3. ASSUME NEW interval \in Intervals, SetInterval(interval) PROVE CallInv'
  BY <1>3, CallInvMake DEF SetInterval, AddTimer, frames
<1>4. ASSUME AddIdle PROVE CallInv'
  BY <1>4, CallInvMake DEF AddIdle, frames, history
<1>5. ASSUME \/ Post \/ Quit \/ RunBegin \/ Destroy
             \/ \E w \in Workers : WorkerStep(w)
             \/ RunRecheck \/ RunReturn \/ RunLock \/ WaitDone \/ WaitAgain
             \/ SpuriousWake \/ Tick \/ UNCHANGED vars
      PROVE  CallInv'
  <2>1. UNCHANGED <<depth, phase, due, moved, call, timers, idles, nextHandle, ran>>
    BY <1>5 DEF Post, Quit, RunBegin, Destroy, WorkerStep, WorkerPost, PosterPost,
       WorkerQuit, Notify, RunRecheck, RunReturn, RunLock, WaitDone, WaitAgain,
       SpuriousWake, Tick, Push, vars, loopVars, frames, history
  <2> QED
    BY <2>1 DEF CallInv, Beyond, TasksStarted, IdlesTaken, TimersFenced, MovedOnce,
       CallsDiffer, Issued
<1> QED
  BY <1>1, <1>2, <1>3, <1>4, <1>5, CallInvCancel, CallInvRunTask, CallInvCollect,
     CallInvSkipTimer, CallInvFire, CallInvReturn, CallInvReturnTimer, CallInvEndTimers,
     CallInvSkipIdle, CallInvRunIdle, CallInvEndIdles
  DEF Next, UserStep, PollStep, RunStep

LEMMA CallInvariant == Spec => [](TypeOK /\ TaskInv /\ CallInv)
<1>1. Init => CallInv
  BY CallInvInit
<1>2. TypeOK /\ TaskInv /\ CallInv /\ [Next]_vars => CallInv'
  BY CallInvStep
<1> QED
  BY <1>1, <1>2, TaskInvariant, PTL DEF Spec

(***************************************************************************)
(* However deep user code nests polls, and whatever it posts, arms and      *)
(* cancels there, no callback is started inside itself.                     *)
(***************************************************************************)
THEOREM CallbacksAreNotReentered == Spec => []NotReentrant
<1>1. TypeOK /\ CallInv => NotReentrant
  <2> SUFFICES ASSUME TypeOK, CallInv, NEW d \in 1..depth, NEW e \in 1..(d - 1),
                      call[d] # NoCall
               PROVE  call[e] # call[d]
    BY DEF NotReentrant
  <2>1. d \in Depths /\ e \in Depths /\ e < d
    BY BoundAssumption DEF TypeOK, FrameType, Depths
  <2>2. call[d].kind # "none"
    BY <2>1, CallShape DEF TypeOK, FrameType
  <2>3. CASE call[e].kind = "none"
    BY <2>2, <2>3
  <2>4. CASE call[e].kind # "none"
    BY <2>1, <2>4 DEF CallInv, CallsDiffer, SameCall
  <2> QED
    BY <2>3, <2>4
<1> QED
  BY <1>1, CallInvariant, PTL

-----------------------------------------------------------------------------
(***************************************************************************)
(* Intervals. One that nobody cancelled is live; while it is parked, a      *)
(* frame is inside its callback and will arm it again.                      *)
(***************************************************************************)
IntervalsLive ==
  \A h \in repeating : /\ h \in DOMAIN timers => timers[h].interval > 0
                       /\ h \notin cancelReq => Live(h)

InCallback(h) == \E d \in Depths : call[d].kind = "timer" /\ call[d].id = h

ParkedInCall ==
  \A h \in repeating \ cancelReq : timers[h].fireAt = Never => InCallback(h)

IntervalInv == IntervalsLive /\ ParkedInCall

\* Steps that change neither the timers nor the callbacks of timers.
LEMMA IntervalInvKept ==
  ASSUME TypeOK, IntervalInv, UNCHANGED <<timers, repeating, cancelReq>>,
         \A d \in Depths : call[d].kind = "timer" => call'[d] = call[d]
  PROVE  IntervalInv'
<1>1. IntervalsLive'
  BY DEF IntervalInv, IntervalsLive, Live
<1>2. ParkedInCall'
  BY DEF IntervalInv, ParkedInCall, InCallback
<1> QED
  BY <1>1, <1>2 DEF IntervalInv

\* An entry is appended under a new handle.
LEMMA IntervalInvMake ==
  ASSUME TypeOK, IntervalInv, NewHandle, NEW interval \in Nat, NEW delay \in Nat,
         AddTimer(delay, interval), UNCHANGED <<call, cancelReq>>,
         \/ UNCHANGED repeating
         \/ interval > 0 /\ repeating' = repeating \cup {nextHandle}
  PROVE  IntervalInv'
<1>1. nextHandle \notin Issued /\ repeating \subseteq Issued /\ cancelReq \subseteq Issued
  BY DEF NewHandle, TypeOK, TimerType, Issued
<1>2. PICK n : n = nextHandle
  OBVIOUS
<1>3. /\ DOMAIN timers' = DOMAIN timers \cup {n}
      /\ timers'[n].fireAt = clock + delay /\ timers'[n].interval = interval
      /\ ~timers'[n].cancelled
      /\ \A h \in DOMAIN timers : h # n => timers'[h] = timers[h]
  BY <1>2 DEF AddTimer
<1>4. timers'[n].fireAt # Never
  BY <1>3 DEF TypeOK, RunType, Never
<1>5. IntervalsLive'
  BY <1>1, <1>2, <1>3 DEF IntervalInv, IntervalsLive, Live
<1>6. ParkedInCall'
  BY <1>1, <1>2, <1>3, <1>4 DEF IntervalInv, IntervalsLive, ParkedInCall, InCallback, Live
<1> QED
  BY <1>5, <1>6 DEF IntervalInv

LEMMA IntervalInvCancel ==
  ASSUME TypeOK, IntervalInv, NEW h \in Handles, Cancel(h)
  PROVE  IntervalInv'
<1>1. /\ DOMAIN timers' = DOMAIN timers /\ UNCHANGED <<call, repeating>>
      /\ cancelReq' = cancelReq \cup {h}
      /\ \A k \in DOMAIN timers : k # h => timers'[k] = timers[k]
  BY DEF Cancel, frames
<1>2. \A k \in DOMAIN timers : timers'[k].interval = timers[k].interval
  BY DEF Cancel, TypeOK, TimerType, Timers
<1>3. IntervalsLive'
  BY <1>1, <1>2 DEF IntervalInv, IntervalsLive, Live
<1>4. ParkedInCall'
  BY <1>1 DEF IntervalInv, IntervalsLive, ParkedInCall, InCallback, Live
<1> QED
  BY <1>3, <1>4 DEF IntervalInv

\* The interval that fires is parked, and the frame is inside its callback.
LEMMA IntervalInvFire ==
  ASSUME TypeOK, IntervalInv, FireTimer
  PROVE  IntervalInv'
<1>1. /\ depth \in Depths /\ call[depth] = NoCall /\ NoCall.kind = "none"
      /\ UNCHANGED <<repeating, cancelReq>>
  BY Innermost DEF FireTimer, Polling, NoCall
<1>2. PICK h : h = Smallest(due[depth])
  OBVIOUS
<1>3. /\ h \in DOMAIN timers /\ timers' = [timers EXCEPT ![h] = Fenced(@)]
      /\ call' = [call EXCEPT ![depth] = [kind |-> "timer", id |-> h]]
      /\ ~timers[h].cancelled
  BY <1>2 DEF FireTimer, Live
<1>4. /\ timers'[h].interval = timers[h].interval /\ DOMAIN timers' = DOMAIN timers
      /\ timers[h].interval > 0 => ~timers'[h].cancelled
      /\ \A k \in DOMAIN timers : k # h => timers'[k] = timers[k]
  <2>1. timers'[h] = Fenced(timers[h]) /\ timers[h] \in Timers
    BY <1>3 DEF TypeOK, TimerType
  <2>2. DOMAIN timers' = DOMAIN timers /\ \A k \in DOMAIN timers : k # h => timers'[k] = timers[k]
    BY <1>3
  <2>3. timers'[h].interval = timers[h].interval
    BY <2>1 DEF Fenced, Timers
  <2>4. timers'[h].cancelled = (timers[h].interval = 0)
    BY <2>1 DEF Fenced, Timers
  <2>5. timers[h].interval > 0 => timers[h].interval # 0
    BY <2>1 DEF Timers
  <2> QED
    BY <2>2, <2>3, <2>4, <2>5
<1>5. /\ call'[depth].kind = "timer" /\ call'[depth].id = h
      /\ \A d \in Depths : call[d].kind = "timer" => call'[d] = call[d]
  BY <1>1, <1>3 DEF TypeOK, FrameType
<1>6. IntervalsLive'
  BY <1>1, <1>4 DEF IntervalInv, IntervalsLive, Live
<1>7. ParkedInCall'
  BY <1>1, <1>4, <1>5 DEF IntervalInv, IntervalsLive, ParkedInCall, InCallback, Live
<1> QED
  BY <1>6, <1>7 DEF IntervalInv

\* The interval whose callback returns is armed again, unless it was cancelled.
LEMMA IntervalInvReturn ==
  ASSUME TypeOK, IntervalInv, ReturnTimer
  PROVE  IntervalInv'
<1>1. /\ depth \in Depths /\ pollNow[depth] \in Nat
      /\ call' = [call EXCEPT ![depth] = NoCall] /\ UNCHANGED <<repeating, cancelReq>>
  BY Innermost DEF ReturnTimer, history
<1>2. PICK h, now : h = call[depth].id /\ now = pollNow[depth]
  OBVIOUS
<1>3. /\ DOMAIN timers' = DOMAIN timers
      /\ \A k \in DOMAIN timers : k # h => timers'[k] = timers[k]
  BY <1>2 DEF ReturnTimer
<1>4. \A k \in DOMAIN timers : /\ timers'[k].interval = timers[k].interval
                               /\ timers'[k].cancelled = timers[k].cancelled
  BY DEF ReturnTimer, TypeOK, TimerType, Timers
<1>5. ASSUME h \in DOMAIN timers, ~timers[h].cancelled, timers[h].interval > 0
      PROVE  timers'[h].fireAt # Never
  <2>1. timers'[h] = [timers[h] EXCEPT !.fireAt = now + timers[h].interval]
    BY <1>2, <1>5 DEF ReturnTimer, Live
  <2>2. timers[h] \in Timers /\ now \in Nat
    BY <1>1, <1>2, <1>5 DEF TypeOK, TimerType
  <2>3. timers'[h].fireAt = now + timers[h].interval
    BY <2>1, <2>2 DEF Timers
  <2> QED
    BY <1>5, <2>2, <2>3 DEF Timers, Never
<1>6. \A d \in Depths : call[d].id # h => call'[d] = call[d]
  BY <1>1, <1>2 DEF TypeOK, FrameType
<1>7. IntervalsLive'
  BY <1>1, <1>3, <1>4 DEF IntervalInv, IntervalsLive, Live
<1>8. ParkedInCall'
  <2>1. ASSUME NEW k \in repeating \ cancelReq, timers'[k].fireAt = Never
        PROVE  InCallback(k)'
    <3>1. k \in DOMAIN timers /\ ~timers[k].cancelled /\ timers[k].interval > 0
      BY DEF IntervalInv, IntervalsLive, Live
    <3>2. k # h
      BY <1>5, <2>1, <3>1
    <3>3. InCallback(k)
      BY <1>3, <2>1, <3>1, <3>2 DEF IntervalInv, ParkedInCall
    <3> QED
      BY <1>6, <3>2, <3>3 DEF InCallback
  <2> QED
    BY <1>1, <2>1 DEF ParkedInCall
<1> QED
  BY <1>7, <1>8 DEF IntervalInv

\* The purge leaves live timers alone.
LEMMA IntervalInvPurge ==
  ASSUME TypeOK, IntervalInv, EndTimers
  PROVE  IntervalInv'
<1>1. /\ UNCHANGED <<call, repeating, cancelReq>>
      /\ DOMAIN timers' = {k \in DOMAIN timers : ~timers[k].cancelled}
      /\ \A k \in DOMAIN timers' : timers'[k] = timers[k]
  BY DEF EndTimers, Purged, history
<1>2. IntervalsLive'
  BY <1>1 DEF IntervalInv, IntervalsLive, Live
<1>3. ParkedInCall'
  BY <1>1 DEF IntervalInv, IntervalsLive, ParkedInCall, InCallback, Live
<1> QED
  BY <1>2, <1>3 DEF IntervalInv

\* Every step preserves it, when no interval is zero: set_interval(0) makes an entry
\* that the re-arming test takes for a one-shot.
LEMMA IntervalInvStep ==
  ASSUME 0 \notin Intervals, TypeOK, IntervalInv, [Next]_vars
  PROVE  IntervalInv'
<1>1. ASSUME NEW delay \in Delays, SetTimeout(delay) PROVE IntervalInv'
  <2>1. delay \in Nat /\ 0 \in Nat
    BY BoundAssumption
  <2> QED
    BY <1>1, <2>1, IntervalInvMake DEF SetTimeout, frames, history
<1>2. ASSUME NEW interval \in Intervals, SetInterval(interval) PROVE IntervalInv'
  <2>1. interval \in Nat /\ interval > 0
    BY BoundAssumption
  <2> QED
    BY <1>2, <2>1, IntervalInvMake DEF SetInterval, frames
<1>3. ASSUME RunTask PROVE IntervalInv'
  <2>1. \A d \in Depths : call[d].kind = "timer" => call'[d] = call[d]
    BY <1>3 DEF RunTask, Polling, NoCall, TypeOK, FrameType
  <2> QED
    BY <1>3, <2>1, IntervalInvKept DEF RunTask, loopVars
<1>4. ASSUME RunIdle PROVE IntervalInv'
  <2>1. PICK h : h = Smallest(DOMAIN moved[depth])
    OBVIOUS
  <2>2. call' = [call EXCEPT ![depth] = [kind |-> "idle", id |-> h]] /\ call[depth] = NoCall
    BY <1>4, <2>1 DEF RunIdle, Polling
  <2>3. \A d \in Depths : call[d].kind = "timer" => call'[d] = call[d]
    BY <2>2 DEF NoCall, TypeOK, FrameType
  <2> QED
    BY <1>4, <2>3, IntervalInvKept DEF RunIdle, loopVars, history
<1>5. ASSUME Return PROVE IntervalInv'
  <2>1. \A d \in Depths : call[d].kind = "timer" => call'[d] = call[d]
    BY <1>5 DEF Return, TypeOK, FrameType
  <2> QED
    BY <1>5, <2>1, IntervalInvKept DEF Return, loopVars, history
<1>6. ASSUME \/ Post \/ Quit \/ RunBegin \/ Destroy \/ AddIdle \/ Poll \/ RunPoll
             \/ \E w \in Workers : WorkerStep(w)
             \/ CollectDue \/ SkipTimer \/ SkipIdle \/ EndIdles
             \/ RunRecheck \/ RunReturn \/ RunLock \/ WaitDone \/ WaitAgain
             \/ SpuriousWake \/ Tick \/ UNCHANGED vars
      PROVE  IntervalInv'
  <2>1. UNCHANGED <<timers, call, repeating, cancelReq>>
    BY <1>6 DEF Post, Quit, RunBegin, Destroy, AddIdle, Poll, RunPoll, EnterPoll,
       WorkerStep, WorkerPost, PosterPost, WorkerQuit, Notify, CollectDue, SkipTimer,
       SkipIdle, EndIdles, RunRecheck, RunReturn, RunLock, WaitDone, WaitAgain,
       SpuriousWake, Tick, Push, vars, loopVars, frames, history
  <2> QED
    BY <2>1, IntervalInvKept
<1> QED
  BY <1>1, <1>2, <1>3, <1>4, <1>5, <1>6, IntervalInvCancel, IntervalInvFire,
     IntervalInvReturn, IntervalInvPurge
  DEF Next, UserStep, PollStep, RunStep

(***************************************************************************)
(* An interval timer that nobody cancelled stays in the list, and is parked *)
(* only while its own callback is on the stack, so that its return arms it  *)
(* again: for every nesting of polls, provided no interval is zero.         *)
(***************************************************************************)
THEOREM IntervalsAreNotLost ==
  ASSUME 0 \notin Intervals
  PROVE  Spec => []IntervalStaysScheduled
<1>1. Init => IntervalInv
  BY DEF Init, IntervalInv, IntervalsLive, ParkedInCall
<1>2. TypeOK /\ IntervalInv /\ [Next]_vars => IntervalInv'
  BY IntervalInvStep
<1>3. TypeOK /\ CallInv /\ IntervalInv => IntervalStaysScheduled
  <2> SUFFICES ASSUME TypeOK, CallInv, IntervalInv, NEW h \in repeating \ cancelReq
               PROVE  /\ Live(h)
                      /\ timers[h].fireAt = Never =>
                           \E d \in 1..depth : call[d] = [kind |-> "timer", id |-> h]
    BY DEF IntervalStaysScheduled
  <2>1. Live(h)
    BY DEF IntervalInv, IntervalsLive
  <2>2. ASSUME timers[h].fireAt = Never
        PROVE  \E d \in 1..depth : call[d] = [kind |-> "timer", id |-> h]
    <3>1. PICK d \in Depths : call[d].kind = "timer" /\ call[d].id = h
      BY <2>2 DEF IntervalInv, ParkedInCall, InCallback
    <3>2. d \in 1..depth
      BY <3>1 DEF CallInv, Beyond, Depths, TypeOK, FrameType
    <3>3. call[d] = [kind |-> "timer", id |-> h]
      BY <3>1, CallShape DEF TypeOK, FrameType
    <3> QED
      BY <3>2, <3>3
  <2> QED
    BY <2>1, <2>2
<1> QED
  BY <1>1, <1>2, <1>3, CallInvariant, PTL DEF Spec

(***************************************************************************)
(* When timers fire. What a poll collected had come by then, and so it has  *)
(* when it is fired, unless the timer was armed again in between: only an   *)
(* interval is, and only by a nested poll, since a poll that fires a timer  *)
(* takes it out of its own snapshot first.                                  *)
(***************************************************************************)
Arrived(h) ==
  h \in DOMAIN timers =>
    timers[h].fireAt <= clock \/ (timers[h].interval > 0 /\ MaxDepth > 1)

DueArrived == \A d \in Depths : /\ pollNow[d] <= clock
                                /\ \A h \in due[d] : h \in Issued /\ Arrived(h)

FiredIsTaken == \A d \in Depths : call[d].kind = "timer" => call[d].id \notin due[d]

DueInv == DueArrived /\ FiredIsTaken

\* Steps that collect nothing and start no timer: it is enough that no timer is
\* armed for later.
LEMMA DueInvKept ==
  ASSUME TypeOK, DueInv,
         \A d \in Depths : due'[d] \subseteq due[d] /\ pollNow'[d] <= clock',
         \A d \in Depths : call'[d] = call[d] \/ call'[d].kind # "timer",
         \A h \in Issued : Arrived(h) => Arrived(h)',
         Issued \subseteq Issued'
  PROVE  DueInv'
<1>1. DueArrived'
  BY DEF DueInv, DueArrived
<1>2. FiredIsTaken'
  BY DEF DueInv, FiredIsTaken
<1> QED
  BY <1>1, <1>2 DEF DueInv

\* Making timers and cancelling them.
LEMMA DueInvUser ==
  ASSUME TypeOK, DueInv,
         \/ \E delay \in Delays : SetTimeout(delay)
         \/ \E interval \in Intervals : SetInterval(interval)
         \/ \E h \in Handles : Cancel(h)
  PROVE  DueInv'
<1>1. UNCHANGED <<due, pollNow, call, clock>> /\ nextHandle' >= nextHandle /\ nextHandle \in Nat
  BY BoundAssumption DEF SetTimeout, SetInterval, Cancel, NewHandle, frames, TypeOK, TimerType
<1>2. Issued \subseteq Issued'
  BY <1>1, BoundAssumption DEF Issued, TypeOK, TimerType, SetTimeout, SetInterval, Cancel, NewHandle
<1>3. ASSUME NEW h \in Issued, h \in DOMAIN timers'
      PROVE  /\ h \in DOMAIN timers
             /\ timers'[h].fireAt = timers[h].fireAt /\ timers'[h].interval = timers[h].interval
  <2>1. h # nextHandle
    BY <1>1 DEF Issued
  <2>2. CASE \E delay \in Delays : SetTimeout(delay)
    BY <1>3, <2>1, <2>2 DEF SetTimeout, AddTimer
  <2>3. CASE \E interval \in Intervals : SetInterval(interval)
    BY <1>3, <2>1, <2>3 DEF SetInterval, AddTimer
  <2>4. CASE \E k \in Handles : Cancel(k)
    <3>1. PICK k \in Handles : timers' = [x \in DOMAIN timers |->
            IF x = k THEN [timers[x] EXCEPT !.cancelled = TRUE] ELSE timers[x]]
      BY <2>4 DEF Cancel
    <3>2. h \in DOMAIN timers /\ timers[h] \in Timers
      BY <1>3, <3>1 DEF TypeOK, TimerType
    <3> QED
      BY <3>1, <3>2 DEF Timers
  <2> QED
    BY <2>2, <2>3, <2>4
<1>4. \A h \in Issued : Arrived(h) => Arrived(h)'
  BY <1>1, <1>3 DEF Arrived
<1> QED
  BY <1>1, <1>2, <1>4, DueInvKept DEF DueInv, DueArrived

LEMMA DueInvCollect ==
  ASSUME TypeOK, DueInv, CollectDue
  PROVE  DueInv'
<1>1. /\ UNCHANGED <<timers, nextHandle, clock, pollNow, call>>
      /\ depth \in Depths /\ call[depth] = NoCall
      /\ due' = [due EXCEPT ![depth] = DueTimers(pollNow[depth])]
  BY Innermost DEF CollectDue, Polling, loopVars
<1>2. due \in [Depths -> SUBSET Handles] /\ pollNow \in [Depths -> Nat] /\ clock \in Nat
  BY BoundAssumption DEF TypeOK, FrameType, RunType
<1>3. \A h \in DOMAIN timers : h \in Issued /\ timers[h].fireAt \in Int
  BY DEF TypeOK, TimerType, Timers, Times, Never
<1>4. \A h \in due'[depth] : h \in Issued /\ Arrived(h)
  <2>1. TAKE h \in due'[depth]
  <2>2. h \in DOMAIN timers /\ timers[h].fireAt <= pollNow[depth]
    BY <1>1, <1>2 DEF DueTimers
  <2>3. pollNow[depth] <= clock /\ pollNow[depth] \in Nat
    BY <1>1, <1>2 DEF DueInv, DueArrived
  <2> QED
    BY <1>2, <1>3, <2>2, <2>3 DEF Arrived
<1>5. DueArrived'
  BY <1>1, <1>2, <1>4 DEF DueInv, DueArrived, Arrived, Issued
<1>6. FiredIsTaken'
  BY <1>1, <1>2 DEF DueInv, FiredIsTaken, NoCall
<1> QED
  BY <1>5, <1>6 DEF DueInv

LEMMA DueInvFire ==
  ASSUME TypeOK, DueInv, FireTimer
  PROVE  DueInv'
<1>1. PICK f : f = Smallest(due[depth])
  OBVIOUS
<1>2. /\ UNCHANGED <<nextHandle, clock, pollNow>>
      /\ depth \in Depths
      /\ due' = [due EXCEPT ![depth] = @ \ {f}]
      /\ call' = [call EXCEPT ![depth] = [kind |-> "timer", id |-> f]]
      /\ timers' = [timers EXCEPT ![f] = Fenced(@)]
      /\ f \in DOMAIN timers
  BY <1>1, Innermost DEF FireTimer, Polling, Live
<1>3. due \in [Depths -> SUBSET Handles] /\ call \in [Depths -> Calls] /\ clock \in Nat
  BY BoundAssumption DEF TypeOK, FrameType, RunType
<1>4. ASSUME NEW h \in Issued, Arrived(h)
      PROVE  Arrived(h)'
  <2>1. CASE h = f
    <3>1. timers'[f].fireAt = Never
      BY <1>2 DEF TypeOK, TimerType, Timers, Fenced
    <3> QED
      BY <1>2, <1>3, <2>1, <3>1 DEF Arrived, Never
  <2>2. CASE h # f
    BY <1>2, <1>4, <2>2 DEF Arrived
  <2> QED
    BY <2>1, <2>2
<1>5. DueArrived'
  BY <1>2, <1>3, <1>4 DEF DueInv, DueArrived, Issued
<1>6. FiredIsTaken'
  BY <1>2, <1>3 DEF DueInv, FiredIsTaken
<1> QED
  BY <1>5, <1>6 DEF DueInv

\* The timer that is armed again is an interval and, without nesting, in no snapshot.
LEMMA DueInvReturn ==
  ASSUME TypeOK, DueInv, ReturnTimer
  PROVE  DueInv'
<1>1. PICK f : f = call[depth].id
  OBVIOUS
<1>2. /\ UNCHANGED <<nextHandle, clock, pollNow, due>>
      /\ depth \in Depths /\ call[depth].kind = "timer"
      /\ call' = [call EXCEPT ![depth] = NoCall]
      /\ DOMAIN timers' = DOMAIN timers
      /\ \A k \in DOMAIN timers : k # f => timers'[k] = timers[k]
  BY <1>1, Innermost DEF ReturnTimer
<1>3. f \in DOMAIN timers =>
        \/ timers'[f] = timers[f]
        \/ timers'[f].interval > 0
  BY <1>1 DEF ReturnTimer, TypeOK, TimerType, Timers
<1>4. f \notin due[depth]
  BY <1>1, <1>2 DEF DueInv, FiredIsTaken
<1>5. ASSUME NEW d \in Depths, NEW h \in due[d]
      PROVE  Arrived(h)'
  <2>1. Arrived(h)
    BY DEF DueInv, DueArrived
  <2>2. CASE h # f \/ timers'[f] = timers[f]
    BY <1>2, <2>1, <2>2 DEF Arrived
  <2>3. CASE h = f /\ timers'[f] # timers[f]
    <3>1. d # depth
      BY <1>4, <2>3
    <3>2. MaxDepth > 1
      BY <1>2, <3>1, BoundAssumption DEF Depths
    <3> QED
      BY <1>2, <1>3, <2>3, <3>2 DEF Arrived
  <2> QED
    BY <2>2, <2>3
<1>6. DueArrived'
  BY <1>2, <1>5 DEF DueInv, DueArrived, Issued
<1>7. FiredIsTaken'
  BY <1>2 DEF DueInv, FiredIsTaken, NoCall, TypeOK, FrameType
<1> QED
  BY <1>6, <1>7 DEF DueInv

\* A poll begins: its snapshot is empty and its time the clock's.
LEMMA DueInvEnter ==
  ASSUME TypeOK, DueInv, EnterPoll, UNCHANGED <<timers, nextHandle, clock>>
  PROVE  DueInv'
<1>1. /\ UNCHANGED <<due, call>> /\ pollNow' = [pollNow EXCEPT ![depth + 1] = clock]
      /\ pollNow \in [Depths -> Nat] /\ clock \in Nat
  BY BoundAssumption DEF EnterPoll, TypeOK, FrameType, RunType
<1>2. \A d \in Depths : pollNow'[d] <= clock'
  BY <1>1 DEF DueInv, DueArrived
<1>3. \A h : Arrived(h)' <=> Arrived(h)
  BY DEF Arrived
<1> QED
  BY <1>1, <1>2, <1>3, DueInvKept DEF Issued

\* A poll returns.
LEMMA DueInvLeave ==
  ASSUME TypeOK, DueInv, EndTimers \/ EndIdles
  PROVE  DueInv'
<1>1. /\ UNCHANGED <<due, call, nextHandle, clock>>
      /\ pollNow' = pollNow \/ pollNow' = [pollNow EXCEPT ![depth] = 0]
      /\ pollNow \in [Depths -> Nat] /\ clock \in Nat
  BY BoundAssumption DEF EndTimers, EndIdles, LeavePoll, loopVars, TypeOK, FrameType, RunType
<1>2. \A d \in Depths : pollNow'[d] <= clock'
  BY <1>1 DEF DueInv, DueArrived
<1>3. \A h \in DOMAIN timers' : h \in DOMAIN timers /\ timers'[h] = timers[h]
  BY DEF EndTimers, EndIdles, Purged, loopVars
<1>4. \A h \in Issued : Arrived(h) => Arrived(h)'
  BY <1>1, <1>3 DEF Arrived
<1> QED
  BY <1>1, <1>2, <1>4, DueInvKept DEF Issued

LEMMA DueInvTick ==
  ASSUME TypeOK, DueInv, Tick
  PROVE  DueInv'
<1>1. /\ UNCHANGED <<due, call, nextHandle, timers, pollNow>> /\ clock' = clock + 1
      /\ pollNow \in [Depths -> Nat] /\ clock \in Nat
  BY BoundAssumption DEF Tick, loopVars, frames, TypeOK, FrameType, RunType
<1>2. \A d \in Depths : pollNow'[d] <= clock'
  BY <1>1 DEF DueInv, DueArrived
<1>3. \A h \in DOMAIN timers : timers[h].fireAt \in Int
  BY DEF TypeOK, TimerType, Timers, Times, Never
<1>4. \A h \in Issued : Arrived(h) => Arrived(h)'
  BY <1>1, <1>3 DEF Arrived
<1> QED
  BY <1>1, <1>2, <1>4, DueInvKept DEF Issued

\* Every step preserves it.
LEMMA DueInvStep == TypeOK /\ DueInv /\ [Next]_vars => DueInv'
<1> SUFFICES ASSUME TypeOK, DueInv, [Next]_vars PROVE DueInv'
  OBVIOUS
<1>1. ASSUME Poll \/ RunPoll PROVE DueInv'
  BY <1>1, DueInvEnter DEF Poll, RunPoll
<1>2. ASSUME \/ Post \/ Quit \/ RunBegin \/ Destroy \/ AddIdle
             \/ \E w \in Workers : WorkerStep(w)
             \/ RunTask \/ SkipTimer \/ Return \/ SkipIdle \/ RunIdle
             \/ RunRecheck \/ RunReturn \/ RunLock \/ WaitDone \/ WaitAgain
             \/ SpuriousWake \/ UNCHANGED vars
      PROVE  DueInv'
  <2>1. UNCHANGED <<timers, pollNow, clock>>
    BY <1>2 DEF Post, Quit, RunBegin, Destroy, AddIdle, WorkerStep, WorkerPost, PosterPost,
       WorkerQuit, Notify, RunTask, SkipTimer, Return, SkipIdle, RunIdle, RunRecheck,
       RunReturn, RunLock, WaitDone, WaitAgain, SpuriousWake, vars, loopVars, frames
  <2>2. nextHandle \in Nat /\ (nextHandle' = nextHandle \/ nextHandle' = nextHandle + 1)
    <3>1. CASE AddIdle
      BY <3>1, BoundAssumption DEF AddIdle, NewHandle, TypeOK, TimerType
    <3>2. CASE ~AddIdle
      <4>1. nextHandle' = nextHandle
        BY <1>2, <3>2 DEF Post, Quit, RunBegin, Destroy, WorkerStep, WorkerPost, PosterPost,
           WorkerQuit, Notify, RunTask, SkipTimer, Return, SkipIdle, RunIdle, RunRecheck,
           RunReturn, RunLock, WaitDone, WaitAgain, SpuriousWake, vars, loopVars
      <4> QED
        BY <4>1, BoundAssumption DEF TypeOK, TimerType
    <3> QED
      BY <3>1, <3>2
  <2>3. due' = due \/ due' = [due EXCEPT ![depth] = @ \ {Smallest(@)}]
    BY <1>2 DEF Post, Quit, RunBegin, Destroy, AddIdle, WorkerStep, WorkerPost, PosterPost,
       WorkerQuit, Notify, RunTask, SkipTimer, Return, SkipIdle, RunIdle, RunRecheck,
       RunReturn, RunLock, WaitDone, WaitAgain, SpuriousWake, vars, frames
  <2>4. \/ call' = call \/ call' = [call EXCEPT ![depth] = NoCall]
        \/ \E id : call' = [call EXCEPT ![depth] = [kind |-> "task", id |-> id]]
        \/ \E id : call' = [call EXCEPT ![depth] = [kind |-> "idle", id |-> id]]
    BY <1>2 DEF Post, Quit, RunBegin, Destroy, AddIdle, WorkerStep, WorkerPost, PosterPost,
       WorkerQuit, Notify, RunTask, SkipTimer, Return, SkipIdle, RunIdle, RunRecheck,
       RunReturn, RunLock, WaitDone, WaitAgain, SpuriousWake, vars, frames
  <2>5. \A d \in Depths : due'[d] \subseteq due[d]
    BY <2>3 DEF TypeOK, FrameType
  <2>6. \A d \in Depths : call'[d] = call[d] \/ call'[d].kind # "timer"
    BY <2>4 DEF NoCall, TypeOK, FrameType
  <2>7. Issued \subseteq Issued'
    BY <2>2 DEF Issued
  <2>8. \A h : Arrived(h)' <=> Arrived(h)
    BY <2>1 DEF Arrived
  <2> QED
    BY <2>1, <2>5, <2>6, <2>7, <2>8, DueInvKept DEF DueInv, DueArrived
<1> QED
  BY <1>1, <1>2, DueInvUser, DueInvCollect, DueInvFire, DueInvReturn, DueInvLeave, DueInvTick
  DEF Next, UserStep, PollStep, RunStep

LEMMA DueInvariant == Spec => [](TypeOK /\ TimerInv /\ DueInv)
<1>1. Init => DueInv
  BY DEF Init, DueInv, DueArrived, FiredIsTaken, NoCall
<1> QED
  BY <1>1, DueInvStep, TimerInvariant, PTL DEF Spec

\* A timer that is started was collected.
LEMMA StartedHasArrived ==
  ASSUME TypeOK, DueInv, [Next]_vars, NEW h \in Handles, Starts("timer", h)
  PROVE  h \in DOMAIN timers /\ Arrived(h)
<1>1. FireTimer /\ h = Smallest(due[depth]) /\ Live(h)
  BY StartsWhenLive
<1>2. depth \in Depths /\ due[depth] # {} /\ due[depth] \subseteq Nat
  BY <1>1, Innermost DEF FireTimer, Polling, TypeOK, FrameType, Handles
<1>3. h \in due[depth]
  BY <1>1, <1>2, SmallestIsLeast
<1> QED
  BY <1>1, <1>2, <1>3 DEF DueInv, DueArrived, Live

(***************************************************************************)
(* Without polls nested in callbacks no timer fires before its time. With   *)
(* them an interval may (loop_early_interval shows how).                    *)
(***************************************************************************)
THEOREM TimersAreNotEarly ==
  ASSUME MaxDepth = 1
  PROVE  Spec => NeverEarly
<1>1. TypeOK /\ DueInv /\ [Next]_vars =>
        [\A h \in Handles : Starts("timer", h) => timers[h].fireAt <= clock]_vars
  BY StartedHasArrived DEF Arrived
<1> QED
  BY <1>1, DueInvariant, PTL DEF Spec, NeverEarly

(***************************************************************************)
(* A one-shot timer never fires before its time, at any depth of nesting.   *)
(***************************************************************************)
THEOREM OneShotsAreNotEarly ==
  Spec => OneShotNeverEarly
<1>1. TypeOK /\ TimerInv /\ DueInv /\ [Next]_vars =>
        [\A h \in Handles \ repeating :
           Starts("timer", h) => timers[h].fireAt <= clock]_vars
  <2> SUFFICES ASSUME TypeOK, TimerInv, DueInv, [Next]_vars, NEW h \in Handles \ repeating,
                       Starts("timer", h)
                PROVE  timers[h].fireAt <= clock
    OBVIOUS
  <2>2. h \in DOMAIN timers /\ Arrived(h)
    BY StartedHasArrived
  <2>3. timers[h].interval = 0
    BY <2>2 DEF TimerInv, FiringConsumes
  <2> QED
    BY <2>2, <2>3 DEF Arrived
<1> QED
  BY <1>1, DueInvariant, PTL DEF Spec, OneShotNeverEarly
=============================================================================
