------------------------ MODULE WaylandPlatformProofs ------------------------
(***************************************************************************)
(* Theorems about WaylandPlatform, for every number of events and every set *)
(* of actions: the type invariant, that the UI thread never uses a freed    *)
(* accessibility context where there is a bus, and that no request of a     *)
(* client is left without an answer.                                        *)
(***************************************************************************)
EXTENDS WaylandPlatform, TLAPS

Places == {"before", "top", "dispatch", "poll", "transfers", "after", "closing", "gone"}

Threads == [at : Stages, stop : BOOLEAN, ptr : BOOLEAN, alive : BOOLEAN,
            inbox : Seq({"quit", "sync"})]

Prefs == [sys : Settings, applied : Settings, observing : BOOLEAN, observer : BOOLEAN,
          changed : Settings, carried : Seq(Settings), missed : BOOLEAN]

Accesses == [tree : Versions, published : Versions, announced : Versions,
             pending : SUBSET Versions, taken : 0..(MaxEvents + 1), registered : 0..(MaxEvents + 1),
             connected : BOOLEAN, requested : BOOLEAN, inUse : BOOLEAN, bus : BOOLEAN]

\* The parts of TypeOK, by what they speak of.
LoopTypes ==
  /\ place \in Places
  /\ todo \in Seq(BackendSteps)
  /\ copied \in BOOLEAN /\ didWork \in BOOLEAN /\ quitRequested \in BOOLEAN
  /\ batch \in Seq(Tasks) /\ tasks \in Seq(Tasks)
  /\ events \in 0..MaxEvents
  /\ action \in [Actions -> {"none", "posted", "performed", "refused"}]

ThreadTypes == thread \in [Kinds -> Threads]

PrefTypes   == pref \in Prefs

AccessTypes == access \in Accesses

\* The pointers are cleared before what they point to is freed, at the end.
Alive ==
  \A kind \in Kinds :
    /\ thread[kind].ptr => thread[kind].alive
    /\ thread[kind].alive <=> thread[kind].at # "ended"

\* The versions count events; the handler of a change carries one.
Counted ==
  /\ access.tree <= events + 1
  /\ pref.sys <= events /\ pref.changed <= events
  /\ thread["prefs"].at = "emitting" => pref.carried # <<>>

TypeInv == LoopTypes /\ ThreadTypes /\ PrefTypes /\ AccessTypes /\ Alive /\ Counted

LEMMA TypeInvTypes == TypeInv => TypeOK
  BY DEF TypeInv, TypeOK, LoopTypes, ThreadTypes, PrefTypes, AccessTypes, Alive, Places,
         Threads, Prefs, Accesses

-----------------------------------------------------------------------------
\* What a call of the backend has next.
LEMMA StepKind ==
  ASSUME todo \in Seq(BackendSteps), todo # <<>>, Head(todo)[1] \in {"stop", "quit", "join"}
  PROVE  Head(todo)[2] \in Kinds
<1>1. Head(todo) \in BackendSteps
  OBVIOUS
<1> QED
  BY <1>1 DEF BackendSteps

LEMMA StepAction ==
  ASSUME todo \in Seq(BackendSteps), todo # <<>>, Head(todo)[1] = "answer"
  PROVE  Head(todo)[2] \in Actions
<1>1. Head(todo) \in BackendSteps
  OBVIOUS
<1> QED
  BY <1>1 DEF BackendSteps

LEMMA TailSteps ==
  ASSUME todo \in Seq(BackendSteps), todo # <<>>
  PROVE  Tail(todo) \in Seq(BackendSteps)
  OBVIOUS

\* The calls are lists of such steps.
LEMMA CallsAreSteps ==
  /\ RefreshSnapshot \in Seq(BackendSteps)
  /\ \A kind \in Kinds : StopThread(kind) \in Seq(BackendSteps)
  /\ StartThread("prefs") \in Seq(BackendSteps)
  /\ StopObserver \in Seq(BackendSteps)
<1>1. <<"publish">> \in BackendSteps /\ <<"sync">> \in BackendSteps
  BY DEF BackendSteps
<1>2. \A kind \in Kinds : <<"stop", kind>> \in BackendSteps
  BY DEF BackendSteps
<1>3. <<"start", "prefs">> \in BackendSteps
  BY DEF BackendSteps
<1>4. RefreshSnapshot \in Seq(BackendSteps)
  BY <1>1 DEF RefreshSnapshot
<1>5. ASSUME NEW kind \in Kinds
      PROVE  StopThread(kind) \in Seq(BackendSteps)
  <2>1. <<"stop", kind>> \in BackendSteps
    BY <1>2
  <2> QED
    BY <2>1 DEF StopThread
<1>6. "prefs" \in Kinds
  BY DEF Kinds
<1>7. StartThread("prefs") \in Seq(BackendSteps)
  BY <1>2, <1>3, <1>6 DEF StartThread
<1> QED
  BY <1>4, <1>5, <1>6, <1>7 DEF StopObserver

-----------------------------------------------------------------------------
LEMMA Numbers ==
  ASSUME TypeInv
  PROVE  access.tree \in Nat /\ pref.sys \in Nat /\ pref.changed \in Nat /\ events \in Nat
  BY PlatformAssumption DEF PlatformAssumption, TypeInv, AccessTypes, Accesses, Versions,
     PrefTypes, Prefs, Settings, LoopTypes

\* The counts, when at most one event happened.
LEMMA CountedStep ==
  ASSUME TypeInv,
         events' \in {events, events + 1},
         access'.tree = access.tree \/ (access'.tree = access.tree + 1 /\ events' = events + 1),
         pref'.sys = pref.sys \/ (pref'.sys = pref.sys + 1 /\ events' = events + 1),
         \/ pref'.changed = pref.changed \/ pref'.changed = 0 \/ pref'.changed = pref.changed - 1
         \/ pref'.changed = pref.changed + 1 /\ events' = events + 1,
         thread'["prefs"].at = "emitting" => pref'.carried # <<>>
  PROVE  Counted'
<1>1. access.tree <= events + 1 /\ pref.sys <= events /\ pref.changed <= events
  BY DEF TypeInv, Counted
<1>2. access'.tree <= events' + 1
  BY Numbers, <1>1
<1>3. pref'.sys <= events'
  BY Numbers, <1>1
<1>4. pref'.changed <= events'
  BY Numbers, <1>1
<1> QED
  BY <1>2, <1>3, <1>4 DEF Counted

LEMMA TypesInit == Init => TypeInv
<1> SUFFICES ASSUME Init PROVE TypeInv
  OBVIOUS
<1> USE PlatformAssumption DEF PlatformAssumption
<1>1. NewThread \in Threads
  BY DEF NewThread, Threads, Stages
<1>2. ThreadTypes
  BY <1>1 DEF Init, ThreadTypes
<1>3. PrefTypes
  BY DEF Init, PrefTypes, Prefs, Settings
<1>4. AccessTypes
  BY DEF Init, AccessTypes, Accesses, Versions
<1>5. LoopTypes
  <2>1. action \in [Actions -> {"none", "posted", "performed", "refused"}]
    BY DEF Init
  <2>2. todo \in Seq(BackendSteps) /\ batch \in Seq(Tasks) /\ tasks \in Seq(Tasks)
    BY DEF Init
  <2>3. events \in 0..MaxEvents /\ place \in Places
    BY DEF Init, Places
  <2> QED
    BY <2>1, <2>2, <2>3 DEF Init, LoopTypes
<1>6. Alive
  BY DEF Init, Alive, NewThread
<1>7. Counted
  BY DEF Init, Counted, NewThread, Kinds
<1> QED
  BY <1>2, <1>3, <1>4, <1>5, <1>6, <1>7 DEF TypeInv

\* The application's code. Nothing happens to the threads.
LEMMA UserTypes == TypeInv /\ (UserStep \/ Quit) => TypeInv'
<1> SUFFICES ASSUME TypeInv, UserStep \/ Quit PROVE TypeInv'
  OBVIOUS
<1> USE PlatformAssumption DEF PlatformAssumption, TypeInv
<1>1. ASSUME NEW announced \in BOOLEAN, EditWidgets(announced)
      PROVE  TypeInv'
  <2>1. events' \in 0..MaxEvents /\ events' = events + 1
    BY <1>1 DEF EditWidgets, Event, LoopTypes
  <2>2. access.tree + 1 \in Versions
    BY <1>1 DEF EditWidgets, Event, LoopTypes, AccessTypes, Accesses, Counted, Versions
  <2>3. AccessTypes' /\ access'.tree = access.tree + 1
    BY <1>1, <2>2 DEF EditWidgets, AccessTypes, Accesses
  <2>4. LoopTypes'
    BY <1>1, <2>1 DEF EditWidgets, LoopTypes
  <2>5. Counted'
    <3>1. thread' = thread /\ (thread["prefs"].at = "emitting" => pref.carried # <<>>)
      BY <1>1, <2>1, <2>3 DEF EditWidgets, Counted
    <3> QED
      BY <1>1, <2>1, <2>3, <3>1, CountedStep DEF EditWidgets
  <2> QED
    BY <1>1, <2>3, <2>4, <2>5 DEF EditWidgets, ThreadTypes, PrefTypes, Alive
<1>2. CASE ChangeWindows
  <2>1. events' \in 0..MaxEvents /\ events' = events + 1
    BY <1>2 DEF ChangeWindows, Event, LoopTypes
  <2>2. access.tree + 1 \in Versions
    BY <1>2 DEF ChangeWindows, Event, LoopTypes, AccessTypes, Accesses, Counted, Versions
  <2>3. AccessTypes' /\ access'.tree = access.tree + 1
    BY <1>2, <2>2 DEF ChangeWindows, AccessTypes, Accesses
  <2>4. LoopTypes'
    BY <1>2, <2>1, CallsAreSteps DEF ChangeWindows, LoopTypes
  <2>5. Counted'
    <3>1. thread' = thread /\ (thread["prefs"].at = "emitting" => pref.carried # <<>>)
      BY <1>2, <2>1, <2>3 DEF ChangeWindows, Counted
    <3> QED
      BY <1>2, <2>1, <2>3, <3>1, CountedStep DEF ChangeWindows
  <2> QED
    BY <1>2, <2>3, <2>4, <2>5 DEF ChangeWindows, ThreadTypes, PrefTypes, Alive
<1>3. ASSUME NEW enabled \in BOOLEAN, SetObservation(enabled)
      PROVE  TypeInv'
  <2>1. events' \in 0..MaxEvents /\ events' = events + 1
    BY <1>3 DEF SetObservation, Event, LoopTypes
  <2>2. PrefTypes' /\ pref'.sys = pref.sys /\ pref'.changed = pref.changed
          /\ pref'.carried = pref.carried
    BY <1>3 DEF SetObservation, PrefTypes, Prefs
  <2>3. LoopTypes'
    BY <1>3, <2>1, CallsAreSteps DEF SetObservation, LoopTypes, loopVars
  <2>4. Counted'
    <3>1. thread' = thread /\ (thread["prefs"].at = "emitting" => pref.carried # <<>>)
      BY <1>3, <2>1, <2>2 DEF SetObservation, Counted
    <3> QED
      BY <1>3, <2>1, <2>2, <3>1, CountedStep DEF SetObservation
  <2> QED
    BY <1>3, <2>2, <2>3, <2>4 DEF SetObservation, ThreadTypes, AccessTypes, Alive
<1>4. CASE SetInterval
  <2>1. events' \in 0..MaxEvents /\ events' = events + 1
    BY <1>4 DEF SetInterval, Event, LoopTypes
  <2>2. todo' \in Seq(BackendSteps)
    BY <1>4, CallsAreSteps DEF SetInterval
  <2>3. LoopTypes'
    BY <1>4, <2>1, <2>2 DEF SetInterval, LoopTypes, loopVars
  <2>4. Counted'
    <3>1. thread' = thread /\ (thread["prefs"].at = "emitting" => pref.carried # <<>>)
      BY <1>4, <2>1 DEF SetInterval, Counted
    <3> QED
      BY <1>4, <2>1, <3>1, CountedStep DEF SetInterval
  <2> QED
    BY <1>4, <2>3, <2>4 DEF SetInterval, ThreadTypes, PrefTypes, AccessTypes, Alive
<1>5. CASE RefreshPreferences
  <2>1. events' \in 0..MaxEvents /\ events' = events + 1
    BY <1>5 DEF RefreshPreferences, Event, LoopTypes
  <2>2. PrefTypes' /\ pref'.sys = pref.sys /\ pref'.changed = pref.changed
          /\ pref'.carried = pref.carried
    BY <1>5 DEF RefreshPreferences, PrefTypes, Prefs
  <2>3. LoopTypes'
    BY <1>5, <2>1 DEF RefreshPreferences, LoopTypes, loopVars
  <2>4. Counted'
    <3>1. thread' = thread /\ (thread["prefs"].at = "emitting" => pref.carried # <<>>)
      BY <1>5, <2>1, <2>2 DEF RefreshPreferences, Counted
    <3> QED
      BY <1>5, <2>1, <2>2, <3>1, CountedStep DEF RefreshPreferences
  <2> QED
    BY <1>5, <2>2, <2>3, <2>4 DEF RefreshPreferences, ThreadTypes, AccessTypes, Alive
<1>6. CASE Run
  BY <1>6 DEF Run, LoopTypes, ThreadTypes, PrefTypes, AccessTypes, Alive, Counted, loopVars, Places
<1>7. CASE Quit
  BY <1>7 DEF Quit, LoopTypes, ThreadTypes, PrefTypes, AccessTypes, Alive, Counted, loopVars
<1>8. CASE Destroy
  <2>1. <<"dispose">> \in BackendSteps
    BY DEF BackendSteps
  <2>2. << <<"dispose">> >> \in Seq(BackendSteps)
    BY <2>1
  <2>3. StopThread("access") \in Seq(BackendSteps) /\ StopThread("prefs") \in Seq(BackendSteps)
    BY CallsAreSteps DEF Kinds
  <2>4. todo' \in Seq(BackendSteps)
    BY <1>8, <2>2, <2>3, CallsAreSteps DEF Destroy
  <2> QED
    BY <1>8, <2>4
    DEF Destroy, LoopTypes, ThreadTypes, PrefTypes, AccessTypes, Alive, Counted, loopVars, Places
<1> QED
  BY <1>1, <1>2, <1>3, <1>4, <1>5, <1>6, <1>7, <1>8 DEF UserStep

\* A change of one thread that keeps its shape.
LEMMA ThreadChange ==
  ASSUME ThreadTypes, Alive, NEW kind \in Kinds, NEW new \in Threads,
         new.ptr => new.alive, new.alive <=> new.at # "ended",
         thread' = [thread EXCEPT ![kind] = new]
  PROVE  ThreadTypes' /\ Alive' /\ thread'[kind] = new
           /\ \A other \in Kinds \ {kind} : thread'[other] = thread[other]
<1>1. ThreadTypes'
  BY DEF ThreadTypes
<1>2. \A other \in Kinds : thread'[other] = IF other = kind THEN new ELSE thread[other]
  BY DEF ThreadTypes
<1>3. Alive'
  BY <1>2 DEF Alive
<1> QED
  BY <1>1, <1>2, <1>3

\* The backend's calls.
LEMMA CallTypes == TypeInv /\ CallStep => TypeInv'
<1> SUFFICES ASSUME TypeInv, CallStep PROVE TypeInv'
  OBVIOUS
<1> USE DEF TypeInv
<1>0. /\ todo \in Seq(BackendSteps)
      /\ thread["prefs"].at = "emitting" => pref.carried # <<>>
  BY DEF LoopTypes, Counted
<1>1. CASE StopLock
  <2> DEFINE kind == Head(todo)[2]
             new  == [thread[kind] EXCEPT !.stop = TRUE]
  <2>1. todo # <<>> /\ kind \in Kinds
    BY <1>0, <1>1, StepKind DEF StopLock, Doing
  <2>2. thread[kind] \in Threads
    BY <2>1 DEF ThreadTypes
  <2>3. new \in Threads /\ new.ptr = thread[kind].ptr /\ new.alive = thread[kind].alive
          /\ new.at = thread[kind].at
    BY <2>2 DEF Threads
  <2>4. thread' = [thread EXCEPT ![kind] = new]
    BY <1>1 DEF StopLock
  <2>5. copied' \in BOOLEAN
    BY <1>1, <2>2 DEF StopLock, Threads
  <2>6. <<"quit", kind>> \in BackendSteps /\ <<"join", kind>> \in BackendSteps
    BY <2>1 DEF BackendSteps
  <2>7. Tail(todo) \in Seq(BackendSteps)
    BY <1>0, <2>1, TailSteps
  <2>8. todo' \in Seq(BackendSteps)
    BY <1>1, <2>6, <2>7 DEF StopLock
  <2>9. PrefTypes' /\ pref'.sys = pref.sys /\ pref'.changed = pref.changed
          /\ pref'.carried = pref.carried
    BY <1>1 DEF StopLock, PrefTypes, Prefs
  <2>10. new.ptr => new.alive
    BY <2>1, <2>3 DEF Alive
  <2>11. new.alive <=> new.at # "ended"
    BY <2>1, <2>3 DEF Alive
  <2> HIDE DEF new, kind
  <2>12. ThreadTypes' /\ Alive'
    BY <2>1, <2>3, <2>4, <2>10, <2>11, ThreadChange
  <2>13. thread'["prefs"].at = thread["prefs"].at
    BY <2>1, <2>3, <2>4, <2>10, <2>11, ThreadChange DEF Kinds
  <2>14. Counted'
    BY <1>0, <1>1, <2>9, <2>13, CountedStep DEF StopLock
  <2> QED
    BY <1>1, <2>5, <2>8, <2>9, <2>12, <2>14 DEF StopLock, LoopTypes, AccessTypes, loopVars
<1>2. ASSUME NEW kind \in Kinds, NEW step \in {"quit", "sync"}, Invoke(step, kind)
      PROVE  TypeInv'
  <2> DEFINE new == [thread[kind] EXCEPT !.inbox = Append(@, step)]
  <2>1. thread[kind] \in Threads
    BY DEF ThreadTypes
  <2>2. Append(thread[kind].inbox, step) \in Seq({"quit", "sync"})
    BY <2>1 DEF Threads
  <2>3. new \in Threads /\ new.ptr = thread[kind].ptr /\ new.alive = thread[kind].alive
          /\ new.at = thread[kind].at
    BY <2>1, <2>2 DEF Threads
  <2>4. thread' = [thread EXCEPT ![kind] = new] \/ thread' = thread
    BY <1>2 DEF Invoke
  <2>5. todo' \in Seq(BackendSteps)
    BY <1>0, <1>2, TailSteps DEF Invoke, Doing
  <2>6. new.ptr => new.alive
    BY <2>3 DEF Alive
  <2>7. new.alive <=> new.at # "ended"
    BY <2>3 DEF Alive
  <2> HIDE DEF new
  <2>8. ThreadTypes' /\ Alive'
    BY <2>3, <2>4, <2>6, <2>7, ThreadChange DEF ThreadTypes, Alive
  <2>9. thread'["prefs"].at = thread["prefs"].at
    BY <2>3, <2>4, <2>6, <2>7, ThreadChange DEF Kinds
  <2>10. Counted'
    BY <1>0, <1>2, <2>9, CountedStep DEF Invoke
  <2> QED
    BY <1>2, <2>5, <2>8, <2>10 DEF Invoke, LoopTypes, PrefTypes, AccessTypes, loopVars
<1>3. CASE InvokeQuit
  <2>1. Head(todo)[2] \in Kinds
    BY <1>0, <1>3, StepKind DEF InvokeQuit, Doing
  <2> QED
    BY <1>2, <1>3, <2>1 DEF InvokeQuit
<1>4. CASE InvokeSync
  BY <1>2, <1>4 DEF InvokeSync, Kinds
<1>5. CASE Join
  <2>1. todo' \in Seq(BackendSteps)
    BY <1>0, <1>5, TailSteps DEF Join, Doing
  <2> QED
    BY <1>5, <2>1
    DEF Join, LoopTypes, ThreadTypes, PrefTypes, AccessTypes, Alive, Counted, loopVars
<1>6. CASE StartObservation
  <2>1. todo' \in Seq(BackendSteps)
    BY <1>0, <1>6, TailSteps DEF StartObservation, Doing
  <2>2. PrefTypes' /\ pref'.sys = pref.sys /\ pref'.changed = 0
    <3>1. 0 \in Settings
      BY PlatformAssumption DEF PlatformAssumption, Settings
    <3>2. pref' = [pref EXCEPT !.observer = TRUE, !.changed = 0]
      BY <1>6 DEF StartObservation
    <3> QED
      BY <3>1, <3>2 DEF PrefTypes, Prefs
  <2>3. NewThread \in Threads /\ NewThread.alive /\ NewThread.at # "ended"
    BY DEF NewThread, Threads, Stages
  <2>4. thread' = [thread EXCEPT !["prefs"] = NewThread]
    BY <1>6 DEF StartObservation
  <2>5. ThreadTypes' /\ Alive' /\ thread'["prefs"] = NewThread
    BY <2>3, <2>4, ThreadChange DEF Kinds
  <2>6. thread'["prefs"].at # "emitting"
    BY <2>5 DEF NewThread
  <2>7. Counted'
    BY <1>6, <2>2, <2>6, CountedStep DEF StartObservation
  <2> QED
    BY <1>6, <2>1, <2>2, <2>5, <2>7 DEF StartObservation, LoopTypes, AccessTypes, loopVars
<1>7. CASE Publish
  <2>1. todo' \in Seq(BackendSteps)
    BY <1>0, <1>7, TailSteps DEF Publish, Doing
  <2>2. copied' \in BOOLEAN
    BY <1>7 DEF Publish, ThreadTypes, Threads, Kinds
  <2>3. AccessTypes' /\ access'.tree = access.tree
    BY <1>7 DEF Publish, AccessTypes, Accesses
  <2>4. Counted'
    BY <1>0, <1>7, <2>3, CountedStep DEF Publish
  <2> QED
    BY <1>7, <2>1, <2>2, <2>3, <2>4
    DEF Publish, LoopTypes, ThreadTypes, PrefTypes, Alive, loopVars
<1>8. CASE Answer
  <2>1. todo' \in Seq(BackendSteps)
    BY <1>0, <1>8, TailSteps DEF Answer, Doing
  <2>2. Head(todo)[2] \in Actions
    BY <1>0, <1>8, StepAction DEF Answer, Doing
  <2>3. action' \in [Actions -> {"none", "posted", "performed", "refused"}]
    BY <1>8, <2>2 DEF Answer, LoopTypes
  <2> QED
    BY <1>8, <2>1, <2>3
    DEF Answer, LoopTypes, ThreadTypes, PrefTypes, AccessTypes, Alive, Counted, loopVars
<1>9. CASE Dispose
  <2>1. todo' \in Seq(BackendSteps)
    BY <1>0, <1>9, TailSteps DEF Dispose, Doing
  <2>2. action' \in [Actions -> {"none", "posted", "performed", "refused"}]
    BY <1>9 DEF Dispose, Refused, LoopTypes
  <2>3. tasks' \in Seq(Tasks)
    BY <1>9 DEF Dispose
  <2> QED
    BY <1>9, <2>1, <2>2, <2>3
    DEF Dispose, LoopTypes, ThreadTypes, PrefTypes, AccessTypes, Alive, Counted, Places
<1> QED
  BY <1>1, <1>3, <1>4, <1>5, <1>6, <1>7, <1>8, <1>9 DEF CallStep

\* run_event_loop().
LEMMA LoopTypesStep == TypeInv /\ LoopStep => TypeInv'
<1> SUFFICES ASSUME TypeInv, LoopStep PROVE TypeInv'
  OBVIOUS
<1> USE DEF TypeInv
<1>0. /\ todo \in Seq(BackendSteps)
      /\ batch \in Seq(Tasks)
      /\ thread["prefs"].at = "emitting" => pref.carried # <<>>
  BY DEF LoopTypes, Counted
<1>1. CASE Iterate \/ LeavePoll
  BY <1>1 DEF Iterate, LeavePoll, LoopTypes, ThreadTypes, PrefTypes, AccessTypes, Alive, Counted, loopVars,
     Places
<1>2. CASE EnterPoll
  <2>1. tasks' \in Seq(Tasks) /\ batch' \in Seq(Tasks) /\ didWork' \in BOOLEAN
    BY <1>2 DEF EnterPoll, LoopTypes
  <2> QED
    BY <1>2, <2>1 DEF EnterPoll, LoopTypes, ThreadTypes, PrefTypes, AccessTypes, Alive, Counted,
       Places
<1>3. CASE ApplyPreferences
  <2>1. Head(batch) \in Tasks /\ Tail(batch) \in Seq(Tasks)
    BY <1>0, <1>3 DEF ApplyPreferences
  <2>2. Head(batch)[2] \in Settings
    BY <1>3, <2>1 DEF ApplyPreferences, Tasks
  <2>3. PrefTypes' /\ pref'.sys = pref.sys /\ pref'.changed = pref.changed
          /\ pref'.carried = pref.carried
    BY <1>3, <2>2 DEF ApplyPreferences, PrefTypes, Prefs
  <2>4. Counted'
    BY <1>0, <1>3, <2>3, CountedStep DEF ApplyPreferences
  <2>5. LoopTypes'
    BY <1>3, <2>1 DEF ApplyPreferences, LoopTypes
  <2> QED
    BY <1>3, <2>3, <2>4, <2>5 DEF ApplyPreferences, ThreadTypes, AccessTypes, Alive
<1>4. ASSUME NEW performed \in BOOLEAN, PerformAction(performed)
      PROVE  TypeInv'
  <2>1. Head(batch) \in Tasks /\ Tail(batch) \in Seq(Tasks)
    BY <1>0, <1>4 DEF PerformAction
  <2>2. Head(batch)[2] \in Actions
    BY <1>4, <2>1 DEF PerformAction, Tasks
  <2>3. <<"answer", Head(batch)[2], performed>> \in BackendSteps
    BY <2>2 DEF BackendSteps
  <2>4. << <<"answer", Head(batch)[2], performed>> >> \in Seq(BackendSteps)
    BY <2>3
  <2>5. todo' \in Seq(BackendSteps)
    BY <1>4, <2>4, CallsAreSteps DEF PerformAction
  <2>6. CASE performed
    <3>1. events' \in 0..MaxEvents /\ events' = events + 1
      BY <1>4, <2>6, PlatformAssumption DEF PlatformAssumption, PerformAction, Event, LoopTypes
    <3>2. access.tree + 1 \in Versions
      <4>1. events < MaxEvents
        BY <1>4, <2>6 DEF PerformAction, Event
      <4>2. access.tree \in Versions /\ access.tree <= events + 1
        BY DEF AccessTypes, Accesses, Counted
      <4> QED
        BY <4>1, <4>2, Numbers, PlatformAssumption DEF PlatformAssumption, Versions
    <3>3. AccessTypes' /\ access'.tree = access.tree + 1
      BY <1>4, <2>6, <3>2 DEF PerformAction, AccessTypes, Accesses
    <3>4. Counted'
      BY <1>0, <1>4, <3>1, <3>3, CountedStep DEF PerformAction
    <3>5. LoopTypes'
      BY <1>4, <2>1, <2>5, <3>1 DEF PerformAction, LoopTypes
    <3> QED
      BY <1>4, <3>3, <3>4, <3>5 DEF PerformAction, ThreadTypes, PrefTypes, Alive
  <2>7. CASE ~performed
    <3>1. UNCHANGED <<events, access>>
      BY <1>4, <2>7 DEF PerformAction
    <3>2. LoopTypes'
      BY <1>4, <2>1, <2>5, <3>1 DEF PerformAction, LoopTypes
    <3> QED
      BY <1>4, <3>1, <3>2 DEF PerformAction, ThreadTypes, PrefTypes, AccessTypes, Alive, Counted
  <2> QED
    BY <2>6, <2>7
<1>5. ASSUME NEW elapsed \in BOOLEAN, RefreshIfDue(elapsed)
      PROVE  TypeInv'
  <2>1. AccessTypes' /\ access'.tree = access.tree
    BY <1>5 DEF RefreshIfDue, AccessTypes, Accesses
  <2>2. todo' \in Seq(BackendSteps)
    BY <1>5, CallsAreSteps DEF RefreshIfDue
  <2>3. Counted'
    BY <1>0, <1>5, <2>1, CountedStep DEF RefreshIfDue
  <2> QED
    BY <1>5, <2>1, <2>2, <2>3
    DEF RefreshIfDue, LoopTypes, ThreadTypes, PrefTypes, Alive, loopVars, Places
<1> QED
  BY <1>1, <1>2, <1>3, <1>4, <1>5 DEF LoopStep

\* A worker that goes from one stage to another, with its pointers as they are.
LEMMA MoveTypes ==
  ASSUME TypeInv, NEW kind \in Kinds, NEW at \in Stages \ {"ended"},
         thread[kind].at # "ended", Move(kind, at)
  PROVE  ThreadTypes' /\ Alive' /\ thread'[kind].at = at
           /\ \A other \in Kinds \ {kind} : thread'[other] = thread[other]
<1> DEFINE new == [thread[kind] EXCEPT !.at = at]
<1>1. thread[kind] \in Threads
  BY DEF TypeInv, ThreadTypes
<1>2. new \in Threads /\ new.ptr = thread[kind].ptr /\ new.alive = thread[kind].alive
        /\ new.at = at
  BY <1>1 DEF Threads
<1>3. new.ptr => new.alive
  BY <1>2 DEF TypeInv, Alive
<1>4. new.alive <=> new.at # "ended"
  BY <1>2 DEF TypeInv, Alive
<1>5. thread' = [thread EXCEPT ![kind] = new]
  BY DEF Move
<1> HIDE DEF new
<1> QED
  BY <1>2, <1>3, <1>4, <1>5, ThreadChange DEF TypeInv

\* The ends of both workers.
LEMMA EndTypes ==
  ASSUME TypeInv, NEW kind \in Kinds, End(kind) \/ QuitLoop(kind)
  PROVE  TypeInv'
<1> USE DEF TypeInv
<1>1. thread[kind] \in Threads
  BY DEF ThreadTypes
<1>2. CASE End(kind)
  <2> DEFINE new == [thread[kind] EXCEPT !.at = "ended", !.ptr = FALSE, !.alive = FALSE,
                                         !.inbox = <<>>]
  <2>1. new \in Threads /\ ~new.ptr /\ ~new.alive /\ new.at = "ended"
    <3>1. <<>> \in Seq({"quit", "sync"})
      OBVIOUS
    <3> QED
      BY <1>1, <3>1 DEF Threads, Stages
  <2>2. thread' = [thread EXCEPT ![kind] = new]
    BY <1>2 DEF End
  <2> HIDE DEF new
  <2>3. ThreadTypes' /\ Alive' /\ (thread'["prefs"].at # "emitting" \/ thread'["prefs"] = thread["prefs"])
    BY <2>1, <2>2, ThreadChange DEF Kinds
  <2>4. AccessTypes' /\ access'.tree = access.tree
    BY <1>2 DEF End, AccessTypes, Accesses
  <2>5. Counted'
    BY <1>2, <2>3, <2>4, CountedStep DEF End, Counted
  <2> QED
    BY <1>2, <2>3, <2>4, <2>5 DEF End, LoopTypes, PrefTypes, loopVars
<1>3. CASE QuitLoop(kind)
  <2> DEFINE new == [thread[kind] EXCEPT !.at = "leaving", !.inbox = Tail(@)]
  <2>1. Tail(thread[kind].inbox) \in Seq({"quit", "sync"})
    BY <1>1, <1>3 DEF QuitLoop, Threads
  <2>2. new \in Threads /\ new.ptr = thread[kind].ptr /\ new.alive = thread[kind].alive
          /\ new.at = "leaving"
    BY <1>1, <2>1 DEF Threads, Stages
  <2>3. thread' = [thread EXCEPT ![kind] = new]
    BY <1>3 DEF QuitLoop
  <2>4. new.ptr => new.alive
    BY <2>2 DEF Alive
  <2>5. new.alive <=> new.at # "ended"
    BY <1>3, <2>2 DEF Alive, QuitLoop, At
  <2> HIDE DEF new
  <2>6. ThreadTypes' /\ Alive' /\ (thread'["prefs"].at # "emitting" \/ thread'["prefs"] = thread["prefs"])
    BY <2>2, <2>3, <2>4, <2>5, ThreadChange DEF Kinds
  <2>7. AccessTypes' /\ access'.tree = access.tree
    BY <1>3, PlatformAssumption DEF PlatformAssumption, QuitLoop, AccessTypes, Accesses
  <2>8. Counted'
    BY <1>3, <2>6, <2>7, CountedStep DEF QuitLoop, Counted
  <2> QED
    BY <1>3, <2>6, <2>7, <2>8 DEF QuitLoop, LoopTypes, PrefTypes, loopVars
<1> QED
  BY <1>2, <1>3

\* The accessibility thread and its clients.
LEMMA AccessTypesStep == TypeInv /\ (AccessStep \/ ClientStep) => TypeInv'
<1> SUFFICES ASSUME TypeInv, AccessStep \/ ClientStep PROVE TypeInv'
  OBVIOUS
<1> USE DEF TypeInv
<1>0. /\ "access" \in Kinds /\ thread["access"] \in Threads
      /\ thread["prefs"].at = "emitting" => pref.carried # <<>>
  BY DEF Kinds, ThreadTypes, Counted
<1>1. CASE PublishAccess
  <2> DEFINE new == [thread["access"] EXCEPT !.ptr = TRUE, !.at =
                       IF access.bus /\ ~thread["access"].stop THEN "attaching" ELSE "leaving"]
  <2>1. new \in Threads /\ new.alive = thread["access"].alive /\ new.at \in {"attaching", "leaving"}
    BY <1>0 DEF Threads, Stages
  <2>2. thread["access"].alive
    BY <1>0, <1>1 DEF PublishAccess, At, Alive
  <2>3. thread' = [thread EXCEPT !["access"] = new]
    BY <1>1 DEF PublishAccess
  <2> HIDE DEF new
  <2>4. new.ptr => new.alive
    BY <2>1, <2>2
  <2>5. new.alive <=> new.at # "ended"
    BY <2>1, <2>2
  <2>6. ThreadTypes' /\ Alive' /\ thread'["prefs"] = thread["prefs"]
    BY <1>0, <2>1, <2>3, <2>4, <2>5, ThreadChange DEF Kinds
  <2>7. AccessTypes' /\ access'.tree = access.tree
    BY <1>1 DEF PublishAccess, AccessTypes, Accesses
  <2>8. Counted'
    BY <1>0, <1>1, <2>6, <2>7, CountedStep DEF PublishAccess
  <2> QED
    BY <1>1, <2>6, <2>7, <2>8 DEF PublishAccess, LoopTypes, PrefTypes, loopVars
<1>2. CASE SyncTake
  <2>1. ThreadTypes' /\ Alive' /\ thread'["prefs"] = thread["prefs"]
    <3>1. CASE At("access", "attaching") /\ Move("access", "syncing")
      BY <1>0, <3>1, MoveTypes DEF At, Stages, Kinds
    <3>2. CASE /\ At("access", "running")
               /\ thread["access"].inbox # <<>>
               /\ thread' = [thread EXCEPT !["access"].at = "syncing", !["access"].inbox = Tail(@)]
      <4> DEFINE new == [thread["access"] EXCEPT !.at = "syncing", !.inbox = Tail(@)]
      <4>1. Tail(thread["access"].inbox) \in Seq({"quit", "sync"})
        BY <1>0, <3>2 DEF Threads
      <4>2. new \in Threads /\ new.ptr = thread["access"].ptr
              /\ new.alive = thread["access"].alive /\ new.at = "syncing"
        BY <1>0, <4>1 DEF Threads, Stages
      <4>3. thread' = [thread EXCEPT !["access"] = new]
        BY <3>2
      <4>4. new.ptr => new.alive
        BY <1>0, <4>2 DEF Alive
      <4>5. new.alive <=> new.at # "ended"
        BY <1>0, <3>2, <4>2 DEF Alive, At
      <4> HIDE DEF new
      <4> QED
        BY <1>0, <4>2, <4>3, <4>4, <4>5, ThreadChange DEF Kinds
    <3> QED
      BY <1>2, <3>1, <3>2 DEF SyncTake
  <2>2. access.published \in 0..(MaxEvents + 1)
    BY PlatformAssumption DEF PlatformAssumption, AccessTypes, Accesses, Versions
  <2>3. AccessTypes' /\ access'.tree = access.tree
    BY <1>2, <2>2 DEF SyncTake, AccessTypes, Accesses
  <2>4. Counted'
    BY <1>0, <1>2, <2>1, <2>3, CountedStep DEF SyncTake
  <2> QED
    BY <1>2, <2>1, <2>3, <2>4 DEF SyncTake, LoopTypes, PrefTypes, loopVars
<1>3. CASE SyncEmit
  <2>1. ThreadTypes' /\ Alive' /\ thread'["prefs"] = thread["prefs"]
    BY <1>0, <1>3, MoveTypes DEF SyncEmit, At, Stages, Kinds
  <2>2. AccessTypes' /\ access'.tree = access.tree
    BY <1>3 DEF SyncEmit, AccessTypes, Accesses
  <2>3. Counted'
    BY <1>0, <1>3, <2>1, <2>2, CountedStep DEF SyncEmit
  <2> QED
    BY <1>3, <2>1, <2>2, <2>3 DEF SyncEmit, LoopTypes, PrefTypes, loopVars
<1>4. CASE Query
  <2>1. events' \in 0..MaxEvents /\ events' = events + 1
    BY <1>4, PlatformAssumption DEF PlatformAssumption, Query, Event, LoopTypes
  <2>2. AccessTypes' /\ access'.tree = access.tree
    BY <1>4 DEF Query, AccessTypes, Accesses
  <2>3. Counted'
    BY <1>0, <1>4, <2>1, <2>2, CountedStep DEF Query
  <2> QED
    BY <1>4, <2>1, <2>2, <2>3 DEF Query, LoopTypes, ThreadTypes, PrefTypes, Alive, loopVars
<1>5. ASSUME NEW a \in Actions, NEW posted \in BOOLEAN, AskAction(a, posted)
      PROVE  TypeInv'
  <2>1. events' \in 0..MaxEvents /\ events' = events + 1
    BY <1>5, PlatformAssumption DEF PlatformAssumption, AskAction, Event, LoopTypes
  <2>2. AccessTypes' /\ access'.tree = access.tree
    BY <1>5 DEF AskAction, AccessTypes, Accesses
  <2>3. <<"action", a>> \in Tasks
    BY DEF Tasks
  <2>4. tasks' \in Seq(Tasks)
    BY <1>5, <2>3 DEF AskAction, LoopTypes
  <2>5. action' \in [Actions -> {"none", "posted", "performed", "refused"}]
    BY <1>5 DEF AskAction, LoopTypes
  <2>6. Counted'
    BY <1>0, <1>5, <2>1, <2>2, CountedStep DEF AskAction
  <2> QED
    BY <1>5, <2>1, <2>2, <2>4, <2>5, <2>6
    DEF AskAction, LoopTypes, ThreadTypes, PrefTypes, Alive
<1> QED
  BY <1>0, <1>1, <1>2, <1>3, <1>4, <1>5, EndTypes DEF AccessStep, ClientStep

\* The preferences thread and the desktop.
LEMMA PrefsTypes == TypeInv /\ (PrefsStep \/ ChangeSettings) => TypeInv'
<1> SUFFICES ASSUME TypeInv, PrefsStep \/ ChangeSettings PROVE TypeInv'
  OBVIOUS
<1> USE DEF TypeInv
<1>0. /\ "prefs" \in Kinds /\ thread["prefs"] \in Threads
      /\ thread["prefs"].at = "emitting" => pref.carried # <<>>
  BY DEF Kinds, ThreadTypes, Counted
<1>1. CASE PublishPrefs
  <2> DEFINE new == [thread["prefs"] EXCEPT !.ptr = TRUE, !.at = "published"]
  <2>1. new \in Threads /\ new.alive = thread["prefs"].alive /\ new.at = "published"
    BY <1>0 DEF Threads, Stages
  <2>2. thread["prefs"].alive
    BY <1>0, <1>1 DEF PublishPrefs, At, Alive
  <2>3. thread' = [thread EXCEPT !["prefs"] = new]
    BY <1>1 DEF PublishPrefs
  <2> HIDE DEF new
  <2>4. new.ptr => new.alive
    BY <2>1, <2>2
  <2>5. new.alive <=> new.at # "ended"
    BY <2>1, <2>2
  <2>6. ThreadTypes' /\ Alive' /\ thread'["prefs"].at # "emitting"
    BY <1>0, <2>1, <2>3, <2>4, <2>5, ThreadChange DEF Kinds
  <2>7. Counted'
    BY <1>0, <1>1, <2>6, CountedStep DEF PublishPrefs
  <2> QED
    BY <1>1, <2>6, <2>7 DEF PublishPrefs, LoopTypes, PrefTypes, AccessTypes, loopVars
<1>2. CASE TestStop
  <2>1. ThreadTypes' /\ Alive' /\ thread'["prefs"].at # "emitting"
    BY <1>0, <1>2, MoveTypes DEF TestStop, At, Stages
  <2>2. Counted'
    BY <1>0, <1>2, <2>1, CountedStep DEF TestStop
  <2> QED
    BY <1>2, <2>1, <2>2 DEF TestStop, LoopTypes, PrefTypes, AccessTypes, loopVars
<1>3. CASE HandleChange
  <2>1. pref.changed - 1 \in Settings /\ <<pref.sys>> \in Seq(Settings) /\ <<pref.sys>> # <<>>
    BY <1>3, PlatformAssumption
    DEF PlatformAssumption, HandleChange, PrefTypes, Prefs, Settings
  <2>2. CASE pref.observer
    <3>1. ThreadTypes' /\ Alive'
      BY <1>0, <1>3, <2>2, MoveTypes DEF HandleChange, At, Stages
    <3>2. PrefTypes' /\ pref'.sys = pref.sys /\ pref'.changed = pref.changed - 1
            /\ pref'.carried = <<pref.sys>>
      BY <1>3, <2>1, <2>2 DEF HandleChange, PrefTypes, Prefs
    <3>3. Counted'
      BY <1>0, <1>3, <2>1, <3>2, CountedStep DEF HandleChange
    <3> QED
      BY <1>3, <3>1, <3>2, <3>3 DEF HandleChange, LoopTypes, AccessTypes, loopVars
  <2>3. CASE ~pref.observer
    <3>1. UNCHANGED thread
      BY <1>3, <2>3 DEF HandleChange
    <3>2. PrefTypes' /\ pref'.sys = pref.sys /\ pref'.changed = pref.changed - 1
            /\ pref'.carried = pref.carried
      BY <1>3, <2>1, <2>3 DEF HandleChange, PrefTypes, Prefs
    <3>3. Counted'
      BY <1>0, <1>3, <3>1, <3>2, CountedStep DEF HandleChange
    <3> QED
      BY <1>3, <3>1, <3>2, <3>3
      DEF HandleChange, LoopTypes, ThreadTypes, AccessTypes, Alive, loopVars
  <2> QED
    BY <2>2, <2>3
<1>4. CASE PostChange
  <2>1. pref.carried \in Seq(Settings) /\ pref.carried # <<>>
    BY <1>0, <1>4 DEF PostChange, At, PrefTypes, Prefs
  <2>2. <<"prefs", Head(pref.carried)>> \in Tasks
    BY <2>1 DEF Tasks
  <2>3. tasks' \in Seq(Tasks)
    BY <1>4, <2>2 DEF PostChange, LoopTypes
  <2>4. ThreadTypes' /\ Alive' /\ thread'["prefs"].at # "emitting"
    BY <1>0, <1>4, MoveTypes DEF PostChange, At, Stages
  <2>5. PrefTypes' /\ pref'.sys = pref.sys /\ pref'.changed = pref.changed
    <3>1. <<>> \in Seq(Settings)
      OBVIOUS
    <3> QED
      BY <1>4, <3>1 DEF PostChange, PrefTypes, Prefs
  <2>6. Counted'
    BY <1>0, <1>4, <2>4, <2>5, CountedStep DEF PostChange
  <2> QED
    BY <1>4, <2>3, <2>4, <2>5, <2>6 DEF PostChange, LoopTypes, AccessTypes
<1>5. CASE ChangeSettings
  <2>1. events' \in 0..MaxEvents /\ events' = events + 1
    BY <1>5, PlatformAssumption DEF PlatformAssumption, ChangeSettings, Event, LoopTypes
  <2>2. pref.sys + 1 \in Settings /\ pref.changed + 1 \in Settings
    BY <1>5, PlatformAssumption
    DEF PlatformAssumption, ChangeSettings, Event, LoopTypes, Counted, PrefTypes, Prefs, Settings
  <2>3. (~Subscribed \/ thread["prefs"].stop) \in BOOLEAN
    OBVIOUS
  <2>4. /\ PrefTypes' /\ pref'.sys = pref.sys + 1
        /\ pref'.changed \in {pref.changed, pref.changed + 1}
        /\ pref'.carried = pref.carried
    BY <1>5, <2>2, <2>3 DEF ChangeSettings, PrefTypes, Prefs
  <2>5. Counted'
    BY <1>0, <1>5, <2>1, <2>4, CountedStep DEF ChangeSettings
  <2> QED
    BY <1>5, <2>1, <2>4, <2>5
    DEF ChangeSettings, LoopTypes, ThreadTypes, AccessTypes, Alive, loopVars
<1> QED
  BY <1>0, <1>1, <1>2, <1>3, <1>4, <1>5, EndTypes DEF PrefsStep

LEMMA TypesStep == TypeInv /\ [Next]_vars => TypeInv'
<1>1. TypeInv /\ UNCHANGED vars => TypeInv'
  BY DEF vars, TypeInv, LoopTypes, ThreadTypes, PrefTypes, AccessTypes, Alive, Counted
<1> QED
  BY <1>1, UserTypes, CallTypes, LoopTypesStep, AccessTypesStep, PrefsTypes DEF Next, Gone

\* The state has its shape, and a worker's published pointers are good.
THEOREM TypeCorrect == Spec => []TypeOK
<1>1. Init => TypeInv
  BY TypesInit
<1>2. TypeInv /\ [Next]_vars => TypeInv'
  BY TypesStep
<1>3. TypeInv => TypeOK
  BY TypeInvTypes
<1> QED
  BY <1>1, <1>2, <1>3, PTL DEF Spec

-----------------------------------------------------------------------------
(***************************************************************************)
(* The accessibility context is alive when the UI thread uses it.           *)
(***************************************************************************)
StopAccess == <<"stop", "access">>
StopPrefs  == <<"stop", "prefs">>
QuitAccess == <<"quit", "access">>
JoinAccess == <<"join", "access">>

Closing == place \in {"closing", "gone"}

\* The thread is stopped once, by the destructor, which does nothing else with it; its
\* loop is quit right after the pointers were copied.
StopsOnce ==
  /\ \A i \in 1..Len(todo) : todo[i] = StopAccess => Closing /\ ~thread["access"].stop
  /\ \A i, j \in 1..Len(todo) : todo[i] = StopAccess /\ todo[j] = StopAccess => i = j
  /\ \A i \in 1..Len(todo) : todo[i] = QuitAccess => i = 1 /\ thread["access"].stop
  /\ Closing => \A i \in 1..Len(todo) : todo[i] \notin {<<"publish">>, <<"sync">>}
  /\ thread["access"].stop => Closing
  /\ \A i \in 1..Len(todo) : todo[i] = <<"dispose">> => Closing

NoQuit == \A i \in 1..Len(thread["access"].inbox) : thread["access"].inbox[i] # "quit"

\* On a bus the thread ends only when it is stopped, and its loop only when it is quit.
EndsWhenStopped ==
  /\ thread["access"].at \in {"created", "attaching", "syncing", "running", "leaving", "ended"}
  /\ thread["access"].at = "created" => ~thread["access"].ptr
  /\ access.bus /\ thread["access"].at \in {"leaving", "ended"} => thread["access"].stop
  /\ ~thread["access"].stop => NoQuit
  /\ todo # <<>> /\ Head(todo) = QuitAccess /\ copied /\ access.bus
       => thread["access"].at \in {"attaching", "syncing", "running"} /\ NoQuit

ServedInv == TypeInv /\ StopsOnce /\ EndsWhenStopped

LEMMA ServedIsAlive == ServedInv => ServedContextIsAlive
<1> SUFFICES ASSUME ServedInv, access.bus, copied,
                    Doing("sync") \/ (Doing("quit") /\ Head(todo)[2] = "access")
             PROVE  thread["access"].alive
  BY DEF ServedContextIsAlive
<1>1. todo \in Seq(BackendSteps) /\ todo # <<>>
  BY DEF ServedInv, TypeInv, LoopTypes, Doing
<1>2. Head(todo) = todo[1] /\ 1 \in 1..Len(todo) /\ Head(todo) \in BackendSteps
  BY <1>1
<1>3. thread["access"].at # "ended"
  <2>1. CASE Doing("sync")
    <3>1. Head(todo) = <<"sync">>
      BY <1>2, <2>1 DEF BackendSteps, Doing
    <3>2. ~thread["access"].stop
      BY <1>2, <3>1 DEF ServedInv, StopsOnce
    <3> QED
      BY <3>2 DEF ServedInv, EndsWhenStopped
  <2>2. CASE Doing("quit") /\ Head(todo)[2] = "access"
    <3>1. Head(todo) = QuitAccess
      BY <1>2, <2>2 DEF BackendSteps, Doing, QuitAccess, Kinds
    <3> QED
      BY <1>1, <3>1 DEF ServedInv, EndsWhenStopped
  <2> QED
    BY <2>1, <2>2
<1> QED
  BY <1>3 DEF ServedInv, TypeInv, Alive, Kinds

LEMMA ServedInit == Init => StopsOnce /\ EndsWhenStopped
<1> SUFFICES ASSUME Init PROVE StopsOnce /\ EndsWhenStopped
  OBVIOUS
<1>1. thread["access"] = NewThread
  BY DEF Init, Kinds
<1>2. todo = <<>> /\ Len(todo) = 0
  BY DEF Init
<1>3. /\ NewThread.at = "created" /\ ~NewThread.stop /\ ~NewThread.ptr
      /\ NewThread.inbox = <<>> /\ Len(NewThread.inbox) = 0
  BY DEF NewThread
<1>4. ~Closing
  BY DEF Init, Closing
<1>5. 1..0 = {}
  OBVIOUS
<1>6. StopsOnce
  BY <1>1, <1>2, <1>3, <1>4, <1>5 DEF StopsOnce
<1>7. NoQuit
  BY <1>1, <1>3, <1>5 DEF NoQuit
<1> QED
  BY <1>1, <1>2, <1>3, <1>6, <1>7 DEF EndsWhenStopped

\* What the invariant speaks of is left alone.
LEMMA ServedUnchanged ==
  ASSUME StopsOnce, EndsWhenStopped,
         UNCHANGED <<todo, copied>>, thread'["access"] = thread["access"],
         access'.bus = access.bus, Closing' = Closing
  PROVE  StopsOnce' /\ EndsWhenStopped'
<1>1. NoQuit' = NoQuit
  BY DEF NoQuit
<1> QED
  BY <1>1 DEF StopsOnce, EndsWhenStopped

\* A call that does not touch the accessibility thread's life.
Harmless(steps) ==
  \A i \in 1..Len(steps) : steps[i] \notin {StopAccess, QuitAccess, <<"dispose">>}

LEMMA HarmlessConcat ==
  ASSUME NEW s \in Seq(BackendSteps), NEW t \in Seq(BackendSteps), Harmless(s), Harmless(t)
  PROVE  Harmless(s \o t)
<1>1. Len(s \o t) = Len(s) + Len(t)
  OBVIOUS
<1>2. ASSUME NEW i \in 1..Len(s \o t)
      PROVE  (s \o t)[i] \notin {StopAccess, QuitAccess, <<"dispose">>}
  <2>1. (s \o t)[i] = IF i <= Len(s) THEN s[i] ELSE t[i - Len(s)]
    BY <1>1
  <2>2. i <= Len(s) => i \in 1..Len(s)
    BY <1>1
  <2>3. i > Len(s) => i - Len(s) \in 1..Len(t)
    BY <1>1
  <2> QED
    BY <2>1, <2>2, <2>3 DEF Harmless
<1> QED
  BY <1>2 DEF Harmless

LEMMA CallsAreHarmless ==
  /\ Harmless(RefreshSnapshot)
  /\ Harmless(StopThread("prefs")) /\ Harmless(StartThread("prefs"))
  /\ Harmless(StopObserver)
  /\ \A a, b : Harmless(<< <<"answer", a, b>> >>)
<1>1. Harmless(RefreshSnapshot)
  BY DEF Harmless, RefreshSnapshot, StopAccess, QuitAccess
<1>2. Harmless(StopThread("prefs"))
  BY DEF Harmless, StopThread, StopAccess, QuitAccess
<1>3. Harmless(StartThread("prefs"))
  BY DEF Harmless, StartThread, StopAccess, QuitAccess
<1>4. Harmless(StopObserver)
  <2>1. Harmless(<<>>)
    BY DEF Harmless
  <2> QED
    BY <1>2, <2>1 DEF StopObserver
<1>5. ASSUME NEW a, NEW b
      PROVE  Harmless(<< <<"answer", a, b>> >>)
  BY DEF Harmless, StopAccess, QuitAccess
<1> QED
  BY <1>1, <1>2, <1>3, <1>4, <1>5

\* A harmless call is made where nothing is closing.
LEMMA ServedCall ==
  ASSUME StopsOnce, EndsWhenStopped, ~Closing, ~Closing',
         todo' \in Seq(BackendSteps), Harmless(todo'),
         thread' = thread, access'.bus = access.bus
  PROVE  StopsOnce' /\ EndsWhenStopped'
<1>1. NoQuit' = NoQuit
  BY DEF NoQuit
<1>2. todo' # <<>> => Head(todo') = todo'[1] /\ 1 \in 1..Len(todo')
  OBVIOUS
<1>3. todo' # <<>> => Head(todo') # QuitAccess
  BY <1>2 DEF Harmless
<1> QED
  BY <1>1, <1>3 DEF StopsOnce, EndsWhenStopped, Harmless

\* The next step is done, and the accessibility thread is where it was.
LEMMA ServedTail ==
  ASSUME TypeInv, StopsOnce, EndsWhenStopped, todo # <<>>, todo' = Tail(todo),
         Closing' = Closing, access'.bus = access.bus,
         thread'["access"].at = thread["access"].at,
         thread'["access"].stop = thread["access"].stop,
         thread'["access"].ptr = thread["access"].ptr,
         ~thread["access"].stop => NoQuit'
  PROVE  StopsOnce' /\ EndsWhenStopped'
<1>1. /\ todo \in Seq(BackendSteps) /\ todo' \in Seq(BackendSteps)
      /\ Len(todo') = Len(todo) - 1
      /\ \A i \in 1..Len(todo') : todo'[i] = todo[i + 1] /\ i + 1 \in 1..Len(todo) /\ i + 1 # 1
  BY DEF TypeInv, LoopTypes
<1>2. \A i \in 1..Len(todo') : todo'[i] # QuitAccess
  BY <1>1 DEF StopsOnce
<1>3. \A i \in 1..Len(todo') : todo'[i] = StopAccess => Closing /\ ~thread["access"].stop
  BY <1>1 DEF StopsOnce
<1>4. ASSUME NEW i \in 1..Len(todo'), NEW j \in 1..Len(todo'),
             todo'[i] = StopAccess, todo'[j] = StopAccess
      PROVE  i = j
  <2>1. i + 1 = j + 1
    BY <1>1, <1>4 DEF StopsOnce
  <2> QED
    BY <1>1, <2>1
<1>5. Closing => \A i \in 1..Len(todo') : todo'[i] \notin {<<"publish">>, <<"sync">>}
  BY <1>1 DEF StopsOnce
<1>6. \A i \in 1..Len(todo') : todo'[i] = <<"dispose">> => Closing
  BY <1>1 DEF StopsOnce
<1>7. StopsOnce'
  BY <1>2, <1>3, <1>4, <1>5, <1>6 DEF StopsOnce
<1>8. todo' # <<>> => Head(todo') = todo'[1] /\ 1 \in 1..Len(todo')
  BY <1>1
<1>9. todo' # <<>> => Head(todo') # QuitAccess
  BY <1>2, <1>8
<1> QED
  BY <1>7, <1>9 DEF EndsWhenStopped

\* What the next step can be.
LEMMA NextStep ==
  ASSUME TypeInv, todo # <<>>
  PROVE  /\ Head(todo) = todo[1] /\ 1 \in 1..Len(todo) /\ Head(todo) \in BackendSteps
         /\ Doing("publish") => Head(todo) = <<"publish">>
         /\ Doing("sync") => Head(todo) = <<"sync">>
         /\ Doing("dispose") => Head(todo) = <<"dispose">>
         /\ Doing("stop") => Head(todo) = <<"stop", Head(todo)[2]>> /\ Head(todo)[2] \in Kinds
         /\ Doing("quit") => Head(todo) = <<"quit", Head(todo)[2]>> /\ Head(todo)[2] \in Kinds
<1>1. todo \in Seq(BackendSteps)
  BY DEF TypeInv, LoopTypes
<1>2. Head(todo) = todo[1] /\ 1 \in 1..Len(todo) /\ Head(todo) \in BackendSteps
  BY <1>1
<1>3. Doing("publish") => Head(todo) = <<"publish">>
  BY <1>2 DEF Doing, BackendSteps
<1>4. Doing("sync") => Head(todo) = <<"sync">>
  BY <1>2 DEF Doing, BackendSteps
<1>5. Doing("dispose") => Head(todo) = <<"dispose">>
  BY <1>2 DEF Doing, BackendSteps
<1>6. Doing("stop") => Head(todo) = <<"stop", Head(todo)[2]>> /\ Head(todo)[2] \in Kinds
  BY <1>2 DEF Doing, BackendSteps
<1>7. Doing("quit") => Head(todo) = <<"quit", Head(todo)[2]>> /\ Head(todo)[2] \in Kinds
  BY <1>2 DEF Doing, BackendSteps
<1> QED
  BY <1>2, <1>3, <1>4, <1>5, <1>6, <1>7

LEMMA Follow ==
  ASSUME NEW s \in Seq(BackendSteps), NEW x \in BackendSteps
  PROVE  /\ s \o <<x>> \in Seq(BackendSteps)
         /\ Len(s \o <<x>>) = Len(s) + 1
         /\ \A i \in 1..(Len(s) + 1) :
              \/ i \in 1..Len(s) /\ (s \o <<x>>)[i] = s[i]
              \/ i = Len(s) + 1 /\ (s \o <<x>>)[i] = x
  OBVIOUS

LEMMA Precede ==
  ASSUME NEW s \in Seq(BackendSteps), NEW x \in BackendSteps
  PROVE  /\ <<x>> \o s \in Seq(BackendSteps)
         /\ Len(<<x>> \o s) = 1 + Len(s)
         /\ \A i \in 1..(1 + Len(s)) :
              \/ i = 1 /\ (<<x>> \o s)[i] = x
              \/ i - 1 \in 1..Len(s) /\ (<<x>> \o s)[i] = s[i - 1]
  OBVIOUS

LEMMA PrecedeTwo ==
  ASSUME NEW s \in Seq(BackendSteps), NEW x \in BackendSteps, NEW y \in BackendSteps
  PROVE  /\ <<x, y>> \o s \in Seq(BackendSteps)
         /\ Len(<<x, y>> \o s) = 2 + Len(s)
         /\ \A i \in 1..(2 + Len(s)) :
              \/ i = 1 /\ (<<x, y>> \o s)[i] = x
              \/ i = 2 /\ (<<x, y>> \o s)[i] = y
              \/ i - 2 \in 1..Len(s) /\ (<<x, y>> \o s)[i] = s[i - 2]
  OBVIOUS

\* What the destructor does: the observer, if any, is stopped; then the accessibility
\* thread, once; then the rest.
LEMMA DestroySteps ==
  ASSUME Destroy
  PROVE  \E k \in Nat :
           /\ todo' \in Seq(BackendSteps) /\ Len(todo') = k + 3
           /\ todo'[k + 1] = StopAccess
           /\ \A i \in 1..Len(todo') :
                \/ todo'[i] = StopPrefs
                \/ i = k + 1 /\ todo'[i] = StopAccess
                \/ i = k + 3 /\ todo'[i] = <<"dispose">>
<1> DEFINE first == StopObserver
           upTo  == first \o StopThread("access")
           most  == upTo \o StopThread("prefs")
<1>2. todo' = most \o << <<"dispose">> >>
  BY DEF Destroy
<1>3. /\ StopThread("access") = <<StopAccess>> /\ StopAccess \in BackendSteps
      /\ StopThread("prefs") = <<StopPrefs>> /\ StopPrefs \in BackendSteps
      /\ <<"dispose">> \in BackendSteps
  BY DEF StopThread, StopAccess, StopPrefs, BackendSteps, Kinds
<1>5. /\ first \in Seq(BackendSteps)
      /\ \A i \in 1..Len(first) : first[i] = StopPrefs
  BY <1>3, CallsAreSteps DEF StopObserver
<1> HIDE DEF first
<1>6. /\ upTo \in Seq(BackendSteps) /\ Len(upTo) = Len(first) + 1
      /\ \A i \in 1..(Len(first) + 1) :
           upTo[i] = StopPrefs \/ (i = Len(first) + 1 /\ upTo[i] = StopAccess)
      /\ upTo[Len(first) + 1] = StopAccess
  <2>1. upTo = first \o <<StopAccess>>
    BY <1>2, <1>3
  <2>2. /\ first \o <<StopAccess>> \in Seq(BackendSteps)
        /\ Len(first \o <<StopAccess>>) = Len(first) + 1
        /\ \A i \in 1..(Len(first) + 1) :
             \/ i \in 1..Len(first) /\ (first \o <<StopAccess>>)[i] = first[i]
             \/ i = Len(first) + 1 /\ (first \o <<StopAccess>>)[i] = StopAccess
    BY <1>3, <1>5, Follow
  <2> HIDE DEF upTo, most
  <2> QED
    BY <2>1, <2>2, <1>5
<1> HIDE DEF upTo
<1>7. /\ most \in Seq(BackendSteps) /\ Len(most) = Len(upTo) + 1
      /\ \A i \in 1..(Len(upTo) + 1) :
           most[i] = StopPrefs \/ (i = Len(first) + 1 /\ most[i] = StopAccess)
      /\ most[Len(first) + 1] = StopAccess
  <2>1. most = upTo \o <<StopPrefs>>
    BY <1>2, <1>3
  <2>2. /\ upTo \o <<StopPrefs>> \in Seq(BackendSteps)
        /\ Len(upTo \o <<StopPrefs>>) = Len(upTo) + 1
        /\ \A i \in 1..(Len(upTo) + 1) :
             \/ i \in 1..Len(upTo) /\ (upTo \o <<StopPrefs>>)[i] = upTo[i]
             \/ i = Len(upTo) + 1 /\ (upTo \o <<StopPrefs>>)[i] = StopPrefs
    BY <1>3, <1>6, Follow
  <2> HIDE DEF upTo, most
  <2> QED
    BY <2>1, <2>2, <1>6
<1> HIDE DEF most
<1>8. /\ todo' \in Seq(BackendSteps) /\ Len(todo') = Len(most) + 1
      /\ \A i \in 1..(Len(most) + 1) :
           \/ todo'[i] = StopPrefs
           \/ i = Len(first) + 1 /\ todo'[i] = StopAccess
           \/ i = Len(most) + 1 /\ todo'[i] = <<"dispose">>
      /\ todo'[Len(first) + 1] = StopAccess
  <2>1. todo' = most \o << <<"dispose">> >>
    BY <1>2, <1>3
  <2>2. /\ most \o << <<"dispose">> >> \in Seq(BackendSteps)
        /\ Len(most \o << <<"dispose">> >>) = Len(most) + 1
        /\ \A i \in 1..(Len(most) + 1) :
             \/ i \in 1..Len(most) /\ (most \o << <<"dispose">> >>)[i] = most[i]
             \/ i = Len(most) + 1 /\ (most \o << <<"dispose">> >>)[i] = <<"dispose">>
    BY <1>3, <1>7, Follow
  <2> HIDE DEF upTo, most
  <2>3. Len(first) \in Nat /\ Len(first) + 1 \in 1..Len(most) /\ Len(most) + 1 = Len(first) + 3
    BY <1>5, <1>6, <1>7
  <2>4. todo' \in Seq(BackendSteps) /\ Len(todo') = Len(most) + 1
    BY <2>1, <2>2
  <2>5. Len(first) + 1 # Len(most) + 1
    BY <2>3
  <2>6. todo'[Len(first) + 1] = StopAccess
    BY <2>1, <2>2, <2>3, <2>5, <1>7
  <2> QED
    BY <2>1, <2>2, <2>4, <2>6, <1>7
<1>9. Len(first) \in Nat
  BY <1>5
<1>10. Len(first) + 1 \in 1..Len(todo') /\ Len(todo') = Len(first) + 3
  BY <1>6, <1>7, <1>8, <1>9
<1> QED
  BY <1>6, <1>7, <1>8, <1>9, <1>10

LEMMA ServedDestroy ==
  ASSUME ServedInv, Destroy
  PROVE  StopsOnce' /\ EndsWhenStopped'
<1>1. ~Closing /\ Closing' /\ ~thread["access"].stop /\ UNCHANGED <<thread, access, copied>>
  BY DEF Destroy, Closing, ServedInv, StopsOnce
<1>2. PICK k \in Nat :
        /\ todo' \in Seq(BackendSteps) /\ Len(todo') = k + 3
        /\ todo'[k + 1] = StopAccess
        /\ \A i \in 1..Len(todo') :
             \/ todo'[i] = StopPrefs
             \/ i = k + 1 /\ todo'[i] = StopAccess
             \/ i = k + 3 /\ todo'[i] = <<"dispose">>
  BY DestroySteps
<1>3. /\ QuitAccess \notin {StopAccess, StopPrefs, <<"dispose">>}
      /\ StopAccess \notin {StopPrefs, <<"dispose">>}
      /\ {StopAccess, StopPrefs, <<"dispose">>} \cap {<<"publish">>, <<"sync">>} = {}
  BY DEF StopAccess, StopPrefs, QuitAccess
<1>4. \A i \in 1..Len(todo') : todo'[i] \in {StopAccess, StopPrefs, <<"dispose">>}
  BY <1>2
<1>5. \A i \in 1..Len(todo') :
        todo'[i] # QuitAccess /\ todo'[i] \notin {<<"publish">>, <<"sync">>}
  BY <1>3, <1>4
<1>6. \A i, j \in 1..Len(todo') : todo'[i] = StopAccess /\ todo'[j] = StopAccess => i = j
  BY <1>2, <1>3
<1>7. StopsOnce'
  BY <1>1, <1>5, <1>6 DEF StopsOnce
<1>8. Head(todo') = todo'[1] /\ 1 \in 1..Len(todo')
  BY <1>2
<1>9. Head(todo') # QuitAccess
  BY <1>5, <1>8
<1> QED
  BY <1>1, <1>7, <1>9 DEF EndsWhenStopped, NoQuit, ServedInv

LEMMA ServedUser ==
  ASSUME ServedInv, UserStep
  PROVE  StopsOnce' /\ EndsWhenStopped'
<1>1. StopsOnce /\ EndsWhenStopped /\ TypeInv /\ access \in Accesses
  BY DEF ServedInv, TypeInv, AccessTypes
<1>2. RefreshSnapshot \in Seq(BackendSteps) /\ StopObserver \in Seq(BackendSteps)
        /\ StartThread("prefs") \in Seq(BackendSteps)
  BY CallsAreSteps
<1>3. CASE (\E announced \in BOOLEAN : EditWidgets(announced)) \/ RefreshPreferences \/ Run
  <2>1. UNCHANGED <<todo, copied, thread>>
    BY <1>3 DEF EditWidgets, RefreshPreferences, Run
  <2>2. access'.bus = access.bus
    <3>1. ASSUME NEW announced \in BOOLEAN, EditWidgets(announced)
          PROVE  access'.bus = access.bus
      BY <1>1, <3>1 DEF EditWidgets, Accesses
    <3>2. CASE RefreshPreferences \/ Run
      BY <3>2 DEF RefreshPreferences, Run
    <3> QED
      BY <1>3, <3>1, <3>2
  <2>3. Closing' = Closing
    <3>1. ASSUME NEW announced \in BOOLEAN, EditWidgets(announced)
          PROVE  Closing' = Closing
      BY <3>1 DEF EditWidgets, Closing
    <3>2. CASE RefreshPreferences
      BY <3>2 DEF RefreshPreferences, Closing
    <3>3. CASE Run
      BY <3>3 DEF Run, Closing
    <3> QED
      BY <1>3, <3>1, <3>2, <3>3
  <2> QED
    BY <1>1, <2>1, <2>2, <2>3, ServedUnchanged
<1>4. CASE ChangeWindows
  <2>1. todo' = RefreshSnapshot /\ UNCHANGED <<thread, place>> /\ access'.bus = access.bus
          /\ ~Closing
    BY <1>1, <1>4 DEF ChangeWindows, InTask, InUserCode, Closing, Accesses
  <2> QED
    BY <1>1, <1>2, <2>1, ServedCall, CallsAreHarmless DEF Closing
<1>5. CASE \E enabled \in BOOLEAN : SetObservation(enabled)
  <2>1. todo' \in {StartThread("prefs"), StopObserver} /\ UNCHANGED <<thread, place, access>>
          /\ ~Closing
    BY <1>5 DEF SetObservation, InTask, InUserCode, Closing
  <2> QED
    BY <1>1, <1>2, <2>1, ServedCall, CallsAreHarmless DEF Closing
<1>6. CASE SetInterval
  <2>1. todo' = StopObserver \o StartThread("prefs") /\ UNCHANGED <<thread, place, access>>
          /\ ~Closing
    BY <1>6 DEF SetInterval, InTask, InUserCode, Closing
  <2>2. Harmless(todo') /\ todo' \in Seq(BackendSteps)
    BY <1>2, <2>1, CallsAreHarmless, HarmlessConcat
  <2> QED
    BY <1>1, <2>1, <2>2, ServedCall DEF Closing
<1> QED
  BY <1>3, <1>4, <1>5, <1>6, ServedDestroy DEF UserStep

\* stop_accessibility_thread() raises the flag of a thread that was not stopped: its
\* loop is there to be quit, if its pointers are.
LEMMA ServedStopLock ==
  ASSUME ServedInv, StopLock
  PROVE  StopsOnce' /\ EndsWhenStopped'
<1> DEFINE kind == Head(todo)[2]
           tail == Tail(todo)
<1>0. /\ TypeInv /\ StopsOnce /\ EndsWhenStopped /\ thread \in [Kinds -> Threads]
      /\ todo # <<>> /\ todo \in Seq(BackendSteps)
  BY DEF ServedInv, TypeInv, ThreadTypes, LoopTypes, StopLock, Doing
<1>1. /\ Head(todo) = <<"stop", kind>> /\ kind \in Kinds /\ Head(todo) = todo[1]
      /\ 1 \in 1..Len(todo)
  BY <1>0, NextStep DEF StopLock
<1>2. /\ tail \in Seq(BackendSteps) /\ Len(tail) = Len(todo) - 1
      /\ \A i \in 1..Len(tail) : tail[i] = todo[i + 1] /\ i + 1 \in 1..Len(todo) /\ i + 1 # 1
  BY <1>0
<1>3. /\ UNCHANGED <<place, access>> /\ Closing' = Closing /\ copied' = thread[kind].ptr
      /\ thread' = [thread EXCEPT ![kind].stop = TRUE]
  BY DEF StopLock, Closing
<1>4. PICK n \in {1, 2} :
        /\ Len(todo') = n + Len(tail)
        /\ \A i \in 1..Len(todo') :
             \/ i > n /\ i - n \in 1..Len(tail) /\ todo'[i] = tail[i - n]
             \/ i = n /\ todo'[i] = <<"join", kind>>
             \/ i = 1 /\ n = 2 /\ copied' /\ todo'[i] = <<"quit", kind>>
  <2>1. CASE copied'
    <3> DEFINE quit == <<"quit", kind>>
               join == <<"join", kind>>
    <3>1. todo' = <<quit, join>> \o tail
      BY <2>1 DEF StopLock
    <3>2. quit \in BackendSteps /\ join \in BackendSteps
      BY <1>1 DEF BackendSteps
    <3>3. quit = <<"quit", kind>> /\ join = <<"join", kind>>
      OBVIOUS
    <3> HIDE DEF quit, join, kind, tail
    <3>4. /\ Len(todo') = 2 + Len(tail)
          /\ \A i \in 1..(2 + Len(tail)) :
               \/ i = 1 /\ todo'[i] = quit
               \/ i = 2 /\ todo'[i] = join
               \/ i - 2 \in 1..Len(tail) /\ todo'[i] = tail[i - 2]
      BY <1>2, <3>1, <3>2, PrecedeTwo
    <3> QED
      BY <1>2, <2>1, <3>3, <3>4
  <2>2. CASE ~copied'
    <3> DEFINE join == <<"join", kind>>
    <3>1. todo' = <<join>> \o tail
      BY <2>2 DEF StopLock
    <3>2. join \in BackendSteps
      BY <1>1 DEF BackendSteps
    <3>3. join = <<"join", kind>>
      OBVIOUS
    <3> HIDE DEF join, kind, tail
    <3>4. /\ Len(todo') = 1 + Len(tail)
          /\ \A i \in 1..(1 + Len(tail)) :
               \/ i = 1 /\ todo'[i] = join
               \/ i - 1 \in 1..Len(tail) /\ todo'[i] = tail[i - 1]
      BY <1>2, <3>1, <3>2, Precede
    <3> QED
      BY <1>2, <3>3, <3>4
  <2> QED
    BY <2>1, <2>2
<1> HIDE DEF kind, tail
<1>5. \A i \in 1..Len(tail) : tail[i] # QuitAccess /\ (tail[i] = StopAccess => Closing)
  BY <1>0, <1>2 DEF StopsOnce
<1>6. \A i \in 1..Len(tail) :
        /\ tail[i] = <<"dispose">> => Closing
        /\ Closing => tail[i] \notin {<<"publish">>, <<"sync">>}
  BY <1>0, <1>2 DEF StopsOnce
<1>7. \A i, j \in 1..Len(tail) : tail[i] = StopAccess /\ tail[j] = StopAccess => i = j
  <2> TAKE i, j \in 1..Len(tail)
  <2> HAVE tail[i] = StopAccess /\ tail[j] = StopAccess
  <2>1. i + 1 = j + 1
    BY <1>0, <1>2 DEF StopsOnce
  <2> QED
    BY <2>1
<1>8. CASE kind = "prefs"
  <2>1. thread'["access"] = thread["access"]
    BY <1>0, <1>3, <1>8 DEF Kinds
  <2>2. \A i \in 1..Len(tail) : tail[i] = StopAccess => ~thread["access"].stop
    BY <1>0, <1>2 DEF StopsOnce
  <2>3. ASSUME NEW i \in 1..Len(todo') PROVE todo'[i] # QuitAccess
    <3>1. <<"join", kind>> # QuitAccess /\ <<"quit", kind>> # QuitAccess
      BY <1>8 DEF QuitAccess
    <3>2. \/ i - n \in 1..Len(tail) /\ todo'[i] = tail[i - n]
          \/ todo'[i] \in {<<"join", kind>>, <<"quit", kind>>}
      BY <1>4
    <3>3. CASE i - n \in 1..Len(tail) /\ todo'[i] = tail[i - n]
      BY <1>5, <3>3
    <3> QED
      BY <3>1, <3>2, <3>3
  <2>4. \A i \in 1..Len(todo') : todo'[i] = StopAccess => i > n /\ tail[i - n] = StopAccess
                                                            /\ i - n \in 1..Len(tail)
    BY <1>4 DEF StopAccess
  <2>5. \A i, j \in 1..Len(todo') : todo'[i] = StopAccess /\ todo'[j] = StopAccess => i = j
    <3> TAKE i, j \in 1..Len(todo')
    <3> HAVE todo'[i] = StopAccess /\ todo'[j] = StopAccess
    <3>1. i - n = j - n
      BY <1>7, <2>4
    <3> QED
      BY <3>1
  <2>6. \A i \in 1..Len(todo') :
          /\ todo'[i] = <<"dispose">> => Closing
          /\ Closing => todo'[i] \notin {<<"publish">>, <<"sync">>}
    BY <1>4, <1>6
  <2>7. \A i \in 1..Len(todo') : todo'[i] = StopAccess => Closing /\ ~thread["access"].stop
    BY <1>5, <2>2, <2>4
  <2>8. StopsOnce'
    BY <1>0, <1>3, <2>1, <2>3, <2>5, <2>6, <2>7 DEF StopsOnce
  <2>9. todo' # <<>> => Head(todo') # QuitAccess
    <3>1. todo' = << <<"quit", kind>>, <<"join", kind>> >> \o tail
            \/ todo' = << <<"join", kind>> >> \o tail
      BY DEF StopLock, kind, tail
    <3>2. Head(todo') \in {<<"quit", kind>>, <<"join", kind>>}
      BY <1>2, <3>1
    <3> QED
      BY <1>8, <3>2 DEF QuitAccess
  <2> QED
    BY <1>0, <1>3, <2>1, <2>8, <2>9 DEF EndsWhenStopped, NoQuit
<1>9. CASE kind = "access"
  <2>1. todo[1] = StopAccess /\ Closing /\ ~thread["access"].stop
    BY <1>0, <1>1, <1>9 DEF StopsOnce, StopAccess
  <2>2. /\ thread'["access"].stop
        /\ thread'["access"].at = thread["access"].at
        /\ thread'["access"].ptr = thread["access"].ptr
        /\ thread'["access"].inbox = thread["access"].inbox
    BY <1>0, <1>3, <1>9 DEF Kinds, Threads
  <2>3. \A i \in 1..Len(tail) : tail[i] # StopAccess
    BY <1>0, <1>1, <1>2, <2>1 DEF StopsOnce
  <2>4. \A i \in 1..Len(todo') : todo'[i] # StopAccess
    BY <1>4, <2>3 DEF StopAccess
  <2>5. \A i \in 1..Len(todo') : todo'[i] = QuitAccess => i = 1
    BY <1>4, <1>5 DEF QuitAccess
  <2>6. \A i \in 1..Len(todo') : todo'[i] \notin {<<"publish">>, <<"sync">>}
    BY <1>4, <1>6, <2>1
  <2>7. StopsOnce'
    BY <1>3, <2>1, <2>2, <2>4, <2>5, <2>6 DEF StopsOnce
  <2>8. NoQuit /\ NoQuit'
    BY <1>0, <2>1, <2>2 DEF EndsWhenStopped, NoQuit
  <2>9. copied' /\ access.bus => thread["access"].at \in {"attaching", "syncing", "running"}
    BY <1>0, <1>3, <1>9, <2>1 DEF EndsWhenStopped
  <2> QED
    BY <1>0, <1>3, <2>2, <2>7, <2>8, <2>9 DEF EndsWhenStopped
<1> QED
  BY <1>1, <1>8, <1>9 DEF Kinds

LEMMA ServedCalls ==
  ASSUME ServedInv, CallStep
  PROVE  StopsOnce' /\ EndsWhenStopped'
<1>0. /\ TypeInv /\ StopsOnce /\ EndsWhenStopped /\ thread \in [Kinds -> Threads]
      /\ access \in Accesses
  BY DEF ServedInv, TypeInv, ThreadTypes, AccessTypes
<1>1. CASE InvokeQuit
  <2>1. /\ todo # <<>> /\ todo' = Tail(todo) /\ UNCHANGED <<access, place>>
        /\ Closing' = Closing
    BY <1>1 DEF InvokeQuit, Invoke, Doing, Closing
  <2>2. Head(todo) = <<"quit", Head(todo)[2]>> /\ Head(todo)[2] \in Kinds
          /\ Head(todo) = todo[1] /\ 1 \in 1..Len(todo)
    BY <1>0, <1>1, <2>1, NextStep DEF InvokeQuit
  <2>3. CASE Head(todo)[2] = "access"
    <3>1. thread["access"].stop
      BY <1>0, <2>2, <2>3 DEF StopsOnce, QuitAccess
    <3>2. /\ thread'["access"].at = thread["access"].at
          /\ thread'["access"].stop = thread["access"].stop
          /\ thread'["access"].ptr = thread["access"].ptr
      BY <1>0, <1>1, <2>3 DEF InvokeQuit, Invoke, Kinds, Threads
    <3> QED
      BY <1>0, <2>1, <3>1, <3>2, ServedTail
  <2>4. CASE Head(todo)[2] = "prefs"
    <3>1. thread'["access"] = thread["access"]
      BY <1>0, <1>1, <2>4 DEF InvokeQuit, Invoke, Kinds
    <3>2. ~thread["access"].stop => NoQuit'
      BY <1>0, <3>1 DEF EndsWhenStopped, NoQuit
    <3> QED
      BY <1>0, <2>1, <3>1, <3>2, ServedTail
  <2> QED
    BY <2>2, <2>3, <2>4 DEF Kinds
<1>2. CASE InvokeSync
  <2>1. /\ todo # <<>> /\ todo' = Tail(todo) /\ UNCHANGED <<access, place>>
        /\ Closing' = Closing
    BY <1>2 DEF InvokeSync, Invoke, Doing, Closing
  <2>2. /\ thread'["access"].at = thread["access"].at
        /\ thread'["access"].stop = thread["access"].stop
        /\ thread'["access"].ptr = thread["access"].ptr
        /\ thread'["access"].inbox \in {thread["access"].inbox,
                                        Append(thread["access"].inbox, "sync")}
        /\ thread["access"].inbox \in Seq({"quit", "sync"})
    BY <1>0, <1>2 DEF InvokeSync, Invoke, Kinds, Threads
  <2>3. ~thread["access"].stop => NoQuit'
    BY <1>0, <2>2 DEF EndsWhenStopped, NoQuit
  <2> QED
    BY <1>0, <2>1, <2>2, <2>3, ServedTail
<1>3. CASE Join \/ StartObservation \/ Publish \/ Answer
  <2>1. todo # <<>> /\ todo' = Tail(todo) /\ Closing' = Closing
    BY <1>3 DEF Join, StartObservation, Publish, Answer, Doing, Closing
  <2>2. access'.bus = access.bus
    BY <1>0, <1>3 DEF Join, StartObservation, Publish, Answer, Accesses
  <2>3. thread'["access"] = thread["access"]
    BY <1>0, <1>3 DEF Join, StartObservation, Publish, Answer, Kinds
  <2>4. ~thread["access"].stop => NoQuit'
    BY <1>0, <2>3 DEF EndsWhenStopped, NoQuit
  <2> QED
    BY <1>0, <2>1, <2>2, <2>3, <2>4, ServedTail
<1>4. CASE Dispose
  <2>1. todo # <<>> /\ todo' = Tail(todo) /\ UNCHANGED <<access, thread>>
    BY <1>4 DEF Dispose, Doing
  <2>2. Closing /\ Closing'
    BY <1>0, <1>4, <2>1, NextStep DEF Dispose, StopsOnce, Closing
  <2>3. ~thread["access"].stop => NoQuit'
    BY <1>0, <2>1 DEF EndsWhenStopped, NoQuit
  <2> QED
    BY <1>0, <2>1, <2>2, <2>3, ServedTail
<1> QED
  BY <1>1, <1>2, <1>3, <1>4, ServedStopLock DEF CallStep

LEMMA ServedLoop ==
  ASSUME ServedInv, LoopStep
  PROVE  StopsOnce' /\ EndsWhenStopped'
<1>0. StopsOnce /\ EndsWhenStopped /\ TypeInv /\ access \in Accesses /\ RefreshSnapshot \in Seq(BackendSteps)
  BY CallsAreSteps DEF ServedInv, TypeInv, AccessTypes
<1>1. CASE Iterate \/ EnterPoll \/ ApplyPreferences \/ LeavePoll
  <2>1. UNCHANGED <<todo, copied, thread, access>>
    BY <1>1 DEF Iterate, EnterPoll, ApplyPreferences, LeavePoll
  <2>2. Closing' = Closing
    BY <1>1 DEF Iterate, EnterPoll, ApplyPreferences, LeavePoll, Closing
  <2> QED
    BY <1>0, <2>1, <2>2, ServedUnchanged
<1>2. ASSUME NEW performed \in BOOLEAN, PerformAction(performed)
      PROVE  StopsOnce' /\ EndsWhenStopped'
  <2> DEFINE reply == << <<"answer", Head(batch)[2], performed>> >>
  <2>1. todo' = RefreshSnapshot \o reply /\ UNCHANGED <<thread, place>> /\ ~Closing
    BY <1>2 DEF PerformAction, Closing
  <2>2. access'.bus = access.bus
    BY <1>0, <1>2 DEF PerformAction, Accesses
  <2>3. reply \in Seq(BackendSteps)
    <3>1. batch \in Seq(Tasks) /\ batch # <<>>
      BY <1>0, <1>2 DEF PerformAction, TypeInv, LoopTypes
    <3>2. Head(batch) \in Tasks
      BY <3>1
    <3>3. Head(batch)[2] \in Actions
      BY <1>2, <3>2 DEF PerformAction, Tasks
    <3>4. <<"answer", Head(batch)[2], performed>> \in BackendSteps
      BY <3>3 DEF BackendSteps
    <3> QED
      BY <3>4
  <2>4. Harmless(reply)
    BY CallsAreHarmless
  <2> HIDE DEF reply
  <2>5. todo' \in Seq(BackendSteps) /\ Harmless(todo')
    BY <1>0, <2>1, <2>3, <2>4, CallsAreHarmless, HarmlessConcat
  <2> QED
    BY <1>0, <2>1, <2>2, <2>5, ServedCall DEF Closing
<1>3. ASSUME NEW elapsed \in BOOLEAN, RefreshIfDue(elapsed)
      PROVE  StopsOnce' /\ EndsWhenStopped'
  <2>1. todo' \in {RefreshSnapshot, <<>>} /\ UNCHANGED thread /\ ~Closing /\ ~Closing'
    BY <1>3 DEF RefreshIfDue, Closing
  <2>2. access'.bus = access.bus
    BY <1>0, <1>3 DEF RefreshIfDue, Accesses
  <2>3. <<>> \in Seq(BackendSteps) /\ Harmless(<<>>)
    BY DEF Harmless
  <2>4. todo' \in Seq(BackendSteps) /\ Harmless(todo')
    BY <1>0, <2>1, <2>3, CallsAreHarmless
  <2> QED
    BY <1>0, <2>1, <2>2, <2>4, ServedCall
<1> QED
  BY <1>1, <1>2, <1>3 DEF LoopStep

LEMMA ServedAccess ==
  ASSUME ServedInv, AccessStep
  PROVE  StopsOnce' /\ EndsWhenStopped'
<1>0. /\ StopsOnce /\ EndsWhenStopped /\ access \in Accesses /\ thread["access"] \in Threads
      /\ thread \in [Kinds -> Threads] /\ thread["access"].inbox \in Seq({"quit", "sync"})
  BY DEF ServedInv, TypeInv, AccessTypes, ThreadTypes, Kinds, Threads
<1>1. /\ UNCHANGED <<todo, copied, place>> /\ Closing' = Closing
      /\ access'.bus = access.bus
      /\ thread'["access"].stop = thread["access"].stop
  <2>1. UNCHANGED <<todo, copied, place>>
    BY DEF AccessStep, PublishAccess, SyncTake, SyncEmit, QuitLoop, End
  <2>2. access'.bus = access.bus
    BY <1>0 DEF AccessStep, PublishAccess, SyncTake, SyncEmit, QuitLoop, End, Accesses
  <2>3. thread'["access"].stop = thread["access"].stop
    BY <1>0 DEF AccessStep, PublishAccess, SyncTake, SyncEmit, QuitLoop, End, Move, Kinds,
                Threads
  <2> QED
    BY <2>1, <2>2, <2>3 DEF Closing
<1>2. StopsOnce'
  BY <1>0, <1>1 DEF StopsOnce
<1>3. CASE PublishAccess
  <2>1. thread["access"].at = "created"
    BY <1>3 DEF PublishAccess, At
  <2>2. /\ thread'["access"].at \in {"attaching", "leaving"}
        /\ access.bus /\ thread'["access"].at = "leaving" => thread["access"].stop
        /\ thread'["access"].inbox = thread["access"].inbox
    BY <1>0, <1>3 DEF PublishAccess, Kinds, Threads
  <2> QED
    BY <1>0, <1>1, <1>2, <2>1, <2>2 DEF EndsWhenStopped, NoQuit
<1>4. CASE SyncTake
  <2>1. /\ thread["access"].at \in {"attaching", "running"}
        /\ thread'["access"].at = "syncing"
        /\ \/ thread'["access"].inbox = thread["access"].inbox
           \/ /\ thread["access"].inbox # <<>>
              /\ thread'["access"].inbox = Tail(thread["access"].inbox)
    BY <1>0, <1>4 DEF SyncTake, At, Move, Kinds, Threads
  <2>2. NoQuit => NoQuit'
    <3>1. CASE thread'["access"].inbox = thread["access"].inbox
      BY <3>1 DEF NoQuit
    <3>2. CASE /\ thread["access"].inbox # <<>>
               /\ thread'["access"].inbox = Tail(thread["access"].inbox)
      <4> DEFINE inbox == thread["access"].inbox
      <4>1. /\ Len(Tail(inbox)) = Len(inbox) - 1
            /\ \A i \in 1..Len(Tail(inbox)) :
                 Tail(inbox)[i] = inbox[i + 1] /\ i + 1 \in 1..Len(inbox)
        BY <1>0, <3>2
      <4> QED
        BY <3>2, <4>1 DEF NoQuit
    <3> QED
      BY <2>1, <3>1, <3>2
  <2> QED
    BY <1>0, <1>1, <1>2, <2>1, <2>2 DEF EndsWhenStopped
<1>5. CASE SyncEmit
  <2>1. /\ thread["access"].at = "syncing" /\ thread'["access"].at = "running"
        /\ thread'["access"].inbox = thread["access"].inbox
    BY <1>0, <1>5 DEF SyncEmit, At, Move, Kinds, Threads
  <2> QED
    BY <1>0, <1>1, <1>2, <2>1 DEF EndsWhenStopped, NoQuit
<1>6. CASE QuitLoop("access")
  <2>1. /\ thread["access"].at = "running" /\ thread'["access"].at = "leaving"
        /\ thread["access"].inbox # <<>> /\ Head(thread["access"].inbox) = "quit"
    BY <1>0, <1>6 DEF QuitLoop, At, Kinds, Threads
  <2>2. ~NoQuit
    <3>1. 1 \in 1..Len(thread["access"].inbox) /\ thread["access"].inbox[1] = "quit"
      BY <1>0, <2>1
    <3> QED
      BY <3>1 DEF NoQuit
  <2> QED
    BY <1>0, <1>1, <1>2, <2>1, <2>2 DEF EndsWhenStopped
<1>7. CASE End("access")
  <2>1. /\ thread["access"].at = "leaving" /\ thread'["access"].at = "ended"
        /\ thread'["access"].inbox = <<>>
    BY <1>0, <1>7 DEF End, At, Kinds, Threads
  <2>2. NoQuit'
    BY <2>1 DEF NoQuit
  <2> QED
    BY <1>0, <1>1, <1>2, <2>1, <2>2 DEF EndsWhenStopped
<1> QED
  BY <1>3, <1>4, <1>5, <1>6, <1>7 DEF AccessStep

LEMMA ServedOthers ==
  ASSUME ServedInv, PrefsStep \/ ChangeSettings \/ ClientStep \/ Quit \/ UNCHANGED vars
  PROVE  StopsOnce' /\ EndsWhenStopped'
<1>0. StopsOnce /\ EndsWhenStopped /\ access \in Accesses /\ thread \in [Kinds -> Threads]
  BY DEF ServedInv, TypeInv, AccessTypes, ThreadTypes
<1>1. CASE PrefsStep
  <2>1. UNCHANGED <<todo, copied, place, access>>
    BY <1>1 DEF PrefsStep, PublishPrefs, TestStop, HandleChange, PostChange, QuitLoop, End
  <2>2. thread'["access"] = thread["access"]
    BY <1>0, <1>1 DEF PrefsStep, PublishPrefs, TestStop, HandleChange, PostChange, QuitLoop,
                      End, Move, Kinds
  <2> QED
    BY <1>0, <2>1, <2>2, ServedUnchanged DEF Closing
<1>2. CASE ChangeSettings \/ ClientStep \/ Quit \/ UNCHANGED vars
  <2>1. UNCHANGED <<todo, copied, place, thread>>
    BY <1>2 DEF ChangeSettings, ClientStep, Query, AskAction, Quit, vars
  <2>2. access'.bus = access.bus
    BY <1>0, <1>2 DEF ChangeSettings, ClientStep, Query, AskAction, Quit, vars, Accesses
  <2> QED
    BY <1>0, <2>1, <2>2, ServedUnchanged DEF Closing
<1> QED
  BY <1>1, <1>2

\* Where there is an accessibility bus, the UI thread never invokes anything on a context
\* that the accessibility thread has freed: sync_accessibility() and
\* stop_accessibility_thread() use their copy of the pointers after they let go of the
\* lock, and no interleaving with the thread's end comes in between.
THEOREM ContextIsAlive == Spec => []ServedContextIsAlive
<1>1. Init => ServedInv
  BY TypesInit, ServedInit DEF ServedInv
<1>2. ServedInv /\ [Next]_vars => ServedInv'
  <2> SUFFICES ASSUME ServedInv, [Next]_vars PROVE ServedInv'
    OBVIOUS
  <2>1. TypeInv'
    BY TypesStep DEF ServedInv
  <2>2. StopsOnce' /\ EndsWhenStopped'
    BY ServedUser, ServedCalls, ServedLoop, ServedAccess, ServedOthers DEF Next, Gone
  <2> QED
    BY <2>1, <2>2 DEF ServedInv
<1>3. ServedInv => ServedContextIsAlive
  BY ServedIsAlive
<1> QED
  BY <1>1, <1>2, <1>3, PTL DEF Spec

-----------------------------------------------------------------------------
(***************************************************************************)
(* Every request of a client is answered.                                   *)
(***************************************************************************)
Queued(queue, a) == \E i \in 1..Len(queue) : queue[i] = <<"action", a>>

Replying(steps, a) == \E i \in 1..Len(steps) : \E p \in BOOLEAN : steps[i] = <<"answer", a, p>>

\* The accessibility thread is stopped or joined before the n-th step.
StoppedBefore(steps, n) ==
  \E j \in 1..Len(steps) : j < n /\ steps[j] \in {StopAccess, JoinAccess}

Ended == thread["access"].at = "ended"

\* A posted request is a task, or about to be answered by the call that ran it; when the
\* event loop goes nothing but tasks can hold one, and no client can post another.
Kept ==
  /\ \A a \in Actions :
       action[a] = "posted" => Queued(tasks, a) \/ Queued(batch, a) \/ Replying(todo, a)
  /\ batch # <<>> => place = "poll"
  /\ (\E a \in Actions : Replying(todo, a)) => place = "poll"
  /\ \A n \in 1..Len(todo) : todo[n] = <<"dispose">> => Ended \/ StoppedBefore(todo, n)
  /\ place = "gone" => Ended /\ \A a \in Actions : action[a] # "posted"

KeptInv == ServedInv /\ Kept

LEMMA KeptInit == Init => Kept
<1> SUFFICES ASSUME Init PROVE Kept
  OBVIOUS
<1>1. Len(todo) = 0 /\ 1..0 = {} /\ batch = <<>> /\ place = "before"
        /\ \A a \in Actions : action[a] = "none"
  BY DEF Init
<1> QED
  BY <1>1 DEF Kept, Replying

\* Threads never come back from their end, but for the one that observes.
LEMMA EndedStays ==
  ASSUME TypeInv, [Next]_vars, Ended
  PROVE  Ended'
<1>0. thread \in [Kinds -> Threads] /\ thread["access"].at = "ended"
  BY DEF TypeInv, ThreadTypes, Ended
<1>1. CASE UserStep \/ LoopStep \/ Quit \/ ClientStep \/ ChangeSettings \/ UNCHANGED vars
  <2>1. UNCHANGED thread
    BY <1>1 DEF UserStep, EditWidgets, ChangeWindows, SetInterval, RefreshPreferences, Run,
       Destroy, SetObservation, LoopStep, Iterate, EnterPoll, ApplyPreferences, LeavePoll,
       PerformAction, RefreshIfDue, Quit, ClientStep, Query, AskAction, ChangeSettings, vars
  <2> QED
    BY <1>0, <2>1 DEF Ended
<1>2. CASE CallStep
  <2>1. CASE StopLock
    <3>1. thread'["access"].at = thread["access"].at
      BY <1>0, <2>1 DEF StopLock, Kinds, Threads
    <3> QED
      BY <1>0, <3>1 DEF Ended
  <2>2. CASE InvokeQuit
    <3>1. thread'["access"].at = thread["access"].at
      BY <1>0, <2>2 DEF InvokeQuit, Invoke, Kinds, Threads
    <3> QED
      BY <1>0, <3>1 DEF Ended
  <2>3. CASE InvokeSync
    <3>1. thread'["access"].at = thread["access"].at
      BY <1>0, <2>3 DEF InvokeSync, Invoke, Kinds, Threads
    <3> QED
      BY <1>0, <3>1 DEF Ended
  <2>4. CASE Join \/ StartObservation \/ Publish \/ Answer \/ Dispose
    <3>1. thread'["access"] = thread["access"]
      BY <1>0, <2>4 DEF Join, StartObservation, Publish, Answer, Dispose, Kinds
    <3> QED
      BY <1>0, <3>1 DEF Ended
  <2> QED
    BY <1>2, <2>1, <2>2, <2>3, <2>4 DEF CallStep
<1>3. CASE AccessStep
  BY <1>0, <1>3 DEF AccessStep, PublishAccess, SyncTake, SyncEmit, QuitLoop, End, At
<1>4. CASE PrefsStep
  <2>1. thread'["access"] = thread["access"]
    BY <1>0, <1>4 DEF PrefsStep, PublishPrefs, TestStop, HandleChange, PostChange, QuitLoop,
                      End, Move, Kinds
  <2> QED
    BY <1>0, <2>1 DEF Ended
<1> QED
  BY <1>1, <1>2, <1>3, <1>4 DEF Next, Gone

\* What the invariant speaks of is left alone.
LEMMA KeptUnchanged ==
  ASSUME Kept, Ended => Ended', UNCHANGED <<todo, batch, tasks, action, place>>
  PROVE  Kept'
<1>1. /\ \A a : /\ Queued(tasks, a)' = Queued(tasks, a) /\ Queued(batch, a)' = Queued(batch, a)
                /\ Replying(todo, a)' = Replying(todo, a)
      /\ \A n : StoppedBefore(todo, n)' = StoppedBefore(todo, n)
  BY DEF Queued, Replying, StoppedBefore, StopAccess, JoinAccess
<1> QED
  BY <1>1 DEF Kept

\* Calls that answer nobody and end nothing.
Quiet(steps) == \A i \in 1..Len(steps) : steps[i][1] \notin {"answer", "dispose"}

LEMMA QuietConcat ==
  ASSUME NEW s \in Seq(BackendSteps), NEW t \in Seq(BackendSteps), Quiet(s), Quiet(t)
  PROVE  Quiet(s \o t)
<1>1. Len(s \o t) = Len(s) + Len(t)
  OBVIOUS
<1>2. ASSUME NEW i \in 1..Len(s \o t)
      PROVE  (s \o t)[i][1] \notin {"answer", "dispose"}
  <2>1. (s \o t)[i] = IF i <= Len(s) THEN s[i] ELSE t[i - Len(s)]
    BY <1>1
  <2>2. i <= Len(s) => i \in 1..Len(s)
    BY <1>1
  <2>3. i > Len(s) => i - Len(s) \in 1..Len(t)
    BY <1>1
  <2> QED
    BY <2>1, <2>2, <2>3 DEF Quiet
<1> QED
  BY <1>2 DEF Quiet

LEMMA CallsAreQuiet ==
  /\ Quiet(RefreshSnapshot) /\ Quiet(StartThread("prefs")) /\ Quiet(StopObserver)
  /\ Quiet(<<>>)
<1>1. Quiet(<<>>)
  BY DEF Quiet
<1>2. Quiet(RefreshSnapshot)
  BY DEF Quiet, RefreshSnapshot
<1>3. Quiet(StartThread("prefs"))
  BY DEF Quiet, StartThread
<1>4. Quiet(StopObserver)
  BY <1>1 DEF Quiet, StopObserver, StopThread
<1> QED
  BY <1>1, <1>2, <1>3, <1>4

\* A quiet call is made, or user code just goes on.
LEMMA KeptCall ==
  ASSUME Kept, Ended => Ended', todo = <<>>, todo' \in Seq(BackendSteps), Quiet(todo'),
         UNCHANGED <<batch, tasks, action>>,
         place' = place \/ (batch = <<>> /\ place' # "gone")
  PROVE  Kept'
<1>1. \A a \in Actions : ~Replying(todo, a)
  BY DEF Replying
<1>2. \A a \in Actions : ~Replying(todo', a)
  BY DEF Replying, Quiet
<1>3. \A n \in 1..Len(todo') : todo'[n] # <<"dispose">>
  BY DEF Quiet
<1>4. \A a : Queued(tasks, a)' = Queued(tasks, a) /\ Queued(batch, a)' = Queued(batch, a)
  BY DEF Queued
<1> QED
  BY <1>1, <1>2, <1>3, <1>4 DEF Kept, Replying

LEMMA KeptDestroy ==
  ASSUME KeptInv, Destroy
  PROVE  Kept'
<1>1. /\ place \in {"before", "after"} /\ place' = "closing" /\ todo = <<>>
      /\ UNCHANGED <<batch, tasks, action, thread>>
  BY DEF Destroy, InUserCode, loopVars
<1>2. PICK k \in Nat :
        /\ todo' \in Seq(BackendSteps) /\ Len(todo') = k + 3
        /\ todo'[k + 1] = StopAccess
        /\ \A i \in 1..Len(todo') :
             \/ todo'[i] = StopPrefs
             \/ i = k + 1 /\ todo'[i] = StopAccess
             \/ i = k + 3 /\ todo'[i] = <<"dispose">>
  BY DestroySteps
<1>3. \A n \in 1..Len(todo') : todo'[n] = <<"dispose">> => n = k + 3
  BY <1>2 DEF StopAccess, StopPrefs
<1>4. \A n \in 1..Len(todo') : todo'[n] = <<"dispose">> => StoppedBefore(todo', n)
  BY <1>2, <1>3 DEF StoppedBefore
<1>5. \A a \in Actions : ~Replying(todo', a)
  BY <1>2 DEF Replying, StopAccess, StopPrefs
<1>6. \A a \in Actions : ~Replying(todo, a)
  BY <1>1 DEF Replying
<1>7. \A a : Queued(tasks, a)' = Queued(tasks, a) /\ Queued(batch, a)' = Queued(batch, a)
  BY <1>1 DEF Queued
<1> QED
  BY <1>1, <1>4, <1>5, <1>6, <1>7 DEF KeptInv, Kept, StoppedBefore, Replying, StopAccess, JoinAccess

LEMMA KeptUser ==
  ASSUME KeptInv, UserStep
  PROVE  Kept'
<1>0. Kept /\ (Ended => Ended')
  BY EndedStays DEF KeptInv, ServedInv, Next
<1>1. RefreshSnapshot \in Seq(BackendSteps) /\ StopObserver \in Seq(BackendSteps)
        /\ StartThread("prefs") \in Seq(BackendSteps) /\ <<>> \in Seq(BackendSteps)
  BY CallsAreSteps
<1>2. CASE (\E announced \in BOOLEAN : EditWidgets(announced)) \/ RefreshPreferences \/ Run
  <2>1. todo = <<>> /\ UNCHANGED <<todo, batch, tasks, action>>
    BY <1>2 DEF EditWidgets, RefreshPreferences, Run, InTask, InUserCode, loopVars
  <2>2. place' = place \/ (batch = <<>> /\ place' # "gone")
    BY <1>0, <1>2 DEF EditWidgets, RefreshPreferences, Run, Kept
  <2> QED
    BY <1>0, <1>1, <2>1, <2>2, KeptCall, CallsAreQuiet
<1>3. CASE ChangeWindows \/ SetInterval \/ \E enabled \in BOOLEAN : SetObservation(enabled)
  <2>1. todo = <<>> /\ UNCHANGED <<batch, tasks, action, place>>
    BY <1>3 DEF ChangeWindows, SetInterval, SetObservation, InTask, InUserCode, loopVars
  <2>2. todo' \in {RefreshSnapshot, StopObserver, StartThread("prefs"),
                   StopObserver \o StartThread("prefs")}
    BY <1>3 DEF ChangeWindows, SetInterval, SetObservation
  <2>3. /\ StopObserver \o StartThread("prefs") \in Seq(BackendSteps)
        /\ Quiet(StopObserver \o StartThread("prefs"))
    BY <1>1, CallsAreQuiet, QuietConcat
  <2>4. todo' \in Seq(BackendSteps) /\ Quiet(todo')
    BY <1>1, <2>2, <2>3, CallsAreQuiet
  <2> QED
    BY <1>0, <2>1, <2>4, KeptCall
<1> QED
  BY <1>2, <1>3, KeptDestroy DEF UserStep

\* The next step is done, and it is not an answer.
LEMMA KeptTail ==
  ASSUME TypeInv, Kept, Ended => Ended', todo # <<>>, todo' = Tail(todo),
         Head(todo)[1] # "answer", Head(todo) \in {StopAccess, JoinAccess} => Ended,
         UNCHANGED <<batch, tasks, action, place>>
  PROVE  Kept'
<1>1. /\ todo \in Seq(BackendSteps) /\ Head(todo) = todo[1] /\ Len(todo') = Len(todo) - 1
      /\ Len(todo) \in Nat
      /\ \A i \in 1..Len(todo') : todo'[i] = todo[i + 1] /\ i + 1 \in 1..Len(todo)
  BY DEF TypeInv, LoopTypes
<1>2. \A a \in Actions : Replying(todo', a) <=> Replying(todo, a)
  <2> TAKE a \in Actions
  <2>1. ASSUME Replying(todo, a) PROVE Replying(todo', a)
    <3>1. PICK i \in 1..Len(todo), p \in BOOLEAN : todo[i] = <<"answer", a, p>>
      BY <2>1 DEF Replying
    <3>2. i # 1
      BY <1>1, <3>1
    <3>3. i - 1 \in 1..Len(todo') /\ todo'[i - 1] = todo[i]
      BY <1>1, <3>2
    <3> QED
      BY <3>1, <3>3 DEF Replying
  <2>2. ASSUME Replying(todo', a) PROVE Replying(todo, a)
    BY <1>1, <2>2 DEF Replying
  <2> QED
    BY <2>1, <2>2
<1>3. ASSUME NEW n \in 1..Len(todo'), todo'[n] = <<"dispose">>, ~Ended
      PROVE  StoppedBefore(todo', n)
  <2>1. StoppedBefore(todo, n + 1)
    BY <1>1, <1>3 DEF Kept
  <2>2. PICK j \in 1..Len(todo) : j < n + 1 /\ todo[j] \in {StopAccess, JoinAccess}
    BY <2>1 DEF StoppedBefore
  <2>3. j # 1
    BY <1>1, <1>3, <2>2
  <2>4. j - 1 \in 1..Len(todo') /\ todo'[j - 1] = todo[j] /\ j - 1 < n
    BY <1>1, <2>2, <2>3
  <2> QED
    BY <2>2, <2>4 DEF StoppedBefore
<1>4. \A a : Queued(tasks, a)' = Queued(tasks, a) /\ Queued(batch, a)' = Queued(batch, a)
  BY DEF Queued
<1> QED
  BY <1>2, <1>3, <1>4 DEF Kept, Replying, StoppedBefore, StopAccess, JoinAccess

\* Stopping the accessibility thread leaves its join to do.
LEMMA KeptStopLock ==
  ASSUME KeptInv, StopLock
  PROVE  Kept'
<1> DEFINE kind == Head(todo)[2]
           tail == Tail(todo)
           quit == <<"quit", kind>>
           join == <<"join", kind>>
<1>0. /\ TypeInv /\ Kept /\ todo # <<>> /\ todo \in Seq(BackendSteps) /\ (Ended => Ended')
      /\ UNCHANGED <<place, batch, tasks, action>>
  BY EndedStays
  DEF KeptInv, ServedInv, TypeInv, LoopTypes, StopLock, Doing, Next, CallStep, loopVars
<1>1. /\ Head(todo) = <<"stop", kind>> /\ kind \in Kinds /\ Head(todo) = todo[1]
      /\ 1 \in 1..Len(todo)
  BY <1>0, NextStep DEF StopLock
<1>2. /\ tail \in Seq(BackendSteps) /\ Len(tail) = Len(todo) - 1
      /\ \A i \in 1..Len(tail) : tail[i] = todo[i + 1] /\ i + 1 \in 1..Len(todo) /\ i + 1 # 1
      /\ \A i \in 1..Len(todo) : i # 1 => i - 1 \in 1..Len(tail)
  BY <1>0
<1>3. /\ quit \in BackendSteps /\ join \in BackendSteps
      /\ todo' = <<quit, join>> \o tail \/ todo' = <<join>> \o tail
      /\ quit = <<"quit", kind>> /\ join = <<"join", kind>>
  BY <1>1 DEF BackendSteps, StopLock
<1>4. kind = "access" => join = JoinAccess
  BY DEF JoinAccess
<1> HIDE DEF tail, quit, join
<1>5. PICK m \in {1, 2} :
        /\ Len(todo') = m + Len(tail)
        /\ \A i \in 1..(m + Len(tail)) :
             \/ i < m /\ todo'[i] = quit
             \/ i = m /\ todo'[i] = join
             \/ i - m \in 1..Len(tail) /\ todo'[i] = tail[i - m]
  <2>1. CASE todo' = <<quit, join>> \o tail
    <3>1. /\ Len(todo') = 2 + Len(tail)
          /\ \A i \in 1..(2 + Len(tail)) :
               \/ i = 1 /\ todo'[i] = quit
               \/ i = 2 /\ todo'[i] = join
               \/ i - 2 \in 1..Len(tail) /\ todo'[i] = tail[i - 2]
      BY <1>2, <1>3, <2>1, PrecedeTwo
    <3> QED
      BY <3>1
  <2>2. CASE todo' = <<join>> \o tail
    <3>1. /\ Len(todo') = 1 + Len(tail)
          /\ \A i \in 1..(1 + Len(tail)) :
               \/ i = 1 /\ todo'[i] = join
               \/ i - 1 \in 1..Len(tail) /\ todo'[i] = tail[i - 1]
      BY <1>2, <1>3, <2>2, Precede
    <3> QED
      BY <3>1
  <2> QED
    BY <1>3, <2>1, <2>2
<1>6. \A i \in 1..Len(todo) : i # 1 => i - 1 + m \in 1..Len(todo') /\ todo'[i - 1 + m] = todo[i]
  <2> TAKE i \in 1..Len(todo)
  <2> HAVE i # 1
  <2>1. i - 1 \in 1..Len(tail) /\ tail[i - 1] = todo[i]
    BY <1>2
  <2>2. i - 1 + m \in 1..(m + Len(tail)) /\ i - 1 + m > m /\ (i - 1 + m) - m = i - 1
    BY <1>2, <2>1
  <2> QED
    BY <1>5, <2>1, <2>2
<1>7. \A a \in Actions : Replying(todo', a) <=> Replying(todo, a)
  <2> TAKE a \in Actions
  <2>1. ASSUME Replying(todo, a) PROVE Replying(todo', a)
    <3>1. PICK i \in 1..Len(todo), p \in BOOLEAN : todo[i] = <<"answer", a, p>>
      BY <2>1 DEF Replying
    <3>2. i # 1
      BY <1>1, <3>1
    <3> QED
      BY <1>6, <3>1, <3>2 DEF Replying
  <2>2. ASSUME Replying(todo', a) PROVE Replying(todo, a)
    <3>1. PICK i \in 1..Len(todo'), p \in BOOLEAN : todo'[i] = <<"answer", a, p>>
      BY <2>2 DEF Replying
    <3>2. i - m \in 1..Len(tail) /\ todo'[i] = tail[i - m]
      BY <1>3, <1>5, <3>1
    <3> QED
      BY <1>2, <3>1, <3>2 DEF Replying
  <2> QED
    BY <2>1, <2>2
<1>8. ASSUME NEW n \in 1..Len(todo'), todo'[n] = <<"dispose">>, ~Ended
      PROVE  StoppedBefore(todo', n)
  <2>1. n - m \in 1..Len(tail) /\ todo'[n] = tail[n - m] /\ n > m
    BY <1>2, <1>3, <1>5, <1>8
  <2>2. n - m + 1 \in 1..Len(todo) /\ todo[n - m + 1] = <<"dispose">>
    BY <1>2, <1>8, <2>1
  <2>3. PICK j \in 1..Len(todo) : j < n - m + 1 /\ todo[j] \in {StopAccess, JoinAccess}
    BY <1>0, <1>8, <2>2 DEF Kept, StoppedBefore
  <2>4. CASE j = 1
    <3>1. kind = "access"
      BY <1>1, <2>3, <2>4 DEF StopAccess, JoinAccess
    <3>2. m \in 1..Len(todo') /\ todo'[m] = JoinAccess
      BY <1>2, <1>4, <1>5, <3>1
    <3> QED
      BY <2>1, <3>2 DEF StoppedBefore
  <2>5. CASE j # 1
    <3>1. j - 1 + m \in 1..Len(todo') /\ todo'[j - 1 + m] = todo[j]
      BY <1>6, <2>5
    <3>2. j - 1 + m < n
      BY <2>3
    <3> QED
      BY <2>3, <3>1, <3>2 DEF StoppedBefore
  <2> QED
    BY <2>4, <2>5
<1>9. \A a : Queued(tasks, a)' = Queued(tasks, a) /\ Queued(batch, a)' = Queued(batch, a)
  BY <1>0 DEF Queued
<1> QED
  BY <1>0, <1>7, <1>8, <1>9 DEF Kept, Replying, StoppedBefore, StopAccess, JoinAccess

LEMMA KeptAnswer ==
  ASSUME KeptInv, Answer
  PROVE  Kept'
<1> DEFINE asked == Head(todo)[2]
<1>0. /\ TypeInv /\ Kept /\ StopsOnce /\ todo # <<>> /\ todo \in Seq(BackendSteps)
      /\ Head(todo)[1] = "answer" /\ todo' = Tail(todo)
      /\ UNCHANGED <<place, batch, tasks, thread>>
  BY DEF KeptInv, ServedInv, TypeInv, LoopTypes, Answer, Doing, loopVars
<1>1. asked \in Actions /\ Head(todo) \in BackendSteps
  BY <1>0, StepAction
<1>2. /\ Head(todo) = todo[1] /\ Len(todo') = Len(todo) - 1 /\ Len(todo) \in Nat
      /\ 1 \in 1..Len(todo)
      /\ \A i \in 1..Len(todo') : todo'[i] = todo[i + 1] /\ i + 1 \in 1..Len(todo)
  BY <1>0
<1>3. PICK p \in BOOLEAN : Head(todo) = <<"answer", asked, p>>
  BY <1>0, <1>1 DEF BackendSteps
<1>4. /\ action \in [Actions -> {"none", "posted", "performed", "refused"}]
      /\ action' = [action EXCEPT ![asked] = IF Head(todo)[3] THEN "performed" ELSE "refused"]
  BY <1>0 DEF Answer, TypeInv, LoopTypes
<1> HIDE DEF asked
<1>5. place = "poll"
  BY <1>0, <1>1, <1>2, <1>3 DEF Kept, Replying
<1>6. ASSUME NEW b \in Actions, action'[b] = "posted"
      PROVE  Queued(tasks, b) \/ Queued(batch, b) \/ Replying(todo', b)
  <2>1. b # asked /\ action[b] = "posted"
    BY <1>1, <1>4, <1>6
  <2>2. ASSUME Replying(todo, b) PROVE Replying(todo', b)
    <3>1. PICK i \in 1..Len(todo), q \in BOOLEAN : todo[i] = <<"answer", b, q>>
      BY <2>2 DEF Replying
    <3>2. i # 1
      BY <1>2, <1>3, <2>1, <3>1
    <3>3. i - 1 \in 1..Len(todo') /\ todo'[i - 1] = todo[i]
      BY <1>2, <3>2
    <3> QED
      BY <3>1, <3>3 DEF Replying
  <2> QED
    BY <1>0, <2>1, <2>2 DEF Kept
<1>7. \A n \in 1..Len(todo') : todo'[n] # <<"dispose">>
  BY <1>0, <1>2, <1>5 DEF StopsOnce, Closing
<1>8. \A a : Queued(tasks, a)' = Queued(tasks, a) /\ Queued(batch, a)' = Queued(batch, a)
  BY <1>0 DEF Queued
<1> QED
  BY <1>0, <1>5, <1>6, <1>7, <1>8 DEF Kept, Replying

LEMMA KeptDispose ==
  ASSUME KeptInv, Dispose
  PROVE  Kept'
<1>0. /\ TypeInv /\ Kept /\ StopsOnce /\ todo # <<>> /\ todo \in Seq(BackendSteps)
      /\ todo' = Tail(todo) /\ place' = "gone" /\ action' = Refused(tasks)
      /\ UNCHANGED <<batch, thread>>
  BY DEF KeptInv, ServedInv, TypeInv, LoopTypes, Dispose, Doing
<1>1. /\ Head(todo) = <<"dispose">> /\ Head(todo) = todo[1] /\ 1 \in 1..Len(todo)
  BY <1>0, NextStep DEF Dispose
<1>2. place # "poll"
  BY <1>0, <1>1 DEF StopsOnce, Closing
<1>3. batch = <<>> /\ \A a \in Actions : ~Replying(todo, a)
  BY <1>0, <1>2 DEF Kept
<1>4. ~StoppedBefore(todo, 1)
  BY DEF StoppedBefore
<1>5. Ended
  BY <1>0, <1>1, <1>4 DEF Kept
<1>6. \A a \in Actions : ~Queued(batch, a)
  BY <1>3 DEF Queued
<1>7. ASSUME NEW a \in Actions
      PROVE  action'[a] # "posted"
  <2>1. action'[a] = IF \E i \in 1..Len(tasks) : tasks[i] = <<"action", a>>
                     THEN "refused" ELSE action[a]
    BY <1>0 DEF Refused
  <2>2. action[a] = "posted" => Queued(tasks, a)
    BY <1>0, <1>3, <1>6 DEF Kept
  <2> QED
    BY <2>1, <2>2 DEF Queued
<1>8. \A a \in Actions : ~Replying(todo', a)
  <2>1. \A i \in 1..Len(todo') : todo'[i] = todo[i + 1] /\ i + 1 \in 1..Len(todo)
    BY <1>0
  <2> QED
    BY <1>3, <2>1 DEF Replying
<1> QED
  BY <1>0, <1>3, <1>5, <1>7, <1>8 DEF Kept, Ended, Replying

LEMMA KeptCalls ==
  ASSUME KeptInv, CallStep
  PROVE  Kept'
<1>0. TypeInv /\ Kept /\ (Ended => Ended')
  BY EndedStays DEF KeptInv, ServedInv, Next
<1>1. CASE InvokeQuit \/ InvokeSync \/ StartObservation \/ Publish
  <2>1. /\ todo # <<>> /\ todo' = Tail(todo) /\ UNCHANGED <<batch, tasks, action, place>>
        /\ Head(todo)[1] \in {"quit", "sync", "start", "publish"}
    BY <1>1 DEF InvokeQuit, InvokeSync, Invoke, StartObservation, Publish, Doing, loopVars
  <2>2. Head(todo) \notin {StopAccess, JoinAccess}
    BY <2>1 DEF StopAccess, JoinAccess
  <2> QED
    BY <1>0, <2>1, <2>2, KeptTail
<1>2. CASE Join
  <2>1. /\ todo # <<>> /\ todo' = Tail(todo) /\ UNCHANGED <<batch, tasks, action, place>>
        /\ Head(todo)[1] = "join" /\ thread[Head(todo)[2]].at = "ended"
    BY <1>2 DEF Join, Doing, loopVars
  <2>2. Head(todo) \in {StopAccess, JoinAccess} => Head(todo)[2] = "access"
    BY DEF StopAccess, JoinAccess
  <2>3. Head(todo) \in {StopAccess, JoinAccess} => Ended
    BY <2>1, <2>2 DEF Ended
  <2> QED
    BY <1>0, <2>1, <2>3, KeptTail
<1> QED
  BY <1>1, <1>2, KeptStopLock, KeptAnswer, KeptDispose DEF CallStep

LEMMA KeptPerform ==
  ASSUME KeptInv, NEW performed \in BOOLEAN, PerformAction(performed)
  PROVE  Kept'
<1> DEFINE asked == Head(batch)[2]
           reply == <<"answer", asked, performed>>
<1>0. /\ Kept /\ (Ended => Ended') /\ todo = <<>> /\ place = "poll"
      /\ batch \in Seq(Tasks) /\ batch # <<>> /\ batch' = Tail(batch)
      /\ Head(batch)[1] = "action" /\ todo' = RefreshSnapshot \o <<reply>>
      /\ UNCHANGED <<tasks, action, place>>
  BY EndedStays DEF KeptInv, ServedInv, TypeInv, LoopTypes, PerformAction, LoopStep, Next
<1>1. Head(batch) = <<"action", asked>> /\ asked \in Actions
  <2>1. Head(batch) \in Tasks
    BY <1>0
  <2> QED
    BY <1>0, <2>1 DEF Tasks
<1>2. reply \in BackendSteps /\ reply = <<"answer", asked, performed>>
  BY <1>1 DEF BackendSteps
<1>3. RefreshSnapshot \in Seq(BackendSteps) /\ Quiet(RefreshSnapshot)
  BY CallsAreSteps, CallsAreQuiet
<1> HIDE DEF reply, asked
<1>4. /\ RefreshSnapshot \o <<reply>> \in Seq(BackendSteps)
      /\ Len(RefreshSnapshot \o <<reply>>) = Len(RefreshSnapshot) + 1
      /\ \A i \in 1..(Len(RefreshSnapshot) + 1) :
           \/ i \in 1..Len(RefreshSnapshot)
              /\ (RefreshSnapshot \o <<reply>>)[i] = RefreshSnapshot[i]
           \/ i = Len(RefreshSnapshot) + 1 /\ (RefreshSnapshot \o <<reply>>)[i] = reply
  BY <1>2, <1>3, Follow
<1>5. Replying(todo', asked)
  <2>1. Len(RefreshSnapshot) \in Nat /\ Len(RefreshSnapshot) + 1 \in 1..Len(todo')
    BY <1>0, <1>3, <1>4
  <2>2. todo'[Len(RefreshSnapshot) + 1] = reply
    BY <1>0, <1>4, <2>1
  <2> QED
    BY <1>2, <2>1, <2>2 DEF Replying
<1>6. \A n \in 1..Len(todo') : todo'[n] # <<"dispose">>
  <2>1. \A n \in 1..Len(todo') : todo'[n] = reply \/ (n \in 1..Len(RefreshSnapshot)
                                                    /\ todo'[n] = RefreshSnapshot[n])
    BY <1>0, <1>4
  <2> QED
    BY <1>2, <1>3, <2>1 DEF Quiet
<1>7. ASSUME NEW b \in Actions, action[b] = "posted"
      PROVE  Queued(tasks, b) \/ Queued(batch', b) \/ Replying(todo', b)
  <2>1. ~Replying(todo, b)
    BY <1>0 DEF Replying
  <2>2. ASSUME Queued(batch, b), b # asked PROVE Queued(batch', b)
    <3>1. PICK i \in 1..Len(batch) : batch[i] = <<"action", b>>
      BY <2>2 DEF Queued
    <3>2. Head(batch) = batch[1] /\ i # 1
      BY <1>0, <1>1, <2>2, <3>1
    <3>3. i - 1 \in 1..Len(batch') /\ batch'[i - 1] = batch[i]
      BY <1>0, <3>2
    <3> QED
      BY <3>1, <3>3 DEF Queued
  <2> QED
    BY <1>0, <1>5, <1>7, <2>1, <2>2 DEF Kept
<1>8. \A a : Queued(tasks, a)' = Queued(tasks, a)
  BY <1>0 DEF Queued
<1> QED
  BY <1>0, <1>6, <1>7, <1>8 DEF Kept, Queued, Replying

LEMMA KeptLoop ==
  ASSUME KeptInv, LoopStep
  PROVE  Kept'
<1>0. /\ Kept /\ (Ended => Ended') /\ batch \in Seq(Tasks)
      /\ RefreshSnapshot \in Seq(BackendSteps) /\ <<>> \in Seq(BackendSteps)
  BY EndedStays, CallsAreSteps DEF KeptInv, ServedInv, TypeInv, LoopTypes, Next
<1>1. CASE Iterate \/ LeavePoll \/ \E elapsed \in BOOLEAN : RefreshIfDue(elapsed)
  <2>1. todo = <<>> /\ todo' \in {RefreshSnapshot, <<>>} /\ UNCHANGED <<batch, tasks, action>>
    BY <1>1 DEF Iterate, LeavePoll, RefreshIfDue, loopVars
  <2>2. batch = <<>> /\ place' # "gone"
    BY <1>0, <1>1 DEF Iterate, LeavePoll, RefreshIfDue, Kept
  <2> QED
    BY <1>0, <2>1, <2>2, KeptCall, CallsAreQuiet
<1>2. CASE EnterPoll
  <2>1. batch' = tasks /\ tasks' = <<>> /\ place = "dispatch" /\ place' = "poll" /\ todo = <<>>
          /\ UNCHANGED <<todo, action>>
    BY <1>2 DEF EnterPoll
  <2>2. batch = <<>> /\ \A a : ~Queued(batch, a) /\ ~Replying(todo, a) /\ ~Replying(todo', a)
    BY <1>0, <2>1 DEF Kept, Queued, Replying
  <2>3. \A a : Queued(tasks, a) => Queued(batch', a)
    BY <2>1 DEF Queued
  <2>4. \A n \in 1..Len(todo') : FALSE
    BY <2>1
  <2> QED
    BY <1>0, <2>1, <2>2, <2>3, <2>4 DEF Kept, Queued, Replying
<1>3. CASE ApplyPreferences
  <2>1. /\ batch # <<>> /\ batch' = Tail(batch) /\ Head(batch)[1] = "prefs" /\ todo = <<>>
        /\ place = "poll" /\ UNCHANGED <<todo, tasks, action, place>>
    BY <1>3 DEF ApplyPreferences
  <2>2. ASSUME NEW a \in Actions, Queued(batch, a) PROVE Queued(batch', a)
    <3>1. PICK i \in 1..Len(batch) : batch[i] = <<"action", a>>
      BY <2>2 DEF Queued
    <3>2. Head(batch) = batch[1] /\ i # 1
      BY <1>0, <2>1, <3>1
    <3>3. i - 1 \in 1..Len(batch') /\ batch'[i - 1] = batch[i]
      BY <1>0, <2>1, <3>2
    <3> QED
      BY <3>1, <3>3 DEF Queued
  <2>3. \A a : Queued(tasks, a)' = Queued(tasks, a) /\ ~Replying(todo, a)
    BY <2>1 DEF Queued, Replying
  <2>4. \A n \in 1..Len(todo') : FALSE
    BY <2>1
  <2> QED
    BY <1>0, <2>1, <2>2, <2>3, <2>4 DEF Kept, Queued, Replying
<1> QED
  BY <1>1, <1>2, <1>3, KeptPerform DEF LoopStep

\* A task more never loses one.
LEMMA QueuedMore ==
  ASSUME NEW queue \in Seq(Tasks), NEW task \in Tasks
  PROVE  /\ \A a : Queued(queue, a) => Queued(Append(queue, task), a)
         /\ \A a : task = <<"action", a>> => Queued(Append(queue, task), a)
<1>1. /\ Len(Append(queue, task)) = Len(queue) + 1
      /\ \A i \in 1..Len(queue) : Append(queue, task)[i] = queue[i]
      /\ Append(queue, task)[Len(queue) + 1] = task /\ Len(queue) \in Nat
  OBVIOUS
<1> QED
  BY <1>1 DEF Queued

LEMMA KeptOthers ==
  ASSUME KeptInv, AccessStep \/ PrefsStep \/ ClientStep \/ ChangeSettings \/ Quit \/ UNCHANGED vars
  PROVE  Kept'
<1>0. /\ TypeInv /\ Kept /\ (Ended => Ended') /\ tasks \in Seq(Tasks)
      /\ action \in [Actions -> {"none", "posted", "performed", "refused"}]
  BY EndedStays DEF KeptInv, ServedInv, TypeInv, LoopTypes, Next
<1>1. CASE AccessStep \/ ChangeSettings \/ Quit \/ UNCHANGED vars \/ Query
  <2>1. UNCHANGED <<todo, batch, tasks, action, place>>
    BY <1>1 DEF AccessStep, PublishAccess, SyncTake, SyncEmit, QuitLoop, End, ChangeSettings,
                Quit, Query, vars, loopVars
  <2> QED
    BY <1>0, <2>1, KeptUnchanged
<1>2. CASE PublishPrefs \/ TestStop \/ HandleChange \/ QuitLoop("prefs") \/ End("prefs")
  <2>1. UNCHANGED <<todo, batch, tasks, action, place>>
    BY <1>2 DEF PublishPrefs, TestStop, HandleChange, QuitLoop, End, loopVars
  <2> QED
    BY <1>0, <2>1, KeptUnchanged
<1>3. ASSUME NEW task \in Tasks, tasks' = Append(tasks, task),
             UNCHANGED <<todo, batch, place>>,
             \A a \in Actions : action'[a] = "posted" =>
               action[a] = "posted" \/ (task = <<"action", a>> /\ ~Ended)
      PROVE  Kept'
  <2>1. \A a : /\ Queued(batch, a)' = Queued(batch, a) /\ Replying(todo, a)' = Replying(todo, a)
               /\ Queued(tasks, a) => Queued(tasks', a)
               /\ task = <<"action", a>> => Queued(tasks', a)
    BY <1>0, <1>3, QueuedMore DEF Queued, Replying
  <2>2. \A n : StoppedBefore(todo, n)' = StoppedBefore(todo, n)
    BY <1>3 DEF StoppedBefore, StopAccess, JoinAccess
  <2>3. \A a \in Actions : action'[a] = "posted" =>
          Queued(tasks', a) \/ Queued(batch, a) \/ Replying(todo, a)
    BY <1>0, <1>3, <2>1 DEF Kept
  <2> QED
    BY <1>0, <1>3, <2>1, <2>2, <2>3 DEF Kept, Queued
<1>4. CASE PostChange
  <2>1. pref.carried \in Seq(Settings) /\ pref.carried # <<>>
    BY <1>0, <1>4 DEF PostChange, At, TypeInv, PrefTypes, Prefs, Counted
  <2>2. <<"prefs", Head(pref.carried)>> \in Tasks
    BY <2>1 DEF Tasks
  <2>3. tasks' = Append(tasks, <<"prefs", Head(pref.carried)>>)
          /\ UNCHANGED <<todo, batch, place, action>>
    BY <1>4 DEF PostChange
  <2> QED
    BY <1>0, <1>3, <2>2, <2>3
<1>5. ASSUME NEW a \in Actions, NEW posted \in BOOLEAN, AskAction(a, posted)
      PROVE  Kept'
  <2>1. /\ ~Ended /\ UNCHANGED <<todo, batch, place>>
        /\ action' = [action EXCEPT ![a] = IF posted THEN "posted" ELSE "refused"]
        /\ tasks' = IF posted THEN Append(tasks, <<"action", a>>) ELSE tasks
    BY <1>5 DEF AskAction, Serving, Ended
  <2>2. CASE posted
    <3>1. <<"action", a>> \in Tasks
      BY DEF Tasks
    <3> QED
      BY <1>0, <1>3, <2>1, <2>2, <3>1
  <2>3. CASE ~posted
    <3>1. \A b \in Actions : action'[b] = "posted" => action[b] = "posted"
      BY <1>0, <2>1, <2>3
    <3>2. /\ \A b : /\ Queued(tasks, b)' = Queued(tasks, b)
                    /\ Queued(batch, b)' = Queued(batch, b)
                    /\ Replying(todo, b)' = Replying(todo, b)
          /\ \A n : StoppedBefore(todo, n)' = StoppedBefore(todo, n)
      BY <2>1, <2>3 DEF Queued, Replying, StoppedBefore, StopAccess, JoinAccess
    <3> QED
      BY <1>0, <2>1, <3>1, <3>2 DEF Kept
  <2> QED
    BY <2>2, <2>3
<1> QED
  BY <1>1, <1>2, <1>4, <1>5 DEF PrefsStep, ClientStep

\* A client's request is never forgotten: when the application is gone, the reply of
\* every one was sent, by the task that tried the action or by the destructor of the
\* reply that a dropped task held.
THEOREM EveryRequestIsAnswered == Spec => []ActionsAreAnswered
<1>1. Init => KeptInv
  BY TypesInit, ServedInit, KeptInit DEF KeptInv, ServedInv
<1>2. KeptInv /\ [Next]_vars => KeptInv'
  <2> SUFFICES ASSUME KeptInv, [Next]_vars PROVE KeptInv'
    OBVIOUS
  <2>1. TypeInv'
    BY TypesStep DEF KeptInv, ServedInv
  <2>2. StopsOnce' /\ EndsWhenStopped'
    BY ServedUser, ServedCalls, ServedLoop, ServedAccess, ServedOthers DEF Next, Gone, KeptInv
  <2>3. Kept'
    BY KeptUser, KeptCalls, KeptLoop, KeptOthers DEF Next, Gone
  <2> QED
    BY <2>1, <2>2, <2>3 DEF KeptInv, ServedInv
<1>3. KeptInv => ActionsAreAnswered
  BY DEF KeptInv, Kept, ActionsAreAnswered
<1> QED
  BY <1>1, <1>2, <1>3, PTL DEF Spec
=============================================================================
