-------------------------------- MODULE Signal --------------------------------
(***************************************************************************)
(* nk::Signal and nk::Connection (include/nk/foundation/signal.h,           *)
(* src/foundation/signal.cpp): one signal, its slots, the threads that      *)
(* emit it and the event loops its cross-thread deliveries are queued on.   *)
(*                                                                          *)
(* A slot is user code and may call any operation of the signal. Each       *)
(* thread therefore has a stack of frames, the innermost first: a frame is  *)
(* an emit() in progress, or the delivery of a queued call, which is the    *)
(* same walk over a single slot, but for where it calls the slot.           *)
(*                                                                          *)
(* Slots are numbered in the order they are connected, which is the order   *)
(* of the vector of slots. Loads and stores of `connected` are taken to be  *)
(* sequentially consistent.                                                 *)
(***************************************************************************)
EXTENDS Integers, Sequences, FiniteSets

CONSTANTS
  Threads,
  LoopThreads,   \* the threads that have an EventLoop at the start
  MaxSlots,      \* bound on the connections made
  MaxEmits,      \* bound on the emissions
  MaxNesting     \* bound on the frames of a thread

ASSUME SignalAssumption ==
  /\ LoopThreads \subseteq Threads
  /\ MaxSlots \in Nat
  /\ MaxEmits \in Nat
  /\ MaxNesting \in Nat

Slots     == 1..MaxSlots
Emissions == 1..MaxEmits

NoSlot == 0

VARIABLES
  alive,       \* the signal was not destroyed
  queueable,   \* its payload can be copied to another thread (a matter of type)
  slots,       \* SharedState::slots
  nextSlot,    \* SharedState::next_id
  connected,   \* the slots whose ConnectionState is connected
  home,        \* slot -> target_thread
  posting,     \* the slots with a target_poster
  loops,       \* the threads whose EventLoop accepts tasks
  inbox,       \* thread -> deliveries its loop has yet to start, oldest first
  stack,       \* thread -> frames
  \* history
  nextEmit,    \* the next emission
  promised,    \* emission -> the slots connected when it began
  started,     \* the <<emission, slot>> whose callback was started
  excused,     \* those lost with a loop, or to an emit() that threw
  silencedBy   \* slot -> the threads that disconnected it

sigVars  == <<alive, queueable, slots, nextSlot, connected, home, posting>>
loopVars == <<loops, inbox>>
history  == <<nextEmit, promised, started, excused, silencedBy>>
vars     == <<sigVars, loopVars, stack, history>>

\* queued: the frame is the delivery of a queued call.
Frames == [emission : Emissions, todo : SUBSET Slots, slot : Slots \cup {NoSlot},
           stage : {"next", "checked", "inside"}, queued : BOOLEAN]

-----------------------------------------------------------------------------
Smallest(S) == CHOOSE s \in S : \A other \in S : s <= other

Top(t) == Head(stack[t])

At(t, stage) == stack[t] # <<>> /\ Top(t).stage = stage

\* The thread runs user code: no frame, or a slot's callback.
InUserCode(t) == stack[t] = <<>> \/ At(t, "inside")

\* The innermost frame of t becomes f.
SetTop(t, f) == stack' = [stack EXCEPT ![t] = <<f>> \o Tail(@)]

Enter(t, emission, todo, queued) ==
  /\ Len(stack[t]) < MaxNesting
  /\ stack' = [stack EXCEPT ![t] =
       <<[emission |-> emission, todo |-> todo, slot |-> NoSlot, stage |-> "next",
          queued |-> queued]>> \o @]

Leave(t) == stack' = [stack EXCEPT ![t] = Tail(@)]

\* Mutant: the walk ends after the first slot.
DoneEarly(t) == Leave(t)

\* The walk goes on with the slot after the current one.
Done(t) ==
  SetTop(t, [Top(t) EXCEPT !.todo = @ \ {Top(t).slot}, !.slot = NoSlot,
                           !.stage = "next"])

Init ==
  /\ alive = TRUE
  /\ queueable \in BOOLEAN
  /\ slots = {}
  /\ nextSlot = 1
  /\ connected = {}
  /\ home = [s \in {} |-> s]
  /\ posting = {}
  /\ loops = LoopThreads
  /\ inbox = [t \in LoopThreads |-> <<>>]
  /\ stack = [t \in Threads |-> <<>>]
  /\ nextEmit = 1
  /\ promised = [e \in Emissions |-> {}]
  /\ started = {}
  /\ excused = {}
  /\ silencedBy = [s \in Slots |-> {}]

-----------------------------------------------------------------------------
\* connect(): the slot belongs to the calling thread, and to its loop if it
\* has one.
Connect(t) ==
  /\ InUserCode(t)
  /\ alive
  /\ nextSlot <= MaxSlots
  /\ nextSlot' = nextSlot + 1
  /\ slots' = slots \cup {nextSlot}
  /\ connected' = connected \cup {nextSlot}
  /\ home' = [s \in DOMAIN home \cup {nextSlot} |->
                IF s = nextSlot THEN t ELSE home[s]]
  /\ posting' = IF t \in loops THEN posting \cup {nextSlot} ELSE posting
  /\ UNCHANGED <<alive, queueable, loopVars, stack, history>>

\* Connection::disconnect(), from any thread and without the signal's mutex;
\* the slot stays in the list until the next emission purges it.
Disconnect(t, s) ==
  /\ InUserCode(t)
  /\ s \in connected
  /\ connected' = connected \ {s}
  /\ silencedBy' = [silencedBy EXCEPT ![s] = @ \cup {t}]
  /\ UNCHANGED <<alive, queueable, slots, nextSlot, home, posting, loopVars,
                 stack, nextEmit, promised, started, excused>>

\* Mutant: the list is emptied but the handles of the slots stay connected.
UnlistOnly(t) ==
  /\ slots' = {}
  /\ silencedBy' = [s \in Slots |->
       IF s \in slots THEN silencedBy[s] \cup {t} ELSE silencedBy[s]]
  /\ UNCHANGED <<queueable, nextSlot, connected, home, posting, loopVars, stack,
                 nextEmit, promised, started, excused>>

Unlist(t) ==
  /\ slots' = {}
  /\ connected' = connected \ slots
  /\ silencedBy' = [s \in Slots |->
       IF s \in slots THEN silencedBy[s] \cup {t} ELSE silencedBy[s]]
  /\ UNCHANGED <<queueable, nextSlot, home, posting, loopVars, stack,
                 nextEmit, promised, started, excused>>

DisconnectAll(t) ==
  /\ InUserCode(t)
  /\ alive
  /\ slots # {}
  /\ Unlist(t)
  /\ UNCHANGED alive

\* ~Signal, also from one of its own slots or while another thread walks its
\* copy of the slots.
Destroy(t) ==
  /\ InUserCode(t)
  /\ alive
  /\ Unlist(t)
  /\ alive' = FALSE

-----------------------------------------------------------------------------
\* emit(): under the mutex, disconnected slots are purged and the others copied.
EmitBegin(t) ==
  /\ InUserCode(t)
  /\ alive
  /\ nextEmit <= MaxEmits
  /\ nextEmit' = nextEmit + 1
  /\ slots' = slots \cap connected
  /\ promised' = [promised EXCEPT ![nextEmit] = connected]
  /\ Enter(t, nextEmit, slots', FALSE)
  /\ UNCHANGED <<alive, queueable, nextSlot, connected, home, posting, loopVars,
                 started, excused, silencedBy>>

\* Mutant: the copy is trusted, `connected` is not read again.
CheckTrusting(t) ==
  /\ At(t, "next")
  /\ Top(t).todo # {}
  /\ SetTop(t, [Top(t) EXCEPT !.slot = Smallest(Top(t).todo), !.stage = "checked"])
  /\ UNCHANGED <<sigVars, loopVars, history>>

\* Mutant: a disconnected slot is not passed over.
CheckStuck(t) ==
  /\ At(t, "next")
  /\ Top(t).todo # {}
  /\ Smallest(Top(t).todo) \in connected
  /\ SetTop(t, [Top(t) EXCEPT !.slot = Smallest(Top(t).todo), !.stage = "checked"])
  /\ UNCHANGED <<sigVars, loopVars, history>>

\* `connected` of the next slot is read; what follows is another step.
Check(t) ==
  /\ At(t, "next")
  /\ Top(t).todo # {}
  /\ LET s == Smallest(Top(t).todo) IN
       IF s \in connected
       THEN SetTop(t, [Top(t) EXCEPT !.slot = s, !.stage = "checked"])
       ELSE SetTop(t, [Top(t) EXCEPT !.todo = @ \ {s}])
  /\ UNCHANGED <<sigVars, loopVars, history>>

Direct(t, s) == home[s] = t \/ s \notin posting

\* emit() looks where the slot belongs; the closure it queued calls the slot on
\* whatever thread it runs.
CallsHere(t) == Top(t).queued \/ Direct(t, Top(t).slot)

Call(t) ==
  /\ At(t, "checked")
  /\ CallsHere(t)
  /\ SetTop(t, [Top(t) EXCEPT !.stage = "inside"])
  /\ started' = started \cup {<<Top(t).emission, Top(t).slot>>}
  /\ UNCHANGED <<sigVars, loopVars, nextEmit, promised, excused, silencedBy>>

CallReturn(t) ==
  /\ At(t, "inside")
  /\ Done(t)
  /\ UNCHANGED <<sigVars, loopVars, history>>

\* The call is posted to the loop of the slot's thread; a loop that was
\* destroyed takes nothing.
PostCall(t) ==
  /\ At(t, "checked")
  /\ queueable
  /\ LET s == Top(t).slot
         call == <<Top(t).emission, s>>
     IN  /\ ~CallsHere(t)
         /\ IF home[s] \in loops
            THEN /\ inbox' = [inbox EXCEPT ![home[s]] = Append(@, call)]
                 /\ UNCHANGED excused
            ELSE /\ excused' = excused \cup {call}
                 /\ UNCHANGED inbox
  /\ Done(t)
  /\ UNCHANGED <<sigVars, loops, nextEmit, promised, started, silencedBy>>

\* The payload cannot be copied: emit() throws and the slots after this one
\* are not called.
EmitThrow(t) ==
  /\ At(t, "checked")
  /\ ~queueable
  /\ ~CallsHere(t)
  /\ excused' = excused \cup {<<Top(t).emission, s>> : s \in Top(t).todo}
  /\ Leave(t)
  /\ UNCHANGED <<sigVars, loopVars, nextEmit, promised, started, silencedBy>>

\* The walk is over.
EmitEnd(t) ==
  /\ At(t, "next")
  /\ Top(t).todo = {}
  /\ Leave(t)
  /\ UNCHANGED <<sigVars, loopVars, history>>

\* Mutant: a call that is being made is still queued.
Untaken(calls, i) == calls

\* calls without its i-th element.
Taken(calls, i) ==
  SubSeq(calls, 1, i - 1) \o SubSeq(calls, i + 1, Len(calls))

\* Mutant: a queued delivery is started by whichever thread polls.
TakeAnywhere(t) ==
  /\ InUserCode(t)
  /\ \E owner \in loops : \E i \in DOMAIN inbox[owner] :
       /\ stack[owner] = <<>> => i = 1
       /\ inbox' = [inbox EXCEPT ![owner] = Taken(@, i)]
       /\ Enter(t, inbox[owner][i][1], {inbox[owner][i][2]}, TRUE)
  /\ UNCHANGED <<sigVars, loops, history>>

\* The loop of t starts a queued delivery: the oldest one, or a later one when
\* its poll() is nested in a callback, the older ones being in the batch of an
\* outer poll().
Take(t) ==
  /\ InUserCode(t)
  /\ t \in loops
  /\ \E i \in DOMAIN inbox[t] :
       /\ stack[t] = <<>> => i = 1
       /\ inbox' = [inbox EXCEPT ![t] = Taken(@, i)]
       /\ Enter(t, inbox[t][i][1], {inbox[t][i][2]}, TRUE)
  /\ UNCHANGED <<sigVars, loops, history>>

\* ~EventLoop of t drops what is queued.
LoopDestroy(t) ==
  /\ stack[t] = <<>>
  /\ t \in loops
  /\ loops' = loops \ {t}
  /\ excused' = excused \cup {inbox[t][i] : i \in DOMAIN inbox[t]}
  /\ inbox' = [inbox EXCEPT ![t] = <<>>]
  /\ UNCHANGED <<sigVars, stack, nextEmit, promised, started, silencedBy>>

-----------------------------------------------------------------------------
UserStep(t) ==
  \/ Connect(t) \/ DisconnectAll(t) \/ Destroy(t) \/ EmitBegin(t) \/ LoopDestroy(t)
  \/ \E s \in Slots : Disconnect(t, s)

EmitStep(t) ==
  Check(t) \/ Call(t) \/ CallReturn(t) \/ PostCall(t) \/ EmitThrow(t) \/ EmitEnd(t)

Next == \E t \in Threads : UserStep(t) \/ EmitStep(t) \/ Take(t)

Spec == Init /\ [][Next]_vars

\* Threads are scheduled, callbacks return and loops that stay up are polled.
Fairness ==
  \A t \in Threads : /\ WF_vars(EmitStep(t))
                     /\ WF_vars(stack[t] = <<>> /\ Take(t))

FairSpec == Spec /\ Fairness

-----------------------------------------------------------------------------
(* Properties                                                               *)

\* The types of the variables; a frame has a current slot exactly between the
\* check and the end of its call, and it is the first of those left.
TypeOK ==
  /\ alive \in BOOLEAN
  /\ queueable \in BOOLEAN
  /\ nextSlot \in 1..(MaxSlots + 1)
  /\ slots \subseteq 1..(nextSlot - 1)
  /\ connected \subseteq slots
  /\ home \in [1..(nextSlot - 1) -> Threads]
  /\ posting \subseteq DOMAIN home
  /\ loops \subseteq LoopThreads
  /\ inbox \in [LoopThreads -> Seq(Emissions \X Slots)]
  /\ stack \in [Threads -> Seq(Frames)]
  /\ nextEmit \in 1..(MaxEmits + 1)
  /\ started \subseteq Emissions \X Slots
  /\ \A t \in Threads : \A i \in DOMAIN stack[t] :
       LET f == stack[t][i] IN
         IF f.stage = "next" THEN f.slot = NoSlot
         ELSE f.todo # {} /\ f.slot = Smallest(f.todo)

Starts(t, e, s) ==
  /\ At(t, "checked")
  /\ Top(t).emission = e
  /\ Top(t).slot = s
  /\ stack'[t] # <<>>
  /\ Head(stack'[t]).stage = "inside"

\* A thread that disconnected a slot, or destroyed the signal, never runs the
\* slot afterwards: not in the emission it is in the middle of, not in an
\* outer one, and not from a delivery queued on its loop before.
OwnDisconnectIsFinal ==
  [][\A t \in Threads, e \in Emissions, s \in Slots :
       Starts(t, e, s) => t \notin silencedBy[s]]_vars

\* An emission calls a slot at most once, whichever way the call is made, and
\* calls only slots that were connected when it began.
AtMostOnce ==
  [][\A t \in Threads, e \in Emissions, s \in Slots :
       Starts(t, e, s) => <<e, s>> \notin started /\ s \in promised[e]]_vars

InHand(e, s) ==
  \/ \E t \in Threads : \E i \in DOMAIN stack[t] :
       stack[t][i].emission = e /\ s \in stack[t][i].todo
  \/ \E t \in LoopThreads : \E i \in DOMAIN inbox[t] : inbox[t][i] = <<e, s>>

\* No slot is missed: one that was connected when the emission began and still
\* is has been called, is about to be, or is queued; unless its loop was
\* destroyed or emit() threw.
NoneMissed ==
  \A e \in 1..(nextEmit - 1) : \A s \in promised[e] \cap connected :
    <<e, s>> \in started \cup excused \/ InHand(e, s)

\* A slot connected on a thread with a loop runs on that thread only, even after the
\* loop is gone. emit() tests for the thread; a queued delivery, which tests nothing,
\* must have been queued where the slot is at home.
RunsAtHome ==
  \A t \in Threads : \A i \in DOMAIN stack[t] :
    LET f == stack[t][i] IN
      f.stage = "inside" /\ f.slot \in posting => home[f.slot] = t

\* Every call an emission owes is settled: made, excused, or the slot was
\* disconnected.
CallsAreSettled ==
  \A e \in Emissions, s \in Slots :
    InHand(e, s) ~> ~InHand(e, s)
=============================================================================
