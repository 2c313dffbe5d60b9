---------------------------- MODULE TaskExecutor ----------------------------
(***************************************************************************)
(* What posting to a loop promises, with no queue, no lock and no thread.  *)
(* A task handed to EventLoop::post or to an EventLoop::TaskPoster is       *)
(* either refused, because the loop was destroyed, or accepted; an accepted *)
(* task is executed at most once, and it is dropped unexecuted only by the  *)
(* destruction of the loop (include/nk/runtime/event_loop.h, 44-50).        *)
(***************************************************************************)
CONSTANT Tasks   \* the tasks callers may post

VARIABLES
  open,        \* the loop accepts tasks
  accepted,    \* the tasks post() accepted, numbered in the order it did
  executed,    \* the tasks whose callback was started
  dropped      \* the tasks the destructor discarded

vars == <<open, accepted, executed, dropped>>

Init ==
  /\ open = TRUE
  /\ accepted = {}
  /\ executed = {}
  /\ dropped = {}

Accept(t) ==
  /\ open
  /\ t \notin accepted
  /\ accepted' = accepted \cup {t}
  /\ UNCHANGED <<open, executed, dropped>>

Execute(t) ==
  /\ t \in accepted \ (executed \cup dropped)
  /\ executed' = executed \cup {t}
  /\ UNCHANGED <<open, accepted, dropped>>

Close ==
  /\ open
  /\ open' = FALSE
  /\ dropped' = accepted \ executed
  /\ UNCHANGED <<accepted, executed>>

Next ==
  \/ \E t \in Tasks : Accept(t)
  \/ \E t \in accepted : Execute(t)
  \/ Close

Spec == Init /\ [][Next]_vars
=============================================================================
