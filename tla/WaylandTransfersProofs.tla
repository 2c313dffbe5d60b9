------------------------ MODULE WaylandTransfersProofs ------------------------
(***************************************************************************)
(* Theorems about WaylandTransfers, for all bounds and sets of selections.  *)
(*                                                                          *)
(* Parts: sequences; what each action leaves alone; the types of the state  *)
(* and the lists of steps a handler may be at; selections, the inbox,       *)
(* pipes, transfers and the drag keep their types; the window's account of  *)
(* drags (Told, LetGo); the offers that are held, in the order they come,   *)
(* each once (Owned, Coming, Apart); what a transfer knows of its read      *)
(* (Asked). Together they are the inductive invariant Consistent.           *)
(***************************************************************************)
EXTENDS WaylandTransfers, SequenceTheorems, TLAPS

(***************************************************************************)
(* Sequences.                                                               *)
(***************************************************************************)
LEMMA Tuples ==
  ASSUME NEW a, NEW b, NEW c, NEW d
  PROVE  /\ <<a>> # <<>> /\ Head(<<a>>) = a /\ Tail(<<a>>) = <<>> /\ ToSet(<<a>>) = {a}
         /\ <<a, b>> # <<>> /\ Head(<<a, b>>) = a /\ Tail(<<a, b>>) = <<b>>
         /\ ToSet(<<a, b>>) = {a, b}
         /\ <<a, b, c>> # <<>> /\ Head(<<a, b, c>>) = a /\ Tail(<<a, b, c>>) = <<b, c>>
         /\ ToSet(<<a, b, c>>) = {a, b, c}
         /\ <<a, b, c, d>> # <<>> /\ Head(<<a, b, c, d>>) = a
         /\ Tail(<<a, b, c, d>>) = <<b, c, d>> /\ ToSet(<<a, b, c, d>>) = {a, b, c, d}
  BY DEF ToSet

LEMMA RemoveAtProperties ==
  ASSUME NEW S, NEW s \in Seq(S), NEW i \in 1..Len(s)
  PROVE  /\ RemoveAt(s, i) \in Seq(S)
         /\ Len(RemoveAt(s, i)) = Len(s) - 1
         /\ \A j \in 1..(Len(s) - 1) : RemoveAt(s, i)[j] = s[IF j < i THEN j ELSE j + 1]
<1>1. PICK n \in Nat : n = Len(s)
  OBVIOUS
<1>2. PICK a, b : a = SubSeq(s, 1, i - 1) /\ b = SubSeq(s, i + 1, n)
  OBVIOUS
<1>3. /\ a \in Seq(S) /\ Len(a) = i - 1
      /\ \A j \in 1..(i - 1) : a[j] = s[j]
  <2>1. \A j \in 1..(i - 1) : s[j] \in S
    OBVIOUS
  <2> QED
    BY <1>2, <2>1, SubSeqProperties
<1>4. /\ b \in Seq(S) /\ Len(b) = n - i
      /\ \A j \in 1..(n - i) : b[j] = s[i + j]
  <2>1. \A j \in (i + 1)..n : s[j] \in S
    BY <1>1
  <2> QED
    BY <1>1, <1>2, <2>1, SubSeqProperties
<1>5. RemoveAt(s, i) = a \o b
  BY <1>1, <1>2 DEF RemoveAt
<1>6. /\ a \o b \in Seq(S) /\ Len(a \o b) = Len(a) + Len(b)
      /\ \A j \in 1..(Len(a) + Len(b)) :
           (a \o b)[j] = IF j <= Len(a) THEN a[j] ELSE b[j - Len(a)]
  BY <1>3, <1>4, ConcatProperties
<1>7. ASSUME NEW j \in 1..(n - 1) PROVE (a \o b)[j] = s[IF j < i THEN j ELSE j + 1]
  <2>1. CASE j < i
    BY <1>1, <1>3, <1>4, <1>6, <2>1
  <2>2. CASE ~(j < i)
    <3>1. PICK k : k = j - (i - 1)
      OBVIOUS
    <3>2. k \in 1..(n - i) /\ i + k = j + 1 /\ ~(j <= i - 1) /\ j \in 1..(Len(a) + Len(b))
      BY <1>1, <1>3, <1>4, <2>2, <3>1
    <3>3. (a \o b)[j] = b[k]
      BY <1>3, <1>6, <3>1, <3>2
    <3> QED
      BY <1>4, <2>2, <3>2, <3>3
  <2> QED
    BY <2>1, <2>2
<1> QED
  BY <1>1, <1>3, <1>4, <1>5, <1>6, <1>7

(***************************************************************************)
(* What each action leaves alone.                                           *)
(***************************************************************************)
LEMMA Leaves ==
  /\ CloseWindow => UNCHANGED <<selection, owner, inbox, reads, transfers, hand, dragging,
                                unpaired, todo, events>>
  /\ \A kind : ReadAsync(kind) => UNCHANGED <<selection, owner, inbox, offers, dragVars, todo>>
  /\ \A kind, empty, accepted, announced : SetText(kind, empty, accepted, announced) =>
       UNCHANGED <<offers, reads, transfers, dragVars, todo>>
  /\ \A kind, readable, announced, first : OtherTakes(kind, readable, announced, first) =>
       UNCHANGED <<selection, offers, reads, transfers, dragVars, todo>>
  /\ \A kind, readable : Announce(kind, readable) =>
       UNCHANGED <<selection, owner, offers, reads, transfers, dragVars, todo>>
  /\ \A kind : RequestSend(kind) =>
       UNCHANGED <<selection, owner, offers, reads, transfers, dragVars, todo>>
  /\ \A typed, copy : DragEnter(typed, copy) =>
       UNCHANGED <<selection, owner, offers, reads, transfers, drag, hand, window, inside,
                   unpaired, todo>>
  /\ DragMotion => UNCHANGED <<selection, owner, offers, reads, transfers, dragVars, todo>>
  /\ \A sequence : DragEnd(sequence) =>
       UNCHANGED <<selection, owner, offers, reads, transfers, drag, hand, window, inside,
                   unpaired, todo>>
  /\ \A cause : PipeMoves(cause) =>
       UNCHANGED <<selection, owner, inbox, offers, reads, hand, dragging, window, inside,
                   unpaired, todo, events>>
  /\ HandleSelection => UNCHANGED <<owner, reads, transfers, dragVars, todo, events>>
  /\ HandleCancelled => UNCHANGED <<owner, offers, reads, transfers, dragVars, todo, events>>
  /\ HandleSend => UNCHANGED <<selection, owner, offers, reads, dragVars, todo, events>>
  /\ HandleEnter => UNCHANGED <<selection, owner, reads, transfers, dragVars, events>>
  /\ HandleAction => UNCHANGED <<selection, owner, offers, reads, transfers, hand, dragging,
                                 window, inside, unpaired, todo, events>>
  /\ HandleMotion \/ HandleLeave =>
       UNCHANGED <<selection, owner, offers, reads, transfers, dragVars, events>>
  /\ \A piped : HandleDrop(piped) =>
       UNCHANGED <<selection, owner, offers, reads, transfers, hand, dragging, window, inside,
                   unpaired, events>>
  /\ Poll => UNCHANGED <<selection, owner, inbox, offers, reads, transfers, dragVars, events>>
  /\ TellDrag => UNCHANGED <<selection, owner, inbox, offers, reads, transfers, drag, hand,
                             dragging, window, events>>
  /\ ResetDrag => UNCHANGED <<selection, owner, inbox, reads, transfers, hand, dragging, window,
                              inside, unpaired, events>>
  /\ BeginDrag => UNCHANGED <<selection, owner, inbox, offers, reads, transfers, hand, dragging,
                              window, inside, unpaired, events>>
  /\ \A decodes : PollDrag(decodes) =>
       UNCHANGED <<selection, owner, inbox, offers, reads, transfers, dragging, window, inside,
                   unpaired, events>>
  /\ TellDrop => UNCHANGED <<selection, owner, inbox, offers, reads, transfers, drag, hand,
                             dragging, window, events>>
  /\ DestroyHand => UNCHANGED <<selection, owner, inbox, reads, transfers, drag, dragging,
                                window, inside, unpaired, events>>
  /\ EraseTransfer => UNCHANGED <<selection, owner, inbox, offers, dragVars, events>>
  /\ KeepTransfer => UNCHANGED <<selection, owner, inbox, offers, reads, dragVars, events>>
  /\ PollEnd => UNCHANGED <<selection, owner, inbox, offers, reads, transfers, dragVars, events>>
  /\ Answer => UNCHANGED <<selection, owner, inbox, offers, transfers, dragVars, events>>
  BY DEF CloseWindow, ReadAsync, SetText, OtherTakes, Announce, RequestSend, DragEnter, DragMotion,
         DragEnd, PipeMoves, HandleSelection, HandleCancelled, HandleSend, HandleEnter,
         HandleAction, HandleMotion, HandleLeave, HandleDrop, Poll, TellDrag, ResetDrag, BeginDrag,
         PollDrag, TellDrop, DestroyHand, EraseTransfer, KeepTransfer, PollEnd, Answer, dragVars

Ids == 0..MaxEvents

SomeRead == [at : {"unused", "pending", "complete", "answered"}, kind : Kinds \cup {"none"},
             offer : Ids, text : 0..MaxPieces]

SomeSelection == [owns : BOOLEAN, source : Ids, offer : Ids, readable : BOOLEAN, generation : Nat]

\* Nothing is read that was not sent.
SomePipe == {pipe \in Pipes : pipe.got <= pipe.sent}

SomeTransfer == [read : 0..MaxReads, kind : Kinds, generation : Nat, failed : BOOLEAN,
                 pipe : SomePipe]

SomeDrag == [offer : Ids, over : BOOLEAN, typed : BOOLEAN, dropped : BOOLEAN,
             copy : BOOLEAN, pipe : {<<>>} \cup [1..1 -> SomePipe]]

SomeEvent ==
  ({"selection"} \X Kinds \X Ids \X BOOLEAN) \cup ({"cancelled", "send"} \X Kinds \X Ids)
    \cup ({"enter", "action"} \X Offers \X BOOLEAN) \cup {<<"motion">>, <<"leave">>, <<"drop">>}

SelectionTypes ==
  /\ selection \in [Kinds -> SomeSelection]
  /\ owner \in [Kinds -> {Other} \cup Ids]

TransferTypes ==
  /\ reads \in [Reads -> SomeRead]
  /\ transfers \in Seq(SomeTransfer)
  /\ Len(transfers) <= MaxTransfers

DragTypes ==
  /\ drag \in SomeDrag
  /\ drag.over => window
  /\ hand \in [offer : Ids, over : BOOLEAN, whole : BOOLEAN]
  /\ dragging \in BOOLEAN /\ window \in BOOLEAN /\ inside \in BOOLEAN /\ unpaired \in BOOLEAN

\* The steps of the handlers.
LeaveStep       == <<"tell", "Leave">>
MotionStep      == <<"tell", "Motion">>
EnterStep       == <<"tell", "Enter">>
ResetStep       == <<"reset">>
BeginStep(o, t) == <<"begin", o, t>>
PollDragStep    == <<"poll drag">>
TellDropStep    == <<"tell drop">>
DestroyStep     == <<"destroy">>
PollStep(i)     == <<"poll", i>>
Answers         == {"answer"} \X Reads

EnterSteps(begin) ==
  {<<LeaveStep, ResetStep, begin, EnterStep>>, <<ResetStep, begin, EnterStep>>,
   <<begin, EnterStep>>}

LoopSteps ==
  {<<LeaveStep, ResetStep>>, <<ResetStep>>, <<MotionStep>>, <<EnterStep>>,
   <<PollDragStep, PollStep(1)>>, <<TellDropStep, PollStep(1)>>, <<DestroyStep, PollStep(1)>>}

Polling ==
  /\ todo # <<>>
  /\ \E i \in Nat \ {0} : Head(todo) = PollStep(i)
  /\ Tail(todo) \in Seq(Answers)
  /\ todo = <<Head(todo)>> \o Tail(todo)

Steps ==
  \/ todo \in Seq(Answers)
  \/ Polling
  \/ todo \in LoopSteps
  \/ \E o \in Ids, typed \in BOOLEAN : todo \in EnterSteps(BeginStep(o, typed))

Types == SelectionTypes /\ TransferTypes /\ DragTypes /\ inbox \in Seq(SomeEvent) /\ events \in Ids
           /\ Steps

-----------------------------------------------------------------------------
(***************************************************************************)
(* The steps of the handlers.                                               *)
(***************************************************************************)

LEMMA StepNames ==
  /\ LeaveStep[1] = "tell" /\ LeaveStep[2] = "Leave"
  /\ MotionStep[1] = "tell" /\ MotionStep[2] = "Motion"
  /\ EnterStep[1] = "tell" /\ EnterStep[2] = "Enter"
  /\ ResetStep[1] = "reset" /\ PollDragStep[1] = "poll drag" /\ TellDropStep[1] = "tell drop"
  /\ DestroyStep[1] = "destroy"
  /\ \A i : PollStep(i)[1] = "poll" /\ PollStep(i)[2] = i
  BY DEF LeaveStep, MotionStep, EnterStep, ResetStep, PollDragStep, TellDropStep, DestroyStep,
         PollStep

LEMMA BeginNames ==
  ASSUME NEW o, NEW t
  PROVE  BeginStep(o, t)[1] = "begin" /\ BeginStep(o, t)[2] = o /\ BeginStep(o, t)[3] = t
  BY DEF BeginStep

LEMMA SomeSteps ==
  ASSUME Steps, todo # <<>>
  PROVE  \/ Head(todo)[1] = "answer" /\ todo \in Seq(Answers)
         \/ Head(todo)[1] = "poll" /\ Polling
         \/ todo \in LoopSteps
         \/ \E o \in Ids, typed \in BOOLEAN : todo \in EnterSteps(BeginStep(o, typed))
<1>1. CASE todo \in Seq(Answers)
  <2>1. Head(todo) \in Answers
    BY <1>1
  <2> QED
    BY <1>1, <2>1 DEF Answers
<1>2. CASE Polling
  BY <1>2, StepNames DEF Polling
<1> QED
  BY <1>1, <1>2 DEF Steps

LEMMA LoopHeads ==
  ASSUME todo \in LoopSteps
  PROVE  /\ Head(todo)[1] \in {"tell", "reset", "poll drag", "tell drop", "destroy"}
         /\ Head(todo)[1] = "tell" =>
              \/ todo = <<LeaveStep, ResetStep>> /\ Tail(todo) = <<ResetStep>>
              \/ todo \in {<<MotionStep>>, <<EnterStep>>} /\ Tail(todo) = <<>>
         /\ Head(todo)[1] = "reset" => todo = <<ResetStep>> /\ Tail(todo) = <<>>
         /\ Head(todo)[1] = "poll drag" => todo = <<PollDragStep, PollStep(1)>>
         /\ Head(todo)[1] = "tell drop" => todo = <<TellDropStep, PollStep(1)>>
         /\ Head(todo)[1] = "destroy" => todo = <<DestroyStep, PollStep(1)>>
         /\ Head(todo)[1] \in {"poll drag", "tell drop", "destroy"} => Tail(todo) = <<PollStep(1)>>
<1>1. PICK a, b, c, d, e, f, g, h :
        /\ a = LeaveStep /\ b = ResetStep /\ c = MotionStep /\ d = EnterStep
        /\ e = PollDragStep /\ f = PollStep(1) /\ g = TellDropStep /\ h = DestroyStep
  OBVIOUS
<1>2. todo \in {<<a, b>>, <<b>>, <<c>>, <<d>>, <<e, f>>, <<g, f>>, <<h, f>>}
  BY <1>1 DEF LoopSteps
<1>3. /\ Head(<<a, b>>) = a /\ Tail(<<a, b>>) = <<b>>
      /\ Head(<<b>>) = b /\ Tail(<<b>>) = <<>>
      /\ Head(<<c>>) = c /\ Tail(<<c>>) = <<>>
      /\ Head(<<d>>) = d /\ Tail(<<d>>) = <<>>
      /\ Head(<<e, f>>) = e /\ Tail(<<e, f>>) = <<f>>
      /\ Head(<<g, f>>) = g /\ Tail(<<g, f>>) = <<f>>
      /\ Head(<<h, f>>) = h /\ Tail(<<h, f>>) = <<f>>
  OBVIOUS
<1>4. /\ a[1] = "tell" /\ b[1] = "reset" /\ c[1] = "tell" /\ d[1] = "tell"
      /\ e[1] = "poll drag" /\ g[1] = "tell drop" /\ h[1] = "destroy"
  BY <1>1, StepNames
<1> QED
  BY <1>1, <1>2, <1>3, <1>4

LEMMA EnterHeads ==
  ASSUME NEW o, NEW typed, todo \in EnterSteps(BeginStep(o, typed))
  PROVE  /\ Head(todo)[1] \in {"tell", "reset", "begin"}
         /\ Head(todo)[1] = "tell" =>
              /\ todo = <<LeaveStep, ResetStep, BeginStep(o, typed), EnterStep>>
              /\ Tail(todo) = <<ResetStep, BeginStep(o, typed), EnterStep>>
         /\ Head(todo)[1] = "reset" =>
              /\ todo = <<ResetStep, BeginStep(o, typed), EnterStep>>
              /\ Tail(todo) = <<BeginStep(o, typed), EnterStep>>
         /\ Head(todo)[1] = "begin" =>
              /\ todo = <<BeginStep(o, typed), EnterStep>>
              /\ Tail(todo) = <<EnterStep>>
<1>1. PICK a, b, c, d :
        a = LeaveStep /\ b = ResetStep /\ c = BeginStep(o, typed) /\ d = EnterStep
  OBVIOUS
<1>2. todo \in {<<a, b, c, d>>, <<b, c, d>>, <<c, d>>}
  BY <1>1 DEF EnterSteps
<1>3. /\ Head(<<a, b, c, d>>) = a /\ Tail(<<a, b, c, d>>) = <<b, c, d>>
      /\ Head(<<b, c, d>>) = b /\ Tail(<<b, c, d>>) = <<c, d>>
      /\ Head(<<c, d>>) = c /\ Tail(<<c, d>>) = <<d>>
  OBVIOUS
<1>4. a[1] = "tell" /\ b[1] = "reset" /\ c[1] = "begin"
  <2>1. BeginStep(o, typed)[1] = "begin"
    BY BeginNames
  <2> QED
    BY <1>1, <2>1, StepNames
<1>5. CASE todo = <<a, b, c, d>>
  BY <1>1, <1>3, <1>4, <1>5
<1>6. CASE todo = <<b, c, d>>
  BY <1>1, <1>3, <1>4, <1>6
<1>7. CASE todo = <<c, d>>
  BY <1>1, <1>3, <1>4, <1>7
<1> QED
  BY <1>2, <1>5, <1>6, <1>7

\* What the first step says of the rest.
LEMMA TellSteps ==
  ASSUME Steps, Doing("tell")
  PROVE  \/ todo = <<LeaveStep, ResetStep>> /\ Tail(todo) = <<ResetStep>>
         \/ todo \in {<<MotionStep>>, <<EnterStep>>} /\ Tail(todo) = <<>>
         \/ \E o \in Ids, typed \in BOOLEAN :
              /\ todo = <<LeaveStep, ResetStep, BeginStep(o, typed), EnterStep>>
              /\ Tail(todo) = <<ResetStep, BeginStep(o, typed), EnterStep>>
  BY SomeSteps, LoopHeads, EnterHeads DEF Doing

LEMMA ResetSteps ==
  ASSUME Steps, Doing("reset")
  PROVE  \/ todo = <<ResetStep>> /\ Tail(todo) = <<>>
         \/ \E o \in Ids, typed \in BOOLEAN :
              /\ todo = <<ResetStep, BeginStep(o, typed), EnterStep>>
              /\ Tail(todo) = <<BeginStep(o, typed), EnterStep>>
  BY SomeSteps, LoopHeads, EnterHeads DEF Doing

LEMMA BeginSteps ==
  ASSUME Steps, Doing("begin")
  PROVE  \E o \in Ids, typed \in BOOLEAN :
           todo = <<BeginStep(o, typed), EnterStep>> /\ Tail(todo) = <<EnterStep>>
  BY SomeSteps, LoopHeads, EnterHeads DEF Doing

LEMMA DropSteps ==
  ASSUME Steps
  PROVE  /\ Doing("poll drag") =>
              todo = <<PollDragStep, PollStep(1)>> /\ Tail(todo) = <<PollStep(1)>>
         /\ Doing("tell drop") =>
              todo = <<TellDropStep, PollStep(1)>> /\ Tail(todo) = <<PollStep(1)>>
         /\ Doing("destroy") =>
              todo = <<DestroyStep, PollStep(1)>> /\ Tail(todo) = <<PollStep(1)>>
  BY SomeSteps, LoopHeads, EnterHeads DEF Doing

LEMMA AnswerSteps ==
  ASSUME Steps
  PROVE  /\ Doing("poll") => Polling
         /\ Doing("answer") => todo \in Seq(Answers)
  BY SomeSteps, LoopHeads, EnterHeads DEF Doing

\* The event that is handled.
LEMMA HeadEvent ==
  ASSUME inbox \in Seq(SomeEvent), NEW name, Receive(name)
  PROVE  /\ inbox' \in Seq(SomeEvent)
         /\ name \in {"selection", "cancelled", "send"} =>
              Head(inbox)[2] \in Kinds /\ Head(inbox)[3] \in Ids
         /\ name = "selection" => Head(inbox)[4] \in BOOLEAN
         /\ name \in {"enter", "action"} =>
              Head(inbox)[2] \in Ids \ {None} /\ Head(inbox)[3] \in BOOLEAN
<1>1. inbox # <<>> /\ Head(inbox)[1] = name /\ inbox' = Tail(inbox)
  BY DEF Receive
<1>2. PICK e \in SomeEvent : e = Head(inbox) /\ e[1] = name
  BY <1>1
<1>3. /\ name = "selection" => e \in {"selection"} \X Kinds \X Ids \X BOOLEAN
      /\ name \in {"cancelled", "send"} => e \in {"cancelled", "send"} \X Kinds \X Ids
      /\ name \in {"enter", "action"} => e \in {"enter", "action"} \X Offers \X BOOLEAN
  BY <1>2 DEF SomeEvent
<1>4. /\ name \in {"selection", "cancelled", "send"} => e[2] \in Kinds /\ e[3] \in Ids
      /\ name = "selection" => e[4] \in BOOLEAN
      /\ name \in {"enter", "action"} => e[2] \in Ids \ {None} /\ e[3] \in BOOLEAN
  <2>1. Offers = Ids \ {None}
    BY TransferAssumption DEF Offers, Ids, None
  <2> QED
    BY <1>3, <2>1
<1> QED
  BY <1>1, <1>2, <1>4

LEMMA Concats ==
  ASSUME NEW a, NEW b, NEW c, NEW d
  PROVE  <<a>> \o <<b>> = <<a, b>> /\ <<a, b>> \o <<c, d>> = <<a, b, c, d>>
<1>1. PICK S : S = {a, b, c, d}
  OBVIOUS
<1>2. /\ <<a>> \in Seq(S) /\ <<b>> \in Seq(S) /\ <<a, b>> \in Seq(S) /\ <<c, d>> \in Seq(S)
      /\ <<a, b, c, d>> \in Seq(S)
  BY <1>1
<1>3. <<a>> \o <<b>> = <<a, b>>
  <2>1. <<a>> \o <<b>> \in Seq(S) /\ Len(<<a>> \o <<b>>) = 2
        /\ \A i \in 1..2 : (<<a>> \o <<b>>)[i] = <<a, b>>[i]
    BY <1>2, ConcatProperties
  <2> QED
    BY <1>2, <2>1, SeqEqual
<1>4. <<a, b>> \o <<c, d>> = <<a, b, c, d>>
  <2>1. <<a, b>> \o <<c, d>> \in Seq(S) /\ Len(<<a, b>> \o <<c, d>>) = 4
        /\ \A i \in 1..4 : (<<a, b>> \o <<c, d>>)[i] = <<a, b, c, d>>[i]
    BY <1>2, ConcatProperties
  <2> QED
    BY <1>2, <2>1, SeqEqual
<1> QED
  BY <1>3, <1>4

LEMMA ResetIs == Reset(TRUE) = <<LeaveStep, ResetStep>>
<1>1. Reset(TRUE) = <<LeaveStep>> \o <<ResetStep>>
  BY DEF Reset, LeaveStep, ResetStep
<1> QED
  BY <1>1, Concats

\* A first step and the ones behind it.
LEMMA FirstAndRest ==
  ASSUME NEW S, NEW h, NEW s \in Seq(S)
  PROVE  <<h>> \o s # <<>> /\ Head(<<h>> \o s) = h /\ Tail(<<h>> \o s) = s
<1>1. PICK T : T = S \cup {h}
  OBVIOUS
<1>2. s \in Seq(T) /\ <<h>> \in Seq(T) /\ Len(<<h>>) = 1 /\ <<h>>[1] = h
  BY <1>1
<1>3. /\ <<h>> \o s \in Seq(T) /\ Len(<<h>> \o s) = 1 + Len(s)
      /\ (<<h>> \o s)[1] = h
      /\ \A i \in 1..Len(s) : (<<h>> \o s)[i + 1] = s[i]
  BY <1>2, ConcatProperties
<1>4. <<h>> \o s # <<>> /\ Head(<<h>> \o s) = h
  BY <1>2, <1>3
<1>5. /\ Tail(<<h>> \o s) \in Seq(T) /\ Len(Tail(<<h>> \o s)) = Len(s)
      /\ \A i \in 1..Len(s) : Tail(<<h>> \o s)[i] = s[i]
  BY <1>2, <1>3, <1>4, HeadTailProperties
<1>6. Tail(<<h>> \o s) = s
  BY <1>2, <1>5, SeqEqual
<1> QED
  BY <1>4, <1>6

LEMMA AppendBehind ==
  ASSUME NEW S, NEW h, NEW s \in Seq(S), NEW x \in S
  PROVE  Append(<<h>> \o s, x) = <<h>> \o Append(s, x)
<1>1. PICK T : T = S \cup {h}
  OBVIOUS
<1>2. s \in Seq(T) /\ <<h>> \in Seq(T) /\ <<x>> \in Seq(T) /\ x \in T
  BY <1>1
<1>3. Append(<<h>> \o s, x) = (<<h>> \o s) \o <<x>> /\ Append(s, x) = s \o <<x>>
  BY <1>2, AppendIsConcat, ConcatProperties
<1> QED
  BY <1>2, <1>3, ConcatAssociative

LEMMA PollingSteps ==
  ASSUME NEW i \in Nat \ {0}, NEW s \in Seq(Answers), todo' = <<PollStep(i)>> \o s
  PROVE  Polling'
<1>1. PICK p : p = PollStep(i)
  OBVIOUS
<1>2. todo' # <<>> /\ Head(todo') = p /\ Tail(todo') = s
  BY <1>1, FirstAndRest
<1> QED
  BY <1>1, <1>2 DEF Polling

LEMMA PollingKept ==
  ASSUME Steps, transfers \in Seq(SomeTransfer)
  PROVE  /\ EraseTransfer \/ KeepTransfer => Polling /\ Polling'
         /\ PollEnd \/ Answer => (Polling \/ todo \in Seq(Answers)) /\ todo' \in Seq(Answers)
<1>1. ASSUME EraseTransfer \/ KeepTransfer PROVE Polling
  BY <1>1, AnswerSteps DEF EraseTransfer, KeepTransfer
<1>2. ASSUME EraseTransfer PROVE Polling'
  <2>1. PICK i \in Nat \ {0} : Head(todo) = PollStep(i)
    BY <1>1, <1>2 DEF Polling
  <2>2. PICK s \in Seq(Answers) : todo = <<PollStep(i)>> \o s
    BY <1>1, <1>2, <2>1 DEF Polling
  <2>3. CASE UNCHANGED todo
    BY <1>1, <1>2, <2>3 DEF Polling
  <2>4. CASE todo' = Append(todo, <<"answer", transfers[Current].read>>)
             /\ Current \in DOMAIN transfers /\ transfers[Current].read # None
    <3>1. transfers[Current].read \in Reads
      <4>1. transfers[Current] \in SomeTransfer
        BY <2>4
      <4>2. transfers[Current].read \in 0..MaxReads
        BY <4>1 DEF SomeTransfer
      <4> QED
        BY <2>4, <4>2, TransferAssumption DEF Reads, None
    <3>2. PICK x \in Answers : x = <<"answer", transfers[Current].read>>
      BY <3>1 DEF Answers
    <3>3. todo' = <<PollStep(i)>> \o Append(s, x) /\ Append(s, x) \in Seq(Answers)
      BY <2>2, <2>4, <3>2, AppendBehind
    <3> QED
      BY <3>3, PollingSteps
  <2> QED
    BY <1>2, <2>3, <2>4 DEF EraseTransfer
<1>3. ASSUME KeepTransfer PROVE Polling'
  <2>1. PICK i \in Nat \ {0} : Head(todo) = PollStep(i)
    BY <1>1, <1>3 DEF Polling
  <2>2. Current = i /\ Tail(todo) \in Seq(Answers)
    BY <1>1, <1>3, <2>1, StepNames DEF Current, Polling
  <2>3. todo' = <<PollStep(i + 1)>> \o Tail(todo)
    BY <1>3, <2>2 DEF KeepTransfer, PollStep
  <2>4. PICK j \in Nat \ {0} : j = i + 1
    OBVIOUS
  <2> QED
    BY <2>2, <2>3, <2>4, PollingSteps
<1>4. ASSUME PollEnd \/ Answer
      PROVE  (Polling \/ todo \in Seq(Answers)) /\ todo' \in Seq(Answers)
  <2>1. todo' = Tail(todo) /\ todo # <<>> /\ (Polling \/ todo \in Seq(Answers))
    BY <1>4, AnswerSteps DEF PollEnd, Answer, Doing
  <2> QED
    BY <2>1 DEF Polling
<1> QED
  BY <1>1, <1>2, <1>3, <1>4

LEMMA StepsKept ==
  ASSUME Steps, inbox \in Seq(SomeEvent), transfers \in Seq(SomeTransfer), [Next]_vars
  PROVE  Steps'
<1>1. CASE UNCHANGED todo
  BY <1>1 DEF Steps, Polling
<1>2. ASSUME HandleEnter PROVE Steps'
  <2>1. PICK o \in Ids, typed \in BOOLEAN : o = Head(inbox)[2] /\ typed = Head(inbox)[3]
    BY <1>2, HeadEvent DEF HandleEnter
  <2>2. PICK b : b = BeginStep(o, typed)
    OBVIOUS
  <2>3. todo' = <<LeaveStep, ResetStep>> \o <<b, EnterStep>>
    BY <1>2, <2>1, <2>2, ResetIs DEF HandleEnter, BeginStep, EnterStep
  <2>4. todo' = <<LeaveStep, ResetStep, b, EnterStep>>
    BY <2>3, Concats
  <2> QED
    BY <2>1, <2>2, <2>4 DEF Steps, EnterSteps
<1>3. ASSUME NEW piped, HandleMotion \/ HandleLeave \/ HandleDrop(piped) PROVE Steps'
  <2>1. todo' \in {<<MotionStep>>, <<>>, <<LeaveStep, ResetStep>>, todo}
    BY <1>3, ResetIs DEF HandleMotion, HandleLeave, HandleDrop, MotionStep
  <2>2. <<>> \in Seq(Answers)
    OBVIOUS
  <2>3. CASE todo' = todo
    BY <2>3, <1>1
  <2> QED
    BY <2>1, <2>2, <2>3 DEF Steps, LoopSteps
<1>4. ASSUME Poll PROVE Steps'
  <2>1. todo' = <<PollDragStep, PollStep(1)>>
    BY <1>4 DEF Poll, PollDragStep, PollStep
  <2> QED
    BY <2>1 DEF Steps, LoopSteps
<1>5. ASSUME TellDrag PROVE Steps'
  <2>1. Doing("tell") /\ todo' = Tail(todo)
    BY <1>5 DEF TellDrag
  <2>2. <<>> \in Seq(Answers)
    OBVIOUS
  <2> QED
    BY <2>1, <2>2, TellSteps DEF Steps, LoopSteps, EnterSteps
<1>6. ASSUME ResetDrag PROVE Steps'
  <2>1. Doing("reset") /\ todo' = Tail(todo)
    BY <1>6 DEF ResetDrag
  <2>2. <<>> \in Seq(Answers)
    OBVIOUS
  <2> QED
    BY <2>1, <2>2, ResetSteps DEF Steps, LoopSteps, EnterSteps
<1>7. ASSUME BeginDrag PROVE Steps'
  <2>1. Doing("begin") /\ todo' = Tail(todo)
    BY <1>7 DEF BeginDrag
  <2> QED
    BY <2>1, BeginSteps DEF Steps, LoopSteps
<1>8. ASSUME <<PollStep(1)>> = todo' PROVE Steps'
  <2>1. <<>> \in Seq(Answers) /\ 1 \in Nat \ {0} /\ \A p : <<p>> = <<p>> \o <<>>
    OBVIOUS
  <2> QED
    BY <1>8, <2>1, PollingSteps DEF Steps
<1>9. ASSUME NEW decodes, PollDrag(decodes) PROVE Steps'
  <2>1. Doing("poll drag") /\ (todo' = Tail(todo) \/ todo' = <<TellDropStep>> \o Tail(todo))
    BY <1>9 DEF PollDrag, TellDropStep
  <2>2. Tail(todo) = <<PollStep(1)>>
    BY <2>1, DropSteps
  <2>3. <<TellDropStep>> \o <<PollStep(1)>> = <<TellDropStep, PollStep(1)>>
    BY Concats
  <2> QED
    BY <1>8, <2>1, <2>2, <2>3 DEF Steps, LoopSteps
<1>10. ASSUME TellDrop \/ DestroyHand PROVE Steps'
  <2>1. \/ Doing("tell drop") /\ todo' = <<DestroyStep>> \o Tail(todo)
        \/ Doing("destroy") /\ todo' = Tail(todo)
    BY <1>10 DEF TellDrop, DestroyHand, DestroyStep
  <2>2. Tail(todo) = <<PollStep(1)>>
    BY <2>1, DropSteps
  <2>3. <<DestroyStep>> \o <<PollStep(1)>> = <<DestroyStep, PollStep(1)>>
    BY Concats
  <2> QED
    BY <1>8, <2>1, <2>2, <2>3 DEF Steps, LoopSteps
<1>11. ASSUME EraseTransfer \/ KeepTransfer \/ PollEnd \/ Answer PROVE Steps'
  BY <1>11, PollingKept DEF Steps
<1> QED
  BY <1>1, <1>2, <1>3, <1>4, <1>5, <1>6, <1>7, <1>9, <1>10, <1>11, Leaves
     DEF Next, UserStep, DesktopStep, PeerStep, Timeout, HandlerStep, LoopStep, vars

LEMMA FreshIds ==
  ASSUME events \in Ids, Event
  PROVE  Fresh \in Ids /\ Fresh = events + 1 /\ events' = events + 1 /\ events' \in Ids
  BY TransferAssumption DEF Ids, Event, Fresh

LEMMA EventsKept ==
  ASSUME events \in Ids, [Next]_vars
  PROVE  events' \in Ids /\ events <= events'
<1>1. CASE Event
  BY <1>1, FreshIds DEF Ids
<1>2. CASE UNCHANGED events
  BY <1>2 DEF Ids
<1>3. Event \/ UNCHANGED events
  BY Leaves DEF Next, UserStep, DesktopStep, PeerStep, Timeout, HandlerStep, LoopStep, vars,
       ReadAsync, SetText, OtherTakes, Announce, RequestSend, DragEnter, DragMotion, DragEnd
<1> QED
  BY <1>1, <1>2, <1>3

LEMMA SelectionKept ==
  ASSUME SelectionTypes, inbox \in Seq(SomeEvent), events \in Ids, [Next]_vars
  PROVE  SelectionTypes'
<1>1. CASE UNCHANGED <<selection, owner>>
  BY <1>1 DEF SelectionTypes
<1>2. ASSUME NEW kind \in Kinds, NEW empty \in BOOLEAN, NEW accepted, NEW announced,
             SetText(kind, empty, accepted, announced)
      PROVE  SelectionTypes'
  <2>1. Fresh \in Ids /\ None \in Ids
    BY <1>2, FreshIds, TransferAssumption DEF SetText, None, Ids
  <2>2. selection' \in [Kinds -> SomeSelection]
    BY <1>2, <2>1 DEF SetText, SelectionTypes, SomeSelection
  <2>3. owner' \in [Kinds -> {Other} \cup Ids]
    BY <1>2, <2>1 DEF SetText, SelectionTypes
  <2> QED
    BY <2>2, <2>3 DEF SelectionTypes
<1>3. ASSUME NEW kind \in Kinds, NEW readable, NEW announced, NEW first,
             OtherTakes(kind, readable, announced, first)
      PROVE  SelectionTypes'
  BY <1>3 DEF OtherTakes, SelectionTypes
<1>4. ASSUME HandleSelection PROVE SelectionTypes'
  <2>1. PICK kind \in Kinds, o \in Ids, b \in BOOLEAN :
          kind = Head(inbox)[2] /\ o = Head(inbox)[3] /\ b = Head(inbox)[4]
    BY <1>4, HeadEvent DEF HandleSelection
  <2>2. selection' = [selection EXCEPT ![kind].offer = o, ![kind].readable = b,
                                       ![kind].generation = @ + 1]
    BY <1>4, <2>1 DEF HandleSelection
  <2>3. selection' \in [Kinds -> SomeSelection]
    BY <2>2 DEF SelectionTypes, SomeSelection
  <2> QED
    BY <1>4, <2>3, Leaves DEF SelectionTypes
<1>5. ASSUME HandleCancelled PROVE SelectionTypes'
  <2>1. PICK kind \in Kinds : kind = Head(inbox)[2]
    BY <1>5, HeadEvent DEF HandleCancelled
  <2>2. \/ UNCHANGED selection
        \/ selection' = [selection EXCEPT ![kind].owns = FALSE, ![kind].source = None]
    BY <1>5, <2>1 DEF HandleCancelled
  <2>3. None \in Ids
    BY TransferAssumption DEF None, Ids
  <2>4. CASE selection' = [selection EXCEPT ![kind].owns = FALSE, ![kind].source = None]
    <3>1. selection' \in [Kinds -> SomeSelection]
      BY <2>3, <2>4 DEF SelectionTypes, SomeSelection
    <3> QED
      BY <1>5, <3>1, Leaves DEF SelectionTypes
  <2> QED
    BY <1>5, <2>2, <2>4, Leaves DEF SelectionTypes
<1> QED
  BY <1>1, <1>2, <1>3, <1>4, <1>5, Leaves
     DEF Next, UserStep, DesktopStep, PeerStep, Timeout, HandlerStep, LoopStep, vars

\* The offer an event brings.
Brings(e) == IF e[1] = "selection" THEN e[3] ELSE IF e[1] = "enter" THEN e[2] ELSE None

\* What an event of the compositor may add to the inbox: one offer at most, a new one.
Arriving(t) ==
  /\ t \in Seq(SomeEvent)
  /\ \A i \in DOMAIN t : Brings(t[i]) \in {None, Fresh}
  /\ \A i, j \in DOMAIN t : Brings(t[i]) # None /\ Brings(t[j]) # None => i = j

LEMMA EventShapes ==
  ASSUME events \in Ids, Event
  PROVE  /\ \A kind \in Kinds, o \in {None, Fresh}, b \in BOOLEAN :
              /\ <<"selection", kind, o, b>> \in SomeEvent
              /\ Brings(<<"selection", kind, o, b>>) = o
         /\ \A name \in {"cancelled", "send"}, kind \in Kinds, s \in Ids :
              <<name, kind, s>> \in SomeEvent /\ Brings(<<name, kind, s>>) = None
         /\ \A b \in BOOLEAN :
              /\ <<"enter", Fresh, b>> \in SomeEvent /\ Brings(<<"enter", Fresh, b>>) = Fresh
              /\ <<"action", Fresh, b>> \in SomeEvent /\ Brings(<<"action", Fresh, b>>) = None
         /\ \A e \in {<<"motion">>, <<"leave">>, <<"drop">>} :
              e \in SomeEvent /\ Brings(e) = None
<1>1. {None, Fresh} \subseteq Ids /\ Fresh \in Offers
  BY FreshIds, TransferAssumption DEF None, Ids, Offers
<1> QED
  BY <1>1 DEF SomeEvent, Brings

LEMMA ArrivingIs ==
  ASSUME NEW e \in SomeEvent, NEW f \in SomeEvent, Brings(e) \in {None, Fresh}, Brings(f) = None
  PROVE  /\ Arriving(<<>>) /\ Arriving(<<e>>) /\ Arriving(<<f>>)
         /\ Arriving(<<e, f>>) /\ Arriving(<<f, e>>)
<1>1. /\ <<>> \in Seq(SomeEvent) /\ <<e>> \in Seq(SomeEvent) /\ <<f>> \in Seq(SomeEvent)
      /\ <<e, f>> \in Seq(SomeEvent) /\ <<f, e>> \in Seq(SomeEvent)
  OBVIOUS
<1> QED
  BY <1>1 DEF Arriving

LEMMA Arrivals ==
  ASSUME SelectionTypes, inbox \in Seq(SomeEvent), events \in Ids, [Next]_vars
  PROVE  \/ UNCHANGED inbox
         \/ Event /\ \E t : Arriving(t) /\ inbox' = inbox \o t
         \/ UNCHANGED events /\ inbox # <<>> /\ inbox' = Tail(inbox)
<1> DEFINE Arrived == Event /\ \E t : Arriving(t) /\ inbox' = inbox \o t
<1>1. ASSUME Event, NEW e \in SomeEvent, Brings(e) \in {None, Fresh}, inbox' = Append(inbox, e)
      PROVE  Arrived
  <2>1. PICK f \in SomeEvent : f = <<"motion">> /\ Brings(f) = None
    BY <1>1, EventShapes
  <2>2. Arriving(<<e>>) /\ inbox' = inbox \o <<e>>
    BY <1>1, <2>1, ArrivingIs, AppendIsConcat
  <2> QED
    BY <1>1, <2>2
<1>2. ASSUME NEW name, Receive(name) PROVE inbox # <<>> /\ inbox' = Tail(inbox)
  BY <1>2 DEF Receive
<1>3. ASSUME NEW kind \in Kinds, NEW empty \in BOOLEAN, NEW accepted, NEW announced,
             SetText(kind, empty, accepted, announced)
      PROVE  UNCHANGED inbox \/ Arrived
  <2>1. PICK o \in {None, Fresh}, b \in BOOLEAN :
          o = (IF empty THEN None ELSE Fresh) /\ b = (~empty)
    OBVIOUS
  <2>2. PICK e \in SomeEvent : e = <<"selection", kind, o, b>> /\ Brings(e) = o
    BY <1>3, EventShapes DEF SetText
  <2>3. UNCHANGED inbox \/ inbox' = Append(inbox, e)
    BY <1>3, <2>1, <2>2 DEF SetText
  <2> QED
    BY <1>1, <1>3, <2>2, <2>3 DEF SetText
<1>4. ASSUME NEW kind \in Kinds, NEW readable \in BOOLEAN, NEW announced, NEW first,
             OtherTakes(kind, readable, announced, first)
      PROVE  Arrived
  <2>1. PICK e \in SomeEvent : e = <<"selection", kind, Fresh, readable>> /\ Brings(e) = Fresh
    BY <1>4, EventShapes DEF OtherTakes
  <2>2. PICK f \in SomeEvent :
          Brings(f) = None /\ (owner[kind] > 0 => f = <<"cancelled", kind, owner[kind]>>)
    <3>1. CASE owner[kind] > 0
      <4>1. owner[kind] \in Ids
        BY <3>1 DEF SelectionTypes, Other
      <4> QED
        BY <1>4, <4>1, EventShapes DEF OtherTakes
    <3>2. CASE ~(owner[kind] > 0)
      BY <1>4, <3>2, EventShapes DEF OtherTakes
    <3> QED
      BY <3>1, <3>2
  <2>3. PICK c, s : /\ c = (IF owner[kind] > 0 THEN <<f>> ELSE <<>>)
                    /\ s = (IF announced THEN <<e>> ELSE <<>>)
    OBVIOUS
  <2>4. inbox' \in {inbox \o (s \o c), inbox \o (c \o s)}
    BY <1>4, <2>1, <2>2, <2>3 DEF OtherTakes
  <2>5. /\ <<e>> \o <<f>> = <<e, f>> /\ <<f>> \o <<e>> = <<f, e>>
        /\ <<>> \o <<>> = <<>> /\ <<e>> \o <<>> = <<e>> /\ <<>> \o <<e>> = <<e>>
        /\ <<f>> \o <<>> = <<f>> /\ <<>> \o <<f>> = <<f>>
    <3>1. <<e>> \in Seq(SomeEvent) /\ <<f>> \in Seq(SomeEvent) /\ <<>> \in Seq(SomeEvent)
      OBVIOUS
    <3> QED
      BY <3>1, Concats, ConcatEmptySeq
  <2>6. Arriving(s \o c) /\ Arriving(c \o s)
    BY <2>1, <2>2, <2>3, <2>5, ArrivingIs
  <2> QED
    BY <1>4, <2>4, <2>6 DEF OtherTakes
<1>5. ASSUME NEW kind \in Kinds, NEW readable \in BOOLEAN, Announce(kind, readable) PROVE Arrived
  <2>1. PICK e \in SomeEvent :
          /\ e = IF owner[kind] = None THEN <<"selection", kind, None, FALSE>>
                 ELSE <<"selection", kind, Fresh, readable>>
          /\ Brings(e) \in {None, Fresh}
    BY <1>5, EventShapes DEF Announce
  <2>2. inbox' = Append(inbox, e)
    BY <1>5, <2>1 DEF Announce
  <2> QED
    BY <1>1, <1>5, <2>1, <2>2 DEF Announce
<1>6. ASSUME NEW kind \in Kinds, RequestSend(kind) PROVE Arrived
  <2>1. owner[kind] \in Ids
    BY <1>6 DEF RequestSend, SelectionTypes, Other
  <2>2. PICK e \in SomeEvent : e = <<"send", kind, owner[kind]>> /\ Brings(e) = None
    BY <1>6, <2>1, EventShapes DEF RequestSend
  <2>3. inbox' = Append(inbox, e)
    BY <1>6, <2>2 DEF RequestSend
  <2> QED
    BY <1>1, <1>6, <2>2, <2>3 DEF RequestSend
<1>7. ASSUME NEW typed \in BOOLEAN, NEW copy \in BOOLEAN, DragEnter(typed, copy) PROVE Arrived
  <2>1. PICK e \in SomeEvent : e = <<"enter", Fresh, typed>> /\ Brings(e) = Fresh
    BY <1>7, EventShapes DEF DragEnter
  <2>2. PICK f \in SomeEvent : f = <<"action", Fresh, copy>> /\ Brings(f) = None
    BY <1>7, EventShapes DEF DragEnter
  <2>3. inbox' = inbox \o <<e, f>>
    BY <1>7, <2>1, <2>2 DEF DragEnter
  <2>4. Arriving(<<e, f>>)
    BY <2>1, <2>2, ArrivingIs
  <2> QED
    BY <1>7, <2>3, <2>4 DEF DragEnter
<1>8. ASSUME DragMotion PROVE Arrived
  <2>1. PICK e \in SomeEvent : e = <<"motion">> /\ Brings(e) = None
    BY <1>8, EventShapes DEF DragMotion
  <2>2. inbox' = Append(inbox, e)
    BY <1>8, <2>1 DEF DragMotion
  <2> QED
    BY <1>1, <1>8, <2>1, <2>2 DEF DragMotion
<1>9. ASSUME NEW sequence \in {<< <<"leave">> >>, << <<"drop">> >>, << <<"drop">>, <<"leave">> >>},
             DragEnd(sequence)
      PROVE  Arrived
  <2>1. PICK e \in SomeEvent : e = <<"leave">> /\ Brings(e) = None
    BY <1>9, EventShapes DEF DragEnd
  <2>2. PICK f \in SomeEvent : f = <<"drop">> /\ Brings(f) = None
    BY <1>9, EventShapes DEF DragEnd
  <2>3. inbox' = inbox \o sequence /\ sequence \in {<<e>>, <<f>>, <<f, e>>}
    BY <1>9, <2>1, <2>2 DEF DragEnd
  <2>4. Arriving(sequence)
    BY <2>1, <2>2, <2>3, ArrivingIs
  <2> QED
    BY <1>9, <2>3, <2>4 DEF DragEnd
<1>10. ASSUME HandlerStep PROVE \E name : Receive(name)
  BY <1>10 DEF HandlerStep, HandleSelection, HandleCancelled, HandleSend, HandleEnter,
       HandleAction, HandleMotion, HandleLeave, HandleDrop
<1>11. ASSUME HandlerStep PROVE UNCHANGED events
  BY <1>11, Leaves DEF HandlerStep
<1> QED
  BY <1>2, <1>3, <1>4, <1>5, <1>6, <1>7, <1>8, <1>9, <1>10, <1>11, Leaves
     DEF Next, UserStep, DesktopStep, PeerStep, Timeout, LoopStep, vars

LEMMA InboxKept ==
  ASSUME SelectionTypes, inbox \in Seq(SomeEvent), events \in Ids, [Next]_vars
  PROVE  inbox' \in Seq(SomeEvent)
<1>1. ASSUME NEW t, Arriving(t), inbox' = inbox \o t PROVE inbox' \in Seq(SomeEvent)
  BY <1>1, ConcatProperties DEF Arriving
<1> QED
  BY <1>1, Arrivals

(***************************************************************************)
(* Pipes.                                                                   *)
(***************************************************************************)
LEMMA PipeFields ==
  ASSUME NEW pipe \in SomePipe
  PROVE  /\ pipe = [sent |-> pipe.sent, closed |-> pipe.closed, got |-> pipe.got,
                    late |-> pipe.late]
         /\ pipe.sent \in 0..MaxSent /\ pipe.closed \in BOOLEAN /\ pipe.got \in 0..MaxPieces
         /\ pipe.late \in BOOLEAN /\ pipe.got <= pipe.sent
         /\ MaxSent \in Nat /\ MaxPieces \in Nat
  BY TransferAssumption DEF SomePipe, Pipes

LEMMA NewPipeIs == NewPipe \in SomePipe
  BY TransferAssumption DEF SomePipe, Pipes, NewPipe

LEMMA PipeAdvances ==
  ASSUME NEW pipe \in SomePipe, ~Ends(pipe)
  PROVE  Advance(pipe) \in SomePipe
<1>1. CASE pipe.got < pipe.sent
  <2>1. pipe.got # MaxPieces
    BY <1>1 DEF Ends, TooLong
  <2>2. Advance(pipe) = [sent |-> pipe.sent, closed |-> pipe.closed, got |-> pipe.got + 1,
                         late |-> pipe.late]
    BY <1>1, PipeFields DEF Advance
  <2> QED
    BY <1>1, <2>1, <2>2, PipeFields DEF SomePipe, Pipes
<1>2. CASE ~(pipe.got < pipe.sent)
  BY <1>2 DEF Advance
<1> QED
  BY <1>1, <1>2

LEMMA PipeAfter ==
  ASSUME NEW pipe \in SomePipe, NEW cause, NEW next \in After(pipe, cause)
  PROVE  next \in SomePipe
<1>1. \/ next = [pipe EXCEPT !.closed = TRUE]
      \/ pipe.sent < MaxSent /\ next = [pipe EXCEPT !.sent = @ + 1]
      \/ next = [pipe EXCEPT !.late = TRUE, !.sent = pipe.got]
  BY DEF After, Moved, Expired
<1>2. CASE next = [pipe EXCEPT !.closed = TRUE]
  BY <1>2, PipeFields DEF SomePipe, Pipes
<1>3. CASE pipe.sent < MaxSent /\ next = [pipe EXCEPT !.sent = @ + 1]
  <2>1. next = [sent |-> pipe.sent + 1, closed |-> pipe.closed, got |-> pipe.got,
                late |-> pipe.late]
    BY <1>3, PipeFields
  <2> QED
    BY <1>3, <2>1, PipeFields DEF SomePipe, Pipes
<1>4. CASE next = [pipe EXCEPT !.late = TRUE, !.sent = pipe.got]
  <2>1. PICK s, c, g, l : pipe = [sent |-> s, closed |-> c, got |-> g, late |-> l]
    BY PipeFields
  <2>2. next = [sent |-> g, closed |-> c, got |-> g, late |-> TRUE] /\ pipe.got = g
    BY <1>4, <2>1
  <2>3. g \in 0..MaxPieces /\ g \in 0..MaxSent /\ c \in BOOLEAN /\ g <= g
    BY <2>1, PipeFields
  <2> QED
    BY <2>2, <2>3 DEF SomePipe, Pipes
<1> QED
  BY <1>1, <1>2, <1>3, <1>4

LEMMA TextOf ==
  ASSUME NEW t \in SomeTransfer
  PROVE  Text(t) \in 0..MaxPieces
<1>1. t.pipe \in SomePipe
  BY DEF SomeTransfer
<1> QED
  BY <1>1, PipeFields, TransferAssumption DEF Text, TakeText

(***************************************************************************)
(* Reads and transfers.                                                     *)
(***************************************************************************)
LEMMA TransfersKept ==
  ASSUME TransferTypes, SelectionTypes, inbox \in Seq(SomeEvent), Steps, [Next]_vars
  PROVE  TransferTypes'
<1>1. CASE UNCHANGED <<reads, transfers>>
  BY <1>1 DEF TransferTypes
<1>2. ASSUME NEW kind \in Kinds, ReadAsync(kind) PROVE TransferTypes'
  <2>1. PICK r \in Reads :
          LET read == [at |-> "pending", kind |-> kind, offer |-> selection[kind].offer,
                       text |-> 0]
          IN IF selection[kind].owns \/ Len(transfers) >= MaxTransfers
             THEN /\ reads' = [reads EXCEPT ![r] = [read EXCEPT !.at = "answered"]]
                  /\ UNCHANGED transfers
             ELSE /\ reads' = [reads EXCEPT ![r] = read]
                  /\ transfers' = Append(transfers,
                       [read |-> r, kind |-> kind, generation |-> selection[kind].generation,
                        failed |-> ~CanReceive(kind), pipe |-> NewPipe])
    BY <1>2 DEF ReadAsync
  <2>2. selection[kind].offer \in Ids /\ selection[kind].generation \in Nat
    BY DEF SelectionTypes, SomeSelection
  <2>3. PICK p, q : /\ p = [at |-> "pending", kind |-> kind, offer |-> selection[kind].offer,
                            text |-> 0]
                    /\ q = [at |-> "answered", kind |-> kind, offer |-> selection[kind].offer,
                            text |-> 0]
    OBVIOUS
  <2>4. p \in SomeRead /\ q \in SomeRead
    BY <2>2, <2>3, TransferAssumption DEF SomeRead
  <2>5. PICK t : t = [read |-> r, kind |-> kind, generation |-> selection[kind].generation,
                      failed |-> ~CanReceive(kind), pipe |-> NewPipe]
    OBVIOUS
  <2>6. t \in SomeTransfer
    BY <2>2, <2>5, NewPipeIs, TransferAssumption DEF SomeTransfer, Reads
  <2>7. \/ reads' = [reads EXCEPT ![r] = q] /\ UNCHANGED transfers
        \/ /\ reads' = [reads EXCEPT ![r] = p] /\ transfers' = Append(transfers, t)
           /\ ~(Len(transfers) >= MaxTransfers)
    BY <2>1, <2>3, <2>5
  <2>8. reads' \in [Reads -> SomeRead]
    BY <2>4, <2>7 DEF TransferTypes
  <2>9. transfers' \in Seq(SomeTransfer) /\ Len(transfers') <= MaxTransfers
    <3>1. MaxTransfers \in Nat /\ Len(transfers) \in Nat
      BY TransferAssumption DEF TransferTypes
    <3>2. CASE transfers' = Append(transfers, t) /\ ~(Len(transfers) >= MaxTransfers)
      <4>1. transfers' \in Seq(SomeTransfer) /\ Len(transfers') = Len(transfers) + 1
        BY <2>6, <3>2, AppendProperties DEF TransferTypes
      <4> QED
        BY <3>1, <3>2, <4>1
    <3> QED
      BY <2>7, <3>2 DEF TransferTypes
  <2> QED
    BY <2>8, <2>9 DEF TransferTypes
<1>3. ASSUME NEW cause, PipeMoves(cause) PROVE TransferTypes'
  <2>1. CASE UNCHANGED transfers
    BY <1>3, <2>1, Leaves DEF TransferTypes
  <2>2. CASE \E i \in DOMAIN transfers : \E pipe \in After(transfers[i].pipe, cause) :
               transfers' = [transfers EXCEPT ![i].pipe = pipe]
    <3>1. PICK i \in DOMAIN transfers : \E pipe \in After(transfers[i].pipe, cause) :
            transfers' = [transfers EXCEPT ![i].pipe = pipe]
      BY <2>2
    <3>2. PICK pipe \in After(transfers[i].pipe, cause) :
            transfers' = [transfers EXCEPT ![i].pipe = pipe]
      BY <3>1
    <3>3. transfers[i] \in SomeTransfer
      BY DEF TransferTypes
    <3>4. pipe \in SomePipe
      BY <3>3, PipeAfter DEF SomeTransfer
    <3>5. transfers' = [transfers EXCEPT ![i] = [transfers[i] EXCEPT !.pipe = pipe]]
          /\ [transfers[i] EXCEPT !.pipe = pipe] \in SomeTransfer
      BY <3>2, <3>3, <3>4 DEF SomeTransfer
    <3>6. transfers' \in Seq(SomeTransfer) /\ Len(transfers') = Len(transfers)
      BY <3>5 DEF TransferTypes
    <3> QED
      BY <1>3, <3>6, Leaves DEF TransferTypes
  <2> QED
    BY <1>3, <2>1, <2>2 DEF PipeMoves
<1>4. ASSUME HandleSend PROVE TransferTypes'
  <2>1. PICK kind \in Kinds : kind = Head(inbox)[2]
    BY <1>4, HeadEvent DEF HandleSend
  <2>2. PICK t : t = [read |-> None, kind |-> kind, generation |-> 0, failed |-> FALSE,
                      pipe |-> NewPipe]
    OBVIOUS
  <2>3. t \in SomeTransfer
    BY <2>2, NewPipeIs, TransferAssumption DEF SomeTransfer, None
  <2>4. UNCHANGED transfers
          \/ (transfers' = Append(transfers, t) /\ Len(transfers) < MaxTransfers)
    BY <1>4, <2>1, <2>2 DEF HandleSend
  <2>5. transfers' \in Seq(SomeTransfer) /\ Len(transfers') <= MaxTransfers
    <3>1. MaxTransfers \in Nat /\ Len(transfers) \in Nat
      BY TransferAssumption DEF TransferTypes
    <3>2. CASE transfers' = Append(transfers, t) /\ Len(transfers) < MaxTransfers
      <4>1. transfers' \in Seq(SomeTransfer) /\ Len(transfers') = Len(transfers) + 1
        BY <2>3, <3>2, AppendProperties DEF TransferTypes
      <4> QED
        BY <3>1, <3>2, <4>1
    <3> QED
      BY <2>4, <3>2 DEF TransferTypes
  <2> QED
    BY <1>4, <2>5, Leaves DEF TransferTypes
<1>5. ASSUME EraseTransfer PROVE TransferTypes'
  <2>1. PICK i \in 1..Len(transfers) : i = Current
    BY <1>5 DEF EraseTransfer, TransferTypes
  <2>2. transfers' = RemoveAt(transfers, i)
    BY <1>5, <2>1 DEF EraseTransfer
  <2>3. transfers' \in Seq(SomeTransfer) /\ Len(transfers') <= MaxTransfers
    BY <2>2, RemoveAtProperties, TransferAssumption DEF TransferTypes
  <2>4. PICK t \in SomeTransfer : t = transfers[i]
    BY DEF TransferTypes
  <2>5. PICK text \in 0..MaxPieces : text = Text(t)
    BY TextOf
  <2>6. \/ UNCHANGED reads
        \/ /\ t.read # None
           /\ reads' = [reads EXCEPT ![t.read].at = "complete", ![t.read].text = text]
    BY <1>5, <2>1, <2>4, <2>5 DEF EraseTransfer
  <2>7. t.read \in 0..MaxReads
    BY DEF SomeTransfer
  <2>8. reads' \in [Reads -> SomeRead]
    <3>1. CASE /\ t.read # None
               /\ reads' = [reads EXCEPT ![t.read].at = "complete", ![t.read].text = text]
      <4>1. PICK r \in Reads : r = t.read
        BY <2>7, <3>1, TransferAssumption DEF Reads, None
      <4>2. reads' = [reads EXCEPT ![r] = [reads[r] EXCEPT !.at = "complete", !.text = text]]
        BY <3>1, <4>1 DEF TransferTypes
      <4>3. [reads[r] EXCEPT !.at = "complete", !.text = text] \in SomeRead
        BY DEF TransferTypes, SomeRead
      <4> QED
        BY <4>2, <4>3 DEF TransferTypes
    <3> QED
      BY <2>6, <3>1 DEF TransferTypes
  <2> QED
    BY <2>3, <2>8 DEF TransferTypes
<1>6. ASSUME KeepTransfer PROVE TransferTypes'
  <2>1. PICK i \in 1..Len(transfers) : i = Current
    BY <1>6 DEF KeepTransfer, TransferTypes
  <2>2. transfers[i] \in SomeTransfer
    BY DEF TransferTypes
  <2>3. CASE transfers[i].read # None
    <3>1. PICK pipe : pipe = Advance(transfers[i].pipe)
      OBVIOUS
    <3>2. pipe \in SomePipe
      <4>1. ~Ends(transfers[i].pipe) /\ transfers[i].pipe \in SomePipe
        BY <1>6, <2>1, <2>2, <2>3 DEF KeepTransfer, Completes, SomeTransfer
      <4> QED
        BY <3>1, <4>1, PipeAdvances
    <3>3. transfers' = [transfers EXCEPT ![i] = [transfers[i] EXCEPT !.pipe = pipe]]
      BY <1>6, <2>1, <2>3, <3>1 DEF KeepTransfer
    <3>4. [transfers[i] EXCEPT !.pipe = pipe] \in SomeTransfer
      BY <2>2, <3>2 DEF SomeTransfer
    <3>5. transfers' \in Seq(SomeTransfer) /\ Len(transfers') = Len(transfers)
      BY <3>3, <3>4 DEF TransferTypes
    <3> QED
      BY <1>6, <3>5, Leaves DEF TransferTypes
  <2>4. CASE transfers[i].read = None
    <3>1. UNCHANGED transfers
      BY <1>6, <2>1, <2>4 DEF KeepTransfer
    <3> QED
      BY <1>6, <3>1, Leaves DEF TransferTypes
  <2> QED
    BY <2>3, <2>4
<1>7. ASSUME Answer PROVE TransferTypes'
  <2>1. todo # <<>> /\ todo \in Seq(Answers)
    BY <1>7, AnswerSteps DEF Answer, Doing
  <2>2. PICK x \in Answers : x = Head(todo)
    BY <2>1
  <2>3. PICK r \in Reads : r = x[2]
    BY DEF Answers
  <2>4. reads' = [reads EXCEPT ![r].at = "answered"]
    BY <1>7, <2>2, <2>3 DEF Answer
  <2>5. reads' \in [Reads -> SomeRead]
    BY <2>4 DEF TransferTypes, SomeRead
  <2> QED
    BY <1>7, <2>5, Leaves DEF TransferTypes
<1> QED
  BY <1>1, <1>2, <1>3, <1>4, <1>5, <1>6, <1>7, Leaves
     DEF Next, UserStep, DesktopStep, PeerStep, Timeout, HandlerStep, LoopStep, vars

(***************************************************************************)
(* The drag.                                                                *)
(***************************************************************************)
LEMMA DragFields ==
  ASSUME DragTypes
  PROVE  /\ drag = [offer |-> drag.offer, over |-> drag.over, typed |-> drag.typed,
                    dropped |-> drag.dropped, copy |-> drag.copy, pipe |-> drag.pipe]
         /\ drag.offer \in Ids /\ drag.over \in BOOLEAN /\ drag.typed \in BOOLEAN
         /\ drag.dropped \in BOOLEAN /\ drag.copy \in BOOLEAN
         /\ drag.pipe # <<>> => drag.pipe[1] \in SomePipe /\ drag.pipe = <<drag.pipe[1]>>
<1>1. drag \in SomeDrag
  BY DEF DragTypes
<1>2. drag.pipe # <<>> => drag.pipe[1] \in SomePipe /\ drag.pipe = <<drag.pipe[1]>>
  BY <1>1 DEF SomeDrag
<1> QED
  BY <1>1, <1>2 DEF SomeDrag

LEMMA NoDragIs ==
  /\ NoDrag \in SomeDrag /\ ~NoDrag.over /\ NoDrag.offer = None /\ NoDrag.pipe = <<>>
  /\ Nothing \in [offer : Ids, over : BOOLEAN, whole : BOOLEAN]
  BY TransferAssumption DEF NoDrag, Nothing, SomeDrag, None, Ids

LEMMA DragKept ==
  ASSUME DragTypes, Steps, inbox \in Seq(SomeEvent), [Next]_vars
  PROVE  DragTypes'
<1>1. CASE UNCHANGED dragVars
  BY <1>1 DEF DragTypes, dragVars
<1>2. CASE CloseWindow
  <2>1. drag' \in SomeDrag /\ ~drag'.over
    BY <1>2, NoDragIs DEF CloseWindow, DragTypes
  <2> QED
    BY <1>2, <2>1, Leaves DEF CloseWindow, DragTypes
<1>3. ASSUME NEW typed, NEW copy, DragEnter(typed, copy) PROVE DragTypes'
  BY <1>3, Leaves DEF DragTypes, DragEnter
<1>4. ASSUME NEW sequence, DragEnd(sequence) PROVE DragTypes'
  BY <1>4, Leaves DEF DragTypes, DragEnd
<1>5. ASSUME UNCHANGED <<hand, dragging, window, inside, unpaired>>,
             drag' \in SomeDrag, drag'.over => drag.over \/ window
      PROVE  DragTypes'
  BY <1>5 DEF DragTypes
<1>6. ASSUME NEW cause, PipeMoves(cause) PROVE DragTypes'
  <2>1. CASE drag.pipe # <<>>
             /\ \E pipe \in After(drag.pipe[1], cause) : drag' = [drag EXCEPT !.pipe = <<pipe>>]
    <3>1. PICK pipe \in After(drag.pipe[1], cause) : drag' = [drag EXCEPT !.pipe = <<pipe>>]
      BY <2>1
    <3>2. pipe \in SomePipe
      BY <2>1, DragFields, PipeAfter
    <3>3. drag' \in SomeDrag /\ drag'.over = drag.over
      BY <3>1, <3>2, DragFields DEF SomeDrag
    <3> QED
      BY <1>5, <1>6, <3>3, Leaves
  <2>2. CASE UNCHANGED drag
    BY <1>5, <1>6, <2>2, Leaves DEF DragTypes
  <2> QED
    BY <1>6, <2>1, <2>2 DEF PipeMoves, dragVars
<1>7. CASE HandleAction
  <2>1. PICK b \in BOOLEAN : b = Head(inbox)[3]
    BY <1>7, HeadEvent DEF HandleAction
  <2>2. drag' \in {drag, [drag EXCEPT !.copy = b]}
    BY <1>7, <2>1 DEF HandleAction
  <2>3. drag' \in SomeDrag /\ drag'.over = drag.over
    BY <2>2 DEF DragTypes, SomeDrag
  <2> QED
    BY <1>5, <1>7, <2>3, Leaves
<1>8. ASSUME NEW piped, HandleDrop(piped) PROVE DragTypes'
  <2>1. drag' \in {drag, [drag EXCEPT !.dropped = TRUE, !.pipe = <<NewPipe>>]}
    BY <1>8 DEF HandleDrop
  <2>2. drag' \in SomeDrag /\ drag'.over = drag.over
    <3>1. PICK p \in SomePipe : p = NewPipe
      BY NewPipeIs
    <3>2. <<p>> \in [1..1 -> SomePipe]
      OBVIOUS
    <3> QED
      BY <2>1, <3>1, <3>2 DEF DragTypes, SomeDrag
  <2> QED
    BY <1>5, <1>8, <2>2, Leaves
<1>9. ASSUME NEW type, Tell(type) PROVE inside' \in BOOLEAN /\ unpaired' \in BOOLEAN
  BY <1>9 DEF Tell
<1>10. CASE TellDrag
  <2>1. inside' \in BOOLEAN /\ unpaired' \in BOOLEAN
    BY <1>9, <1>10 DEF TellDrag, DragTypes
  <2> QED
    BY <1>10, <2>1, Leaves DEF DragTypes
<1>11. CASE TellDrop
  <2>1. inside' \in BOOLEAN /\ unpaired' \in BOOLEAN
    BY <1>9, <1>11 DEF TellDrop, DragTypes
  <2> QED
    BY <1>11, <2>1, Leaves DEF DragTypes
<1>12. CASE ResetDrag
  BY <1>5, <1>12, NoDragIs, Leaves DEF ResetDrag
<1>13. CASE BeginDrag
  <2>1. PICK o \in Ids, typed \in BOOLEAN : todo = <<BeginStep(o, typed), EnterStep>>
    BY <1>13, BeginSteps DEF BeginDrag
  <2>2. PICK b : b = BeginStep(o, typed) /\ b[2] = o /\ b[3] = typed
    BY BeginNames
  <2>3. Head(todo) = b
    BY <2>1, <2>2
  <2>4. drag' = [NoDrag EXCEPT !.offer = o, !.over = window, !.typed = window /\ typed]
    BY <1>13, <2>2, <2>3 DEF BeginDrag
  <2>5. drag' \in SomeDrag /\ drag'.over = window
    BY <2>4, NoDragIs DEF SomeDrag, NoDrag, DragTypes
  <2> QED
    BY <1>5, <1>13, <2>5, Leaves
<1>14. ASSUME NEW decodes \in BOOLEAN, PollDrag(decodes) PROVE DragTypes'
  <2>1. CASE drag.pipe # <<>> /\ Ends(drag.pipe[1])
    <3>1. PICK whole \in BOOLEAN : whole = (Succeeds(drag.pipe[1]) /\ decodes)
      OBVIOUS
    <3>2. hand' = [offer |-> drag.offer, over |-> drag.over, whole |-> whole]
      BY <1>14, <2>1, <3>1 DEF PollDrag
    <3>3. drag' = [NoDrag EXCEPT !.copy = drag.copy]
      BY <1>14, <2>1 DEF PollDrag
    <3>4. hand' \in [offer : Ids, over : BOOLEAN, whole : BOOLEAN]
      BY <3>2, DragFields
    <3>5. drag' \in SomeDrag /\ ~drag'.over
      BY <3>3, NoDragIs, DragFields DEF SomeDrag, NoDrag
    <3> QED
      BY <1>14, <3>4, <3>5, Leaves DEF DragTypes
  <2>2. CASE drag.pipe # <<>> /\ ~Ends(drag.pipe[1])
    <3>1. PICK p \in SomePipe : p = Advance(drag.pipe[1])
      BY <2>2, DragFields, PipeAdvances
    <3>2. drag' = [drag EXCEPT !.pipe = <<p>>] /\ UNCHANGED hand
      BY <1>14, <2>2, <3>1 DEF PollDrag
    <3>3. <<p>> \in [1..1 -> SomePipe]
      OBVIOUS
    <3>4. drag' \in SomeDrag /\ drag'.over = drag.over
      BY <3>2, <3>3 DEF DragTypes, SomeDrag
    <3> QED
      BY <1>5, <1>14, <3>2, <3>4, Leaves
  <2>3. CASE drag.pipe = <<>>
    <3>1. UNCHANGED <<drag, hand>>
      BY <1>14, <2>3 DEF PollDrag
    <3> QED
      BY <1>5, <1>14, <3>1, Leaves DEF DragTypes
  <2> QED
    BY <2>1, <2>2, <2>3
<1>15. CASE DestroyHand
  <2>1. hand' \in [offer : Ids, over : BOOLEAN, whole : BOOLEAN]
    BY <1>15, NoDragIs DEF DestroyHand
  <2> QED
    BY <1>15, <2>1, Leaves DEF DragTypes
<1> QED
  BY <1>1, <1>2, <1>3, <1>4, <1>6, <1>7, <1>8, <1>10, <1>11, <1>12, <1>13, <1>14, <1>15, Leaves
     DEF Next, UserStep, DesktopStep, PeerStep, Timeout, HandlerStep, LoopStep, vars, dragVars

Entering == todo # <<>> /\ Head(todo) = EnterStep

\* The drag the window was told of is over, or the next is not announced yet.
Silent == Doing("reset") \/ Doing("begin") \/ Doing("destroy") \/ Entering

\* The window was told of the drag that is over it, or whose drop is about to be told.
Told ==
  /\ ~unpaired
  /\ Doing("tell drop") => (inside <=> hand.over)
  /\ Silent => ~inside
  /\ Silent \/ Doing("tell drop") \/ (inside <=> drag.over /\ drag.typed)

\* What was let go is held no more; the hand is full while a drop is told.
LetGo ==
  /\ Doing("tell drop") \/ Doing("destroy") \/ Doing("begin") =>
       drag.offer = None /\ ~drag.over /\ drag.pipe = <<>>
  /\ Doing("tell drop") \/ Doing("destroy") \/ hand = Nothing
  /\ drag.pipe # <<>> => drag.over /\ drag.typed

LEMMA NextHead ==
  ASSUME NEW h, todo' # <<>>, Head(todo') = h
  PROVE  /\ \A step : Doing(step)' <=> h[1] = step
         /\ Entering' <=> h = EnterStep
         /\ h[1] \in {"poll drag", "poll", "answer"} => ~Silent' /\ ~Doing("tell drop")'
<1>1. (\A step : Doing(step)' <=> h[1] = step) /\ (Entering' <=> h = EnterStep)
  BY DEF Doing, Entering
<1>2. CASE h[1] \in {"poll drag", "poll", "answer"}
  <2>1. h # EnterStep
    BY <1>2, StepNames
  <2>2. ~Entering' /\ ~Doing("reset")' /\ ~Doing("begin")' /\ ~Doing("destroy")'
        /\ ~Doing("tell drop")'
    BY <1>2, <2>1 DEF Doing, Entering
  <2> QED
    BY <1>1, <2>2 DEF Silent
<1>3. CASE h[1] \notin {"poll drag", "poll", "answer"}
  BY <1>1, <1>3
<1> QED
  BY <1>1, <1>2, <1>3

LEMMA NextNone ==
  ASSUME todo' = <<>>
  PROVE  /\ \A step : ~Doing(step)'
         /\ ~Entering' /\ ~Silent'
  BY DEF Doing, Entering, Silent

LEMMA NextAnswers ==
  ASSUME todo' \in Seq(Answers)
  PROVE  ~Silent' /\ ~Doing("tell drop")'
<1>1. CASE todo' = <<>>
  BY <1>1, NextNone
<1>2. CASE todo' # <<>>
  <2>1. PICK h \in Answers : h = Head(todo')
    BY <1>2
  <2>2. h[1] = "answer"
    BY DEF Answers
  <2> QED
    BY <1>2, <2>1, <2>2, NextHead
<1> QED
  BY <1>1, <1>2

\* A step that tells the window nothing.
LEMMA NothingTold ==
  ASSUME Told, inside \in BOOLEAN, UNCHANGED <<inside, unpaired>>,
         \/ ~Silent /\ ~Silent' /\ (drag.over /\ drag.typed <=> drag'.over /\ drag'.typed)
         \/ Silent /\ Silent'
         \/ Silent /\ ~(drag'.over /\ drag'.typed),
         ~Doing("tell drop"), ~Doing("tell drop")'
  PROVE  Told'
<1>1. ~unpaired' /\ (inside' <=> inside)
  BY DEF Told
<1>2. (Silent => ~inside) /\ (Silent \/ (inside <=> drag.over /\ drag.typed))
  BY DEF Told
<1> QED
  BY <1>1, <1>2 DEF Told

LEMMA SamePhase ==
  ASSUME UNCHANGED todo
  PROVE  (Silent' <=> Silent) /\ \A step : Doing(step)' <=> Doing(step)
  BY DEF Silent, Entering, Doing

LEMMA SameTold ==
  ASSUME Told, inside \in BOOLEAN, UNCHANGED <<inside, unpaired, hand, todo>>,
         drag'.over = drag.over, drag'.typed = drag.typed
  PROVE  Told'
<1>1. (Silent' <=> Silent) /\ (Doing("tell drop")' <=> Doing("tell drop"))
  BY SamePhase
<1>2. ~unpaired' /\ (inside' <=> inside) /\ (hand'.over <=> hand.over)
      /\ (drag'.over /\ drag'.typed <=> drag.over /\ drag.typed)
  BY DEF Told
<1> QED
  BY <1>1, <1>2 DEF Told

LEMMA ToldKept ==
  ASSUME Types, Told, LetGo, [Next]_vars
  PROVE  Told' /\ LetGo'
<1> DragTypes /\ Steps /\ inbox \in Seq(SomeEvent) /\ transfers \in Seq(SomeTransfer)
  BY DEF Types, TransferTypes
<1>1. ASSUME UNCHANGED <<drag, hand, inside, unpaired, todo>> PROVE Told' /\ LetGo'
  BY <1>1 DEF Told, LetGo, Silent, Entering, Doing
<1>2. ASSUME UNCHANGED <<drag, hand, inside, unpaired>>, ~Silent, ~Doing("tell drop"),
             ~Silent', ~Doing("tell drop")'
      PROVE  Told' /\ LetGo'
  <2>1. Told'
    BY <1>2 DEF Told
  <2>2. ~Doing("destroy") /\ ~Doing("begin") /\ ~Doing("destroy")' /\ ~Doing("begin")'
    BY <1>2 DEF Silent
  <2>3. LetGo'
    BY <1>2, <2>2 DEF LetGo
  <2> QED
    BY <2>1, <2>3
<1>3. CASE UserStep /\ CloseWindow
  <2>1. ~Doing("tell drop")
    <3>1. InUserCode
      BY <1>3 DEF UserStep
    <3>2. CASE Doing("tell drop")
      <4>1. todo = <<TellDropStep, PollStep(1)>>
        BY <3>2, DropSteps
      <4>2. PICK a, b : a = TellDropStep /\ b = PollStep(1)
        OBVIOUS
      <4>3. todo = <<a, b>> /\ a[1] = "tell drop"
        BY <4>1, <4>2, StepNames
      <4>4. 1 \in DOMAIN <<a, b>> /\ <<a, b>>[1] = a
        OBVIOUS
      <4> QED
        BY <3>1, <4>3, <4>4 DEF InUserCode
    <3> QED
      BY <3>2
  <2>2. (Silent' <=> Silent) /\ \A step : Doing(step)' <=> Doing(step)
    BY <1>3, SamePhase, Leaves
  <2>3. ~inside' /\ ~unpaired' /\ ~drag'.over /\ (drag' = NoDrag \/ drag' = drag)
    BY <1>3, NoDragIs, Leaves DEF CloseWindow, Told
  <2>4. Told'
    BY <2>1, <2>2, <2>3 DEF Told
  <2>5. LetGo'
    BY <1>3, <2>1, <2>2, <2>3, Leaves, NoDragIs DEF LetGo
  <2> QED
    BY <2>4, <2>5
<1>4. ASSUME NEW cause, PipeMoves(cause) PROVE Told' /\ LetGo'
  <2>1. drag'.over = drag.over /\ drag'.typed = drag.typed /\ drag'.offer = drag.offer
        /\ (drag'.pipe = drag.pipe \/ drag.pipe # <<>>)
    BY <1>4, DragFields DEF PipeMoves, dragVars
  <2>2. (Silent' <=> Silent) /\ \A step : Doing(step)' <=> Doing(step)
    BY <1>4, Leaves DEF Silent, Entering, Doing
  <2>3. Told'
    BY <1>4, <2>1, SameTold, Leaves DEF DragTypes
  <2>4. LetGo'
    BY <1>4, <2>1, <2>2, Leaves DEF LetGo
  <2> QED
    BY <2>3, <2>4
<1>5. ASSUME todo = <<>> PROVE ~Silent /\ \A step : ~Doing(step)
  BY <1>5 DEF Silent, Entering, Doing
<1>6. CASE HandleAction
  <2>1. drag'.over = drag.over /\ drag'.typed = drag.typed /\ drag'.offer = drag.offer
        /\ drag'.pipe = drag.pipe
    BY <1>6, DragFields DEF HandleAction
  <2>2. (Silent' <=> Silent) /\ \A step : Doing(step)' <=> Doing(step)
    BY <1>6, Leaves DEF Silent, Entering, Doing
  <2>3. Told'
    BY <1>6, <2>1, SameTold, Leaves DEF DragTypes
  <2>4. LetGo'
    BY <1>6, <2>1, <2>2, Leaves DEF LetGo
  <2> QED
    BY <2>3, <2>4
<1>7. ASSUME todo' \in {<<LeaveStep, ResetStep>>, <<MotionStep>>, <<PollDragStep, PollStep(1)>>,
                       <<>>}
             \/ \E b : todo' = <<LeaveStep, ResetStep, b, EnterStep>>
      PROVE  ~Silent' /\ ~Doing("tell drop")'
  <2>1. CASE todo' = <<>>
    BY <2>1, NextNone
  <2>2. CASE todo' # <<>>
    <3>1. PICK h \in {LeaveStep, MotionStep, PollDragStep} : h = Head(todo')
      BY <1>7, <2>2, Tuples
    <3>2. h # EnterStep /\ h[1] \in {"tell", "poll drag"}
      BY StepNames
    <3> QED
      BY <2>2, <3>1, <3>2 DEF Silent, Doing, Entering
  <2> QED
    BY <2>1, <2>2
<1>8. CASE HandleEnter
  <2>1. PICK b : b = <<"begin", Head(inbox)[2], Head(inbox)[3]>>
    OBVIOUS
  <2>2. todo' = <<LeaveStep, ResetStep>> \o <<b, EnterStep>> /\ todo = <<>>
    BY <1>8, <2>1, ResetIs DEF HandleEnter, EnterStep, Receive
  <2>3. todo' = <<LeaveStep, ResetStep, b, EnterStep>>
    BY <2>2, Concats
  <2> QED
    BY <1>2, <1>5, <1>7, <1>8, <2>2, <2>3, Leaves DEF dragVars
<1>9. CASE HandleMotion \/ HandleLeave
  <2>1. todo = <<>> /\ todo' \in {<<MotionStep>>, <<>>, <<LeaveStep, ResetStep>>}
    BY <1>9, ResetIs DEF HandleMotion, HandleLeave, Receive, MotionStep
  <2> QED
    BY <1>2, <1>5, <1>7, <1>9, <2>1, Leaves DEF dragVars
<1>10. ASSUME NEW piped, HandleDrop(piped) PROVE Told' /\ LetGo'
  <2>1. todo = <<>>
    BY <1>10 DEF HandleDrop, Receive
  <2>2. CASE drag.over /\ drag.typed /\ drag.copy /\ piped
    <3>1. /\ drag' = [drag EXCEPT !.dropped = TRUE, !.pipe = <<NewPipe>>]
          /\ todo' = <<>>
      BY <1>10, <2>1, <2>2 DEF HandleDrop
    <3>2. drag'.over /\ drag'.typed
      BY <2>2, <3>1, DragFields
    <3>3. Told'
      BY <1>5, <1>10, <2>1, <2>2, <3>1, <3>2, NextNone, NothingTold, Leaves DEF DragTypes
    <3>4. LetGo'
      BY <1>5, <1>10, <2>1, <2>2, <3>1, <3>2, NextNone, Leaves DEF LetGo
    <3> QED
      BY <3>3, <3>4
  <2>3. CASE ~(drag.over /\ drag.typed /\ drag.copy /\ piped)
    <3>1. todo' = <<LeaveStep, ResetStep>> /\ UNCHANGED drag
      BY <1>10, <2>3, ResetIs DEF HandleDrop
    <3> QED
      BY <1>2, <1>5, <1>7, <1>10, <2>1, <3>1, Leaves
  <2> QED
    BY <2>2, <2>3
<1>11. CASE Poll
  <2>1. todo = <<>> /\ todo' = <<PollDragStep, PollStep(1)>>
    BY <1>11 DEF Poll, PollDragStep, PollStep
  <2> QED
    BY <1>2, <1>5, <1>7, <1>11, <2>1, Leaves DEF dragVars
<1>12. CASE TellDrag
  <2>1. /\ Doing("tell") /\ todo' = Tail(todo)
        /\ IF drag.over /\ drag.typed THEN Tell(Head(todo)[2]) ELSE UNCHANGED <<inside, unpaired>>
    BY <1>12 DEF TellDrag
  <2>2. ~Doing("tell drop") /\ ~Doing("destroy") /\ ~Doing("begin") /\ ~Doing("reset")
    BY <2>1 DEF Doing
  <2>3. ASSUME Head(todo) = LeaveStep, todo' # <<>>, Head(todo') = ResetStep
        PROVE  Told' /\ LetGo'
    <3>1. Head(todo)[2] = "Leave" /\ ~Entering /\ ~Silent
      BY <2>2, <2>3, StepNames DEF Entering, Silent
    <3>2. /\ Silent' /\ ~Doing("tell drop")' /\ ~Doing("destroy")' /\ ~Doing("begin")'
      BY <2>3, NextHead, StepNames DEF Silent
    <3>3. (inside <=> drag.over /\ drag.typed) /\ ~unpaired
      BY <2>2, <3>1 DEF Told
    <3>4. ~inside' /\ ~unpaired'
      BY <2>1, <3>1, <3>3 DEF Tell
    <3>5. Told'
      BY <3>2, <3>4 DEF Told
    <3>6. LetGo'
      BY <1>12, <2>2, <3>2, Leaves DEF LetGo
    <3> QED
      BY <3>5, <3>6
  <2>4. ASSUME todo' = <<>>, Head(todo) \in {MotionStep, EnterStep} PROVE Told' /\ LetGo'
    <3>1. ~Silent' /\ \A step : ~Doing(step)'
      BY <2>4, NextNone
    <3>2. \/ Head(todo)[2] = "Motion" /\ ~Silent
          \/ Head(todo)[2] = "Enter" /\ Silent
      BY <2>1, <2>2, <2>4, StepNames DEF Entering, Silent, Doing
    <3>3. ~unpaired /\ (inside <=> ~Silent /\ drag.over /\ drag.typed)
      BY <2>2 DEF Told
    <3>4. ~unpaired' /\ (inside' <=> drag.over /\ drag.typed)
      BY <2>1, <3>2, <3>3 DEF Tell
    <3>5. Told'
      BY <1>12, <3>1, <3>4, Leaves DEF Told
    <3>6. LetGo'
      BY <1>12, <2>2, <3>1, Leaves DEF LetGo
    <3> QED
      BY <3>5, <3>6
  <2>5. ASSUME NEW b, NEW c, todo' \in {<<ResetStep>>, <<ResetStep, b, c>>}
        PROVE  todo' # <<>> /\ Head(todo') = ResetStep
    BY <2>5, Tuples
  <2>6. ASSUME NEW b, NEW c, todo \in {<<LeaveStep, ResetStep>>, <<LeaveStep, ResetStep, b, c>>}
        PROVE  Head(todo) = LeaveStep
    BY <2>6, Tuples
  <2>7. ASSUME todo \in {<<MotionStep>>, <<EnterStep>>}
        PROVE  Head(todo) \in {MotionStep, EnterStep}
    BY <2>7, Tuples
  <2>8. CASE Tail(todo) = <<>> /\ todo \in {<<MotionStep>>, <<EnterStep>>}
    BY <2>1, <2>4, <2>7, <2>8
  <2>9. CASE todo = <<LeaveStep, ResetStep>> /\ Tail(todo) = <<ResetStep>>
    BY <2>1, <2>3, <2>5, <2>6, <2>9
  <2>10. ASSUME NEW o, NEW typed,
                todo = <<LeaveStep, ResetStep, BeginStep(o, typed), EnterStep>>,
                Tail(todo) = <<ResetStep, BeginStep(o, typed), EnterStep>>
         PROVE  Told' /\ LetGo'
    <3>1. PICK b, c : b = BeginStep(o, typed) /\ c = EnterStep
      OBVIOUS
    <3>2. Head(todo) = LeaveStep
      BY <2>6, <2>10, <3>1
    <3>3. todo' # <<>> /\ Head(todo') = ResetStep
      BY <2>1, <2>5, <2>10, <3>1
    <3> QED
      BY <2>3, <3>2, <3>3
  <2> QED
    BY <2>1, <2>8, <2>9, <2>10, TellSteps
<1>13. CASE ResetDrag
  <2>1. Doing("reset") /\ todo' = Tail(todo) /\ drag' = NoDrag
    BY <1>13 DEF ResetDrag
  <2>2. Silent /\ ~Doing("tell drop") /\ ~Doing("destroy")
    BY <2>1 DEF Silent, Doing
  <2>3. todo' = <<>> \/ (todo' # <<>> /\ Head(todo')[1] = "begin")
    <3>1. ASSUME NEW o, NEW typed, todo' = <<BeginStep(o, typed), EnterStep>>
          PROVE  todo' # <<>> /\ Head(todo')[1] = "begin"
      BY <3>1, BeginNames, Tuples
    <3> QED
      BY <2>1, <3>1, ResetSteps
  <2>4. ~Doing("tell drop")' /\ ~Doing("destroy")'
    <3>1. CASE todo' = <<>>
      BY <3>1, NextNone
    <3>2. CASE todo' # <<>> /\ Head(todo')[1] = "begin"
      <4>1. PICK h : h = Head(todo') /\ h[1] = "begin"
        BY <3>2
      <4> QED
        BY <3>2, <4>1 DEF Doing
    <3> QED
      BY <2>3, <3>1, <3>2
  <2>5. Told'
    BY <1>13, <2>1, <2>2, <2>4, NoDragIs, NothingTold, Leaves DEF DragTypes
  <2>6. LetGo'
    BY <1>13, <2>1, <2>2, <2>4, NoDragIs, Leaves DEF LetGo
  <2> QED
    BY <2>5, <2>6
<1>14. CASE BeginDrag
  <2>1. Doing("begin") /\ todo' = <<EnterStep>>
    BY <1>14, BeginSteps DEF BeginDrag
  <2>2. Silent /\ ~Doing("tell drop") /\ ~Doing("destroy")
    BY <2>1 DEF Silent, Doing
  <2>3. todo' # <<>> /\ Head(todo') = EnterStep /\ EnterStep[1] = "tell"
    BY <2>1, StepNames, Tuples
  <2>4. /\ Silent' /\ ~Doing("tell drop")' /\ ~Doing("destroy")' /\ ~Doing("begin")'
    <3>1. PICK h : h = EnterStep
      OBVIOUS
    <3>2. todo' # <<>> /\ Head(todo') = h /\ h[1] = "tell"
      BY <2>3, <3>1
    <3> QED
      BY <3>1, <3>2 DEF Silent, Doing, Entering
  <2>5. drag'.pipe = <<>>
    BY <1>14 DEF BeginDrag, NoDrag
  <2>6. Told'
    BY <1>14, <2>2, <2>4, NothingTold, Leaves DEF DragTypes
  <2>7. LetGo'
    BY <1>14, <2>2, <2>4, <2>5, Leaves DEF LetGo
  <2> QED
    BY <2>6, <2>7
<1>15. ASSUME NEW decodes, PollDrag(decodes) PROVE Told' /\ LetGo'
  <2>1. Doing("poll drag") /\ todo = <<PollDragStep, PollStep(1)>> /\ Tail(todo) = <<PollStep(1)>>
    BY <1>15, DropSteps DEF PollDrag
  <2>2. ~Silent /\ ~Doing("tell drop") /\ ~Doing("destroy")
    <3>1. Head(todo) = PollDragStep
      BY <2>1, Tuples
    <3>2. PollDragStep # EnterStep
      BY StepNames
    <3> QED
      BY <2>1, <3>1, <3>2 DEF Silent, Doing, Entering
  <2>3. CASE drag.pipe # <<>> /\ Ends(drag.pipe[1])
    <3>1. /\ todo' = <<TellDropStep>> \o Tail(todo)
          /\ drag' = [NoDrag EXCEPT !.copy = drag.copy]
      BY <1>15, <2>3 DEF PollDrag, TellDropStep
    <3>9. hand' = [offer |-> drag.offer, over |-> drag.over,
                   whole |-> Succeeds(drag.pipe[1]) /\ decodes]
      BY <1>15, <2>3 DEF PollDrag
    <3>10. hand'.over = drag.over
      BY <3>9
    <3>2. todo' = <<TellDropStep, PollStep(1)>>
      BY <2>1, <3>1, Concats
    <3>3. todo' # <<>> /\ Head(todo') = TellDropStep /\ TellDropStep # EnterStep
      BY <3>2, StepNames, Tuples
    <3>4. Doing("tell drop")' /\ ~Silent'
      BY <3>3, StepNames, NextHead DEF Silent
    <3>5. drag'.offer = None /\ ~drag'.over /\ drag'.pipe = <<>>
      BY <3>1 DEF NoDrag
    <3>6. inside /\ drag.over
      BY <2>2, <2>3 DEF Told, LetGo
    <3>11. UNCHANGED <<inside, unpaired>> /\ ~unpaired
      BY <1>15, Leaves DEF Told
    <3>7. Told'
      BY <3>4, <3>6, <3>10, <3>11 DEF Told
    <3>8. LetGo'
      BY <3>4, <3>5 DEF LetGo
    <3> QED
      BY <3>7, <3>8
  <2>4. CASE ~(drag.pipe # <<>> /\ Ends(drag.pipe[1]))
    <3>1. todo' = <<PollStep(1)>> /\ UNCHANGED hand
      BY <1>15, <2>1, <2>4 DEF PollDrag
    <3>2. todo' # <<>> /\ Head(todo') = PollStep(1)
      BY <3>1, Tuples
    <3>3. ~Silent' /\ ~Doing("tell drop")'
      BY <3>2, StepNames, NextHead
    <3>4. drag'.over = drag.over /\ drag'.typed = drag.typed
          /\ (drag'.pipe # <<>> => drag.pipe # <<>>)
      BY <1>15, <2>4, DragFields DEF PollDrag
    <3>5. Told'
      BY <1>15, <2>2, <3>3, <3>4, NothingTold, Leaves DEF DragTypes
    <3>6. LetGo'
      BY <2>2, <3>1, <3>3, <3>4 DEF LetGo, Silent
    <3> QED
      BY <3>5, <3>6
  <2> QED
    BY <2>3, <2>4
<1>16. CASE TellDrop
  <2>1. Doing("tell drop") /\ Tail(todo) = <<PollStep(1)>> /\ ~Silent
    <3>1. Doing("tell drop")
      BY <1>16 DEF TellDrop
    <3>2. todo = <<TellDropStep, PollStep(1)>> /\ Tail(todo) = <<PollStep(1)>>
      BY <3>1, DropSteps
    <3>3. Head(todo) = TellDropStep /\ TellDropStep # EnterStep
      BY <3>2, Tuples, StepNames
    <3> QED
      BY <3>1, <3>2, <3>3 DEF Silent, Doing, Entering
  <2>2. todo' = <<DestroyStep>> \o Tail(todo)
    BY <1>16 DEF TellDrop, DestroyStep
  <2>3. todo' = <<DestroyStep, PollStep(1)>>
    BY <2>1, <2>2, Concats
  <2>4. todo' # <<>> /\ Head(todo') = DestroyStep
    BY <2>3, Tuples
  <2>5. Doing("destroy")' /\ Silent' /\ ~Doing("tell drop")'
    BY <2>4, StepNames, NextHead DEF Silent
  <2>6. ~inside' /\ ~unpaired'
    <3>1. (inside <=> hand.over) /\ ~unpaired
      BY <2>1 DEF Told
    <3>2. CASE hand.over
      BY <1>16, <3>1, <3>2 DEF TellDrop, Tell
    <3>3. CASE ~hand.over
      BY <1>16, <3>1, <3>3 DEF TellDrop
    <3> QED
      BY <3>2, <3>3
  <2>7. Told'
    BY <2>5, <2>6 DEF Told
  <2>8. LetGo'
    BY <1>16, <2>1, <2>5, Leaves DEF LetGo
  <2> QED
    BY <2>7, <2>8
<1>17. CASE DestroyHand
  <2>1. Doing("destroy") /\ todo' = <<PollStep(1)>> /\ hand' = Nothing
    BY <1>17, DropSteps DEF DestroyHand
  <2>2. Silent
    BY <2>1 DEF Silent
  <2>3. todo' # <<>> /\ Head(todo') = PollStep(1)
    BY <2>1, Tuples
  <2>4. ~Silent' /\ ~Doing("tell drop")'
    BY <2>3, StepNames, NextHead
  <2>5. Told'
    <3>1. ~drag.over /\ UNCHANGED <<drag, inside, unpaired>> /\ ~Doing("tell drop")
      BY <1>17, <2>1, Leaves DEF LetGo, Doing
    <3> QED
      BY <2>2, <2>4, <3>1, NothingTold DEF DragTypes
  <2>6. LetGo'
    BY <1>17, <2>1, <2>4, Leaves DEF LetGo, Silent
  <2> QED
    BY <2>5, <2>6
<1>18. ASSUME Doing("poll") \/ Doing("answer") PROVE ~Silent /\ ~Doing("tell drop")
  BY <1>18, StepNames DEF Silent, Entering, Doing
<1>19. CASE EraseTransfer \/ KeepTransfer
  <2>1. Doing("poll") /\ Polling'
    BY <1>19, PollingKept DEF EraseTransfer, KeepTransfer
  <2>2. ~Silent' /\ ~Doing("tell drop")'
    <3>1. PICK i \in Nat \ {0} : todo' # <<>> /\ Head(todo') = PollStep(i)
      BY <2>1 DEF Polling
    <3>2. PICK p : p = PollStep(i) /\ p[1] = "poll"
      BY StepNames
    <3> QED
      BY <3>1, <3>2, NextHead
  <2> QED
    BY <1>2, <1>18, <1>19, <2>1, <2>2, Leaves DEF dragVars
<1>20. CASE PollEnd \/ Answer
  <2>1. (Doing("poll") \/ Doing("answer")) /\ todo' \in Seq(Answers)
    BY <1>20, PollingKept DEF PollEnd, Answer
  <2> QED
    BY <1>2, <1>18, <1>20, <2>1, NextAnswers, Leaves DEF dragVars
<1> QED
  BY <1>1, <1>3, <1>4, <1>6, <1>8, <1>9, <1>10, <1>11, <1>12, <1>13, <1>14, <1>15, <1>16, <1>17,
     <1>19, <1>20, Leaves
     DEF Next, UserStep, DesktopStep, PeerStep, Timeout, HandlerStep, LoopStep, vars, dragVars

(***************************************************************************)
(* The offers.                                                              *)
(***************************************************************************)
\* The offers that exist are those some part of the client holds.
Owned == offers = HeldOffers \ {None}

\* The offers on their way are newer than those that are held, and come in their order.
Coming ==
  /\ \A i, j \in DOMAIN inbox :
       j < i /\ Brings(inbox[i]) # None => Brings(inbox[j]) < Brings(inbox[i])
  /\ \A i \in DOMAIN inbox : Brings(inbox[i]) <= events
  /\ \A i \in DOMAIN inbox, o \in HeldOffers : Brings(inbox[i]) # None => o < Brings(inbox[i])
  /\ \A o \in HeldOffers : o <= events

\* No offer is held twice.
Apart ==
  /\ \A kind, other \in Kinds :
       selection[kind].offer # None /\ selection[kind].offer = selection[other].offer
         => kind = other
  /\ \A kind \in Kinds : selection[kind].offer # None =>
       selection[kind].offer \notin {drag.offer, hand.offer} \cup Begun
  /\ drag.offer # None => drag.offer \notin {hand.offer} \cup Begun

BegunIn(steps) == {step[2] : step \in {s \in ToSet(steps) : s[1] = "begin"}}

LEMMA BegunIs ==
  ASSUME NEW steps
  PROVE  /\ steps \in Seq(Answers) => BegunIn(steps) = {}
         /\ \A i : \A s \in Seq(Answers) : steps = <<PollStep(i)>> \o s => BegunIn(steps) = {}
         /\ steps \in LoopSteps => BegunIn(steps) = {}
         /\ \A o, typed : steps \in EnterSteps(BeginStep(o, typed)) => BegunIn(steps) = {o}
<1>1. ASSUME NEW q, \A s \in ToSet(q) : s[1] # "begin" PROVE BegunIn(q) = {}
  BY <1>1 DEF BegunIn
<1>2. ASSUME NEW s \in Seq(Answers), NEW x \in ToSet(s) PROVE x[1] = "answer"
  <2>1. x \in Answers
    BY DEF ToSet
  <2> QED
    BY <2>1 DEF Answers
<1>3. ASSUME steps \in Seq(Answers) PROVE BegunIn(steps) = {}
  BY <1>1, <1>2, <1>3
<1>4. ASSUME NEW i, NEW s \in Seq(Answers), steps = <<PollStep(i)>> \o s
      PROVE  BegunIn(steps) = {}
  <2>1. PICK p : p = PollStep(i) /\ p[1] = "poll"
    BY StepNames
  <2>2. steps = <<p>> \o s /\ s \in Seq(Answers \cup {p}) /\ <<p>> \in Seq(Answers \cup {p})
    BY <1>4, <2>1
  <2>3. \A x \in ToSet(steps) : x = p \/ x \in ToSet(s)
    BY <2>2, ConcatProperties DEF ToSet
  <2>4. \A x \in ToSet(steps) : x[1] # "begin"
    BY <1>2, <2>1, <2>3
  <2> QED
    BY <1>1, <2>4
<1>5. ASSUME steps \in LoopSteps PROVE BegunIn(steps) = {}
  <2>1. PICK a, b, c, d, e, f, g, h :
          /\ a = LeaveStep /\ b = ResetStep /\ c = MotionStep /\ d = EnterStep
          /\ e = PollDragStep /\ f = PollStep(1) /\ g = TellDropStep /\ h = DestroyStep
    OBVIOUS
  <2>2. \A x \in {a, b, c, d, e, f, g, h} : x[1] # "begin"
    BY <2>1, StepNames
  <2>3. steps \in {<<a, b>>, <<b>>, <<c>>, <<d>>, <<e, f>>, <<g, f>>, <<h, f>>}
    BY <1>5, <2>1 DEF LoopSteps
  <2>4. /\ ToSet(<<a, b>>) = {a, b} /\ ToSet(<<b>>) = {b} /\ ToSet(<<c>>) = {c}
        /\ ToSet(<<d>>) = {d} /\ ToSet(<<e, f>>) = {e, f} /\ ToSet(<<g, f>>) = {g, f}
        /\ ToSet(<<h, f>>) = {h, f}
    BY Tuples
  <2>5. ToSet(steps) \subseteq {a, b, c, d, e, f, g, h}
    BY <2>3, <2>4
  <2> QED
    BY <1>1, <2>2, <2>5
<1>6. ASSUME NEW o, NEW typed, steps \in EnterSteps(BeginStep(o, typed))
      PROVE  BegunIn(steps) = {o}
  <2>1. PICK a, b, c, d :
          /\ a = LeaveStep /\ b = ResetStep /\ d = EnterStep
          /\ c = BeginStep(o, typed) /\ c[1] = "begin" /\ c[2] = o
    BY BeginNames
  <2>2. \A x \in {a, b, d} : x[1] # "begin"
    BY <2>1, StepNames
  <2>3. steps \in {<<a, b, c, d>>, <<b, c, d>>, <<c, d>>}
    BY <1>6, <2>1 DEF EnterSteps
  <2>4. /\ ToSet(<<a, b, c, d>>) = {a, b, c, d} /\ ToSet(<<b, c, d>>) = {b, c, d}
        /\ ToSet(<<c, d>>) = {c, d}
    <3>1. ToSet(<<a, b, c, d>>) = {a, b, c, d}
      BY DEF ToSet
    <3>2. ToSet(<<b, c, d>>) = {b, c, d}
      BY DEF ToSet
    <3>3. ToSet(<<c, d>>) = {c, d}
      BY DEF ToSet
    <3> QED
      BY <3>1, <3>2, <3>3
  <2>5. {s \in ToSet(steps) : s[1] = "begin"} = {c}
    BY <2>1, <2>2, <2>3, <2>4
  <2> QED
    BY <2>1, <2>5 DEF BegunIn
<1> QED
  BY <1>3, <1>4, <1>5, <1>6

\* The offer of the drag that is about to be noted, before and after a step.
LEMMA BegunSteps ==
  /\ Begun = BegunIn(todo) /\ Begun' = BegunIn(todo')
  /\ todo \in Seq(Answers) \/ todo = <<>> \/ Polling \/ todo \in LoopSteps => Begun = {}
  /\ todo' \in Seq(Answers) \/ todo' = <<>> \/ Polling' \/ todo' \in LoopSteps => Begun' = {}
  /\ \A o, typed : todo \in EnterSteps(BeginStep(o, typed)) => Begun = {o}
  /\ \A o, typed : todo' \in EnterSteps(BeginStep(o, typed)) => Begun' = {o}
<1>1. Begun = BegunIn(todo) /\ Begun' = BegunIn(todo')
  BY DEF Begun, BegunIn
<1>2. <<>> \in Seq(Answers)
  OBVIOUS
<1>3. ASSUME Polling PROVE BegunIn(todo) = {}
  <2>1. PICK i \in Nat \ {0}, s \in Seq(Answers) : todo = <<PollStep(i)>> \o s
    BY <1>3 DEF Polling
  <2> QED
    BY <2>1, BegunIs
<1>4. ASSUME Polling' PROVE BegunIn(todo') = {}
  <2>1. PICK i \in Nat \ {0}, s \in Seq(Answers) : todo' = <<PollStep(i)>> \o s
    BY <1>4 DEF Polling
  <2> QED
    BY <2>1, BegunIs
<1> QED
  BY <1>1, <1>2, <1>3, <1>4, BegunIs

LEMMA BegunKept ==
  ASSUME Types, [Next]_vars
  PROVE  /\ UNCHANGED todo => Begun' = Begun
         /\ HandleEnter => Begun = {} /\ Begun' = {Head(inbox)[2]}
         /\ BeginDrag => Begun = {Head(todo)[2]} /\ Begun' = {}
         /\ \A piped : HandleMotion \/ HandleLeave \/ HandleDrop(piped) \/ Poll => Begun' = Begun
         /\ TellDrag \/ ResetDrag => Begun' = Begun
         /\ \A decodes : PollDrag(decodes) \/ TellDrop \/ DestroyHand => Begun = {} /\ Begun' = {}
         /\ EraseTransfer \/ KeepTransfer \/ PollEnd \/ Answer => Begun' = Begun
<1>1. ASSUME UNCHANGED todo PROVE Begun' = Begun
  BY <1>1 DEF Begun
<1>2. ASSUME HandleEnter PROVE Begun = {} /\ Begun' = {Head(inbox)[2]}
  <2>1. PICK o, typed : o = Head(inbox)[2] /\ typed = Head(inbox)[3]
    OBVIOUS
  <2>2. PICK b : b = BeginStep(o, typed)
    OBVIOUS
  <2>3. todo' = <<LeaveStep, ResetStep>> \o <<b, EnterStep>> /\ todo = <<>>
    BY <1>2, <2>1, <2>2, ResetIs DEF HandleEnter, Receive, BeginStep, EnterStep
  <2>4. todo' = <<LeaveStep, ResetStep, b, EnterStep>>
    BY <2>3, Concats
  <2>5. todo' \in EnterSteps(BeginStep(o, typed))
    BY <2>2, <2>4 DEF EnterSteps
  <2> QED
    BY <2>1, <2>3, <2>5, BegunSteps
<1>3. ASSUME BeginDrag PROVE Begun = {Head(todo)[2]} /\ Begun' = {}
  <2>1. PICK o \in Ids, typed \in BOOLEAN : todo = <<BeginStep(o, typed), EnterStep>>
                                            /\ Tail(todo) = <<EnterStep>>
    BY <1>3, BeginSteps DEF BeginDrag, Types
  <2>2. PICK b : b = BeginStep(o, typed) /\ b[2] = o
    BY BeginNames
  <2>3. Head(todo)[2] = o
    BY <2>1, <2>2, Tuples
  <2>4. todo \in EnterSteps(BeginStep(o, typed))
    BY <2>1 DEF EnterSteps
  <2>5. todo' \in LoopSteps
    BY <1>3, <2>1 DEF BeginDrag, LoopSteps
  <2> QED
    BY <2>3, <2>4, <2>5, BegunSteps
<1>4. ASSUME NEW piped, HandleMotion \/ HandleLeave \/ HandleDrop(piped) \/ Poll
      PROVE  Begun' = Begun
  <2>1. todo = <<>>
    BY <1>4 DEF HandleMotion, HandleLeave, HandleDrop, Poll, Receive
  <2>2. todo' \in {<<MotionStep>>, <<>>, <<LeaveStep, ResetStep>>, <<PollDragStep, PollStep(1)>>}
    <3>1. CASE HandleMotion \/ HandleLeave \/ HandleDrop(piped)
      BY <2>1, <3>1, ResetIs DEF HandleMotion, HandleLeave, HandleDrop, MotionStep
    <3>2. CASE Poll
      BY <3>2 DEF Poll, PollDragStep, PollStep
    <3> QED
      BY <1>4, <3>1, <3>2
  <2>3. todo' = <<>> \/ todo' \in LoopSteps
    BY <2>2 DEF LoopSteps
  <2> QED
    BY <2>1, <2>3, BegunSteps
<1>5. ASSUME TellDrag \/ ResetDrag PROVE Begun' = Begun
  <2>1. (Doing("tell") \/ Doing("reset")) /\ todo' = Tail(todo)
    BY <1>5 DEF TellDrag, ResetDrag
  <2>2. CASE \E o \in Ids, typed \in BOOLEAN :
               /\ todo \in EnterSteps(BeginStep(o, typed))
               /\ Tail(todo) \in EnterSteps(BeginStep(o, typed))
    <3>1. PICK o \in Ids, typed \in BOOLEAN :
            /\ todo \in EnterSteps(BeginStep(o, typed))
            /\ Tail(todo) \in EnterSteps(BeginStep(o, typed))
      BY <2>2
    <3> QED
      BY <2>1, <3>1, BegunSteps
  <2>3. CASE todo \in LoopSteps /\ (Tail(todo) = <<>> \/ Tail(todo) \in LoopSteps)
    BY <2>1, <2>3, BegunSteps
  <2>4. CASE Doing("tell")
    <3>1. ASSUME NEW o \in Ids, NEW typed \in BOOLEAN,
                 todo = <<LeaveStep, ResetStep, BeginStep(o, typed), EnterStep>>,
                 Tail(todo) = <<ResetStep, BeginStep(o, typed), EnterStep>>
          PROVE  /\ todo \in EnterSteps(BeginStep(o, typed))
                 /\ Tail(todo) \in EnterSteps(BeginStep(o, typed))
      BY <3>1 DEF EnterSteps
    <3>2. ASSUME \/ todo = <<LeaveStep, ResetStep>> /\ Tail(todo) = <<ResetStep>>
                 \/ todo \in {<<MotionStep>>, <<EnterStep>>} /\ Tail(todo) = <<>>
          PROVE  todo \in LoopSteps /\ (Tail(todo) = <<>> \/ Tail(todo) \in LoopSteps)
      BY <3>2 DEF LoopSteps
    <3> QED
      BY <2>2, <2>3, <2>4, <3>1, <3>2, TellSteps DEF Types
  <2>5. CASE Doing("reset")
    <3>1. ASSUME NEW o \in Ids, NEW typed \in BOOLEAN,
                 todo = <<ResetStep, BeginStep(o, typed), EnterStep>>,
                 Tail(todo) = <<BeginStep(o, typed), EnterStep>>
          PROVE  /\ todo \in EnterSteps(BeginStep(o, typed))
                 /\ Tail(todo) \in EnterSteps(BeginStep(o, typed))
      BY <3>1 DEF EnterSteps
    <3>2. ASSUME todo = <<ResetStep>> PROVE todo \in LoopSteps
      BY <3>2 DEF LoopSteps
    <3> QED
      BY <2>2, <2>3, <2>5, <3>1, <3>2, ResetSteps DEF Types
  <2> QED
    BY <2>1, <2>4, <2>5
<1>6. ASSUME NEW decodes, PollDrag(decodes) \/ TellDrop \/ DestroyHand
      PROVE  Begun = {} /\ Begun' = {}
  <2>1. /\ Doing("poll drag") \/ Doing("tell drop") \/ Doing("destroy")
        /\ todo' \in {Tail(todo), <<TellDropStep>> \o Tail(todo), <<DestroyStep>> \o Tail(todo)}
    BY <1>6 DEF PollDrag, TellDrop, DestroyHand, TellDropStep, DestroyStep
  <2>2. todo \in {<<PollDragStep, PollStep(1)>>, <<TellDropStep, PollStep(1)>>,
                  <<DestroyStep, PollStep(1)>>} /\ Tail(todo) = <<PollStep(1)>>
    BY <2>1, DropSteps DEF Types
  <2>3. todo \in LoopSteps
    BY <2>2 DEF LoopSteps
  <2>4. todo' \in {<<PollStep(1)>>, <<TellDropStep, PollStep(1)>>, <<DestroyStep, PollStep(1)>>}
    BY <2>1, <2>2, Concats
  <2>5. CASE todo' = <<PollStep(1)>>
    <3>1. <<>> \in Seq(Answers) /\ \A p : <<p>> = <<p>> \o <<>>
      OBVIOUS
    <3>2. BegunIn(todo') = {}
      BY <2>5, <3>1, BegunIs
    <3> QED
      BY <2>3, <3>2, BegunSteps
  <2>6. CASE todo' \in LoopSteps
    BY <2>3, <2>6, BegunSteps
  <2> QED
    BY <2>4, <2>5, <2>6 DEF LoopSteps
<1>7. ASSUME EraseTransfer \/ KeepTransfer \/ PollEnd \/ Answer PROVE Begun' = Begun
  BY <1>7, PollingKept, BegunSteps DEF Types, TransferTypes
<1> QED
  BY <1>1, <1>2, <1>3, <1>4, <1>5, <1>6, <1>7

\* How the offers that are held change.
OtherSlots == UNCHANGED <<drag.offer, hand.offer, Begun>>

SameSelected == \A kind \in Kinds : selection'[kind].offer = selection[kind].offer

Keeps == SameSelected /\ OtherSlots /\ UNCHANGED offers

Takes == inbox # <<>> /\ inbox' = Tail(inbox) /\ UNCHANGED events

Selects(kind, o) ==
  /\ Takes /\ Brings(Head(inbox)) = o
  /\ \A other \in Kinds :
       selection'[other].offer = IF other = kind THEN o ELSE selection[other].offer
  /\ OtherSlots
  /\ offers' = (offers \ {selection[kind].offer}) \cup ({o} \ {None})

Enters(o) ==
  /\ Takes /\ Brings(Head(inbox)) = o /\ o # None
  /\ SameSelected /\ UNCHANGED <<drag.offer, hand.offer>>
  /\ Begun = {} /\ Begun' = {o}
  /\ offers' = offers \cup {o}

Begins ==
  /\ SameSelected /\ UNCHANGED <<hand.offer, offers>>
  /\ drag.offer = None /\ hand.offer = None /\ Begun = {drag'.offer} /\ Begun' = {}

Resets ==
  /\ SameSelected /\ UNCHANGED <<hand.offer, Begun>>
  /\ drag'.offer = None /\ offers' = offers \ {drag.offer}

Detaches ==
  /\ SameSelected /\ UNCHANGED <<Begun, offers>>
  /\ hand.offer = None /\ hand'.offer = drag.offer /\ drag'.offer = None

Destroys ==
  /\ SameSelected /\ Begun = {} /\ Begun' = {}
  /\ drag.offer = None /\ drag'.offer = None
  /\ hand'.offer = None /\ offers' = offers \ {hand.offer}

LEMMA OfferMoves ==
  ASSUME Types, LetGo, [Next]_vars
  PROVE  \/ Keeps \/ Begins \/ Resets \/ Detaches \/ Destroys
         \/ \E kind \in Kinds, o \in Ids : Selects(kind, o)
         \/ \E o \in Ids : Enters(o)
<1> /\ inbox \in Seq(SomeEvent) /\ selection \in [Kinds -> SomeSelection] /\ DragTypes /\ Steps
  BY DEF Types, SelectionTypes
<1>1. ASSUME UNCHANGED <<selection, drag, hand, offers, todo>> PROVE Keeps
  BY <1>1, BegunKept DEF Keeps, SameSelected, OtherSlots
<1>2. ASSUME SameSelected, UNCHANGED <<drag, hand, offers, todo>> PROVE Keeps
  BY <1>2, BegunKept DEF Keeps, OtherSlots
<1>3. CASE CloseWindow
  <2>1. SameSelected /\ UNCHANGED <<hand, todo>>
    BY <1>3, Leaves DEF SameSelected
  <2>2. Begun' = Begun
    BY <2>1, BegunKept
  <2>3. CASE drag.over
    <3>1. drag'.offer = None /\ offers' = offers \ {drag.offer}
      BY <1>3, <2>3, NoDragIs DEF CloseWindow
    <3> QED
      BY <2>1, <2>2, <3>1 DEF Resets
  <2>4. CASE ~drag.over
    <3>1. UNCHANGED <<drag, offers>>
      BY <1>3, <2>4 DEF CloseWindow
    <3> QED
      BY <1>2, <2>1, <3>1
  <2> QED
    BY <2>3, <2>4
<1>4. ASSUME NEW kind \in Kinds, NEW empty, NEW accepted, NEW announced,
             SetText(kind, empty, accepted, announced)
      PROVE  Keeps
  <2>1. SameSelected
    BY <1>4 DEF SetText, SameSelected, SomeSelection
  <2> QED
    BY <1>2, <1>4, <2>1, Leaves DEF dragVars
<1>5. ASSUME NEW cause, PipeMoves(cause) PROVE Keeps
  <2>1. UNCHANGED drag.offer
    BY <1>5, DragFields DEF PipeMoves, dragVars
  <2> QED
    BY <1>5, <2>1, BegunKept, Leaves DEF Keeps, SameSelected, OtherSlots
<1>6. CASE HandleSelection
  <2>1. Receive("selection")
    BY <1>6 DEF HandleSelection
  <2>8. PICK e : e = Head(inbox)
    OBVIOUS
  <2>2. PICK kind \in Kinds, o \in Ids : e = Head(inbox) /\ kind = e[2] /\ o = e[3]
    BY <2>1, <2>8, HeadEvent
  <2>3. Takes /\ Brings(Head(inbox)) = o
    BY <1>6, <2>1, <2>2, Leaves DEF Takes, Receive, Brings
  <2>4. selection' = [selection EXCEPT ![kind].offer = o, ![kind].readable = e[4],
                                       ![kind].generation = @ + 1]
    BY <1>6, <2>2 DEF HandleSelection
  <2>5. \A other \in Kinds :
          selection'[other].offer = IF other = kind THEN o ELSE selection[other].offer
    BY <2>4 DEF SomeSelection
  <2>6. OtherSlots
    BY <1>6, BegunKept, Leaves DEF OtherSlots, dragVars
  <2>7. offers' = (offers \ {selection[kind].offer}) \cup ({o} \ {None})
    BY <1>6, <2>2 DEF HandleSelection
  <2> QED
    BY <2>3, <2>5, <2>6, <2>7 DEF Selects
<1>7. CASE HandleCancelled
  <2>1. SameSelected
    BY <1>7 DEF HandleCancelled, SameSelected, SomeSelection
  <2> QED
    BY <1>2, <1>7, <2>1, Leaves DEF dragVars
<1>8. CASE HandleEnter
  <2>1. Receive("enter")
    BY <1>8 DEF HandleEnter
  <2>7. PICK e : e = Head(inbox)
    OBVIOUS
  <2>2. PICK o \in Ids : e = Head(inbox) /\ o = e[2] /\ o # None
    BY <2>1, <2>7, HeadEvent
  <2>3. Takes /\ Brings(Head(inbox)) = o
    BY <1>8, <2>1, <2>2, Leaves DEF Takes, Receive, Brings
  <2>4. Begun = {} /\ Begun' = {o}
    BY <1>8, <2>2, BegunKept
  <2>5. offers' = offers \cup {o}
    BY <1>8, <2>2 DEF HandleEnter
  <2>6. SameSelected /\ UNCHANGED <<drag.offer, hand.offer>>
    BY <1>8, Leaves DEF SameSelected, dragVars
  <2> QED
    BY <2>2, <2>3, <2>4, <2>5, <2>6 DEF Enters
<1>9. CASE HandleAction
  <2>1. UNCHANGED drag.offer
    BY <1>9, DragFields DEF HandleAction
  <2> QED
    BY <1>9, <2>1, BegunKept, Leaves DEF Keeps, SameSelected, OtherSlots
<1>10. ASSUME NEW piped, HandleMotion \/ HandleLeave \/ HandleDrop(piped) \/ Poll PROVE Keeps
  <2>1. UNCHANGED <<drag.offer, hand.offer, selection, offers>>
    BY <1>10, DragFields, Leaves DEF HandleDrop, dragVars
  <2> QED
    BY <1>10, <2>1, BegunKept DEF Keeps, SameSelected, OtherSlots
<1>11. CASE TellDrag
  BY <1>11, BegunKept, Leaves DEF Keeps, SameSelected, OtherSlots
<1>12. CASE ResetDrag
  <2>1. drag'.offer = None /\ offers' = offers \ {drag.offer}
    BY <1>12, NoDragIs DEF ResetDrag
  <2> QED
    BY <1>12, <2>1, BegunKept, Leaves DEF Resets, SameSelected
<1>13. CASE BeginDrag
  <2>1. drag'.offer = Head(todo)[2] /\ drag.offer = None
    BY <1>13 DEF BeginDrag, NoDrag, LetGo
  <2>2. ~Doing("tell drop") /\ ~Doing("destroy")
    BY <1>13 DEF BeginDrag, Doing
  <2>3. hand.offer = None
    <3>1. hand = Nothing
      BY <2>2 DEF LetGo
    <3> QED
      BY <3>1 DEF Nothing
  <2> QED
    BY <1>13, <2>1, <2>3, BegunKept, Leaves DEF Begins, SameSelected
<1>14. ASSUME NEW decodes, PollDrag(decodes) PROVE Keeps \/ Detaches
  <2>1. Begun' = Begun /\ SameSelected /\ UNCHANGED offers
    BY <1>14, BegunKept, Leaves DEF SameSelected
  <2>2. CASE drag.pipe # <<>> /\ Ends(drag.pipe[1])
    <3>1. hand'.offer = drag.offer /\ drag'.offer = None
      <4>1. /\ hand' = [offer |-> drag.offer, over |-> drag.over,
                        whole |-> Succeeds(drag.pipe[1]) /\ decodes]
            /\ drag' = [NoDrag EXCEPT !.copy = drag.copy]
        BY <1>14, <2>2 DEF PollDrag
      <4> QED
        BY <4>1 DEF NoDrag
    <3>2. ~Doing("tell drop") /\ ~Doing("destroy")
      BY <1>14 DEF PollDrag, Doing
    <3>4. hand = Nothing
      BY <3>2 DEF LetGo
    <3>3. hand.offer = None
      BY <3>4 DEF Nothing
    <3> QED
      BY <2>1, <3>1, <3>3 DEF Detaches
  <2>3. CASE ~(drag.pipe # <<>> /\ Ends(drag.pipe[1]))
    <3>1. UNCHANGED <<drag.offer, hand.offer>>
      BY <1>14, <2>3, DragFields DEF PollDrag
    <3> QED
      BY <2>1, <3>1 DEF Keeps, OtherSlots
  <2> QED
    BY <2>2, <2>3
<1>15. CASE TellDrop
  BY <1>15, BegunKept, Leaves DEF Keeps, SameSelected, OtherSlots
<1>16. CASE DestroyHand
  <2>1. hand'.offer = None /\ offers' = offers \ {hand.offer} /\ drag.offer = None
    BY <1>16 DEF DestroyHand, Nothing, LetGo
  <2> QED
    BY <1>16, <2>1, BegunKept, Leaves DEF Destroys, SameSelected
<1>17. CASE EraseTransfer \/ KeepTransfer \/ PollEnd \/ Answer
  BY <1>17, BegunKept, Leaves DEF Keeps, SameSelected, OtherSlots, dragVars
<1> QED
  BY <1>1, <1>3, <1>4, <1>5, <1>6, <1>7, <1>8, <1>9, <1>10, <1>11, <1>12, <1>13, <1>14, <1>15,
     <1>16, <1>17, Leaves
     DEF Next, UserStep, DesktopStep, PeerStep, Timeout, HandlerStep, LoopStep, vars, dragVars

LEMMA HeldIds ==
  ASSUME Types
  PROVE  /\ HeldOffers \subseteq Ids /\ Begun \subseteq Ids
         /\ \A i \in DOMAIN inbox : Brings(inbox[i]) \in Ids
         /\ events \in Nat /\ None = 0 /\ \A o \in Ids : o \in Nat
<1>1. Begun \subseteq Ids
  BY BegunSteps DEF Types, Steps
<1>2. /\ \A kind \in Kinds : selection[kind].offer \in Ids
      /\ drag.offer \in Ids /\ hand.offer \in Ids
  BY DEF Types, SelectionTypes, SomeSelection, DragTypes, SomeDrag
<1>3. None \in Ids /\ Offers \subseteq Ids /\ \A o \in Ids : o \in Nat
  BY TransferAssumption DEF None, Ids, Offers
<1>4. ASSUME NEW i \in DOMAIN inbox PROVE Brings(inbox[i]) \in Ids
  <2>1. PICK e \in SomeEvent : e = inbox[i]
    BY DEF Types
  <2>2. /\ e[1] = "selection" => e \in {"selection"} \X Kinds \X Ids \X BOOLEAN
        /\ e[1] = "enter" => e \in {"enter", "action"} \X Offers \X BOOLEAN
    BY DEF SomeEvent
  <2>3. (e[1] = "selection" => e[3] \in Ids) /\ (e[1] = "enter" => e[2] \in Ids)
    BY <1>3, <2>2
  <2> QED
    BY <1>3, <2>1, <2>3 DEF Brings
<1> QED
  BY <1>1, <1>2, <1>3, <1>4 DEF HeldOffers, Types, None

\* The offers that are held after a step, and the one that may have come.
LEMMA HeldAfter ==
  ASSUME Types, LetGo, [Next]_vars
  PROVE  \/ HeldOffers' \subseteq HeldOffers \cup {None}
         \/ /\ Takes
            /\ HeldOffers' \subseteq HeldOffers \cup {None, Brings(Head(inbox))}
<1>1. ASSUME Keeps \/ Begins \/ Resets \/ Detaches \/ Destroys
      PROVE  HeldOffers' \subseteq HeldOffers \cup {None}
  BY <1>1 DEF Keeps, Begins, Resets, Detaches, Destroys, SameSelected, OtherSlots, HeldOffers
<1>2. ASSUME NEW kind \in Kinds, NEW o \in Ids, Selects(kind, o)
      PROVE  Takes /\ HeldOffers' \subseteq HeldOffers \cup {None, Brings(Head(inbox))}
  BY <1>2 DEF Selects, OtherSlots, HeldOffers
<1>3. ASSUME NEW o \in Ids, Enters(o)
      PROVE  Takes /\ HeldOffers' \subseteq HeldOffers \cup {None, Brings(Head(inbox))}
  BY <1>3 DEF Enters, SameSelected, HeldOffers
<1> QED
  BY <1>1, <1>2, <1>3, OfferMoves

LEMMA ComingKept ==
  ASSUME Types, LetGo, Coming, [Next]_vars
  PROVE  Coming'
<1>1. /\ HeldOffers \subseteq Nat /\ events \in Nat /\ None = 0
      /\ \A i \in DOMAIN inbox : Brings(inbox[i]) \in Nat
  BY HeldIds
<1>2. events' \in Nat /\ events <= events'
  BY <1>1, EventsKept, TransferAssumption DEF Types, Ids
<1>3. inbox \in Seq(SomeEvent)
  BY DEF Types
<1>4. CASE UNCHANGED inbox /\ HeldOffers' \subseteq HeldOffers \cup {None}
  <2>1. \A o \in HeldOffers' : o \in Nat /\ (o \in HeldOffers \/ o = 0)
    BY <1>1, <1>4
  <2>2. \A i \in DOMAIN inbox : Brings(inbox'[i]) = Brings(inbox[i])
    BY <1>4
  <2>3. \A o \in HeldOffers' : o <= events'
    BY <1>1, <1>2, <2>1 DEF Coming
  <2>4. \A i \in DOMAIN inbox', o \in HeldOffers' :
          Brings(inbox'[i]) # None => o < Brings(inbox'[i])
    BY <1>1, <1>4, <2>1 DEF Coming
  <2>5. \A i \in DOMAIN inbox' : Brings(inbox'[i]) <= events'
    BY <1>1, <1>2, <1>4 DEF Coming
  <2> QED
    BY <1>4, <2>3, <2>4, <2>5 DEF Coming
<1>5. ASSUME Event, NEW t, Arriving(t), inbox' = inbox \o t,
             HeldOffers' \subseteq HeldOffers \cup {None}
      PROVE  Coming'
  <2>1. events' = events + 1 /\ Fresh = events + 1
    BY <1>5 DEF Event, Fresh
  <2>2. t \in Seq(SomeEvent) /\ Len(inbox) \in Nat /\ Len(t) \in Nat
    BY <1>3, <1>5 DEF Arriving
  <2>3. PICK n \in Nat, m \in Nat : n = Len(inbox) /\ m = Len(t)
    BY <2>2
  <2>4. /\ DOMAIN inbox' = 1..(n + m) /\ DOMAIN inbox = 1..n /\ DOMAIN t = 1..m
        /\ \A i \in 1..(n + m) : inbox'[i] = IF i <= n THEN inbox[i] ELSE t[i - n]
    <3>1. /\ inbox' \in Seq(SomeEvent) /\ Len(inbox') = n + m
          /\ \A i \in 1..(n + m) : inbox'[i] = IF i <= n THEN inbox[i] ELSE t[i - n]
      BY <1>3, <1>5, <2>2, <2>3, ConcatProperties
    <3> QED
      BY <1>3, <2>2, <2>3, <3>1
  <2>5. ASSUME NEW i \in 1..(n + m), Brings(inbox'[i]) # None
        PROVE  \/ i <= n /\ inbox'[i] = inbox[i]
               \/ ~(i <= n) /\ Brings(inbox'[i]) = events + 1
    <3>1. CASE i <= n
      BY <2>4, <3>1
    <3>2. CASE ~(i <= n)
      <4>1. i - n \in DOMAIN t /\ inbox'[i] = t[i - n]
        BY <2>4, <3>2
      <4>2. Brings(t[i - n]) \in {None, Fresh}
        BY <1>5, <4>1 DEF Arriving
      <4> QED
        BY <2>1, <2>5, <3>2, <4>1, <4>2
    <3> QED
      BY <3>1, <3>2
  <2>6. ASSUME NEW i \in 1..(n + m), NEW j \in 1..(n + m), j < i, Brings(inbox'[i]) # None
        PROVE  Brings(inbox'[j]) < Brings(inbox'[i])
    <3>1. CASE i <= n
      <4>1. j <= n /\ i \in DOMAIN inbox /\ j \in DOMAIN inbox
        BY <2>4, <2>6, <3>1
      <4> QED
        BY <2>4, <2>6, <3>1, <4>1 DEF Coming
    <3>2. CASE ~(i <= n)
      <4>1. Brings(inbox'[i]) = events + 1 /\ i - n \in DOMAIN t /\ inbox'[i] = t[i - n]
        BY <2>4, <2>5, <2>6, <3>2
      <4>2. CASE j <= n
        <5>1. j \in DOMAIN inbox /\ inbox'[j] = inbox[j]
          BY <2>4, <4>2
        <5>2. Brings(inbox[j]) <= events /\ Brings(inbox[j]) \in Nat
          BY <1>1, <5>1 DEF Coming
        <5> QED
          BY <1>1, <4>1, <5>1, <5>2
      <4>3. CASE ~(j <= n)
        <5>1. j - n \in DOMAIN t /\ inbox'[j] = t[j - n] /\ j - n # i - n
          BY <2>4, <2>6, <4>3
        <5>2. Brings(t[j - n]) = None
          BY <1>5, <2>6, <4>1, <5>1 DEF Arriving
        <5> QED
          BY <1>1, <4>1, <5>1, <5>2
      <4> QED
        BY <4>2, <4>3
    <3> QED
      BY <3>1, <3>2
  <2>7. ASSUME NEW i \in 1..(n + m) PROVE Brings(inbox'[i]) <= events'
    <3>1. CASE Brings(inbox'[i]) = None
      BY <1>1, <2>1, <3>1
    <3>2. CASE Brings(inbox'[i]) # None
      <4>1. CASE i <= n
        <5>1. i \in DOMAIN inbox /\ inbox'[i] = inbox[i]
          BY <2>4, <4>1
        <5>2. Brings(inbox[i]) <= events /\ Brings(inbox[i]) \in Nat
          BY <1>1, <5>1 DEF Coming
        <5> QED
          BY <1>1, <2>1, <5>1, <5>2
      <4>2. CASE ~(i <= n)
        BY <1>1, <2>1, <2>5, <3>2, <4>2
      <4> QED
        BY <4>1, <4>2
    <3> QED
      BY <3>1, <3>2
  <2>8. \A o \in HeldOffers' : o \in Nat /\ o <= events /\ (o \in HeldOffers \/ o = 0)
    BY <1>1, <1>5 DEF Coming
  <2>9. ASSUME NEW i \in 1..(n + m), NEW o \in HeldOffers', Brings(inbox'[i]) # None
        PROVE  o < Brings(inbox'[i])
    <3>1. CASE i <= n
      <4>1. i \in DOMAIN inbox /\ inbox'[i] = inbox[i]
        BY <2>4, <3>1
      <4>2. Brings(inbox[i]) \in Nat /\ Brings(inbox[i]) # 0
        BY <1>1, <2>9, <4>1
      <4>3. o \in HeldOffers => o < Brings(inbox[i])
        BY <2>9, <4>1 DEF Coming
      <4> QED
        BY <2>8, <4>1, <4>2, <4>3
    <3>2. CASE ~(i <= n)
      BY <1>1, <2>5, <2>8, <2>9, <3>2
    <3> QED
      BY <3>1, <3>2
  <2>10. \A o \in HeldOffers' : o <= events'
    BY <1>1, <2>1, <2>8
  <2> QED
    BY <2>4, <2>6, <2>7, <2>9, <2>10 DEF Coming
<1>6. CASE Takes /\ HeldOffers' \subseteq HeldOffers \cup {None, Brings(Head(inbox))}
  <2>1. /\ inbox' \in Seq(SomeEvent) /\ Len(inbox') = Len(inbox) - 1 /\ events' = events
        /\ \A i \in 1..(Len(inbox) - 1) : inbox'[i] = inbox[i + 1]
        /\ Head(inbox) = inbox[1] /\ Len(inbox) \in Nat /\ Len(inbox) >= 1
    BY <1>3, <1>6 DEF Takes
  <2>2. /\ DOMAIN inbox' = 1..(Len(inbox) - 1) /\ 1 \in DOMAIN inbox
        /\ \A i \in DOMAIN inbox' : i + 1 \in DOMAIN inbox /\ inbox'[i] = inbox[i + 1] /\ 1 < i + 1
    BY <1>3, <2>1
  <2>3. ASSUME NEW i \in DOMAIN inbox', NEW o \in HeldOffers', Brings(inbox'[i]) # None
        PROVE  o < Brings(inbox'[i])
    <3>1. PICK k \in DOMAIN inbox : k = i + 1 /\ inbox'[i] = inbox[k] /\ 1 < k
      BY <2>2
    <3>2. Brings(inbox[k]) # None /\ Brings(inbox[k]) \in Nat
      BY <1>1, <2>3, <3>1
    <3>3. /\ Brings(inbox[1]) < Brings(inbox[k])
          /\ o \in HeldOffers => o < Brings(inbox[k])
      BY <2>2, <3>1, <3>2 DEF Coming
    <3> QED
      BY <1>1, <1>6, <2>1, <3>1, <3>2, <3>3
  <2>4. \A o \in HeldOffers' : o <= events'
    BY <1>1, <1>6, <2>1, <2>2 DEF Coming
  <2>5. \A i \in DOMAIN inbox' : Brings(inbox'[i]) <= events'
    BY <2>1, <2>2 DEF Coming
  <2>6. ASSUME NEW i \in DOMAIN inbox', NEW j \in DOMAIN inbox', j < i, Brings(inbox'[i]) # None
        PROVE  Brings(inbox'[j]) < Brings(inbox'[i])
    <3>1. PICK k \in DOMAIN inbox, l \in DOMAIN inbox :
            k = i + 1 /\ inbox'[i] = inbox[k] /\ l = j + 1 /\ inbox'[j] = inbox[l]
      BY <2>2
    <3>2. l < k
      BY <2>1, <2>2, <2>6, <3>1
    <3> QED
      BY <2>6, <3>1, <3>2 DEF Coming
  <2> QED
    BY <2>3, <2>4, <2>5, <2>6 DEF Coming
<1>7. CASE UNCHANGED inbox \/ (Event /\ \E t : Arriving(t) /\ inbox' = inbox \o t)
  <2>1. ~Takes
    <3>1. CASE UNCHANGED inbox /\ inbox # <<>> /\ inbox' = Tail(inbox)
      <4>1. Len(inbox') = Len(inbox) - 1 /\ Len(inbox') = Len(inbox) /\ Len(inbox) \in Nat
        BY <1>3, <3>1
      <4> QED
        BY <4>1
    <3>2. CASE Event
      BY <1>1, <3>2 DEF Event, Takes
    <3> QED
      BY <1>7, <3>1, <3>2 DEF Takes
  <2> QED
    BY <1>4, <1>5, <1>7, <2>1, HeldAfter
<1>8. CASE UNCHANGED events /\ inbox # <<>> /\ inbox' = Tail(inbox)
  <2>1. Takes
    BY <1>8 DEF Takes
  <2> QED
    BY <1>6, <2>1, HeldAfter
<1> QED
  BY <1>7, <1>8, Arrivals DEF Types

LEMMA OwnedKept ==
  ASSUME Types, LetGo, Coming, Apart, Owned, [Next]_vars
  PROVE  Owned' /\ Apart'
<1>1. ASSUME Takes, Brings(Head(inbox)) # None
      PROVE  Brings(Head(inbox)) \notin HeldOffers
  <2>1. 1 \in DOMAIN inbox /\ Head(inbox) = inbox[1] /\ Brings(inbox[1]) \in Nat
    BY <1>1, HeldIds DEF Takes, Types
  <2>2. \A o \in HeldOffers : o \in Nat /\ o < Brings(inbox[1])
    BY <1>1, <2>1, HeldIds DEF Coming
  <2> QED
    BY <2>1, <2>2
<1>2. CASE Keeps
  BY <1>2 DEF Keeps, SameSelected, OtherSlots, HeldOffers, Owned, Apart
<1>3. ASSUME NEW kind \in Kinds, NEW o \in Ids, Selects(kind, o) PROVE Owned' /\ Apart'
  <2>1. o # None => o \notin HeldOffers
    BY <1>1, <1>3 DEF Selects
  <2>2. Apart'
    BY <1>3, <2>1 DEF Selects, OtherSlots, HeldOffers, Apart
  <2>3. Owned'
    BY <1>3, <2>1 DEF Selects, OtherSlots, HeldOffers, Owned, Apart
  <2> QED
    BY <2>2, <2>3
<1>4. ASSUME NEW o \in Ids, Enters(o) PROVE Owned' /\ Apart'
  <2>1. o # None /\ o \notin HeldOffers
    BY <1>1, <1>4 DEF Enters
  <2>2. Apart'
    BY <1>4, <2>1 DEF Enters, SameSelected, HeldOffers, Apart
  <2>3. Owned'
    BY <1>4, <2>1 DEF Enters, SameSelected, HeldOffers, Owned
  <2> QED
    BY <2>2, <2>3
<1>5. CASE Begins
  <2>1. PICK d : d = drag'.offer
    OBVIOUS
  <2>2. /\ drag.offer = None /\ drag'.offer = d /\ Begun = {d} /\ Begun' = {}
        /\ hand'.offer = hand.offer /\ offers' = offers
        /\ \A kind \in Kinds : selection'[kind].offer = selection[kind].offer
    BY <1>5, <2>1 DEF Begins, SameSelected
  <2>3. Owned'
    BY <2>2 DEF HeldOffers, Owned
  <2>4. ASSUME d # None PROVE d # hand.offer
    BY <1>5, <2>4 DEF Begins
  <2>5. Apart'
    BY <2>2, <2>4 DEF Apart
  <2> QED
    BY <2>3, <2>5
<1>6. CASE Resets
  BY <1>6 DEF Resets, SameSelected, HeldOffers, Owned, Apart
<1>7. CASE Detaches
  BY <1>7 DEF Detaches, SameSelected, HeldOffers, Owned, Apart
<1>8. CASE Destroys
  BY <1>8 DEF Destroys, SameSelected, HeldOffers, Owned, Apart
<1> QED
  BY <1>2, <1>3, <1>4, <1>5, <1>6, <1>7, <1>8, OfferMoves

(***************************************************************************)
(* The answers.                                                             *)
(***************************************************************************)
\* The reads whose callbacks are about to be called.
Owed == {step[2] : step \in {s \in ToSet(todo) : s[1] = "answer"}}

\* What a transfer knows of the read it was begun for, and of the selection then.
Knows(t, rs, now) ==
  /\ rs[t.read].at = "pending" /\ rs[t.read].kind = t.kind
  /\ t.generation <= now[t.kind].generation
  /\ t.generation = now[t.kind].generation => rs[t.read].offer = now[t.kind].offer

Asked ==
  /\ \A i \in DOMAIN transfers : transfers[i].read # None => Knows(transfers[i], reads, selection)
  /\ \A i, j \in DOMAIN transfers :
       transfers[i].read # None /\ transfers[i].read = transfers[j].read => i = j
  /\ \A r \in Owed : r \in Reads /\ reads[r].at \in {"complete", "answered"}

LEMMA StepsAreSequences ==
  ASSUME Steps
  PROVE  \E S : todo \in Seq(S)
<1>1. CASE Polling
  <2>1. PICK i \in Nat \ {0}, s \in Seq(Answers) : todo = <<PollStep(i)>> \o s
    BY <1>1 DEF Polling
  <2>2. PICK p : p = PollStep(i)
    OBVIOUS
  <2>3. PICK S : S = Answers \cup {p}
    OBVIOUS
  <2>4. s \in Seq(S) /\ <<p>> \in Seq(S)
    BY <2>3
  <2>5. todo \in Seq(S)
    BY <2>1, <2>2, <2>4, ConcatProperties
  <2> QED
    BY <2>5
<1>2. ASSUME NEW a, NEW b, NEW c, NEW d, todo \in {<<a>>, <<a, b>>, <<a, b, c>>, <<a, b, c, d>>}
      PROVE  \E S : todo \in Seq(S)
  <2>1. PICK S : S = {a, b, c, d}
    OBVIOUS
  <2>2. /\ <<a>> \in Seq(S) /\ <<a, b>> \in Seq(S) /\ <<a, b, c>> \in Seq(S)
        /\ <<a, b, c, d>> \in Seq(S)
    BY <2>1
  <2>3. todo \in Seq(S)
    BY <1>2, <2>2
  <2> QED
    BY <2>3
<1>3. CASE todo \in LoopSteps
  <2>1. \E a, b : todo \in {<<a>>, <<a, b>>}
    BY <1>3 DEF LoopSteps
  <2> QED
    BY <1>2, <2>1
<1>4. ASSUME NEW o, NEW typed, todo \in EnterSteps(BeginStep(o, typed))
      PROVE  \E S : todo \in Seq(S)
  <2>1. \E a, b, c, d : todo \in {<<a, b>>, <<a, b, c>>, <<a, b, c, d>>}
    BY <1>4 DEF EnterSteps
  <2> QED
    BY <1>2, <2>1
<1> QED
  BY <1>1, <1>3, <1>4 DEF Steps

LEMMA ToSetParts ==
  ASSUME NEW S, NEW s \in Seq(S), NEW h
  PROVE  /\ s # <<>> => ToSet(Tail(s)) \subseteq ToSet(s) /\ Head(s) \in ToSet(s)
         /\ s # <<>> => ToSet(<<h>> \o Tail(s)) \subseteq {h} \cup ToSet(s)
         /\ ToSet(Append(s, h)) \subseteq ToSet(s) \cup {h}
<1>1. PICK T : T = S \cup {h}
  OBVIOUS
<1>2. s \in Seq(T) /\ <<h>> \in Seq(T) /\ h \in T
  BY <1>1
<1>3. ToSet(Append(s, h)) \subseteq ToSet(s) \cup {h}
  BY <1>2, AppendProperties DEF ToSet
<1>4. ASSUME s # <<>> PROVE ToSet(Tail(s)) \subseteq ToSet(s) /\ Head(s) \in ToSet(s)
  BY <1>2, <1>4 DEF ToSet
<1>5. ASSUME s # <<>> PROVE ToSet(<<h>> \o Tail(s)) \subseteq {h} \cup ToSet(s)
  <2>1. PICK u \in Seq(T) : u = Tail(s)
    BY <1>2, <1>5, HeadTailProperties
  <2>2. ToSet(<<h>> \o u) \subseteq {h} \cup ToSet(u)
    BY <1>2, ConcatProperties DEF ToSet
  <2> QED
    BY <1>4, <1>5, <2>1, <2>2
<1> QED
  BY <1>3, <1>4, <1>5

LEMMA CallNames ==
  ASSUME NEW v
  PROVE  <<"answer", v>>[2] = v /\ <<"poll", v>>[1] = "poll"
  OBVIOUS

LEMMA OwedKept ==
  ASSUME Types, [Next]_vars
  PROVE  /\ UNCHANGED todo => Owed' = Owed
         /\ EraseTransfer /\ transfers[Current].read = None => Owed' = Owed
         /\ EraseTransfer => Owed' \subseteq Owed \cup {transfers[Current].read}
         /\ KeepTransfer => Owed' \subseteq Owed
         /\ Answer => Owed' \subseteq Owed /\ Head(todo)[2] \in Owed
         /\ \A piped :
              (HandleEnter \/ HandleMotion \/ HandleLeave \/ HandleDrop(piped) \/ Poll)
                => Owed' \subseteq Owed
         /\ \A decodes :
              (TellDrag \/ ResetDrag \/ BeginDrag \/ PollDrag(decodes) \/ TellDrop
                 \/ DestroyHand \/ PollEnd)
                => Owed' \subseteq Owed
<1>1. ASSUME UNCHANGED todo PROVE Owed' = Owed
  BY <1>1 DEF Owed
<1>2. PICK S : todo \in Seq(S)
  BY StepsAreSequences DEF Types
<1>3. ASSUME NEW x, ToSet(todo') \subseteq ToSet(todo) \cup {x}
      PROVE  /\ x[1] # "answer" => Owed' \subseteq Owed
             /\ Owed' \subseteq Owed \cup {x[2]}
  BY <1>3 DEF Owed
<1>4. ASSUME todo # <<>>, todo' = Tail(todo) PROVE Owed' \subseteq Owed
  <2>1. ToSet(todo') \subseteq ToSet(todo)
    BY <1>2, <1>4, ToSetParts
  <2> QED
    BY <2>1 DEF Owed
<1>5. ASSUME todo # <<>>, NEW x, x[1] # "answer", todo' = <<x>> \o Tail(todo)
      PROVE  Owed' \subseteq Owed
  <2>1. ToSet(todo') \subseteq ToSet(todo) \cup {x}
    BY <1>2, <1>5, ToSetParts
  <2> QED
    BY <1>3, <1>5, <2>1
<1>6. ASSUME EraseTransfer
      PROVE  /\ transfers[Current].read = None => Owed' = Owed
             /\ Owed' \subseteq Owed \cup {transfers[Current].read}
  <2>1. PICK x : x = <<"answer", transfers[Current].read>> /\ x[2] = transfers[Current].read
    BY CallNames
  <2>2. /\ transfers[Current].read = None => UNCHANGED todo
        /\ UNCHANGED todo \/ todo' = Append(todo, x)
    BY <1>6, <2>1 DEF EraseTransfer
  <2>3. CASE todo' = Append(todo, x)
    <3>1. ToSet(todo') \subseteq ToSet(todo) \cup {x}
      BY <1>2, <2>3, ToSetParts
    <3> QED
      BY <1>1, <1>3, <2>1, <2>2, <3>1
  <2> QED
    BY <1>1, <2>2, <2>3
<1>7. ASSUME KeepTransfer PROVE Owed' \subseteq Owed
  <2>1. PICK x : x = <<"poll", Current + 1>> /\ x[1] = "poll"
    BY CallNames
  <2>2. todo # <<>> /\ todo' = <<x>> \o Tail(todo)
    BY <1>7, <2>1 DEF KeepTransfer, Doing
  <2> QED
    BY <1>5, <2>1, <2>2
<1>8. ASSUME Answer PROVE Owed' \subseteq Owed /\ Head(todo)[2] \in Owed
  <2>1. todo # <<>> /\ Head(todo)[1] = "answer" /\ todo' = Tail(todo)
    BY <1>8 DEF Answer, Doing
  <2>2. Head(todo) \in ToSet(todo)
    BY <1>2, <2>1, ToSetParts
  <2>3. Head(todo)[2] \in Owed
    BY <2>1, <2>2 DEF Owed
  <2> QED
    BY <1>4, <2>1, <2>3
<1>9. ASSUME TellDrag \/ ResetDrag \/ BeginDrag \/ DestroyHand \/ PollEnd PROVE Owed' \subseteq Owed
  BY <1>4, <1>9 DEF TellDrag, ResetDrag, BeginDrag, DestroyHand, PollEnd, Doing
<1>10. ASSUME NEW decodes, PollDrag(decodes) \/ TellDrop PROVE Owed' \subseteq Owed
  <2>1. /\ todo # <<>>
        /\ todo' \in {Tail(todo), <<TellDropStep>> \o Tail(todo), <<DestroyStep>> \o Tail(todo)}
    BY <1>10 DEF PollDrag, TellDrop, TellDropStep, DestroyStep, Doing
  <2>2. PICK a, b : a = TellDropStep /\ b = DestroyStep /\ a[1] # "answer" /\ b[1] # "answer"
    BY StepNames
  <2> QED
    BY <1>4, <1>5, <2>1, <2>2
<1>11. ASSUME \A x \in ToSet(todo') : x[1] # "answer" PROVE Owed' \subseteq Owed
  BY <1>11 DEF Owed
<1>12. ASSUME NEW piped, HandleMotion \/ HandleLeave \/ HandleDrop(piped) \/ Poll
       PROVE  Owed' \subseteq Owed
  <2>1. PICK a, b, c, d, e : /\ a = LeaveStep /\ b = ResetStep /\ c = MotionStep
                             /\ d = PollDragStep /\ e = PollStep(1)
    OBVIOUS
  <2>2. \A x \in {a, b, c, d, e} : x[1] # "answer"
    BY <2>1, StepNames
  <2>3. todo' \in {<<c>>, <<>>, <<a, b>>, <<d, e>>} \/ UNCHANGED todo
    <3>1. CASE Poll
      BY <2>1, <3>1 DEF Poll, PollDragStep, PollStep
    <3>2. CASE HandleMotion \/ HandleLeave \/ HandleDrop(piped)
      BY <2>1, <3>2, ResetIs DEF HandleMotion, HandleLeave, HandleDrop, MotionStep
    <3> QED
      BY <1>12, <3>1, <3>2
  <2>4. /\ ToSet(<<c>>) = {c} /\ ToSet(<<a, b>>) = {a, b} /\ ToSet(<<d, e>>) = {d, e}
        /\ ToSet(<<>>) = {}
    BY DEF ToSet
  <2> QED
    BY <1>1, <1>11, <2>2, <2>3, <2>4
<1>13. ASSUME HandleEnter PROVE Owed' \subseteq Owed
  <2>1. PICK o, typed : o = Head(inbox)[2] /\ typed = Head(inbox)[3]
    OBVIOUS
  <2>2. PICK a, b, c, d : /\ a = LeaveStep /\ b = ResetStep /\ c = BeginStep(o, typed)
                          /\ d = EnterStep
    OBVIOUS
  <2>3. todo' = <<a, b>> \o <<c, d>>
    BY <1>13, <2>1, <2>2, ResetIs DEF HandleEnter, BeginStep, EnterStep
  <2>4. todo' = <<a, b, c, d>>
    BY <2>3, Concats
  <2>5. ToSet(<<a, b, c, d>>) = {a, b, c, d}
    BY DEF ToSet
  <2>6. c[1] = "begin"
    BY <2>2, BeginNames
  <2>7. a[1] = "tell" /\ b[1] = "reset" /\ d[1] = "tell"
    BY <2>2, StepNames
  <2> QED
    BY <1>11, <2>4, <2>5, <2>6, <2>7
<1> QED
  BY <1>1, <1>6, <1>7, <1>8, <1>9, <1>10, <1>12, <1>13

LEMMA KnowsStays ==
  ASSUME NEW t, NEW u, NEW rs, NEW later, NEW now, NEW then, Knows(t, rs, now),
         u.read = t.read, u.kind = t.kind, u.generation = t.generation,
         later[t.read] = rs[t.read], then[t.kind].generation = now[t.kind].generation,
         then[t.kind].offer = now[t.kind].offer
  PROVE  Knows(u, later, then)
  BY DEF Knows

LEMMA TransferFields ==
  ASSUME Types
  PROVE  /\ transfers \in Seq(SomeTransfer) /\ DOMAIN transfers = 1..Len(transfers)
         /\ Len(transfers) \in Nat
         /\ \A i \in DOMAIN transfers :
              /\ transfers[i] \in SomeTransfer
              /\ transfers[i].read \in 0..MaxReads /\ transfers[i].kind \in Kinds
              /\ transfers[i].generation \in Nat /\ transfers[i].pipe \in SomePipe
              /\ transfers[i].read # None => transfers[i].read \in Reads
         /\ reads \in [Reads -> SomeRead] /\ selection \in [Kinds -> SomeSelection]
         /\ \A kind \in Kinds : selection[kind].generation \in Nat
<1>1. transfers \in Seq(SomeTransfer) /\ reads \in [Reads -> SomeRead]
      /\ selection \in [Kinds -> SomeSelection]
  BY DEF Types, TransferTypes, SelectionTypes
<1>2. ASSUME NEW i \in DOMAIN transfers
      PROVE  /\ transfers[i] \in SomeTransfer
             /\ transfers[i].read \in 0..MaxReads /\ transfers[i].kind \in Kinds
             /\ transfers[i].generation \in Nat /\ transfers[i].pipe \in SomePipe
             /\ transfers[i].read # None => transfers[i].read \in Reads
  <2>1. transfers[i] \in SomeTransfer
    BY <1>1
  <2> QED
    BY <2>1, TransferAssumption DEF SomeTransfer, Reads, None
<1>3. \A kind \in Kinds : selection[kind].generation \in Nat
  BY <1>1 DEF SomeSelection
<1>4. DOMAIN transfers = 1..Len(transfers) /\ Len(transfers) \in Nat
  BY <1>1
<1> QED
  BY <1>1, <1>2, <1>3, <1>4

SameSelection == \A kind \in Kinds : /\ selection'[kind].generation = selection[kind].generation
                                     /\ selection'[kind].offer = selection[kind].offer

SameRequests ==
  /\ DOMAIN transfers' = DOMAIN transfers
  /\ \A i \in DOMAIN transfers : /\ transfers'[i].read = transfers[i].read
                                 /\ transfers'[i].kind = transfers[i].kind
                                 /\ transfers'[i].generation = transfers[i].generation

\* The reads of the transfers stay what they are.
LEMMA AskedSame ==
  ASSUME Types, Asked, UNCHANGED reads, SameSelection, Owed' \subseteq Owed,
         SameRequests
  PROVE  Asked'
<1> USE DEF SameRequests
<1>1. ASSUME NEW i \in DOMAIN transfers', transfers'[i].read # None
      PROVE  Knows(transfers'[i], reads', selection')
  <2>1. i \in DOMAIN transfers /\ transfers[i].read # None /\ transfers[i].kind \in Kinds
    BY <1>1, TransferFields
  <2>2. Knows(transfers[i], reads, selection)
    BY <2>1 DEF Asked
  <2> QED
    BY <2>1, <2>2, KnowsStays DEF SameSelection
<1>2. \A i, j \in DOMAIN transfers' :
        transfers'[i].read # None /\ transfers'[i].read = transfers'[j].read => i = j
  BY DEF Asked
<1>3. \A r \in Owed' : r \in Reads /\ reads'[r].at \in {"complete", "answered"}
  BY DEF Asked
<1> QED
  BY <1>1, <1>2, <1>3 DEF Asked

\* A transfer is added.
LEMMA AskedMore ==
  ASSUME Types, Asked, SameSelection, Owed' \subseteq Owed, NEW t \in SomeTransfer,
         transfers' = Append(transfers, t),
         t.read # None => Knows(t, reads', selection'),
         \A i \in DOMAIN transfers : transfers[i].read # None =>
           transfers[i].read # t.read /\ reads'[transfers[i].read] = reads[transfers[i].read],
         \A r \in Owed : reads'[r] = reads[r]
  PROVE  Asked'
<1>1. PICK n \in Nat : n = Len(transfers)
  BY TransferFields
<1>2. /\ DOMAIN transfers' = 1..(n + 1) /\ DOMAIN transfers = 1..n
      /\ transfers'[n + 1] = t /\ \A i \in 1..n : transfers'[i] = transfers[i]
  <2>1. /\ transfers' \in Seq(SomeTransfer) /\ Len(transfers') = n + 1
        /\ transfers'[n + 1] = t /\ \A i \in 1..n : transfers'[i] = transfers[i]
    BY <1>1, TransferFields, AppendProperties
  <2> QED
    BY <1>1, <2>1, TransferFields
<1>3. ASSUME NEW i \in 1..(n + 1), transfers'[i].read # None
      PROVE  Knows(transfers'[i], reads', selection')
  <2>1. CASE i = n + 1
    BY <1>2, <1>3, <2>1
  <2>2. CASE i \in 1..n
    <3>1. transfers'[i] = transfers[i] /\ transfers[i].kind \in Kinds
      BY <1>2, <2>2, TransferFields
    <3>2. Knows(transfers[i], reads, selection)
      BY <1>2, <1>3, <2>2, <3>1 DEF Asked
    <3>3. reads'[transfers[i].read] = reads[transfers[i].read]
      BY <1>2, <1>3, <2>2, <3>1
    <3> QED
      BY <3>1, <3>2, <3>3, KnowsStays DEF SameSelection
  <2>3. i = n + 1 \/ i \in 1..n
    OBVIOUS
  <2> QED
    BY <2>1, <2>2, <2>3
<1>4. ASSUME NEW i \in 1..(n + 1), NEW j \in 1..(n + 1),
             transfers'[i].read # None, transfers'[i].read = transfers'[j].read
      PROVE  i = j
  <2>1. (i = n + 1 \/ i \in 1..n) /\ (j = n + 1 \/ j \in 1..n)
    OBVIOUS
  <2> QED
    BY <1>2, <1>4, <2>1 DEF Asked
<1>5. \A r \in Owed' : r \in Reads /\ reads'[r].at \in {"complete", "answered"}
  BY DEF Asked
<1> QED
  BY <1>2, <1>3, <1>4, <1>5 DEF Asked

LEMMA AskedKept ==
  ASSUME Types, Asked, [Next]_vars
  PROVE  Asked'
<1>1. ASSUME UNCHANGED <<reads, transfers, selection>>, Owed' \subseteq Owed PROVE Asked'
  <2>1. SameSelection
    BY <1>1 DEF SameSelection
  <2>2. SameRequests
    BY <1>1 DEF SameRequests
  <2> QED
    BY <1>1, <2>1, <2>2, AskedSame
<1>2. ASSUME NEW kind \in Kinds, ReadAsync(kind) PROVE Asked'
  <2>1. PICK r \in Reads :
          /\ reads[r].at = "unused"
          /\ LET read == [at |-> "pending", kind |-> kind, offer |-> selection[kind].offer,
                          text |-> 0]
             IN IF selection[kind].owns \/ Len(transfers) >= MaxTransfers
                THEN /\ reads' = [reads EXCEPT ![r] = [read EXCEPT !.at = "answered"]]
                     /\ UNCHANGED transfers
                ELSE /\ reads' = [reads EXCEPT ![r] = read]
                     /\ transfers' = Append(transfers,
                          [read |-> r, kind |-> kind, generation |-> selection[kind].generation,
                           failed |-> ~CanReceive(kind), pipe |-> NewPipe])
    BY <1>2 DEF ReadAsync
  <2>2. Owed' = Owed /\ UNCHANGED selection
    BY <1>2, Leaves, OwedKept
  <2>3. SameSelection
    BY <2>2 DEF SameSelection
  <2>4. \A other \in Reads : other # r => reads'[other] = reads[other]
    BY <2>1, TransferFields
  <2>5. r \notin Owed /\ r # None /\ \A i \in DOMAIN transfers : transfers[i].read # r
    <3>1. r \in Owed => reads[r].at \in {"complete", "answered"}
      BY DEF Asked
    <3>2. r # None
      BY TransferAssumption DEF Reads, None
    <3> QED
      BY <2>1, <3>1, <3>2 DEF Asked, Knows
  <2>6. CASE UNCHANGED transfers
    <3>1. ASSUME NEW i \in DOMAIN transfers, transfers[i].read # None
          PROVE  Knows(transfers[i], reads', selection')
      <4>1. Knows(transfers[i], reads, selection)
        BY <3>1 DEF Asked
      <4> QED
        BY <2>2, <2>4, <2>5, <3>1, <4>1, KnowsStays, TransferFields
    <3>2. \A owed \in Owed' : owed \in Reads /\ reads'[owed].at \in {"complete", "answered"}
      BY <2>2, <2>4, <2>5 DEF Asked
    <3> QED
      BY <2>6, <3>1, <3>2 DEF Asked
  <2>7. CASE ~(selection[kind].owns \/ Len(transfers) >= MaxTransfers)
    <3>1. PICK p : p = [at |-> "pending", kind |-> kind, offer |-> selection[kind].offer,
                        text |-> 0]
      OBVIOUS
    <3>2. PICK t : t = [read |-> r, kind |-> kind, generation |-> selection[kind].generation,
                        failed |-> ~CanReceive(kind), pipe |-> NewPipe]
      OBVIOUS
    <3>3. reads' = [reads EXCEPT ![r] = p] /\ transfers' = Append(transfers, t)
      BY <2>1, <2>7, <3>1, <3>2
    <3>4. t \in SomeTransfer
      <4>1. selection[kind].generation \in Nat
        BY TransferFields
      <4> QED
        BY <3>2, <4>1, NewPipeIs, TransferAssumption DEF SomeTransfer, Reads
    <3>5. Knows(t, reads', selection')
      <4>1. reads'[r] = p /\ t.read = r /\ t.kind = kind
            /\ t.generation = selection[kind].generation
        BY <3>2, <3>3, TransferFields
      <4>2. p.at = "pending" /\ p.kind = kind /\ p.offer = selection[kind].offer
        BY <3>1
      <4>3. selection[kind].generation <= selection[kind].generation
        BY TransferFields
      <4> QED
        BY <2>2, <4>1, <4>2, <4>3 DEF Knows
    <3>6. t.read = r
      BY <3>2
    <3> QED
      <4>1. \A i \in DOMAIN transfers : transfers[i].read # None =>
              transfers[i].read # t.read /\ reads'[transfers[i].read] = reads[transfers[i].read]
        BY <2>4, <2>5, <3>6, TransferFields
      <4>2. \A owed \in Owed : reads'[owed] = reads[owed]
        BY <2>4, <2>5 DEF Asked
      <4> QED
        BY <2>2, <2>3, <3>3, <3>4, <3>5, <4>1, <4>2, AskedMore
  <2> QED
    BY <2>1, <2>6, <2>7
<1>3. ASSUME NEW kind \in Kinds, NEW empty, NEW accepted, NEW announced,
             SetText(kind, empty, accepted, announced)
      PROVE  Asked'
  <2>1. SameSelection
    BY <1>3, TransferFields DEF SetText, SameSelection, SomeSelection
  <2>2. SameRequests /\ UNCHANGED reads /\ Owed' = Owed
    BY <1>3, OwedKept, Leaves DEF SameRequests
  <2> QED
    BY <2>1, <2>2, AskedSame
<1>4. ASSUME NEW cause, PipeMoves(cause) PROVE Asked'
  <2>1. SameRequests
    <3>1. CASE UNCHANGED transfers
      BY <3>1 DEF SameRequests
    <3>2. ASSUME NEW i \in DOMAIN transfers, NEW pipe,
                 transfers' = [transfers EXCEPT ![i].pipe = pipe]
          PROVE  SameRequests
      BY <3>2, TransferFields DEF SameRequests, SomeTransfer
    <3> QED
      BY <1>4, <3>1, <3>2 DEF PipeMoves
  <2>2. UNCHANGED reads /\ SameSelection /\ Owed' \subseteq Owed
    BY <1>4, OwedKept, Leaves DEF SameSelection
  <2> QED
    BY <2>1, <2>2, AskedSame
<1>5. CASE HandleSelection
  <2>1. Receive("selection")
    BY <1>5 DEF HandleSelection
  <2>2. PICK e : e = Head(inbox)
    OBVIOUS
  <2>3. PICK kind \in Kinds : kind = e[2]
    BY <2>1, <2>2, HeadEvent DEF Types
  <2>4. selection' = [selection EXCEPT ![kind].offer = e[3], ![kind].readable = e[4],
                                       ![kind].generation = @ + 1]
    BY <1>5, <2>2, <2>3 DEF HandleSelection
  <2>5. /\ \A other \in Kinds : other # kind => selection'[other] = selection[other]
        /\ selection'[kind].generation = selection[kind].generation + 1
    BY <2>4, TransferFields DEF SomeSelection
  <2>6. UNCHANGED <<reads, transfers>> /\ Owed' = Owed
    BY <1>5, OwedKept, Leaves
  <2>7. ASSUME NEW i \in DOMAIN transfers, transfers[i].read # None
        PROVE  Knows(transfers[i], reads', selection')
    <3>1. /\ Knows(transfers[i], reads, selection) /\ transfers[i].kind \in Kinds
          /\ transfers[i].generation \in Nat /\ selection[kind].generation \in Nat
      BY <2>7, TransferFields DEF Asked
    <3>2. CASE transfers[i].kind # kind
      BY <2>5, <2>6, <3>1, <3>2, KnowsStays
    <3>3. CASE transfers[i].kind = kind
      BY <2>5, <2>6, <3>1, <3>3 DEF Knows
    <3> QED
      BY <3>2, <3>3
  <2> QED
    BY <2>6, <2>7 DEF Asked
<1>6. CASE HandleCancelled
  <2>1. SameSelection
    BY <1>6, TransferFields DEF HandleCancelled, SameSelection, SomeSelection
  <2>2. SameRequests /\ UNCHANGED reads /\ Owed' = Owed
    BY <1>6, OwedKept, Leaves DEF SameRequests
  <2> QED
    BY <2>1, <2>2, AskedSame
<1>7. CASE HandleSend
  <2>1. UNCHANGED reads /\ SameSelection /\ Owed' \subseteq Owed /\ UNCHANGED selection
    BY <1>7, OwedKept, Leaves DEF SameSelection
  <2>2. CASE UNCHANGED transfers
    BY <1>1, <2>1, <2>2
  <2>3. CASE ~UNCHANGED transfers
    <3>1. PICK kind \in Kinds : kind = Head(inbox)[2]
      BY <1>7, HeadEvent DEF HandleSend, Types
    <3>2. PICK t : t = [read |-> None, kind |-> kind, generation |-> 0, failed |-> FALSE,
                        pipe |-> NewPipe]
      OBVIOUS
    <3>3. transfers' = Append(transfers, t)
      BY <1>7, <2>3, <3>1, <3>2 DEF HandleSend
    <3>4. t \in SomeTransfer /\ t.read = None
      BY <3>2, NewPipeIs, TransferAssumption DEF SomeTransfer, None
    <3> QED
      BY <2>1, <3>3, <3>4, AskedMore
  <2> QED
    BY <2>2, <2>3
<1>8. CASE EraseTransfer
  <2>1. PICK n \in Nat : n = Len(transfers) /\ DOMAIN transfers = 1..n
    BY TransferFields
  <2>2. PICK k \in 1..n : k = Current
    BY <1>8, <2>1 DEF EraseTransfer
  <2>3. PICK r : r = transfers[k].read
    OBVIOUS
  <2>4. /\ DOMAIN transfers' = 1..(n - 1)
        /\ \A i \in 1..(n - 1) : transfers'[i] = transfers[IF i < k THEN i ELSE i + 1]
    <3>1. transfers' = RemoveAt(transfers, k)
      BY <1>8, <2>2 DEF EraseTransfer
    <3>2. /\ transfers' \in Seq(SomeTransfer) /\ Len(transfers') = n - 1
          /\ \A i \in 1..(n - 1) : transfers'[i] = transfers[IF i < k THEN i ELSE i + 1]
      BY <2>1, <3>1, RemoveAtProperties, TransferFields
    <3> QED
      BY <3>2
  <2>5. \A i \in 1..(n - 1) : \E j \in 1..n :
          j = (IF i < k THEN i ELSE i + 1) /\ j # k /\ transfers'[i] = transfers[j]
    BY <2>4
  <2>6. UNCHANGED selection
    BY <1>8, Leaves
  <2>7. /\ \A other \in Reads : other # r => reads'[other] = reads[other]
        /\ r # None => reads'[r].at = "complete"
        /\ r = None => UNCHANGED reads
    <3>1. CASE r = None
      BY <1>8, <2>2, <2>3, <3>1 DEF EraseTransfer
    <3>2. CASE r # None
      <4>1. PICK text : text = Text(transfers[k])
        OBVIOUS
      <4>2. r \in Reads
        BY <2>1, <2>3, <3>2, TransferFields
      <4>3. reads' = [reads EXCEPT ![r].at = "complete", ![r].text = text]
        BY <1>8, <2>2, <2>3, <3>2, <4>1 DEF EraseTransfer
      <4>4. reads' = [reads EXCEPT ![r] = [reads[r] EXCEPT !.at = "complete", !.text = text]]
        BY <4>2, <4>3, TransferFields
      <4>5. reads[r] \in SomeRead
        BY <4>2, TransferFields
      <4>6. [reads[r] EXCEPT !.at = "complete", !.text = text].at = "complete"
        BY <4>5 DEF SomeRead
      <4> QED
        BY <3>2, <4>2, <4>4, <4>6, TransferFields
    <3> QED
      BY <3>1, <3>2
  <2>8. ASSUME NEW i \in DOMAIN transfers', transfers'[i].read # None
        PROVE  Knows(transfers'[i], reads', selection')
    <3>1. PICK j \in 1..n : j # k /\ transfers'[i] = transfers[j]
      BY <2>4, <2>5
    <3>2. transfers[j].read # r
      BY <2>1, <2>3, <2>8, <3>1 DEF Asked
    <3>3. Knows(transfers[j], reads, selection)
      BY <2>1, <2>8, <3>1 DEF Asked
    <3> QED
      BY <2>1, <2>6, <2>7, <2>8, <3>1, <3>2, <3>3, KnowsStays, TransferFields
  <2>9. ASSUME NEW i \in DOMAIN transfers', NEW j \in DOMAIN transfers',
               transfers'[i].read # None, transfers'[i].read = transfers'[j].read
        PROVE  i = j
    <3>1. PICK a \in 1..n : a = (IF i < k THEN i ELSE i + 1) /\ transfers'[i] = transfers[a]
      BY <2>4, <2>5
    <3>2. PICK b \in 1..n : b = (IF j < k THEN j ELSE j + 1) /\ transfers'[j] = transfers[b]
      BY <2>4, <2>5
    <3>3. a = b
      BY <2>1, <2>9, <3>1, <3>2 DEF Asked
    <3> QED
      BY <2>4, <3>1, <3>2, <3>3
  <2>10. \A owed \in Owed' : owed \in Reads /\ reads'[owed].at \in {"complete", "answered"}
    <3>1. CASE r = None
      BY <1>8, <2>2, <2>3, <2>7, <3>1, OwedKept DEF Asked
    <3>2. CASE r # None
      <4>1. Owed' \subseteq Owed \cup {r} /\ r \in Reads
        BY <1>8, <2>1, <2>2, <2>3, <3>2, OwedKept, TransferFields
      <4> QED
        BY <2>7, <3>2, <4>1 DEF Asked
    <3> QED
      BY <3>1, <3>2
  <2> QED
    BY <2>8, <2>9, <2>10 DEF Asked
<1>9. CASE KeepTransfer
  <2>1. SameRequests
    <3>1. CASE UNCHANGED transfers
      BY <3>1 DEF SameRequests
    <3>2. CASE transfers' = [transfers EXCEPT ![Current].pipe = Advance(@)]
      BY <1>9, <3>2, TransferFields DEF KeepTransfer, SameRequests, SomeTransfer
    <3> QED
      BY <1>9, <3>1, <3>2 DEF KeepTransfer
  <2>2. UNCHANGED reads /\ SameSelection /\ Owed' \subseteq Owed
    BY <1>9, OwedKept, Leaves DEF SameSelection
  <2> QED
    BY <2>1, <2>2, AskedSame
<1>10. CASE Answer
  <2>1. PICK h : h = Head(todo)[2] /\ h \in Owed
    BY <1>10, OwedKept
  <2>2. reads' = [reads EXCEPT ![h].at = "answered"] /\ UNCHANGED <<transfers, selection>>
    BY <1>10, <2>1, Leaves DEF Answer
  <2>3. h \in Reads => reads'[h].at = "answered"
    BY <2>2, TransferFields DEF SomeRead
  <2>4. \A other \in Reads : other # h => reads'[other] = reads[other]
    BY <2>2, TransferFields
  <2>5. h \in Reads /\ reads[h].at \in {"complete", "answered"}
    BY <2>1 DEF Asked
  <2>6. ASSUME NEW i \in DOMAIN transfers, transfers[i].read # None
        PROVE  Knows(transfers[i], reads', selection')
    <3>1. Knows(transfers[i], reads, selection)
      BY <2>6 DEF Asked
    <3>2. transfers[i].read # h
      BY <2>5, <3>1 DEF Knows
    <3> QED
      <4>1. reads'[transfers[i].read] = reads[transfers[i].read]
        BY <2>4, <2>6, <3>2, TransferFields
      <4> QED
        BY <2>2, <3>1, <4>1, KnowsStays
  <2>8. \A owed \in Owed' : owed \in Reads /\ reads'[owed].at \in {"complete", "answered"}
    <3>1. Owed' \subseteq Owed
      BY <1>10, OwedKept
    <3> QED
      BY <2>3, <2>4, <2>5, <3>1 DEF Asked
  <2> QED
    BY <2>2, <2>6, <2>8 DEF Asked
<1>11. ASSUME NEW piped, HandleEnter \/ HandleMotion \/ HandleLeave \/ HandleDrop(piped) \/ Poll
       PROVE  Asked'
  <2>1. UNCHANGED <<reads, transfers, selection>>
    BY <1>11, Leaves
  <2>2. Owed' \subseteq Owed
    BY <1>11, OwedKept
  <2> QED
    BY <1>1, <2>1, <2>2
<1>12. ASSUME NEW decodes, \/ TellDrag \/ ResetDrag \/ BeginDrag \/ PollDrag(decodes) \/ TellDrop
                           \/ DestroyHand \/ PollEnd
       PROVE  Asked'
  <2>1. UNCHANGED <<reads, transfers, selection>>
    BY <1>12, Leaves
  <2>2. Owed' \subseteq Owed
    BY <1>12, OwedKept
  <2> QED
    BY <1>1, <2>1, <2>2
<1>13. ASSUME UNCHANGED <<reads, transfers, selection, todo>> PROVE Asked'
  BY <1>1, <1>13, OwedKept
<1>14. CASE CloseWindow \/ HandleAction
  BY <1>13, <1>14, Leaves
<1>15. CASE DesktopStep
  BY <1>13, <1>15, Leaves DEF DesktopStep
<1> QED
  BY <1>2, <1>3, <1>4, <1>5, <1>6, <1>7, <1>8, <1>9, <1>10, <1>11, <1>12, <1>13, <1>14, <1>15
     DEF Next, UserStep, PeerStep, Timeout, HandlerStep, LoopStep, vars

(***************************************************************************)
(* The inductive invariant, and what follows from it.                       *)
(***************************************************************************)
Consistent ==
  Types /\ Told /\ LetGo /\ Owned /\ Coming /\ Apart /\ Asked

LEMMA Starts == Init => Consistent
<1> SUFFICES ASSUME Init PROVE Consistent
  OBVIOUS
<1>1. todo = <<>> /\ ~Doing("tell drop") /\ ~Doing("destroy") /\ ~Doing("begin") /\ ~Silent
  BY DEF Init, Doing, Silent, Entering
<1>2. <<>> \in Seq(Answers) /\ <<>> \in Seq(SomeEvent) /\ <<>> \in Seq(SomeTransfer)
      /\ Len(<<>>) = 0 /\ DOMAIN <<>> = {}
  OBVIOUS
<1>3. Steps
  BY <1>1, <1>2 DEF Steps
<1>4. SelectionTypes
  <2>1. [owns |-> FALSE, source |-> None, offer |-> None, readable |-> FALSE, generation |-> 0]
          \in SomeSelection /\ None \in Ids
    BY TransferAssumption DEF SomeSelection, None, Ids
  <2> QED
    BY <2>1 DEF Init, SelectionTypes
<1>5. TransferTypes
  <2>1. NoRead \in SomeRead
    BY TransferAssumption DEF NoRead, SomeRead, None, Ids
  <2> QED
    BY <1>2, <2>1, TransferAssumption DEF Init, TransferTypes
<1>6. DragTypes
  BY NoDragIs DEF Init, DragTypes
<1>7. Types
  BY <1>2, <1>3, <1>4, <1>5, <1>6, TransferAssumption DEF Init, Types, Ids
<1>8. Told /\ LetGo
  BY <1>1, NoDragIs DEF Init, Told, LetGo
<1>9. Begun = {} /\ Owed = {}
  <2>1. ToSet(<<>>) = {}
    BY DEF ToSet
  <2> QED
    BY <1>1, <2>1 DEF Begun, Owed
<1>10. \A kind \in Kinds : selection[kind].offer = None
  BY DEF Init
<1>11. drag.offer = None /\ hand.offer = None
  BY DEF Init, NoDrag, Nothing
<1>12. HeldOffers \subseteq {None}
  BY <1>9, <1>10, <1>11 DEF HeldOffers
<1>13. Owned /\ Apart
  BY <1>9, <1>10, <1>11, <1>12 DEF Init, Owned, Apart
<1>14. Coming
  BY <1>2, <1>12 DEF Init, Coming, None
<1>15. Asked
  BY <1>2, <1>9 DEF Init, Asked
<1> QED
  BY <1>7, <1>8, <1>13, <1>14, <1>15 DEF Consistent

LEMMA StaysConsistent == Consistent /\ [Next]_vars => Consistent'
<1> SUFFICES ASSUME Consistent, [Next]_vars PROVE Consistent'
  OBVIOUS
<1>1. Types /\ Told /\ LetGo /\ Owned /\ Coming /\ Apart /\ Asked
  BY DEF Consistent
<1>2. Types'
  <2>1. /\ SelectionTypes /\ TransferTypes /\ DragTypes /\ Steps
        /\ inbox \in Seq(SomeEvent) /\ events \in Ids /\ transfers \in Seq(SomeTransfer)
    BY <1>1 DEF Types, TransferTypes
  <2>2. SelectionTypes' /\ inbox' \in Seq(SomeEvent) /\ events' \in Ids
    BY <2>1, SelectionKept, InboxKept, EventsKept
  <2>3. TransferTypes' /\ DragTypes' /\ Steps'
    BY <2>1, TransfersKept, DragKept, StepsKept
  <2> QED
    BY <2>2, <2>3 DEF Types
<1>3. Told' /\ LetGo'
  BY <1>1, ToldKept
<1>4. Coming' /\ Owned' /\ Apart'
  BY <1>1, ComingKept, OwnedKept
<1>5. Asked'
  BY <1>1, AskedKept
<1> QED
  BY <1>2, <1>3, <1>4, <1>5 DEF Consistent

\* The client's account of its selections, reads, transfers and drags is consistent at
\* every step, between the handlers and within them.
LEMMA AlwaysConsistent == Spec => []Consistent
<1>1. Init => Consistent
  BY Starts
<1>2. Consistent /\ [Next]_vars => Consistent'
  BY StaysConsistent
<1> QED
  BY <1>1, <1>2, PTL DEF Spec

LEMMA TypesAreRight == Consistent => TypeOK
<1> SUFFICES ASSUME Consistent PROVE TypeOK
  OBVIOUS
<1>1. SelectionTypes /\ TransferTypes /\ DragTypes /\ events \in Ids /\ Owned
  BY DEF Consistent, Types
<1>2. SomePipe \subseteq Pipes
  BY DEF SomePipe
<1>3. /\ selection \in [Kinds -> [owns : BOOLEAN, source : 0..MaxEvents, offer : 0..MaxEvents,
                                  readable : BOOLEAN, generation : Nat]]
      /\ owner \in [Kinds -> {Other} \cup 0..MaxEvents]
  BY <1>1 DEF SelectionTypes, SomeSelection, Ids
<1>4. reads \in [Reads -> [at : {"unused", "pending", "complete", "answered"},
                           kind : Kinds \cup {"none"}, offer : 0..MaxEvents,
                           text : 0..MaxPieces]]
  BY <1>1 DEF TransferTypes, SomeRead, Ids
<1>5. transfers \in Seq([read : 0..MaxReads, kind : Kinds, generation : Nat,
                         failed : BOOLEAN, pipe : Pipes])
  <2>1. PICK S : S = [read : 0..MaxReads, kind : Kinds, generation : Nat,
                      failed : BOOLEAN, pipe : Pipes]
    OBVIOUS
  <2>2. SomeTransfer \subseteq S
    BY <1>2, <2>1 DEF SomeTransfer
  <2>3. \A i \in 1..Len(transfers) : transfers[i] \in S
    BY <1>1, <2>2 DEF TransferTypes
  <2>4. transfers \in Seq(S)
    BY <1>1, <2>2 DEF TransferTypes
  <2> QED
    BY <2>1, <2>4
<1>6. drag \in [offer : 0..MaxEvents, over : BOOLEAN, typed : BOOLEAN, dropped : BOOLEAN,
                copy : BOOLEAN, pipe : {<<>>} \cup [1..1 -> Pipes]]
  <2>1. [1..1 -> SomePipe] \subseteq [1..1 -> Pipes]
    BY <1>2
  <2>2. drag \in SomeDrag
    BY <1>1 DEF DragTypes
  <2> QED
    BY <2>1, <2>2 DEF SomeDrag, Ids
<1>7. hand \in [offer : 0..MaxEvents, over : BOOLEAN, whole : BOOLEAN]
  BY <1>1 DEF DragTypes, Ids
<1>8. {dragging, window, inside, unpaired} \subseteq BOOLEAN
  BY <1>1 DEF DragTypes
<1>9. (drag.over => window) /\ Len(transfers) <= MaxTransfers /\ offers = HeldOffers \ {None}
      /\ events \in 0..MaxEvents
  BY <1>1 DEF DragTypes, TransferTypes, Owned, Ids
<1> QED
  BY <1>3, <1>4, <1>5, <1>6, <1>7, <1>8, <1>9 DEF TypeOK

\* The parts of the state have the shapes the code gives them, and the wl_data_offer
\* objects that exist are exactly those the client holds: whatever handler, callback or
\* event comes next, none is leaked and none is held once it is destroyed.
THEOREM TypeCorrect == Spec => []TypeOK
  BY AlwaysConsistent, TypesAreRight, PTL

\* Whatever comes between them, the window hears of the end of every drag it was told of
\* before it hears of the next, and of no end without a drag.
THEOREM DragEventsArePaired == Spec => []DragEventsPair
<1>1. Consistent => DragEventsPair
  <2> SUFFICES ASSUME Consistent PROVE DragEventsPair
    OBVIOUS
  <2>1. Told /\ LetGo
    BY DEF Consistent
  <2> QED
    BY <2>1 DEF Told, DragEventsPair, Silent
<1> QED
  BY <1>1, AlwaysConsistent, PTL

Answered ==
  \A r \in Reads :
    (reads[r].at = "pending" /\ reads'[r].at = "complete" /\ reads'[r].text # 0)
      => /\ TransferOf(r).pipe.closed
         /\ reads'[r].text = TransferOf(r).pipe.sent
         /\ reads[r].offer = selection[reads[r].kind].offer

LEMMA TransferOfRead ==
  ASSUME Types, Asked, NEW i \in DOMAIN transfers, transfers[i].read # None
  PROVE  TransferOf(transfers[i].read) = transfers[i]
<1>1. PICK r, t : r = transfers[i].read /\ t = transfers[i]
  OBVIOUS
<1>2. t \in ToSet(transfers) /\ t.read = r
  BY <1>1 DEF ToSet
<1>3. ASSUME NEW u \in ToSet(transfers), u.read = r PROVE u = t
  <2>1. PICK j \in DOMAIN transfers : u = transfers[j]
    BY DEF ToSet
  <2> QED
    BY <1>1, <1>3, <2>1 DEF Asked
<1> QED
  BY <1>1, <1>2, <1>3 DEF TransferOf

LEMMA ErasedIsWhole ==
  ASSUME Types, Asked, EraseTransfer
  PROVE  Answered
<1>1. PICK k \in DOMAIN transfers : k = Current
  BY DEF EraseTransfer
<1>2. PICK t : t = transfers[k]
  OBVIOUS
<1>3. t \in SomeTransfer /\ t.pipe \in SomePipe /\ t.kind \in Kinds /\ t.generation \in Nat
  BY <1>2, TransferFields
<1> SUFFICES ASSUME NEW r \in Reads, reads[r].at = "pending", reads'[r].at = "complete",
                    reads'[r].text # 0
             PROVE  /\ TransferOf(r).pipe.closed
                    /\ reads'[r].text = TransferOf(r).pipe.sent
                    /\ reads[r].offer = selection[reads[r].kind].offer
  BY DEF Answered
<1>4. r # None
  BY TransferAssumption DEF Reads, None
<1>5. t.read = r /\ reads'[r].text = Text(t)
  <2>1. CASE t.read = None
    <3>1. UNCHANGED reads
      BY <1>1, <1>2, <2>1 DEF EraseTransfer
    <3> QED
      BY <3>1
  <2>2. CASE t.read # None
    <3>1. PICK q \in Reads : q = t.read
      BY <1>2, <2>2, TransferFields
    <3>2. PICK text : text = Text(t)
      OBVIOUS
    <3>3. reads' = [reads EXCEPT ![q].at = "complete", ![q].text = text]
      BY <1>1, <1>2, <2>2, <3>1, <3>2 DEF EraseTransfer
    <3>4. reads' = [reads EXCEPT ![q] = [reads[q] EXCEPT !.at = "complete", !.text = text]]
      BY <3>3, TransferFields
    <3>5. reads[q] \in SomeRead
      BY TransferFields
    <3>6. [reads[q] EXCEPT !.at = "complete", !.text = text].text = text
      BY <3>5 DEF SomeRead
    <3>7. r # q => reads'[r] = reads[r]
      BY <3>4, TransferFields
    <3>8. r = q
      BY <3>7
    <3> QED
      BY <3>1, <3>2, <3>4, <3>6, <3>8, TransferFields
  <2> QED
    BY <2>1, <2>2
<1>6. TransferOf(r) = t
  BY <1>2, <1>4, <1>5, TransferOfRead
<1>7. ~Cancelled(t) /\ Succeeds(t.pipe) /\ Text(t) = t.pipe.got
  BY <1>5 DEF Text, TakeText
<1>8. t.pipe.closed /\ t.pipe.got = t.pipe.sent
  BY <1>7 DEF Succeeds, AtEnd
<1>9. t.generation = selection[t.kind].generation
  BY <1>4, <1>5, <1>7 DEF Cancelled
<1>10. Knows(t, reads, selection)
  BY <1>2, <1>4, <1>5 DEF Asked
<1>11. reads[r].kind = t.kind /\ reads[r].offer = selection[t.kind].offer
  BY <1>5, <1>9, <1>10 DEF Knows
<1> QED
  BY <1>5, <1>6, <1>7, <1>8, <1>11

\* For any number of reads, selections and transfers at once: a read that brings text
\* brings all that the source of its offer wrote before it closed the pipe, and that
\* offer is the selection still.
THEOREM AnswersAreWhole == Spec => AnswersAreComplete
<1>1. Consistent /\ [Next]_vars => [Answered]_vars
  <2> SUFFICES ASSUME Consistent, [Next]_vars PROVE Answered \/ UNCHANGED vars
    OBVIOUS
  <2>1. Types /\ Asked
    BY DEF Consistent
  <2>2. CASE EraseTransfer
    BY <2>1, <2>2, ErasedIsWhole
  <2>3. ASSUME \A r \in Reads : reads'[r].at = "complete" => reads[r].at # "pending"
        PROVE  Answered
    BY <2>3 DEF Answered
  <2>4. ASSUME NEW kind \in Kinds, ReadAsync(kind) PROVE Answered
    <3>1. PICK r \in Reads : reads[r].at = "unused"
                             /\ \E p : p.at # "complete" /\ reads' = [reads EXCEPT ![r] = p]
      BY <2>4 DEF ReadAsync
    <3> QED
      BY <2>1, <2>3, <3>1, TransferFields
  <2>5. CASE Answer
    <3>1. PICK h : h = Head(todo)[2]
      OBVIOUS
    <3>2. reads' = [reads EXCEPT ![h].at = "answered"]
      BY <2>5, <3>1 DEF Answer
    <3>3. \A r \in Reads : reads'[r].at \in {reads[r].at, "answered"}
      BY <2>1, <3>2, TransferFields DEF SomeRead
    <3> QED
      BY <2>3, <3>3
  <2>6. CASE UNCHANGED reads
    BY <2>3, <2>6
  <2> QED
    BY <2>2, <2>4, <2>5, <2>6, Leaves
       DEF Next, UserStep, DesktopStep, PeerStep, Timeout, HandlerStep, LoopStep, vars
<1> QED
  BY <1>1, AlwaysConsistent, PTL DEF Spec, AnswersAreComplete, Answered
===============================================================================
