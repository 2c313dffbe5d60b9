----------------------------- MODULE SignalProofs -----------------------------
(***************************************************************************)
(* Theorems about Signal, for any number of threads, loops, slots,          *)
(* emissions and nested frames.                                             *)
(***************************************************************************)
EXTENDS Signal, WellFoundedInduction, TLAPS

Below == {pair \in Nat \X Nat : pair[1] < pair[2]}

\* A nonempty set of slots has a first one.
LEMMA SmallestIsIn ==
  ASSUME NEW S, S \subseteq Nat, S # {}
  PROVE  Smallest(S) \in S
<1>0. IsWellFoundedOn(Below, Nat)
  BY NatLessThanWellFounded, Zenon DEF OpToRel, Below
<1>1. \E s \in S : \A t \in S : <<t, s>> \notin Below
  BY <1>0, WFMin, Zenon
<1>2. PICK s \in S : \A t \in S : <<t, s>> \notin Below
  BY <1>1
<1>3. \A t \in S : s <= t
  <2> TAKE t \in S
  <2>1. <<t, s>> \notin Below /\ s \in Nat /\ t \in Nat
    BY <1>2
  <2> QED
    BY <2>1 DEF Below
<1> QED
  BY <1>3 DEF Smallest

\* calls without its i-th element.
LEMMA TakenIs ==
  ASSUME NEW S, NEW calls \in Seq(S), NEW i \in 1..Len(calls)
  PROVE  /\ Taken(calls, i) \in Seq(S)
         /\ Len(Taken(calls, i)) = Len(calls) - 1
         /\ \A j \in 1..(Len(calls) - 1) :
              Taken(calls, i)[j] = IF j < i THEN calls[j] ELSE calls[j + 1]
<1> DEFINE left  == SubSeq(calls, 1, i - 1)
           right == SubSeq(calls, i + 1, Len(calls))
<1>1. /\ left \in Seq(S) /\ Len(left) = i - 1
      /\ \A j \in 1..(i - 1) : left[j] = calls[j]
  OBVIOUS
<1>2. /\ right \in Seq(S) /\ Len(right) = Len(calls) - i
      /\ \A j \in 1..(Len(calls) - i) : right[j] = calls[j + i]
  OBVIOUS
<1>3. Taken(calls, i) = left \o right
  BY DEF Taken
<1> HIDE DEF left, right
<1>4. Len(left \o right) = Len(calls) - 1 /\ left \o right \in Seq(S)
  BY <1>1, <1>2
<1>5. ASSUME NEW j \in 1..(Len(calls) - 1)
      PROVE  (left \o right)[j] = IF j < i THEN calls[j] ELSE calls[j + 1]
  <2>1. CASE j < i
    BY <1>1, <1>2, <2>1
  <2>2. CASE ~(j < i)
    <3>1. (left \o right)[j] = right[j - (i - 1)]
      BY <1>1, <1>2, <2>2
    <3>2. j - (i - 1) \in 1..(Len(calls) - i) /\ (j - (i - 1)) + i = j + 1
      BY <2>2
    <3> QED
      BY <1>2, <2>2, <3>1, <3>2
  <2> QED
    BY <2>1, <2>2
<1> QED
  BY <1>3, <1>4, <1>5

-----------------------------------------------------------------------------
\* The frames of a thread when its innermost one changes, is entered or is left.
Shape(f) == IF f.stage = "next" THEN f.slot = NoSlot
            ELSE f.todo # {} /\ f.slot = Smallest(f.todo)

Stacks == [Threads -> Seq(Frames)]

LEMMA SlotIsLeft ==
  ASSUME NEW f \in Frames, Shape(f), f.stage # "next"
  PROVE  f.slot \in f.todo /\ f.slot \in Slots
<1>1. f.todo \subseteq Nat /\ f.todo \subseteq Slots
  BY DEF Frames, Slots
<1> QED
  BY <1>1, SmallestIsIn DEF Shape

LEMMA SetTopIs ==
  ASSUME stack \in Stacks, NEW t \in Threads, stack[t] # <<>>, NEW f \in Frames, SetTop(t, f)
  PROVE  /\ stack' \in Stacks
         /\ Len(stack'[t]) = Len(stack[t]) /\ Len(stack[t]) \in Nat /\ Len(stack[t]) >= 1
         /\ stack'[t][1] = f
         /\ \A i \in 2..Len(stack[t]) : stack'[t][i] = stack[t][i]
         /\ \A u \in Threads \ {t} : stack'[u] = stack[u]
<1>1. stack[t] \in Seq(Frames)
  BY DEF Stacks
<1>2. /\ <<f>> \o Tail(stack[t]) \in Seq(Frames)
      /\ Len(<<f>> \o Tail(stack[t])) = Len(stack[t])
      /\ (<<f>> \o Tail(stack[t]))[1] = f
      /\ \A i \in 2..Len(stack[t]) : (<<f>> \o Tail(stack[t]))[i] = stack[t][i]
  BY <1>1
<1>3. stack'[t] = <<f>> \o Tail(stack[t])
  BY DEF SetTop, Stacks
<1> QED
  BY <1>1, <1>2, <1>3 DEF SetTop, Stacks

Enters(t, e, todo) == \E queued \in BOOLEAN : Enter(t, e, todo, queued)

LEMMA EnterIs ==
  ASSUME stack \in Stacks, NEW t \in Threads, NEW e \in Emissions, NEW todo \in SUBSET Slots,
         Enters(t, e, todo)
  PROVE  /\ stack' \in Stacks
         /\ Len(stack'[t]) = Len(stack[t]) + 1 /\ Len(stack[t]) \in Nat
         /\ stack'[t][1].emission = e /\ stack'[t][1].todo = todo
         /\ stack'[t][1].slot = NoSlot /\ stack'[t][1].stage = "next"
         /\ \A i \in 2..(Len(stack[t]) + 1) :
              stack'[t][i] = stack[t][i - 1] /\ i - 1 \in 1..Len(stack[t])
         /\ \A u \in Threads \ {t} : stack'[u] = stack[u]
<1> PICK queued \in BOOLEAN : Enter(t, e, todo, queued)
  BY DEF Enters
<1> DEFINE f == [emission |-> e, todo |-> todo, slot |-> NoSlot, stage |-> "next",
                 queued |-> queued]
<1>1. stack[t] \in Seq(Frames)
  BY DEF Stacks
<1>2. f \in Frames
  BY DEF Frames
<1>3. stack' = [stack EXCEPT ![t] = <<f>> \o @]
  BY DEF Enter
<1>4. stack'[t] = <<f>> \o stack[t]
  BY <1>3 DEF Stacks
<1> HIDE DEF f
<1>5. /\ <<f>> \o stack[t] \in Seq(Frames)
      /\ Len(<<f>> \o stack[t]) = Len(stack[t]) + 1 /\ Len(stack[t]) \in Nat
      /\ (<<f>> \o stack[t])[1] = f
      /\ \A i \in 2..(Len(stack[t]) + 1) :
           (<<f>> \o stack[t])[i] = stack[t][i - 1] /\ i - 1 \in 1..Len(stack[t])
  BY <1>1, <1>2
<1>6. stack' \in Stacks /\ \A u \in Threads \ {t} : stack'[u] = stack[u]
  BY <1>3, <1>5 DEF Stacks
<1> QED
  BY <1>4, <1>5, <1>6 DEF f

LEMMA LeaveIs ==
  ASSUME stack \in Stacks, NEW t \in Threads, stack[t] # <<>>, Leave(t)
  PROVE  /\ stack' \in Stacks
         /\ Len(stack'[t]) = Len(stack[t]) - 1 /\ Len(stack[t]) \in Nat
         /\ \A i \in 1..(Len(stack[t]) - 1) :
              stack'[t][i] = stack[t][i + 1] /\ i + 1 \in 1..Len(stack[t])
         /\ \A u \in Threads \ {t} : stack'[u] = stack[u]
<1>1. stack[t] \in Seq(Frames)
  BY DEF Stacks
<1>2. stack' = [stack EXCEPT ![t] = Tail(stack[t])]
  BY DEF Leave
<1>3. Tail(stack[t]) \in Seq(Frames)
  BY <1>1
<1> QED
  BY <1>1, <1>2, <1>3 DEF Stacks

-----------------------------------------------------------------------------
(***************************************************************************)
(* The invariant.                                                           *)
(***************************************************************************)
Issued == 1..(nextSlot - 1)

SlotTypes ==
  /\ alive \in BOOLEAN /\ queueable \in BOOLEAN
  /\ nextSlot \in 1..(MaxSlots + 1)
  /\ slots \subseteq Issued /\ connected \subseteq slots
  /\ home \in [Issued -> Threads]
  /\ posting \subseteq Issued

LoopTypes == loops \subseteq LoopThreads /\ inbox \in [LoopThreads -> Seq(Emissions \X Slots)]

HistoryTypes ==
  /\ nextEmit \in 1..(MaxEmits + 1)
  /\ promised \in [Emissions -> SUBSET Issued]
  /\ started \subseteq Emissions \X Slots
  /\ excused \subseteq Emissions \X Slots
  /\ silencedBy \in [Slots -> SUBSET Threads]

\* A frame walks what its emission promised, a delivery only what is at home on its
\* thread. Inside a slot's callback the call was counted and is made where the slot is
\* at home; a slot that is about to be called was not silenced by the thread that calls
\* it.
FrameInv(t, f) ==
  /\ Shape(f)
  /\ f.emission < nextEmit /\ f.todo \subseteq promised[f.emission]
  /\ f.stage = "inside" =>
       /\ <<f.emission, f.slot>> \in started
       /\ f.slot \in posting => home[f.slot] = t
  /\ f.stage = "checked" => t \notin silencedBy[f.slot]
  /\ f.queued => \A s \in f.todo : home[s] = t

\* Only user code nests frames.
StackInv ==
  \A t \in Threads : \A i \in 1..Len(stack[t]) :
    FrameInv(t, stack[t][i]) /\ (i > 1 => stack[t][i].stage = "inside")

\* A queued call is one its emission promised, and waits where its slot is at home.
InboxInv ==
  \A t \in LoopThreads : \A i \in 1..Len(inbox[t]) :
    /\ inbox[t][i][1] < nextEmit /\ inbox[t][i][2] \in promised[inbox[t][i][1]]
    /\ home[inbox[t][i][2]] = t

\* A connected slot was silenced by nobody, nor was one that is yet to come.
Silence == \A s \in Slots : silencedBy[s] # {} => s \in Issued \ connected

Types == SlotTypes /\ LoopTypes /\ HistoryTypes /\ stack \in Stacks

SigInv == Types /\ StackInv /\ InboxInv /\ Silence

LEMMA SigInvTypes == SigInv => TypeOK
<1> SUFFICES ASSUME SigInv PROVE TypeOK
  OBVIOUS
<1>1. \A t \in Threads : DOMAIN stack[t] = 1..Len(stack[t])
  BY DEF SigInv, Types, Stacks
<1> QED
  BY <1>1 DEF SigInv, Types, SlotTypes, LoopTypes, HistoryTypes, StackInv, FrameInv, Shape,
              Issued, Stacks, TypeOK

LEMMA SigInvHome == SigInv => RunsAtHome
<1>1. SigInv => \A t \in Threads : DOMAIN stack[t] = 1..Len(stack[t])
  BY DEF SigInv, Types, Stacks
<1> QED
  BY <1>1 DEF SigInv, StackInv, FrameInv, RunsAtHome

LEMMA SigInvInit == Init => SigInv
<1> SUFFICES ASSUME Init PROVE SigInv
  OBVIOUS
<1> USE SignalAssumption DEF SignalAssumption
<1>1. 1..0 = {} /\ nextSlot - 1 = 0
  BY DEF Init
<1>2. SlotTypes
  BY <1>1 DEF Init, SlotTypes, Issued
<1>3. LoopTypes
  BY DEF Init, LoopTypes
<1>4. HistoryTypes
  BY DEF Init, HistoryTypes
<1>5. stack \in Stacks /\ \A t \in Threads : Len(stack[t]) = 0
  BY DEF Init, Stacks
<1>6. \A t \in LoopThreads : Len(inbox[t]) = 0
  BY DEF Init
<1>7. Silence
  BY DEF Init, Silence
<1> QED
  BY <1>1, <1>2, <1>3, <1>4, <1>5, <1>6, <1>7 DEF SigInv, Types, StackInv, InboxInv

-----------------------------------------------------------------------------
\* What the other steps are to a frame: emissions and calls only accumulate, a slot
\* keeps its home, and nobody but the stepping thread silences anything.
Later(t) ==
  /\ nextEmit' \in {nextEmit, nextEmit + 1}
  /\ \A e \in Emissions : e < nextEmit => promised'[e] = promised[e]
  /\ started \subseteq started'
  /\ \A s \in Issued : home'[s] = home[s] /\ (s \in posting' <=> s \in posting)
  /\ \A s \in Slots : silencedBy'[s] \subseteq silencedBy[s] \cup {t}

\* A frame that the step leaves alone keeps its part of the invariant.
LEMMA FrameKept ==
  ASSUME Types, NEW t \in Threads, Later(t), NEW u \in Threads, NEW f \in Frames,
         FrameInv(u, f), u = t /\ f.stage = "checked" => UNCHANGED silencedBy
  PROVE  FrameInv(u, f)'
<1>1. f.emission \in Emissions /\ nextEmit \in Nat /\ f.emission \in Nat
  BY DEF Frames, Types, HistoryTypes, Emissions
<1>2. promised'[f.emission] = promised[f.emission]
  BY <1>1 DEF Later, FrameInv
<1>3. f.emission < nextEmit'
  BY <1>1 DEF Later, FrameInv
<1>6. f.queued => \A s \in f.todo : home'[s] = u
  <2>1. \A s \in f.todo : s \in Issued
    BY <1>1 DEF FrameInv, Types, HistoryTypes
  <2> QED
    BY <2>1 DEF Later, FrameInv
<1>4. CASE f.stage = "next"
  BY <1>2, <1>3, <1>4, <1>6 DEF FrameInv, Shape
<1>5. CASE f.stage # "next"
  <2>1. f.slot \in f.todo /\ f.slot \in Slots /\ f.slot \in Issued
    BY <1>1, <1>5, SlotIsLeft DEF FrameInv, Types, HistoryTypes
  <2>2. f.stage = "checked" => u \notin silencedBy'[f.slot]
    BY <2>1 DEF Later, FrameInv
  <2>3. f.stage = "inside" =>
          /\ <<f.emission, f.slot>> \in started'
          /\ f.slot \in posting' => home'[f.slot] = u
    BY <2>1 DEF Later, FrameInv
  <2> QED
    BY <1>2, <1>3, <1>6, <2>2, <2>3 DEF FrameInv, Shape
<1> QED
  BY <1>4, <1>5

LEMMA UserFrames ==
  ASSUME SigInv, NEW t \in Threads, InUserCode(t)
  PROVE  \A i \in 1..Len(stack[t]) : stack[t][i].stage = "inside"
<1>1. stack[t] \in Seq(Frames)
  BY DEF SigInv, Types, Stacks
<1>2. stack[t] # <<>> => stack[t][1].stage = "inside"
  BY <1>1 DEF InUserCode, At, Top
<1> QED
  BY <1>1, <1>2 DEF SigInv, StackInv

LEMMA Above ==
  ASSUME SigInv, NEW u \in Threads, NEW i \in 1..Len(stack[u])
  PROVE  /\ stack[u][i] \in Frames /\ FrameInv(u, stack[u][i])
         /\ i > 1 => stack[u][i].stage = "inside"
<1>1. stack[u] \in Seq(Frames)
  BY DEF SigInv, Types, Stacks
<1> QED
  BY <1>1 DEF SigInv, StackInv

\* User code that leaves the stack alone.
LEMMA StackKept ==
  ASSUME SigInv, NEW t \in Threads, Later(t), UNCHANGED stack, InUserCode(t)
  PROVE  StackInv'
<1>1. ASSUME NEW u \in Threads, NEW i \in 1..Len(stack[u])
      PROVE  FrameInv(u, stack[u][i])' /\ (i > 1 => stack[u][i].stage = "inside")
  <2> DEFINE f == stack[u][i]
  <2>1. f \in Frames /\ FrameInv(u, f) /\ (i > 1 => f.stage = "inside")
    BY Above
  <2>2. u = t => f.stage = "inside"
    BY UserFrames
  <2>3. stack'[u][i] = f
    OBVIOUS
  <2>4. PICK g \in Frames : g = f
    BY <2>1
  <2>5. FrameInv(u, g)'
    BY <2>1, <2>2, <2>4, FrameKept DEF SigInv
  <2> QED
    BY <2>1, <2>3, <2>4, <2>5 DEF FrameInv
<1> QED
  BY <1>1 DEF StackInv

\* A frame of old that the step moved or left in its place.
LEMMA OldFrame ==
  ASSUME SigInv, NEW t \in Threads, Later(t), UNCHANGED silencedBy,
         NEW u \in Threads, NEW i \in 1..Len(stack[u]), NEW j, stack'[u][j] = stack[u][i]
  PROVE  FrameInv(u, stack[u][j])' /\ stack'[u][j].stage = stack[u][i].stage
<1>1. stack[u][i] \in Frames /\ FrameInv(u, stack[u][i])
  BY Above
<1>2. PICK g \in Frames : g = stack[u][i]
  BY <1>1
<1>3. FrameInv(u, g)'
  BY <1>1, <1>2, FrameKept DEF SigInv
<1> QED
  BY <1>2, <1>3 DEF FrameInv

\* The innermost frame of t becomes f.
LEMMA StackSet ==
  ASSUME SigInv, NEW t \in Threads, Later(t), UNCHANGED silencedBy, stack[t] # <<>>,
         NEW f \in Frames, SetTop(t, f), FrameInv(t, f)'
  PROVE  stack' \in Stacks /\ StackInv'
<1>1. stack \in Stacks
  BY DEF SigInv, Types
<1>2. /\ stack' \in Stacks
      /\ Len(stack'[t]) = Len(stack[t]) /\ Len(stack[t]) \in Nat /\ Len(stack[t]) >= 1
      /\ stack'[t][1] = f
      /\ \A i \in 2..Len(stack[t]) : stack'[t][i] = stack[t][i]
      /\ \A u \in Threads \ {t} : stack'[u] = stack[u]
  BY <1>1, SetTopIs
<1>3. FrameInv(t, stack[t][1])'
  BY <1>2 DEF FrameInv
<1>4. \A i \in 2..Len(stack[t]) : FrameInv(t, stack[t][i])' /\ stack'[t][i].stage = "inside"
  <2> TAKE i \in 2..Len(stack[t])
  <2>1. i \in 1..Len(stack[t]) /\ i > 1
    BY <1>2
  <2> QED
    BY <1>2, <2>1, OldFrame, Above
<1>5. ASSUME NEW u \in Threads \ {t}, NEW i \in 1..Len(stack[u])
      PROVE  FrameInv(u, stack[u][i])' /\ (i > 1 => stack'[u][i].stage = "inside")
  BY <1>2, OldFrame, Above
<1>6. ASSUME NEW u \in Threads, NEW i \in 1..Len(stack'[u])
      PROVE  FrameInv(u, stack[u][i])' /\ (i > 1 => stack'[u][i].stage = "inside")
  <2>1. CASE u # t
    BY <1>2, <1>5, <2>1
  <2>2. CASE u = t
    <3>1. i = 1 \/ i \in 2..Len(stack[t])
      BY <1>2, <2>2
    <3> QED
      BY <1>3, <1>4, <2>2, <3>1
  <2> QED
    BY <2>1, <2>2
<1> QED
  BY <1>2, <1>6 DEF StackInv

\* t goes into a new frame.
LEMMA StackEnter ==
  ASSUME SigInv, NEW t \in Threads, Later(t), UNCHANGED silencedBy, InUserCode(t),
         NEW e \in Emissions, NEW todo \in SUBSET Slots,
         Enters(t, e, todo), e < nextEmit', todo \subseteq promised'[e],
         ~Head(stack'[t]).queued \/ \A s \in todo : home'[s] = t
  PROVE  stack' \in Stacks /\ StackInv'
<1>1. stack \in Stacks
  BY DEF SigInv, Types
<1>2. /\ stack' \in Stacks
      /\ Len(stack'[t]) = Len(stack[t]) + 1 /\ Len(stack[t]) \in Nat
      /\ stack'[t][1].emission = e /\ stack'[t][1].todo = todo
      /\ stack'[t][1].slot = NoSlot /\ stack'[t][1].stage = "next"
      /\ \A i \in 2..(Len(stack[t]) + 1) :
           stack'[t][i] = stack[t][i - 1] /\ i - 1 \in 1..Len(stack[t])
      /\ \A u \in Threads \ {t} : stack'[u] = stack[u]
  BY <1>1, EnterIs
<1>3. FrameInv(t, stack[t][1])'
  <2>1. Head(stack'[t]) = stack'[t][1]
    BY <1>2 DEF Stacks
  <2>2. stack'[t][1].queued => \A s \in stack'[t][1].todo : home'[s] = t
    BY <1>2, <2>1
  <2> QED
    BY <1>2, <2>2 DEF FrameInv, Shape
<1>4. \A i \in 2..(Len(stack[t]) + 1) :
        FrameInv(t, stack[t][i])' /\ stack'[t][i].stage = "inside"
  <2> TAKE i \in 2..(Len(stack[t]) + 1)
  <2>1. stack'[t][i] = stack[t][i - 1] /\ i - 1 \in 1..Len(stack[t])
    BY <1>2
  <2> QED
    BY <2>1, OldFrame, UserFrames
<1>5. ASSUME NEW u \in Threads \ {t}, NEW i \in 1..Len(stack[u])
      PROVE  FrameInv(u, stack[u][i])' /\ (i > 1 => stack'[u][i].stage = "inside")
  BY <1>2, OldFrame, Above
<1>6. ASSUME NEW u \in Threads, NEW i \in 1..Len(stack'[u])
      PROVE  FrameInv(u, stack[u][i])' /\ (i > 1 => stack'[u][i].stage = "inside")
  <2>1. CASE u # t
    BY <1>2, <1>5, <2>1
  <2>2. CASE u = t
    <3>1. i = 1 \/ i \in 2..(Len(stack[t]) + 1)
      BY <1>2, <2>2
    <3> QED
      BY <1>3, <1>4, <2>2, <3>1
  <2> QED
    BY <2>1, <2>2
<1> QED
  BY <1>2, <1>6 DEF StackInv

\* t leaves its innermost frame.
LEMMA StackLeave ==
  ASSUME SigInv, NEW t \in Threads, Later(t), UNCHANGED silencedBy, stack[t] # <<>>, Leave(t)
  PROVE  stack' \in Stacks /\ StackInv'
<1>1. stack \in Stacks
  BY DEF SigInv, Types
<1>2. /\ stack' \in Stacks
      /\ Len(stack'[t]) = Len(stack[t]) - 1 /\ Len(stack[t]) \in Nat
      /\ \A i \in 1..(Len(stack[t]) - 1) :
           stack'[t][i] = stack[t][i + 1] /\ i + 1 \in 1..Len(stack[t])
      /\ \A u \in Threads \ {t} : stack'[u] = stack[u]
  BY <1>1, LeaveIs
<1>3. \A i \in 1..(Len(stack[t]) - 1) :
        FrameInv(t, stack[t][i])' /\ stack'[t][i].stage = "inside"
  <2> TAKE i \in 1..(Len(stack[t]) - 1)
  <2>1. stack'[t][i] = stack[t][i + 1] /\ i + 1 \in 1..Len(stack[t]) /\ i + 1 > 1
    BY <1>2
  <2> QED
    BY <2>1, OldFrame, Above
<1>4. ASSUME NEW u \in Threads \ {t}, NEW i \in 1..Len(stack[u])
      PROVE  FrameInv(u, stack[u][i])' /\ (i > 1 => stack'[u][i].stage = "inside")
  BY <1>2, OldFrame, Above
<1> QED
  BY <1>2, <1>3, <1>4 DEF StackInv

\* The innermost frame.
LEMMA TopIs ==
  ASSUME SigInv, NEW t \in Threads, stack[t] # <<>>
  PROVE  /\ Top(t) = stack[t][1] /\ 1 \in 1..Len(stack[t])
         /\ Top(t) \in Frames /\ FrameInv(t, Top(t))
         /\ Top(t).todo \subseteq Slots /\ Top(t).emission \in Emissions
         /\ Top(t).stage # "next" => /\ Top(t).slot \in Top(t).todo
                                     /\ Top(t).slot \in Slots /\ Top(t).slot \in Issued
<1>1. stack[t] \in Seq(Frames)
  BY DEF SigInv, Types, Stacks
<1>2. Top(t) = stack[t][1] /\ 1 \in 1..Len(stack[t])
  BY <1>1 DEF Top
<1>3. Top(t) \in Frames /\ FrameInv(t, Top(t))
  BY <1>2, Above
<1>4. Top(t).todo \subseteq Slots /\ Top(t).emission \in Emissions
  BY <1>3 DEF Frames
<1>5. Top(t).todo \subseteq Issued
  BY <1>3, <1>4 DEF FrameInv, SigInv, Types, HistoryTypes
<1>6. Top(t).stage # "next" => Top(t).slot \in Top(t).todo /\ Top(t).slot \in Slots
  BY <1>3, SlotIsLeft DEF FrameInv
<1> QED
  BY <1>2, <1>3, <1>4, <1>5, <1>6

-----------------------------------------------------------------------------
\* A step that leaves the queues alone and forgets no promise keeps what is queued good.
LEMMA InboxKept ==
  ASSUME SigInv, NEW t \in Threads, Later(t), UNCHANGED inbox
  PROVE  InboxInv'
<1>1. ASSUME NEW u \in LoopThreads, NEW i \in 1..Len(inbox[u])
      PROVE  /\ inbox[u][i][1] < nextEmit' /\ inbox[u][i][2] \in promised'[inbox[u][i][1]]
             /\ home'[inbox[u][i][2]] = u
  <2>1. inbox[u][i] \in Emissions \X Slots
    BY DEF SigInv, Types, LoopTypes
  <2>2. /\ inbox[u][i][1] < nextEmit /\ inbox[u][i][2] \in promised[inbox[u][i][1]]
        /\ home[inbox[u][i][2]] = u
    BY DEF SigInv, InboxInv
  <2>3. inbox[u][i][1] \in Emissions /\ inbox[u][i][1] \in Nat /\ nextEmit \in Nat
    BY <2>1 DEF Emissions, SigInv, Types, HistoryTypes
  <2>4. inbox[u][i][2] \in Issued
    BY <2>2, <2>3 DEF SigInv, Types, HistoryTypes
  <2> QED
    BY <2>2, <2>3, <2>4 DEF Later
<1> QED
  BY <1>1 DEF InboxInv

LEMMA ConnectKeeps ==
  ASSUME SigInv, NEW t \in Threads, Connect(t)
  PROVE  SigInv'
<1> USE SignalAssumption DEF SignalAssumption
<1>1. /\ nextSlot \in Nat /\ nextSlot' = nextSlot + 1 /\ Issued' = Issued \cup {nextSlot}
      /\ Issued \subseteq Issued' /\ nextSlot \notin Issued
  BY DEF SigInv, Types, SlotTypes, Connect, Issued
<1>2. SlotTypes'
  <2>1. nextSlot' \in 1..(MaxSlots + 1)
    BY <1>1 DEF Connect, SigInv, Types, SlotTypes
  <2>2. home' \in [Issued' -> Threads]
    BY <1>1 DEF Connect, SigInv, Types, SlotTypes
  <2>3. slots' \subseteq Issued' /\ connected' \subseteq slots' /\ posting' \subseteq Issued'
    BY <1>1 DEF Connect, SigInv, Types, SlotTypes
  <2> QED
    BY <2>1, <2>2, <2>3 DEF Connect, SigInv, Types, SlotTypes
<1>3. LoopTypes' /\ HistoryTypes' /\ UNCHANGED <<stack, inbox>>
  BY <1>1 DEF Connect, SigInv, Types, LoopTypes, HistoryTypes, loopVars, history
<1>4. Later(t)
  BY <1>1 DEF Connect, SigInv, Types, SlotTypes, Later, history
<1>5. StackInv' /\ InboxInv'
  BY <1>3, <1>4, StackKept, InboxKept DEF Connect
<1>6. Silence'
  BY <1>1 DEF Connect, SigInv, Silence, history
<1> QED
  BY <1>2, <1>3, <1>5, <1>6 DEF SigInv, Types, Stacks

LEMMA DisconnectKeeps ==
  ASSUME SigInv, NEW t \in Threads, NEW s \in Slots, Disconnect(t, s)
  PROVE  SigInv'
<1>1. /\ UNCHANGED <<alive, queueable, slots, nextSlot, home, posting, loops, inbox, stack,
                     nextEmit, promised, started, excused>>
      /\ connected' = connected \ {s} /\ s \in connected
      /\ silencedBy' = [silencedBy EXCEPT ![s] = @ \cup {t}]
  BY DEF Disconnect, loopVars
<1>2. Types'
  BY <1>1 DEF SigInv, Types, SlotTypes, LoopTypes, HistoryTypes, Issued, Stacks
<1>3. Later(t)
  BY <1>1 DEF SigInv, Types, HistoryTypes, Later
<1>4. StackInv' /\ InboxInv'
  BY <1>1, <1>3, StackKept, InboxKept DEF Disconnect
<1>5. Silence'
  BY <1>1 DEF SigInv, Types, SlotTypes, HistoryTypes, Silence, Issued
<1> QED
  BY <1>2, <1>4, <1>5 DEF SigInv

\* DisconnectAll() and ~Signal.
LEMMA UnlistKeeps ==
  ASSUME SigInv, NEW t \in Threads, InUserCode(t), Unlist(t), alive' \in BOOLEAN
  PROVE  SigInv'
<1>1. /\ UNCHANGED <<queueable, nextSlot, home, posting, loops, inbox, stack,
                     nextEmit, promised, started, excused>>
      /\ slots' = {} /\ connected' = connected \ slots
      /\ silencedBy' = [s \in Slots |-> IF s \in slots THEN silencedBy[s] \cup {t}
                                        ELSE silencedBy[s]]
  BY DEF Unlist, loopVars
<1>2. connected' = {}
  BY <1>1 DEF SigInv, Types, SlotTypes
<1>3. Types'
  BY <1>1, <1>2 DEF SigInv, Types, SlotTypes, LoopTypes, HistoryTypes, Issued, Stacks
<1>4. Later(t)
  BY <1>1 DEF SigInv, Types, HistoryTypes, Later
<1>5. StackInv' /\ InboxInv'
  BY <1>1, <1>4, StackKept, InboxKept
<1>6. Silence'
  BY <1>1, <1>2 DEF SigInv, Types, SlotTypes, HistoryTypes, Silence, Issued
<1> QED
  BY <1>3, <1>5, <1>6 DEF SigInv

LEMMA EmitBeginKeeps ==
  ASSUME SigInv, NEW t \in Threads, EmitBegin(t)
  PROVE  SigInv'
<1> USE SignalAssumption DEF SignalAssumption
<1>1. /\ UNCHANGED <<alive, queueable, nextSlot, connected, home, posting, loops, inbox,
                     started, excused, silencedBy>>
      /\ nextEmit' = nextEmit + 1 /\ nextEmit <= MaxEmits /\ nextEmit \in Nat
      /\ slots' = connected /\ InUserCode(t)
      /\ promised' = [promised EXCEPT ![nextEmit] = connected]
      /\ Enter(t, nextEmit, connected, FALSE)
  <2>1. slots' = slots \cap connected /\ connected \subseteq slots
    BY DEF EmitBegin, SigInv, Types, SlotTypes
  <2>2. slots' = connected
    BY <2>1
  <2>3. nextEmit \in Nat
    BY DEF SigInv, Types, HistoryTypes
  <2> QED
    BY <2>2, <2>3 DEF EmitBegin, loopVars
<1>2. nextEmit \in Emissions /\ connected \in SUBSET Slots /\ connected \in SUBSET Issued
  BY <1>1 DEF SigInv, Types, SlotTypes, HistoryTypes, Emissions, Issued, Slots
<1>3. Later(t)
  BY <1>1, <1>2 DEF SigInv, Types, HistoryTypes, Later
<1>4. nextEmit < nextEmit' /\ connected \subseteq promised'[nextEmit]
  BY <1>1, <1>2 DEF SigInv, Types, HistoryTypes
<1>5. stack' \in Stacks /\ StackInv'
  <2>1. ~Head(stack'[t]).queued
    BY <1>1 DEF Enter, SigInv, Types, Stacks
  <2> QED
    BY <1>1, <1>2, <1>3, <1>4, <2>1, StackEnter DEF Enters
<1>6. InboxInv'
  BY <1>1, <1>3, InboxKept
<1>7. SlotTypes' /\ LoopTypes'
  BY <1>1 DEF SigInv, Types, SlotTypes, LoopTypes, Issued
<1>8. HistoryTypes'
  BY <1>1, <1>2 DEF SigInv, Types, HistoryTypes, Issued
<1>9. Silence'
  BY <1>1 DEF SigInv, Silence, Issued
<1> QED
  BY <1>5, <1>6, <1>7, <1>8, <1>9 DEF SigInv, Types

\* Steps of a walk change neither slots nor the emission, and at most add to what was
\* started, excused and queued.
LEMMA WalkKeeps ==
  ASSUME SigInv, NEW t \in Threads, UNCHANGED <<sigVars, nextEmit, promised, silencedBy>>,
         started \subseteq started', started' \subseteq Emissions \X Slots,
         excused' \subseteq Emissions \X Slots, LoopTypes', InboxInv',
         Later(t) => stack' \in Stacks /\ StackInv'
  PROVE  SigInv'
<1>1. Later(t)
  BY DEF Later, sigVars
<1>2. Types'
  BY <1>1 DEF SigInv, Types, SlotTypes, HistoryTypes, sigVars, Issued
<1>3. Silence'
  BY DEF SigInv, Silence, sigVars, Issued
<1> QED
  BY <1>1, <1>2, <1>3 DEF SigInv

\* The frame a walk goes on with.
LEMMA DoneIs ==
  ASSUME SigInv, NEW t \in Threads, stack[t] # <<>>, Later(t), UNCHANGED silencedBy, Done(t)
  PROVE  stack' \in Stacks /\ StackInv'
<1> DEFINE f == [Top(t) EXCEPT !.todo = @ \ {Top(t).slot}, !.slot = NoSlot, !.stage = "next"]
<1>1. Top(t) \in Frames /\ FrameInv(t, Top(t)) /\ Top(t).emission \in Emissions
  BY TopIs
<1>2. /\ f \in Frames /\ f.stage = "next" /\ f.slot = NoSlot /\ f.emission = Top(t).emission
      /\ f.todo \subseteq Top(t).todo /\ f.queued = Top(t).queued
  BY <1>1 DEF Frames
<1>3. SetTop(t, f)
  BY DEF Done
<1> HIDE DEF f
<1>4. nextEmit \in Nat /\ Top(t).emission \in Nat
  BY <1>1 DEF SigInv, Types, HistoryTypes, Emissions
<1>5. PICK g \in Frames : g = f
  BY <1>2
<1>6. g.emission < nextEmit' /\ g.todo \subseteq promised'[g.emission]
  BY <1>1, <1>2, <1>4, <1>5 DEF FrameInv, Later
<1>8. g.queued => \A s \in g.todo : home'[s] = t
  <2>1. \A s \in g.todo : s \in Issued
    BY <1>1, <1>2, <1>5 DEF FrameInv, SigInv, Types, HistoryTypes
  <2> QED
    BY <1>1, <1>2, <1>5, <2>1 DEF FrameInv, Later
<1>7. FrameInv(t, g)'
  BY <1>2, <1>5, <1>6, <1>8 DEF FrameInv, Shape
<1> QED
  BY <1>3, <1>5, <1>7, StackSet

LEMMA CheckKeeps ==
  ASSUME SigInv, NEW t \in Threads, Check(t)
  PROVE  SigInv'
<1> DEFINE s == Smallest(Top(t).todo)
           f == IF s \in connected THEN [Top(t) EXCEPT !.slot = s, !.stage = "checked"]
                ELSE [Top(t) EXCEPT !.todo = @ \ {s}]
<1>1. /\ stack[t] # <<>> /\ Top(t).stage = "next" /\ Top(t).todo # {} /\ SetTop(t, f)
      /\ UNCHANGED <<sigVars, inbox, loops, nextEmit, promised, silencedBy, started, excused>>
  BY DEF Check, At, loopVars, history
<1>2. Top(t) \in Frames /\ FrameInv(t, Top(t)) /\ Top(t).todo \subseteq Slots
  BY <1>1, TopIs
<1>3. s \in Top(t).todo /\ s \in Slots
  <2>1. Top(t).todo \subseteq Nat
    BY <1>2 DEF Slots
  <2> QED
    BY <1>1, <1>2, <2>1, SmallestIsIn
<1>4. /\ f \in Frames /\ f.emission = Top(t).emission /\ f.todo \subseteq Top(t).todo
      /\ f.queued = Top(t).queued
  BY <1>2, <1>3 DEF Frames
<1>5. \/ f.stage = "next" /\ f.slot = NoSlot
      \/ f.stage = "checked" /\ f.slot = s /\ f.todo = Top(t).todo /\ s \in connected
  BY <1>1, <1>2 DEF Frames, FrameInv, Shape
<1> HIDE DEF f
<1>6. f.stage = "checked" => t \notin silencedBy[f.slot]
  BY <1>3, <1>5 DEF SigInv, Silence
<1>7. PICK g \in Frames : g = f
  BY <1>4
<1>8. FrameInv(t, g)'
  <2>1. g.queued => \A r \in g.todo : home'[r] = t
    BY <1>1, <1>2, <1>4, <1>7 DEF FrameInv, sigVars
  <2> QED
    BY <1>1, <1>2, <1>4, <1>5, <1>6, <1>7, <2>1 DEF FrameInv, Shape
<1>9. Later(t)
  BY <1>1 DEF Later, sigVars
<1>10. stack' \in Stacks /\ StackInv' /\ InboxInv'
  BY <1>1, <1>7, <1>8, <1>9, StackSet, InboxKept
<1> QED
  BY <1>1, <1>10, WalkKeeps DEF SigInv, Types, LoopTypes, HistoryTypes

LEMMA CallKeeps ==
  ASSUME SigInv, NEW t \in Threads, Call(t)
  PROVE  SigInv'
<1> DEFINE f == [Top(t) EXCEPT !.stage = "inside"]
           s == Top(t).slot
<1>1. /\ stack[t] # <<>> /\ Top(t).stage = "checked" /\ SetTop(t, f) /\ CallsHere(t)
      /\ UNCHANGED <<sigVars, inbox, loops, nextEmit, promised, silencedBy, excused>>
      /\ started' = started \cup {<<Top(t).emission, s>>}
  BY DEF Call, At, loopVars
<1>2. /\ Top(t) \in Frames /\ FrameInv(t, Top(t)) /\ s \in Slots /\ Top(t).emission \in Emissions
      /\ s \in Top(t).todo
  BY <1>1, TopIs
<1>3. /\ f \in Frames /\ f.emission = Top(t).emission /\ f.todo = Top(t).todo /\ f.slot = s
      /\ f.stage = "inside" /\ f.queued = Top(t).queued
  BY <1>2 DEF Frames
<1> HIDE DEF f
<1>4. PICK g \in Frames : g = f
  BY <1>3
<1>5. Later(t)
  BY <1>1 DEF Later, sigVars
<1>6. stack' \in Stacks /\ StackInv'
  <2>1. /\ g.emission < nextEmit' /\ g.todo \subseteq promised'[g.emission]
        /\ Shape(g) /\ g.stage = "inside"
    BY <1>1, <1>2, <1>3, <1>4 DEF FrameInv, Shape
  <2>2. <<g.emission, g.slot>> \in started' /\ (g.slot \in posting' => home'[g.slot] = t)
    BY <1>1, <1>2, <1>3, <1>4 DEF CallsHere, Direct, FrameInv, sigVars
  <2>4. g.queued => \A r \in g.todo : home'[r] = t
    BY <1>1, <1>2, <1>3, <1>4 DEF FrameInv, sigVars
  <2>3. FrameInv(t, g)'
    BY <2>1, <2>2, <2>4 DEF FrameInv, Shape
  <2> QED
    BY <1>1, <1>4, <1>5, <2>3, StackSet
<1>7. InboxInv'
  BY <1>1, <1>5, InboxKept
<1>8. started' \subseteq Emissions \X Slots /\ started \subseteq started'
  BY <1>1, <1>2 DEF SigInv, Types, HistoryTypes
<1> QED
  BY <1>1, <1>6, <1>7, <1>8, WalkKeeps DEF SigInv, Types, LoopTypes, HistoryTypes

LEMMA CallReturnKeeps ==
  ASSUME SigInv, NEW t \in Threads, CallReturn(t)
  PROVE  SigInv'
<1>1. /\ stack[t] # <<>> /\ Done(t)
      /\ UNCHANGED <<sigVars, inbox, loops, nextEmit, promised, silencedBy, started, excused>>
  BY DEF CallReturn, At, loopVars, history
<1>2. Later(t)
  BY <1>1 DEF Later, sigVars
<1>3. stack' \in Stacks /\ StackInv' /\ InboxInv'
  BY <1>1, <1>2, DoneIs, InboxKept
<1> QED
  BY <1>1, <1>3, WalkKeeps DEF SigInv, Types, LoopTypes, HistoryTypes

LEMMA PostCallKeeps ==
  ASSUME SigInv, NEW t \in Threads, PostCall(t)
  PROVE  SigInv'
<1> DEFINE s    == Top(t).slot
           call == <<Top(t).emission, s>>
<1>1. /\ stack[t] # <<>> /\ Top(t).stage = "checked" /\ Done(t)
      /\ UNCHANGED <<sigVars, loops, nextEmit, promised, silencedBy, started>>
      /\ \/ /\ home[s] \in loops
            /\ inbox' = [inbox EXCEPT ![home[s]] = Append(@, call)] /\ UNCHANGED excused
         \/ excused' = excused \cup {call} /\ UNCHANGED inbox
  BY DEF PostCall, At
<1>2. /\ Top(t) \in Frames /\ FrameInv(t, Top(t)) /\ s \in Slots /\ s \in Top(t).todo
      /\ Top(t).emission \in Emissions
  BY <1>1, TopIs
<1>3. /\ call \in Emissions \X Slots /\ call[1] < nextEmit /\ call[2] \in promised[call[1]]
      /\ call[2] = s
  BY <1>2 DEF FrameInv
<1> HIDE DEF call
<1>4. Later(t)
  BY <1>1 DEF Later, sigVars
<1>5. stack' \in Stacks /\ StackInv'
  BY <1>1, <1>4, DoneIs
<1>6. LoopTypes' /\ InboxInv' /\ excused' \subseteq Emissions \X Slots
  <2>1. CASE UNCHANGED inbox /\ excused' = excused \cup {call}
    BY <1>1, <1>3, <1>4, <2>1, InboxKept DEF SigInv, Types, LoopTypes, HistoryTypes
  <2>2. CASE /\ home[s] \in loops /\ UNCHANGED excused
             /\ inbox' = [inbox EXCEPT ![home[s]] = Append(@, call)]
    <3>1. home[s] \in LoopThreads /\ inbox[home[s]] \in Seq(Emissions \X Slots)
      BY <2>2 DEF SigInv, Types, LoopTypes
    <3>2. LoopTypes' /\ excused' \subseteq Emissions \X Slots
      BY <1>1, <1>3, <2>2, <3>1 DEF SigInv, Types, LoopTypes, HistoryTypes
    <3>3. ASSUME NEW u \in LoopThreads, NEW i \in 1..Len(inbox'[u])
          PROVE  /\ inbox'[u][i][1] < nextEmit /\ inbox'[u][i][2] \in promised[inbox'[u][i][1]]
                 /\ home[inbox'[u][i][2]] = u
      <4>1. (inbox'[u][i] = call /\ u = home[s]) \/ (i \in 1..Len(inbox[u]) /\ inbox'[u][i] = inbox[u][i])
        BY <2>2, <3>1 DEF SigInv, Types, LoopTypes
      <4> QED
        BY <1>3, <4>1 DEF SigInv, InboxInv
    <3>4. InboxInv'
      BY <1>1, <3>3 DEF InboxInv, sigVars
    <3> QED
      BY <3>2, <3>4
  <2> QED
    BY <1>1, <2>1, <2>2
<1> QED
  BY <1>1, <1>5, <1>6, WalkKeeps DEF SigInv, Types, HistoryTypes

LEMMA LeaveKeeps ==
  ASSUME SigInv, NEW t \in Threads, EmitThrow(t) \/ EmitEnd(t)
  PROVE  SigInv'
<1>1. /\ stack[t] # <<>> /\ Leave(t)
      /\ UNCHANGED <<sigVars, inbox, loops, nextEmit, promised, silencedBy, started>>
      /\ excused' \subseteq excused \cup {<<Top(t).emission, s>> : s \in Top(t).todo}
  BY DEF EmitThrow, EmitEnd, At, loopVars, history
<1>2. Later(t)
  BY <1>1 DEF Later, sigVars
<1>3. stack' \in Stacks /\ StackInv' /\ InboxInv'
  BY <1>1, <1>2, StackLeave, InboxKept
<1>4. excused' \subseteq Emissions \X Slots
  <2>1. Top(t).todo \subseteq Slots /\ Top(t).emission \in Emissions
    BY <1>1, TopIs
  <2> QED
    BY <1>1, <2>1 DEF SigInv, Types, HistoryTypes
<1> QED
  BY <1>1, <1>3, <1>4, WalkKeeps DEF SigInv, Types, LoopTypes, HistoryTypes

LEMMA TakeKeeps ==
  ASSUME SigInv, NEW t \in Threads, Take(t)
  PROVE  SigInv'
<1>1. /\ UNCHANGED <<sigVars, loops, nextEmit, promised, silencedBy, started, excused>>
      /\ InUserCode(t) /\ t \in LoopThreads /\ inbox[t] \in Seq(Emissions \X Slots)
  BY DEF Take, history, SigInv, Types, LoopTypes
<1>2. PICK i \in 1..Len(inbox[t]) :
        /\ inbox' = [inbox EXCEPT ![t] = Taken(inbox[t], i)]
        /\ Enter(t, inbox[t][i][1], {inbox[t][i][2]}, TRUE)
  <2>1. DOMAIN inbox[t] = 1..Len(inbox[t])
    BY <1>1
  <2> QED
    BY <2>1 DEF Take
<1>3. /\ inbox[t][i] \in Emissions \X Slots /\ inbox[t][i][1] \in Emissions
      /\ {inbox[t][i][2]} \in SUBSET Slots /\ inbox[t][i][1] < nextEmit
      /\ {inbox[t][i][2]} \subseteq promised[inbox[t][i][1]]
      /\ home[inbox[t][i][2]] = t
  BY <1>1 DEF SigInv, InboxInv
<1>4. Later(t)
  BY <1>1 DEF Later, sigVars
<1>5. stack' \in Stacks /\ StackInv'
  <2>1. Enters(t, inbox[t][i][1], {inbox[t][i][2]})
    BY <1>2 DEF Enters
  <2>2. \A s \in {inbox[t][i][2]} : home'[s] = t
    BY <1>1, <1>3 DEF sigVars
  <2> QED
    BY <1>1, <1>3, <1>4, <2>1, <2>2, StackEnter
<1>6. /\ Taken(inbox[t], i) \in Seq(Emissions \X Slots)
      /\ Len(Taken(inbox[t], i)) = Len(inbox[t]) - 1
      /\ \A j \in 1..(Len(inbox[t]) - 1) :
           Taken(inbox[t], i)[j] = IF j < i THEN inbox[t][j] ELSE inbox[t][j + 1]
  BY <1>1, TakenIs
<1>7. LoopTypes'
  BY <1>1, <1>2, <1>6 DEF SigInv, Types, LoopTypes
<1>8. ASSUME NEW u \in LoopThreads, NEW j \in 1..Len(inbox'[u])
      PROVE  /\ inbox'[u][j][1] < nextEmit /\ inbox'[u][j][2] \in promised[inbox'[u][j][1]]
             /\ home[inbox'[u][j][2]] = u
  <2>1. \E k \in 1..Len(inbox[u]) : inbox'[u][j] = inbox[u][k]
    <3>1. CASE u # t
      BY <1>2, <3>1 DEF SigInv, Types, LoopTypes
    <3>2. CASE u = t
      <4>1. j \in 1..(Len(inbox[t]) - 1) /\ inbox'[t] = Taken(inbox[t], i)
        BY <1>1, <1>2, <1>6, <3>2 DEF SigInv, Types, LoopTypes
      <4>2. j \in 1..Len(inbox[t]) /\ j + 1 \in 1..Len(inbox[t])
        BY <1>1, <4>1
      <4> QED
        BY <1>6, <3>2, <4>1, <4>2
    <3> QED
      BY <3>1, <3>2
  <2> QED
    BY <2>1 DEF SigInv, InboxInv
<1>9. InboxInv'
  BY <1>1, <1>8 DEF InboxInv, sigVars
<1> QED
  BY <1>1, <1>5, <1>7, <1>9, WalkKeeps DEF SigInv, Types, HistoryTypes

LEMMA LoopDestroyKeeps ==
  ASSUME SigInv, NEW t \in Threads, LoopDestroy(t)
  PROVE  SigInv'
<1>1. /\ UNCHANGED <<sigVars, stack, nextEmit, promised, silencedBy, started>>
      /\ InUserCode(t) /\ t \in LoopThreads /\ loops' = loops \ {t}
      /\ inbox' = [inbox EXCEPT ![t] = <<>>]
      /\ excused' = excused \cup {inbox[t][i] : i \in DOMAIN inbox[t]}
      /\ inbox[t] \in Seq(Emissions \X Slots)
  BY DEF LoopDestroy, InUserCode, SigInv, Types, LoopTypes
<1>2. Later(t)
  BY <1>1 DEF Later, sigVars
<1>3. stack' \in Stacks /\ StackInv'
  BY <1>1, <1>2, StackKept DEF SigInv, Types
<1>4. LoopTypes' /\ excused' \subseteq Emissions \X Slots
  <2>1. \A i \in DOMAIN inbox[t] : inbox[t][i] \in Emissions \X Slots
    BY <1>1
  <2>2. <<>> \in Seq(Emissions \X Slots)
    OBVIOUS
  <2> QED
    BY <1>1, <2>1, <2>2 DEF SigInv, Types, LoopTypes, HistoryTypes
<1>5. InboxInv'
  <2>1. \A u \in LoopThreads : Len(inbox'[u]) = 0 \/ inbox'[u] = inbox[u]
    BY <1>1 DEF SigInv, Types, LoopTypes
  <2> QED
    BY <1>1, <2>1 DEF SigInv, InboxInv, sigVars
<1> QED
  BY <1>1, <1>3, <1>4, <1>5, WalkKeeps DEF SigInv, Types, HistoryTypes

LEMMA SigInvStep == SigInv /\ [Next]_vars => SigInv'
<1>1. ASSUME SigInv, UNCHANGED vars PROVE SigInv'
  <2>1. Types'
    BY <1>1 DEF vars, sigVars, loopVars, history, SigInv, Types, SlotTypes, LoopTypes,
       HistoryTypes, Stacks, Issued
  <2>2. StackInv'
    BY <1>1 DEF vars, sigVars, loopVars, history, SigInv, StackInv, FrameInv, Shape
  <2>3. InboxInv'
    BY <1>1 DEF vars, sigVars, loopVars, history, SigInv, InboxInv
  <2>4. Silence'
    BY <1>1 DEF vars, sigVars, history, SigInv, Silence, Issued
  <2> QED
    BY <2>1, <2>2, <2>3, <2>4 DEF SigInv
<1>2. ASSUME SigInv, NEW t \in Threads, DisconnectAll(t) \/ Destroy(t) PROVE SigInv'
  BY <1>2, UnlistKeeps DEF DisconnectAll, Destroy, SigInv, Types, SlotTypes
<1> QED
  BY <1>1, <1>2, ConnectKeeps, DisconnectKeeps, EmitBeginKeeps, CheckKeeps, CallKeeps,
     CallReturnKeeps, PostCallKeeps, LeaveKeeps, TakeKeeps, LoopDestroyKeeps
  DEF Next, UserStep, EmitStep

LEMMA SigInvariant == Spec => []SigInv
<1> QED
  BY SigInvInit, SigInvStep, PTL DEF Spec

\* The state has its shape, and a walk is always at the first slot left to it.
THEOREM TypeCorrect == Spec => []TypeOK
<1> QED
  BY SigInvariant, SigInvTypes, PTL

\* A slot connected on a thread with a loop never runs on another thread, whether
\* emit() calls it or a loop delivers it, even after that loop is gone.
THEOREM SlotsRunAtHome == Spec => []RunsAtHome
<1> QED
  BY SigInvariant, SigInvHome, PTL

\* A thread that disconnected a slot, or destroyed the signal, does not start the slot
\* afterwards: the check of `connected` and the call are two steps, but of one thread.
THEOREM DisconnectIsFinal == Spec => OwnDisconnectIsFinal
<1>1. ASSUME SigInv, NEW t \in Threads, NEW e \in Emissions, NEW s \in Slots, Starts(t, e, s)
      PROVE  t \notin silencedBy[s]
  <2>1. stack[t] # <<>> /\ Top(t).stage = "checked" /\ Top(t).slot = s
    BY <1>1 DEF Starts, At
  <2> QED
    BY <1>1, <2>1, TopIs DEF FrameInv
<1>2. SigInv => [\A t \in Threads, e \in Emissions, s \in Slots :
                   Starts(t, e, s) => t \notin silencedBy[s]]_vars
  BY <1>1
<1> QED
  BY <1>2, SigInvariant, PTL DEF OwnDisconnectIsFinal

-----------------------------------------------------------------------------
(***************************************************************************)
(* No slot is missed.                                                       *)
(***************************************************************************)
InFrame(e, s) ==
  \E t \in Threads : \E i \in 1..Len(stack[t]) :
    stack[t][i].emission = e /\ s \in stack[t][i].todo

InInbox(e, s) == \E t \in LoopThreads : \E i \in 1..Len(inbox[t]) : inbox[t][i] = <<e, s>>

LEMMA HandIs ==
  ASSUME Types, NEW e, NEW s
  PROVE  InHand(e, s) <=> InFrame(e, s) \/ InInbox(e, s)
<1>1. \A t \in Threads : DOMAIN stack[t] = 1..Len(stack[t])
  BY DEF Types, Stacks
<1>2. \A t \in LoopThreads : DOMAIN inbox[t] = 1..Len(inbox[t])
  BY DEF Types, LoopTypes
<1> QED
  BY <1>1, <1>2 DEF InHand, InFrame, InInbox

\* The innermost frame gives up some of its slots.
LEMMA FrameGivesUp ==
  ASSUME SigInv, NEW t \in Threads, stack[t] # <<>>, NEW f \in Frames, SetTop(t, f),
         f.emission = Top(t).emission, NEW e, NEW s, InFrame(e, s)
  PROVE  InFrame(e, s)' \/ (e = Top(t).emission /\ s \in Top(t).todo \ f.todo)
<1>1. stack \in Stacks /\ Top(t) = stack[t][1]
  BY TopIs DEF SigInv, Types
<1>2. /\ Len(stack'[t]) = Len(stack[t]) /\ Len(stack[t]) \in Nat /\ Len(stack[t]) >= 1
      /\ stack'[t][1] = f
      /\ \A i \in 2..Len(stack[t]) : stack'[t][i] = stack[t][i]
      /\ \A u \in Threads \ {t} : stack'[u] = stack[u]
  BY <1>1, SetTopIs
<1>3a. PICK u \in Threads : \E i \in 1..Len(stack[u]) :
        stack[u][i].emission = e /\ s \in stack[u][i].todo
  BY DEF InFrame
<1>3. PICK i \in 1..Len(stack[u]) :
        stack[u][i].emission = e /\ s \in stack[u][i].todo
  BY <1>3a
<1>4. CASE u # t
  BY <1>2, <1>3, <1>4 DEF InFrame
<1>5. CASE u = t /\ i # 1
  BY <1>2, <1>3, <1>5 DEF InFrame
<1>6. CASE u = t /\ i = 1
  BY <1>1, <1>2, <1>3, <1>6 DEF InFrame
<1> QED
  BY <1>4, <1>5, <1>6

LEMMA FrameIsLeft ==
  ASSUME SigInv, NEW t \in Threads, stack[t] # <<>>, Leave(t), NEW e, NEW s, InFrame(e, s)
  PROVE  InFrame(e, s)' \/ (e = Top(t).emission /\ s \in Top(t).todo)
<1>1. stack \in Stacks /\ Top(t) = stack[t][1]
  BY TopIs DEF SigInv, Types
<1>2. /\ Len(stack'[t]) = Len(stack[t]) - 1 /\ Len(stack[t]) \in Nat
      /\ \A i \in 1..(Len(stack[t]) - 1) :
           stack'[t][i] = stack[t][i + 1] /\ i + 1 \in 1..Len(stack[t])
      /\ \A u \in Threads \ {t} : stack'[u] = stack[u]
  BY <1>1, LeaveIs
<1>3a. PICK u \in Threads : \E i \in 1..Len(stack[u]) :
        stack[u][i].emission = e /\ s \in stack[u][i].todo
  BY DEF InFrame
<1>3. PICK i \in 1..Len(stack[u]) :
        stack[u][i].emission = e /\ s \in stack[u][i].todo
  BY <1>3a
<1>4. CASE u # t
  BY <1>2, <1>3, <1>4 DEF InFrame
<1>5. CASE u = t /\ i # 1
  <2>1. i - 1 \in 1..Len(stack'[t]) /\ stack'[t][i - 1] = stack[t][i]
    BY <1>2, <1>5
  <2> QED
    BY <1>3, <1>5, <2>1 DEF InFrame
<1>6. CASE u = t /\ i = 1
  BY <1>1, <1>3, <1>6
<1> QED
  BY <1>4, <1>5, <1>6

LEMMA FrameIsEntered ==
  ASSUME SigInv, NEW t \in Threads, NEW e \in Emissions, NEW todo \in SUBSET Slots,
         Enters(t, e, todo)
  PROVE  /\ \A d, s : InFrame(d, s) => InFrame(d, s)'
         /\ \A s \in todo : InFrame(e, s)'
<1>1. stack \in Stacks
  BY DEF SigInv, Types
<1>2. /\ Len(stack'[t]) = Len(stack[t]) + 1 /\ Len(stack[t]) \in Nat
      /\ stack'[t][1].emission = e /\ stack'[t][1].todo = todo
      /\ stack'[t][1].slot = NoSlot /\ stack'[t][1].stage = "next"
      /\ \A i \in 2..(Len(stack[t]) + 1) :
           stack'[t][i] = stack[t][i - 1] /\ i - 1 \in 1..Len(stack[t])
      /\ \A u \in Threads \ {t} : stack'[u] = stack[u]
  BY <1>1, EnterIs
<1>3. ASSUME NEW d, NEW s, InFrame(d, s) PROVE InFrame(d, s)'
  <2>1a. PICK u \in Threads : \E i \in 1..Len(stack[u]) :
          stack[u][i].emission = d /\ s \in stack[u][i].todo
    BY <1>3 DEF InFrame
  <2>1. PICK i \in 1..Len(stack[u]) :
          stack[u][i].emission = d /\ s \in stack[u][i].todo
    BY <2>1a
  <2>2. CASE u # t
    BY <1>2, <2>1, <2>2 DEF InFrame
  <2>3. CASE u = t
    <3>1. i + 1 \in 1..Len(stack'[t]) /\ stack'[t][i + 1] = stack[t][i]
      BY <1>2, <2>3
    <3> QED
      BY <2>1, <2>3, <3>1 DEF InFrame
  <2> QED
    BY <2>2, <2>3
<1>4. \A s \in todo : InFrame(e, s)'
  <2>1. 1 \in 1..Len(stack'[t]) /\ stack'[t][1].emission = e /\ stack'[t][1].todo = todo
    BY <1>2
  <2> QED
    BY <2>1 DEF InFrame
<1> QED
  BY <1>3, <1>4

\* What a step must do with the calls that were in hand.
Owed(e, s) == <<e, s>> \in started \cup excused \/ InFrame(e, s) \/ InInbox(e, s)

AllOwed == \A e \in Emissions : e < nextEmit => \A s \in promised[e] \cap connected : Owed(e, s)

LEMMA OwedIsNotMissed == SigInv /\ AllOwed => NoneMissed
<1> SUFFICES ASSUME SigInv, AllOwed PROVE NoneMissed
  OBVIOUS
<1>1. 1..(nextEmit - 1) \subseteq Emissions /\ nextEmit \in Nat
  BY SignalAssumption DEF SigInv, Types, HistoryTypes, Emissions, SignalAssumption
<1>2. ASSUME NEW e \in 1..(nextEmit - 1), NEW s \in promised[e] \cap connected
      PROVE  <<e, s>> \in started \cup excused \/ InHand(e, s)
  <2>1. e \in Emissions /\ e < nextEmit
    BY <1>1
  <2>2. Owed(e, s)
    BY <1>2, <2>1 DEF AllOwed
  <2> QED
    BY <2>2, HandIs DEF Owed, SigInv
<1> QED
  BY <1>2 DEF NoneMissed

\* No emission begins, and nothing new is connected that an emission promised.
LEMMA OwedStep ==
  ASSUME SigInv, AllOwed, UNCHANGED <<nextEmit, promised>>,
         \A s \in Issued : s \in connected' => s \in connected,
         \A e \in Emissions, s \in Slots : Owed(e, s) => Owed(e, s)' \/ s \notin connected'
  PROVE  AllOwed'
<1>1. ASSUME NEW e \in Emissions, e < nextEmit, NEW s \in promised[e] \cap connected'
      PROVE  Owed(e, s)'
  <2>1. s \in Issued /\ s \in Slots
    BY SignalAssumption DEF SigInv, Types, SlotTypes, HistoryTypes, Issued, Slots,
                            SignalAssumption
  <2>2. Owed(e, s)
    BY <1>1, <2>1 DEF AllOwed
  <2> QED
    BY <2>1, <2>2
<1> QED
  BY <1>1 DEF AllOwed

\* Steps that leave every call where it is.
LEMMA OwedUnchanged ==
  ASSUME SigInv, AllOwed, UNCHANGED <<nextEmit, promised, stack, inbox, started, excused>>,
         \A s \in Issued : s \in connected' => s \in connected
  PROVE  AllOwed'
<1>1. \A e, s : Owed(e, s) => Owed(e, s)'
  BY DEF Owed, InFrame, InInbox
<1> QED
  BY <1>1, OwedStep

\* A step of a walk: the innermost frame gives up slots that are accounted for.
LEMMA OwedWalk ==
  ASSUME SigInv, AllOwed, NEW t \in Threads, stack[t] # <<>>,
         UNCHANGED <<nextEmit, promised, connected, inbox>>,
         started \subseteq started', excused \subseteq excused',
         NEW f \in Frames, SetTop(t, f), f.emission = Top(t).emission,
         \A s \in Top(t).todo \ f.todo :
           s \notin connected \/ <<Top(t).emission, s>> \in started' \cup excused'
  PROVE  AllOwed'
<1>1. ASSUME NEW e \in Emissions, NEW s \in Slots, Owed(e, s), s \in connected'
      PROVE  Owed(e, s)'
  <2>1. CASE <<e, s>> \in started \cup excused
    BY <2>1 DEF Owed
  <2>2. CASE InFrame(e, s)
    BY <1>1, <2>2, FrameGivesUp DEF Owed
  <2>3. CASE InInbox(e, s)
    BY <2>3 DEF Owed, InInbox
  <2> QED
    BY <1>1, <2>1, <2>2, <2>3 DEF Owed
<1> QED
  BY <1>1, OwedStep

\* The frame that Done() goes on with.
LEMMA DoneSets ==
  ASSUME SigInv, NEW t \in Threads, stack[t] # <<>>, Done(t)
  PROVE  \E f \in Frames :
           /\ SetTop(t, f) /\ f.emission = Top(t).emission /\ f.stage = "next"
           /\ f.todo = Top(t).todo \ {Top(t).slot}
<1> DEFINE f == [Top(t) EXCEPT !.todo = @ \ {Top(t).slot}, !.slot = NoSlot, !.stage = "next"]
<1>1. Top(t) \in Frames
  BY TopIs
<1>2. /\ f \in Frames /\ f.emission = Top(t).emission /\ f.stage = "next"
      /\ f.todo = Top(t).todo \ {Top(t).slot}
  BY <1>1 DEF Frames
<1>3. SetTop(t, f)
  BY DEF Done
<1> HIDE DEF f
<1> QED
  BY <1>2, <1>3

LEMMA OwedCheck ==
  ASSUME SigInv, AllOwed, NEW t \in Threads, Check(t)
  PROVE  AllOwed'
<1> DEFINE s == Smallest(Top(t).todo)
           f == IF s \in connected THEN [Top(t) EXCEPT !.slot = s, !.stage = "checked"]
                ELSE [Top(t) EXCEPT !.todo = @ \ {s}]
<1>1. /\ stack[t] # <<>> /\ Top(t).todo # {} /\ SetTop(t, f)
      /\ UNCHANGED <<nextEmit, promised, connected, inbox, started, excused>>
  BY DEF Check, At, loopVars, history, sigVars
<1>2. Top(t) \in Frames /\ Top(t).todo \subseteq Slots
  BY <1>1, TopIs
<1>3. s \in Slots
  <2>1. Top(t).todo \subseteq Nat
    BY <1>2 DEF Slots
  <2> QED
    BY <1>1, <1>2, <2>1, SmallestIsIn
<1>4. f \in Frames /\ f.emission = Top(t).emission
  BY <1>2, <1>3 DEF Frames
<1>5. \A x \in Top(t).todo \ f.todo : x \notin connected
  BY <1>2 DEF Frames
<1> HIDE DEF f
<1> QED
  BY <1>1, <1>4, <1>5, OwedWalk

LEMMA OwedCall ==
  ASSUME SigInv, AllOwed, NEW t \in Threads, Call(t)
  PROVE  AllOwed'
<1> DEFINE f == [Top(t) EXCEPT !.stage = "inside"]
<1>1. /\ stack[t] # <<>> /\ SetTop(t, f) /\ started \subseteq started'
      /\ UNCHANGED <<nextEmit, promised, connected, inbox, excused>>
  BY DEF Call, At, loopVars, sigVars
<1>2. Top(t) \in Frames
  BY <1>1, TopIs
<1>3. f \in Frames /\ f.emission = Top(t).emission /\ f.todo = Top(t).todo
  BY <1>2 DEF Frames
<1> HIDE DEF f
<1> QED
  BY <1>1, <1>3, OwedWalk

LEMMA OwedReturn ==
  ASSUME SigInv, AllOwed, NEW t \in Threads, CallReturn(t)
  PROVE  AllOwed'
<1>1. /\ stack[t] # <<>> /\ Done(t) /\ Top(t).stage = "inside"
      /\ UNCHANGED <<nextEmit, promised, connected, inbox, started, excused>>
  BY DEF CallReturn, At, loopVars, history, sigVars
<1>2. <<Top(t).emission, Top(t).slot>> \in started
  BY <1>1, TopIs DEF FrameInv
<1>3. PICK f \in Frames :
        /\ SetTop(t, f) /\ f.emission = Top(t).emission /\ f.stage = "next"
        /\ f.todo = Top(t).todo \ {Top(t).slot}
  BY <1>1, DoneSets
<1> QED
  BY <1>1, <1>2, <1>3, OwedWalk

LEMMA InboxGets ==
  ASSUME SigInv, NEW h \in LoopThreads, NEW call \in Emissions \X Slots,
         inbox' = [inbox EXCEPT ![h] = Append(@, call)]
  PROVE  /\ \A e, s : InInbox(e, s) => InInbox(e, s)'
         /\ \A e, s : call = <<e, s>> => InInbox(e, s)'
<1>1. inbox \in [LoopThreads -> Seq(Emissions \X Slots)] /\ inbox[h] \in Seq(Emissions \X Slots)
  BY DEF SigInv, Types, LoopTypes
<1>2. /\ inbox'[h] = Append(inbox[h], call)
      /\ \A u \in LoopThreads : u # h => inbox'[u] = inbox[u]
  BY <1>1
<1>3. /\ Len(inbox'[h]) = Len(inbox[h]) + 1 /\ Len(inbox[h]) \in Nat
      /\ \A i \in 1..Len(inbox[h]) : inbox'[h][i] = inbox[h][i]
      /\ inbox'[h][Len(inbox[h]) + 1] = call
  BY <1>1, <1>2
<1>4. ASSUME NEW e, NEW s, call = <<e, s>>
      PROVE  InInbox(e, s)'
  <2>1. Len(inbox[h]) + 1 \in 1..Len(inbox'[h])
    BY <1>3
  <2> QED
    BY <1>3, <1>4, <2>1 DEF InInbox
<1>5. ASSUME NEW e, NEW s, InInbox(e, s)
      PROVE  InInbox(e, s)'
  <2>1. PICK u \in LoopThreads : \E i \in 1..Len(inbox[u]) : inbox[u][i] = <<e, s>>
    BY <1>5 DEF InInbox
  <2>2. PICK i \in 1..Len(inbox[u]) : inbox[u][i] = <<e, s>>
    BY <2>1
  <2>3. i \in 1..Len(inbox'[u]) /\ inbox'[u][i] = inbox[u][i]
    <3>1. CASE u = h
      BY <1>3, <3>1
    <3>2. CASE u # h
      BY <1>2, <3>2
    <3> QED
      BY <3>1, <3>2
  <2> QED
    BY <2>2, <2>3 DEF InInbox
<1> QED
  BY <1>4, <1>5

LEMMA OwedPost ==
  ASSUME SigInv, AllOwed, NEW t \in Threads, PostCall(t)
  PROVE  AllOwed'
<1>0. stack[t] # <<>> /\ Top(t).stage = "checked" /\ Done(t)
  BY DEF PostCall, At
<1>1. PICK d \in Emissions, s \in Slots : d = Top(t).emission /\ s = Top(t).slot
  BY <1>0, TopIs
<1>2. /\ UNCHANGED <<nextEmit, promised, connected, started>>
      /\ \/ /\ home[s] \in loops
            /\ inbox' = [inbox EXCEPT ![home[s]] = Append(@, <<d, s>>)] /\ UNCHANGED excused
         \/ excused' = excused \cup {<<d, s>>} /\ UNCHANGED inbox
  BY <1>1 DEF PostCall, sigVars
<1>3. PICK f \in Frames :
        /\ SetTop(t, f) /\ f.emission = Top(t).emission /\ f.stage = "next"
        /\ f.todo = Top(t).todo \ {s}
  BY <1>0, <1>1, DoneSets
<1>4. CASE excused' = excused \cup {<<d, s>>} /\ UNCHANGED inbox
  BY <1>0, <1>1, <1>2, <1>3, <1>4, OwedWalk
<1>5. CASE /\ home[s] \in loops /\ UNCHANGED excused
           /\ inbox' = [inbox EXCEPT ![home[s]] = Append(@, <<d, s>>)]
  <2>1. PICK h \in LoopThreads : h = home[s]
    BY <1>5 DEF SigInv, Types, LoopTypes
  <2>2. inbox' = [inbox EXCEPT ![h] = Append(@, <<d, s>>)] /\ <<d, s>> \in Emissions \X Slots
    BY <1>5, <2>1
  <2>3. InInbox(d, s)' /\ \A e, x : InInbox(e, x) => InInbox(e, x)'
    BY <2>2, InboxGets
  <2>4. ASSUME NEW e \in Emissions, NEW x \in Slots, Owed(e, x)
        PROVE  Owed(e, x)'
    <3>1. CASE <<e, x>> \in started \cup excused
      BY <1>2, <1>5, <3>1 DEF Owed
    <3>2. CASE InFrame(e, x)
      <4>1. InFrame(e, x)' \/ (e = d /\ x = s)
        BY <1>0, <1>1, <1>3, <3>2, FrameGivesUp
      <4> QED
        BY <2>3, <4>1 DEF Owed
    <3>3. CASE InInbox(e, x)
      BY <2>3, <3>3 DEF Owed
    <3> QED
      BY <2>4, <3>1, <3>2, <3>3 DEF Owed
  <2> QED
    BY <1>2, <2>4, OwedStep
<1> QED
  BY <1>2, <1>4, <1>5

LEMMA OwedLeave ==
  ASSUME SigInv, AllOwed, NEW t \in Threads, EmitThrow(t) \/ EmitEnd(t)
  PROVE  AllOwed'
<1>1. /\ stack[t] # <<>> /\ Leave(t)
      /\ UNCHANGED <<nextEmit, promised, connected, inbox, started>>
      /\ excused \subseteq excused'
      /\ \A s \in Top(t).todo : <<Top(t).emission, s>> \in excused'
  BY DEF EmitThrow, EmitEnd, At, loopVars, history, sigVars
<1>2. ASSUME NEW e \in Emissions, NEW s \in Slots, Owed(e, s)
      PROVE  Owed(e, s)'
  <2>1. CASE <<e, s>> \in started \cup excused
    BY <1>1, <2>1 DEF Owed
  <2>2. CASE InFrame(e, s)
    BY <1>1, <2>2, FrameIsLeft DEF Owed
  <2>3. CASE InInbox(e, s)
    BY <1>1, <2>3 DEF Owed, InInbox
  <2> QED
    BY <1>2, <2>1, <2>2, <2>3 DEF Owed
<1> QED
  BY <1>1, <1>2, OwedStep

LEMMA OwedTake ==
  ASSUME SigInv, AllOwed, NEW t \in Threads, Take(t)
  PROVE  AllOwed'
<1>1. /\ UNCHANGED <<nextEmit, promised, connected, started, excused>>
      /\ t \in LoopThreads /\ inbox[t] \in Seq(Emissions \X Slots)
      /\ inbox \in [LoopThreads -> Seq(Emissions \X Slots)]
  BY DEF Take, history, sigVars, SigInv, Types, LoopTypes
<1>2. DOMAIN inbox[t] = 1..Len(inbox[t])
  BY <1>1
<1>3. PICK i \in 1..Len(inbox[t]) :
        /\ inbox' = [inbox EXCEPT ![t] = Taken(inbox[t], i)]
        /\ Enter(t, inbox[t][i][1], {inbox[t][i][2]}, TRUE)
  BY <1>2 DEF Take
<1>4. PICK d \in Emissions, x \in Slots : inbox[t][i] = <<d, x>>
  BY <1>1
<1>5. InFrame(d, x)' /\ \A e, s : InFrame(e, s) => InFrame(e, s)'
  <2>1. inbox[t][i][1] = d /\ inbox[t][i][2] = x
    BY <1>4
  <2>2. Enters(t, d, {x}) /\ {x} \in SUBSET Slots
    BY <1>3, <2>1 DEF Enters
  <2> QED
    BY <2>2, FrameIsEntered
<1>6. /\ Len(inbox'[t]) = Len(inbox[t]) - 1
      /\ \A j \in 1..(Len(inbox[t]) - 1) :
           inbox'[t][j] = IF j < i THEN inbox[t][j] ELSE inbox[t][j + 1]
      /\ \A u \in LoopThreads : u # t => inbox'[u] = inbox[u]
  BY <1>1, <1>3, TakenIs
<1>7. ASSUME NEW e, NEW s, InInbox(e, s)
      PROVE  InInbox(e, s)' \/ (e = d /\ s = x)
  <2>1. PICK u \in LoopThreads : \E j \in 1..Len(inbox[u]) : inbox[u][j] = <<e, s>>
    BY <1>7 DEF InInbox
  <2>2. PICK j \in 1..Len(inbox[u]) : inbox[u][j] = <<e, s>>
    BY <2>1
  <2>3. CASE u # t
    BY <1>6, <2>2, <2>3 DEF InInbox
  <2>4. CASE u = t /\ j < i
    <3>1. j \in 1..Len(inbox'[t]) /\ inbox'[t][j] = <<e, s>>
      BY <1>1, <1>6, <2>2, <2>4
    <3> QED
      BY <1>1, <3>1 DEF InInbox
  <2>5. CASE u = t /\ j > i
    <3>1. j - 1 \in 1..Len(inbox'[t]) /\ inbox'[t][j - 1] = <<e, s>>
      BY <1>1, <1>6, <2>2, <2>5
    <3> QED
      BY <1>1, <3>1 DEF InInbox
  <2>6. CASE u = t /\ j = i
    BY <1>4, <2>2, <2>6
  <2> QED
    BY <1>1, <2>3, <2>4, <2>5, <2>6
<1>8. ASSUME NEW e \in Emissions, NEW s \in Slots, Owed(e, s)
      PROVE  Owed(e, s)'
  BY <1>1, <1>5, <1>7, <1>8 DEF Owed
<1> QED
  BY <1>1, <1>8, OwedStep

LEMMA OwedLoopDestroy ==
  ASSUME SigInv, AllOwed, NEW t \in Threads, LoopDestroy(t)
  PROVE  AllOwed'
<1>1. /\ UNCHANGED <<nextEmit, promised, connected, started, stack>>
      /\ t \in LoopThreads /\ inbox \in [LoopThreads -> Seq(Emissions \X Slots)]
      /\ inbox' = [inbox EXCEPT ![t] = <<>>]
      /\ excused' = excused \cup {inbox[t][i] : i \in DOMAIN inbox[t]}
      /\ DOMAIN inbox[t] = 1..Len(inbox[t])
  BY DEF LoopDestroy, sigVars, SigInv, Types, LoopTypes
<1>2. ASSUME NEW e, NEW s, InInbox(e, s)
      PROVE  InInbox(e, s)' \/ <<e, s>> \in excused'
  <2>1. PICK u \in LoopThreads : \E j \in 1..Len(inbox[u]) : inbox[u][j] = <<e, s>>
    BY <1>2 DEF InInbox
  <2>2. CASE u # t
    <3>1. inbox'[u] = inbox[u]
      BY <1>1, <2>2
    <3> QED
      BY <2>1, <3>1 DEF InInbox
  <2>3. CASE u = t
    BY <1>1, <2>1, <2>3
  <2> QED
    BY <2>2, <2>3
<1>3. ASSUME NEW e \in Emissions, NEW s \in Slots, Owed(e, s)
      PROVE  Owed(e, s)'
  BY <1>1, <1>2, <1>3 DEF Owed, InFrame
<1> QED
  BY <1>1, <1>3, OwedStep

LEMMA OwedBegin ==
  ASSUME SigInv, AllOwed, NEW t \in Threads, EmitBegin(t)
  PROVE  AllOwed'
<1>1. /\ UNCHANGED <<connected, inbox, started, excused>>
      /\ nextEmit' = nextEmit + 1 /\ nextEmit \in Emissions /\ nextEmit \in Nat
      /\ promised' = [promised EXCEPT ![nextEmit] = connected]
      /\ promised \in [Emissions -> SUBSET Issued]
  BY DEF EmitBegin, loopVars, SigInv, Types, HistoryTypes, Emissions
<1>2. connected \in SUBSET Slots /\ Enters(t, nextEmit, connected)
  <2>1. slots' = slots \cap connected /\ connected \subseteq slots
    BY DEF EmitBegin, SigInv, Types, SlotTypes
  <2>2. slots' = connected
    BY <2>1
  <2>3. connected \in SUBSET Slots
    BY <2>1, SignalAssumption DEF SigInv, Types, SlotTypes, Issued, Slots, SignalAssumption
  <2> QED
    BY <2>2, <2>3 DEF EmitBegin, Enters
<1>3. PICK d \in Emissions : d = nextEmit
  BY <1>1
<1>4. /\ \A e, s : InFrame(e, s) => InFrame(e, s)'
      /\ \A s \in connected : InFrame(d, s)'
  BY <1>2, <1>3, FrameIsEntered
<1>5. ASSUME NEW e \in Emissions, e < nextEmit', NEW s \in promised'[e] \cap connected
      PROVE  Owed(e, s)'
  <2>1. CASE e = d
    BY <1>4, <2>1 DEF Owed
  <2>2. CASE e # d
    <3>1. e < nextEmit /\ promised'[e] = promised[e]
      BY <1>1, <1>3, <1>5, <2>2 DEF Emissions
    <3>2. Owed(e, s)
      BY <1>5, <3>1 DEF AllOwed
    <3> QED
      BY <1>1, <1>4, <3>2 DEF Owed, InInbox
  <2> QED
    BY <2>1, <2>2
<1> QED
  BY <1>1, <1>5 DEF AllOwed

LEMMA OwedNext == SigInv /\ AllOwed /\ [Next]_vars => AllOwed'
<1> SUFFICES ASSUME SigInv, AllOwed, [Next]_vars PROVE AllOwed'
  OBVIOUS
<1>1. ASSUME NEW t \in Threads, Connect(t) PROVE AllOwed'
  <2>1. \A s \in Issued : s \in connected' => s \in connected
    BY <1>1 DEF Connect, Issued, SigInv, Types, SlotTypes
  <2> QED
    BY <1>1, <2>1, OwedUnchanged DEF Connect, loopVars, history
<1>2. ASSUME NEW t \in Threads, NEW s \in Slots, Disconnect(t, s) PROVE AllOwed'
  BY <1>2, OwedUnchanged DEF Disconnect, loopVars
<1>3. ASSUME NEW t \in Threads, DisconnectAll(t) \/ Destroy(t) PROVE AllOwed'
  BY <1>3, OwedUnchanged DEF DisconnectAll, Destroy, Unlist, loopVars
<1>4. ASSUME UNCHANGED vars PROVE AllOwed'
  BY <1>4, OwedUnchanged DEF vars, sigVars, loopVars, history
<1> QED
  BY <1>1, <1>2, <1>3, <1>4, OwedCheck, OwedCall, OwedReturn, OwedPost, OwedLeave, OwedTake,
     OwedLoopDestroy, OwedBegin DEF Next, UserStep, EmitStep

LEMMA OwedInit == Init => AllOwed
  BY DEF Init, AllOwed

\* No slot is missed: a slot that was connected when the emission began and still is was
\* called, is about to be, is queued on its loop, or was lost with that loop or to an
\* emit() that threw.
THEOREM NoSlotIsMissed == Spec => []NoneMissed
<1>1. Init => SigInv /\ AllOwed
  BY SigInvInit, OwedInit
<1>2. SigInv /\ AllOwed /\ [Next]_vars => (SigInv /\ AllOwed)'
  BY SigInvStep, OwedNext
<1>3. SigInv /\ AllOwed => NoneMissed
  BY OwedIsNotMissed
<1> QED
  BY <1>1, <1>2, <1>3, PTL DEF Spec

-----------------------------------------------------------------------------
(***************************************************************************)
(* No slot is called twice.                                                 *)
(***************************************************************************)

\* Walks of one emission have different slots left.
Apart ==
  \A t, u \in Threads : \A i \in 1..Len(stack[t]), j \in 1..Len(stack[u]) :
    (t # u \/ i # j) /\ stack[t][i].emission = stack[u][j].emission
      => stack[t][i].todo \cap stack[u][j].todo = {}

QueuedOnce ==
  \A t, u \in LoopThreads : \A i \in 1..Len(inbox[t]), j \in 1..Len(inbox[u]) :
    inbox[t][i] = inbox[u][j] => t = u /\ i = j

\* A call is left to a walk or queued, not both, and queued calls were not made.
Either ==
  \A e \in Emissions, s \in Slots :
    InInbox(e, s) => ~InFrame(e, s) /\ <<e, s>> \notin started

\* The slots left to a frame were not called, but for the one it is in.
FreshFrame(f) ==
  \A s \in f.todo : (f.stage = "inside" /\ s = f.slot) \/ <<f.emission, s>> \notin started

Fresh == \A t \in Threads : \A i \in 1..Len(stack[t]) : FreshFrame(stack[t][i])

\* What was started belongs to an emission that began.
Past == \A e \in Emissions, s \in Slots : <<e, s>> \in started => e < nextEmit

OnceInv == Apart /\ QueuedOnce /\ Either /\ Fresh /\ Past

\* Frames of t that go on with fewer slots, d of them having been left.
Shrunk(t, d) ==
  \A u \in Threads : \A j \in 1..Len(stack'[u]) :
    LET i == IF u = t THEN j + d ELSE j IN
      /\ i \in 1..Len(stack[u])
      /\ stack'[u][j].emission = stack[u][i].emission
      /\ stack'[u][j].todo \subseteq stack[u][i].todo

LEMMA ShrunkApart ==
  ASSUME SigInv, Apart, NEW t \in Threads, NEW d \in {0, 1}, Shrunk(t, d)
  PROVE  /\ Apart'
         /\ \A e, s : InFrame(e, s)' => InFrame(e, s)
<1>1. ASSUME NEW u \in Threads, NEW v \in Threads,
             NEW i \in 1..Len(stack'[u]), NEW j \in 1..Len(stack'[v]), u # v \/ i # j,
             stack'[u][i].emission = stack'[v][j].emission
      PROVE  stack'[u][i].todo \cap stack'[v][j].todo = {}
  <2> DEFINE m == IF u = t THEN i + d ELSE i
             n == IF v = t THEN j + d ELSE j
  <2>1. /\ m \in 1..Len(stack[u]) /\ stack'[u][i].emission = stack[u][m].emission
        /\ stack'[u][i].todo \subseteq stack[u][m].todo
    BY DEF Shrunk
  <2>2. /\ n \in 1..Len(stack[v]) /\ stack'[v][j].emission = stack[v][n].emission
        /\ stack'[v][j].todo \subseteq stack[v][n].todo
    BY DEF Shrunk
  <2>3. u # v \/ m # n
    BY <1>1
  <2> HIDE DEF m, n
  <2>4. stack[u][m].todo \cap stack[v][n].todo = {}
    BY <1>1, <2>1, <2>2, <2>3 DEF Apart
  <2> QED
    BY <2>1, <2>2, <2>4
<1>2. ASSUME NEW e, NEW s, InFrame(e, s)' PROVE InFrame(e, s)
  <2>1. PICK u \in Threads : \E j \in 1..Len(stack'[u]) :
          stack'[u][j].emission = e /\ s \in stack'[u][j].todo
    BY <1>2 DEF InFrame
  <2>2. PICK j \in 1..Len(stack'[u]) : stack'[u][j].emission = e /\ s \in stack'[u][j].todo
    BY <2>1
  <2>3. \E i \in 1..Len(stack[u]) : stack[u][i].emission = e /\ s \in stack[u][i].todo
    BY <2>2 DEF Shrunk
  <2> QED
    BY <2>3 DEF InFrame
<1> QED
  BY <1>1, <1>2 DEF Apart

LEMMA SetShrinks ==
  ASSUME SigInv, NEW t \in Threads, stack[t] # <<>>, NEW f \in Frames, SetTop(t, f),
         f.emission = Top(t).emission, f.todo \subseteq Top(t).todo
  PROVE  Shrunk(t, 0)
<1>1. stack \in Stacks /\ Top(t) = stack[t][1]
  BY TopIs DEF SigInv, Types
<1>2. /\ Len(stack'[t]) = Len(stack[t]) /\ Len(stack[t]) \in Nat /\ Len(stack[t]) >= 1
      /\ stack'[t][1] = f
      /\ \A i \in 2..Len(stack[t]) : stack'[t][i] = stack[t][i]
      /\ \A u \in Threads \ {t} : stack'[u] = stack[u]
  BY <1>1, SetTopIs
<1>3. ASSUME NEW j \in 1..Len(stack'[t])
      PROVE  /\ j \in 1..Len(stack[t])
             /\ stack'[t][j].emission = stack[t][j].emission
             /\ stack'[t][j].todo \subseteq stack[t][j].todo
  BY <1>1, <1>2
<1> QED
  BY <1>2, <1>3 DEF Shrunk

LEMMA LeaveShrinks ==
  ASSUME SigInv, NEW t \in Threads, stack[t] # <<>>, Leave(t)
  PROVE  Shrunk(t, 1)
<1>1. stack \in Stacks
  BY DEF SigInv, Types
<1>2. /\ Len(stack'[t]) = Len(stack[t]) - 1 /\ Len(stack[t]) \in Nat
      /\ \A i \in 1..(Len(stack[t]) - 1) :
           stack'[t][i] = stack[t][i + 1] /\ i + 1 \in 1..Len(stack[t])
      /\ \A u \in Threads \ {t} : stack'[u] = stack[u]
  BY <1>1, LeaveIs
<1> QED
  BY <1>2 DEF Shrunk

\* t enters a walk of slots that no other walk of the emission has left.
LEMMA EnterApart ==
  ASSUME SigInv, Apart, NEW t \in Threads, NEW e \in Emissions, NEW todo \in SUBSET Slots,
         Enters(t, e, todo), \A s \in todo : ~InFrame(e, s)
  PROVE  /\ Apart'
         /\ \A d, s : InFrame(d, s)' => InFrame(d, s) \/ (d = e /\ s \in todo)
<1>1. stack \in Stacks
  BY DEF SigInv, Types
<1>2. /\ Len(stack'[t]) = Len(stack[t]) + 1 /\ Len(stack[t]) \in Nat
      /\ stack'[t][1].emission = e /\ stack'[t][1].todo = todo
      /\ stack'[t][1].slot = NoSlot /\ stack'[t][1].stage = "next"
      /\ \A i \in 2..(Len(stack[t]) + 1) :
           stack'[t][i] = stack[t][i - 1] /\ i - 1 \in 1..Len(stack[t])
      /\ \A u \in Threads \ {t} : stack'[u] = stack[u]
  BY <1>1, EnterIs
<1> DEFINE old(u, j) == IF u = t THEN j - 1 ELSE j
<1>3. ASSUME NEW u \in Threads, NEW j \in 1..Len(stack'[u]), u # t \/ j # 1
      PROVE  old(u, j) \in 1..Len(stack[u]) /\ stack'[u][j] = stack[u][old(u, j)]
  BY <1>2, <1>3
<1>4. ASSUME NEW u \in Threads, NEW j \in 1..Len(stack'[u]), u # t \/ j # 1,
             stack'[u][j].emission = e
      PROVE  stack'[u][j].todo \cap todo = {}
  <2>1. \A s \in stack'[u][j].todo : InFrame(e, s)
    BY <1>3, <1>4 DEF InFrame
  <2> QED
    BY <2>1
<1>5. stack'[t][1].emission = e /\ stack'[t][1].todo = todo
  BY <1>2
<1>6. ASSUME NEW u \in Threads, NEW v \in Threads,
             NEW i \in 1..Len(stack'[u]), NEW j \in 1..Len(stack'[v]), u # v \/ i # j,
             stack'[u][i].emission = stack'[v][j].emission
      PROVE  stack'[u][i].todo \cap stack'[v][j].todo = {}
  <2>1. CASE u = t /\ i = 1
    BY <1>4, <1>5, <1>6, <2>1
  <2>2. CASE v = t /\ j = 1
    BY <1>4, <1>5, <1>6, <2>2
  <2>3. CASE (u # t \/ i # 1) /\ (v # t \/ j # 1)
    <3>1. old(u, i) \in 1..Len(stack[u]) /\ stack'[u][i] = stack[u][old(u, i)]
      BY <1>3, <2>3
    <3>2. old(v, j) \in 1..Len(stack[v]) /\ stack'[v][j] = stack[v][old(v, j)]
      BY <1>3, <2>3
    <3>3. u # v \/ old(u, i) # old(v, j)
      BY <1>6
    <3> HIDE DEF old
    <3>4. PICK m \in 1..Len(stack[u]) : m = old(u, i)
      BY <3>1
    <3>5. PICK n \in 1..Len(stack[v]) : n = old(v, j)
      BY <3>2
    <3>6. stack[u][m].todo \cap stack[v][n].todo = {}
      BY <1>6, <3>1, <3>2, <3>3, <3>4, <3>5 DEF Apart
    <3> QED
      BY <3>1, <3>2, <3>4, <3>5, <3>6
  <2> QED
    BY <2>1, <2>2, <2>3
<1>7. ASSUME NEW d, NEW s, InFrame(d, s)' PROVE InFrame(d, s) \/ (d = e /\ s \in todo)
  <2>1. PICK u \in Threads : \E j \in 1..Len(stack'[u]) :
          stack'[u][j].emission = d /\ s \in stack'[u][j].todo
    BY <1>7 DEF InFrame
  <2>2. PICK j \in 1..Len(stack'[u]) : stack'[u][j].emission = d /\ s \in stack'[u][j].todo
    BY <2>1
  <2>3. CASE u = t /\ j = 1
    BY <1>5, <2>2, <2>3
  <2>4. CASE u # t \/ j # 1
    BY <1>3, <2>2, <2>4 DEF InFrame
  <2> QED
    BY <2>3, <2>4
<1> QED
  BY <1>6, <1>7 DEF Apart

\* The frames stay fresh when the innermost one of t is f, or is left, and only what f
\* is in was started.
LEMMA SetFresh ==
  ASSUME SigInv, OnceInv, NEW t \in Threads, stack[t] # <<>>, NEW f \in Frames, SetTop(t, f),
         f.emission = Top(t).emission, f.todo \subseteq Top(t).todo,
         \/ UNCHANGED started
         \/ started' = started \cup {<<Top(t).emission, Top(t).slot>>} /\ Top(t).stage # "next",
         FreshFrame(f)'
  PROVE  Fresh'
<1>1. stack \in Stacks /\ Top(t) = stack[t][1] /\ 1 \in 1..Len(stack[t])
  BY TopIs DEF SigInv, Types
<1>2. /\ Len(stack'[t]) = Len(stack[t]) /\ Len(stack[t]) \in Nat /\ Len(stack[t]) >= 1
      /\ stack'[t][1] = f
      /\ \A i \in 2..Len(stack[t]) : stack'[t][i] = stack[t][i]
      /\ \A u \in Threads \ {t} : stack'[u] = stack[u]
  BY <1>1, SetTopIs
<1>3. Top(t).stage # "next" => Top(t).slot \in Top(t).todo
  BY TopIs
<1>4. ASSUME NEW u \in Threads, NEW i \in 1..Len(stack[u]), u # t \/ i # 1
      PROVE  FreshFrame(stack[u][i])'
  <2>1. stack'[u][i] = stack[u][i]
    <3>1. CASE u = t
      <4>1. i \in 2..Len(stack[t])
        BY <1>2, <1>4, <3>1
      <4> QED
        BY <1>2, <3>1, <4>1
    <3>2. CASE u # t
      BY <1>2, <3>2
    <3> QED
      BY <3>1, <3>2
  <2>2. PICK g : g = stack[u][i]
    OBVIOUS
  <2>3. FreshFrame(g) /\ (g.emission = Top(t).emission => g.todo \cap Top(t).todo = {})
    BY <1>1, <1>4, <2>2 DEF OnceInv, Fresh, Apart
  <2>4. FreshFrame(g)'
    BY <1>3, <2>3 DEF FreshFrame
  <2> QED
    BY <2>1, <2>2, <2>4 DEF FreshFrame
<1>5. FreshFrame(stack[t][1])'
  BY <1>2 DEF FreshFrame
<1>6. \A u \in Threads : \A i \in 1..Len(stack'[u]) : i \in 1..Len(stack[u])
  BY <1>2
<1>7. ASSUME NEW u \in Threads, NEW i \in 1..Len(stack'[u])
      PROVE  FreshFrame(stack[u][i])'
  BY <1>4, <1>5, <1>6
<1> QED
  BY <1>7 DEF Fresh

LEMMA LeaveFresh ==
  ASSUME SigInv, OnceInv, NEW t \in Threads, stack[t] # <<>>, Leave(t), UNCHANGED started
  PROVE  Fresh'
<1>1. stack \in Stacks
  BY DEF SigInv, Types
<1>2. /\ Len(stack'[t]) = Len(stack[t]) - 1 /\ Len(stack[t]) \in Nat
      /\ \A i \in 1..(Len(stack[t]) - 1) :
           stack'[t][i] = stack[t][i + 1] /\ i + 1 \in 1..Len(stack[t])
      /\ \A u \in Threads \ {t} : stack'[u] = stack[u]
  BY <1>1, LeaveIs
<1>3. ASSUME NEW u \in Threads, NEW i \in 1..Len(stack'[u])
      PROVE  FreshFrame(stack[u][i])'
  <2>1. \E j \in 1..Len(stack[u]) : stack'[u][i] = stack[u][j]
    BY <1>2
  <2>2. PICK j \in 1..Len(stack[u]) : stack'[u][i] = stack[u][j]
    BY <2>1
  <2>3. FreshFrame(stack[u][j])
    BY DEF OnceInv, Fresh
  <2> QED
    BY <2>2, <2>3 DEF FreshFrame
<1> QED
  BY <1>3 DEF Fresh

LEMMA EnterFresh ==
  ASSUME SigInv, OnceInv, NEW t \in Threads, NEW e \in Emissions, NEW todo \in SUBSET Slots,
         Enters(t, e, todo), UNCHANGED started,
         \A s \in todo : <<e, s>> \notin started
  PROVE  Fresh'
<1>1. stack \in Stacks
  BY DEF SigInv, Types
<1>2. /\ Len(stack'[t]) = Len(stack[t]) + 1 /\ Len(stack[t]) \in Nat
      /\ stack'[t][1].emission = e /\ stack'[t][1].todo = todo
      /\ stack'[t][1].slot = NoSlot /\ stack'[t][1].stage = "next"
      /\ \A i \in 2..(Len(stack[t]) + 1) :
           stack'[t][i] = stack[t][i - 1] /\ i - 1 \in 1..Len(stack[t])
      /\ \A u \in Threads \ {t} : stack'[u] = stack[u]
  BY <1>1, EnterIs
<1>3. ASSUME NEW u \in Threads, NEW i \in 1..Len(stack'[u])
      PROVE  FreshFrame(stack[u][i])'
  <2>1. CASE u = t /\ i = 1
    BY <1>2, <2>1 DEF FreshFrame
  <2>2. CASE u # t \/ i # 1
    <3>1. \E j \in 1..Len(stack[u]) : stack'[u][i] = stack[u][j]
      <4>1. CASE u # t
        BY <1>2, <4>1
      <4>2. CASE u = t
        <5>1. i \in 2..(Len(stack[t]) + 1)
          BY <1>2, <2>2, <4>2
        <5> QED
          BY <1>2, <4>2, <5>1
      <4> QED
        BY <4>1, <4>2
    <3>2. PICK j \in 1..Len(stack[u]) : stack'[u][i] = stack[u][j]
      BY <3>1
    <3>3. FreshFrame(stack[u][j])
      BY DEF OnceInv, Fresh
    <3> QED
      BY <3>2, <3>3 DEF FreshFrame
  <2> QED
    BY <2>1, <2>2
<1> QED
  BY <1>3 DEF Fresh

\* Steps that leave walks, queues and calls alone.
LEMMA OnceUnchanged ==
  ASSUME OnceInv, UNCHANGED <<stack, inbox, started, nextEmit>>
  PROVE  OnceInv'
<1>1. Apart' /\ QueuedOnce' /\ Past'
  BY DEF OnceInv, Apart, QueuedOnce, Past
<1>2. Either'
  BY DEF OnceInv, Either, InFrame, InInbox
<1>3. Fresh'
  BY DEF OnceInv, Fresh, FreshFrame
<1> QED
  BY <1>1, <1>2, <1>3 DEF OnceInv

\* A walk goes on, or is left, and nothing is queued or started.
LEMMA OnceWalk ==
  ASSUME SigInv, OnceInv, NEW t \in Threads, stack[t] # <<>>, NEW d \in {0, 1}, Shrunk(t, d),
         UNCHANGED <<inbox, started, nextEmit>>, Fresh'
  PROVE  OnceInv'
<1>1. Apart' /\ \A e, s : InFrame(e, s)' => InFrame(e, s)
  BY ShrunkApart DEF OnceInv
<1>2. QueuedOnce' /\ Past' /\ \A e, s : InInbox(e, s)' = InInbox(e, s)
  BY DEF OnceInv, QueuedOnce, Past, InInbox
<1>3. Either'
  BY <1>1, <1>2 DEF OnceInv, Either
<1> QED
  BY <1>1, <1>2, <1>3 DEF OnceInv

LEMMA TopFresh ==
  ASSUME SigInv, OnceInv, NEW t \in Threads, stack[t] # <<>>
  PROVE  /\ FreshFrame(Top(t))
         /\ \A s \in Top(t).todo : InFrame(Top(t).emission, s)
<1>1. Top(t) = stack[t][1] /\ 1 \in 1..Len(stack[t])
  BY TopIs
<1> QED
  BY <1>1 DEF OnceInv, Fresh, InFrame

LEMMA OnceCheck ==
  ASSUME SigInv, OnceInv, NEW t \in Threads, Check(t)
  PROVE  OnceInv'
<1> DEFINE s == Smallest(Top(t).todo)
           f == IF s \in connected THEN [Top(t) EXCEPT !.slot = s, !.stage = "checked"]
                ELSE [Top(t) EXCEPT !.todo = @ \ {s}]
<1>1. /\ stack[t] # <<>> /\ Top(t).stage = "next" /\ Top(t).todo # {} /\ SetTop(t, f)
      /\ UNCHANGED <<nextEmit, inbox, started>>
  BY DEF Check, At, loopVars, history
<1>2. Top(t) \in Frames /\ Top(t).todo \subseteq Slots
  BY <1>1, TopIs
<1>3. s \in Slots
  <2>1. Top(t).todo \subseteq Nat
    BY <1>2 DEF Slots
  <2> QED
    BY <1>1, <1>2, <2>1, SmallestIsIn
<1>4. f \in Frames /\ f.emission = Top(t).emission /\ f.todo \subseteq Top(t).todo
  BY <1>2, <1>3 DEF Frames
<1> HIDE DEF f
<1>5. PICK g \in Frames : g = f
  BY <1>4
<1>6. FreshFrame(g)'
  BY <1>1, <1>4, <1>5, TopFresh DEF FreshFrame
<1>7. Shrunk(t, 0) /\ Fresh'
  BY <1>1, <1>4, <1>5, <1>6, SetShrinks, SetFresh
<1> QED
  BY <1>1, <1>7, OnceWalk

LEMMA OnceCall ==
  ASSUME SigInv, OnceInv, NEW t \in Threads, Call(t)
  PROVE  OnceInv'
<1>1. stack[t] # <<>> /\ Top(t).stage = "checked"
  BY DEF Call, At
<1>2. PICK d \in Emissions, x \in Slots : d = Top(t).emission /\ x = Top(t).slot
  BY <1>1, TopIs
<1>3. /\ Top(t) \in Frames /\ x \in Top(t).todo /\ d < nextEmit
  BY <1>1, <1>2, TopIs DEF FrameInv
<1>4. PICK f \in Frames :
        /\ SetTop(t, f) /\ f.emission = d /\ f.todo = Top(t).todo /\ f.slot = x
        /\ f.stage = "inside"
  <2> DEFINE g == [Top(t) EXCEPT !.stage = "inside"]
  <2>1. SetTop(t, g)
    BY DEF Call
  <2>2. /\ g \in Frames /\ g.emission = d /\ g.todo = Top(t).todo /\ g.slot = x
        /\ g.stage = "inside"
    BY <1>2, <1>3 DEF Frames
  <2> HIDE DEF g
  <2> QED
    BY <2>1, <2>2
<1>5. UNCHANGED <<nextEmit, inbox>> /\ started' = started \cup {<<d, x>>}
  BY <1>2 DEF Call, loopVars
<1>6. FreshFrame(f)'
  BY <1>1, <1>2, <1>4, <1>5, TopFresh DEF FreshFrame
<1>7. Shrunk(t, 0) /\ Fresh'
  BY <1>1, <1>2, <1>4, <1>5, <1>6, SetShrinks, SetFresh
<1>8. Apart' /\ \A e, s : InFrame(e, s)' => InFrame(e, s)
  BY <1>7, ShrunkApart DEF OnceInv
<1>9. InFrame(d, x)
  BY <1>1, <1>2, <1>3, TopFresh
<1>10. QueuedOnce' /\ \A e, s : InInbox(e, s)' = InInbox(e, s)
  BY <1>5 DEF OnceInv, QueuedOnce, InInbox
<1>11. Either'
  BY <1>5, <1>8, <1>9, <1>10 DEF OnceInv, Either
<1>12. Past'
  BY <1>3, <1>5 DEF OnceInv, Past
<1> QED
  BY <1>7, <1>8, <1>10, <1>11, <1>12 DEF OnceInv

LEMMA OnceReturn ==
  ASSUME SigInv, OnceInv, NEW t \in Threads, CallReturn(t)
  PROVE  OnceInv'
<1>1. /\ stack[t] # <<>> /\ Done(t) /\ Top(t).stage = "inside"
      /\ UNCHANGED <<nextEmit, inbox, started>>
  BY DEF CallReturn, At, loopVars, history
<1>2. PICK f \in Frames :
        /\ SetTop(t, f) /\ f.emission = Top(t).emission /\ f.stage = "next"
        /\ f.todo = Top(t).todo \ {Top(t).slot}
  BY <1>1, DoneSets
<1>3. FreshFrame(f)'
  BY <1>1, <1>2, TopFresh DEF FreshFrame
<1>4. Shrunk(t, 0) /\ Fresh'
  BY <1>1, <1>2, <1>3, SetShrinks, SetFresh
<1> QED
  BY <1>1, <1>4, OnceWalk

LEMMA OnceLeave ==
  ASSUME SigInv, OnceInv, NEW t \in Threads, EmitThrow(t) \/ EmitEnd(t)
  PROVE  OnceInv'
<1>1. stack[t] # <<>> /\ Leave(t) /\ UNCHANGED <<nextEmit, inbox, started>>
  BY DEF EmitThrow, EmitEnd, At, loopVars, history
<1>2. Shrunk(t, 1) /\ Fresh'
  BY <1>1, LeaveShrinks, LeaveFresh
<1> QED
  BY <1>1, <1>2, OnceWalk

\* The queued call is left to no walk any more.
LEMMA PostedIsGone ==
  ASSUME SigInv, OnceInv, NEW t \in Threads, stack[t] # <<>>, NEW d \in Emissions, NEW x \in Slots,
         d = Top(t).emission, x \in Top(t).todo, NEW f \in Frames, SetTop(t, f),
         f.emission = d, f.todo = Top(t).todo \ {x}
  PROVE  ~InFrame(d, x)'
<1>1. stack \in Stacks /\ Top(t) = stack[t][1] /\ 1 \in 1..Len(stack[t])
  BY TopIs DEF SigInv, Types
<1>2. /\ Len(stack'[t]) = Len(stack[t]) /\ Len(stack[t]) \in Nat /\ Len(stack[t]) >= 1
      /\ stack'[t][1] = f
      /\ \A i \in 2..Len(stack[t]) : stack'[t][i] = stack[t][i]
      /\ \A u \in Threads \ {t} : stack'[u] = stack[u]
  BY <1>1, SetTopIs
<1>3. ASSUME NEW u \in Threads, NEW i \in 1..Len(stack'[u]), stack'[u][i].emission = d,
             x \in stack'[u][i].todo
      PROVE  FALSE
  <2>1. CASE u = t /\ i = 1
    BY <1>2, <1>3, <2>1
  <2>2. CASE u = t /\ i # 1
    <3>1. i \in 1..Len(stack[t]) /\ stack'[t][i] = stack[t][i]
      BY <1>2, <2>2
    <3> QED
      BY <1>1, <1>3, <2>2, <3>1 DEF OnceInv, Apart
  <2>3. CASE u # t
    <3>1. stack'[u] = stack[u]
      BY <1>2, <2>3
    <3> QED
      BY <1>1, <1>3, <2>3, <3>1 DEF OnceInv, Apart
  <2> QED
    BY <2>1, <2>2, <2>3
<1> QED
  BY <1>3 DEF InFrame

LEMMA OncePost ==
  ASSUME SigInv, OnceInv, NEW t \in Threads, PostCall(t)
  PROVE  OnceInv'
<1>0. stack[t] # <<>> /\ Top(t).stage = "checked" /\ Done(t)
  BY DEF PostCall, At
<1>1. PICK d \in Emissions, x \in Slots : d = Top(t).emission /\ x = Top(t).slot
  BY <1>0, TopIs
<1>2. /\ UNCHANGED <<nextEmit, started>>
      /\ \/ home[x] \in loops /\ inbox' = [inbox EXCEPT ![home[x]] = Append(@, <<d, x>>)]
         \/ UNCHANGED inbox
  BY <1>1 DEF PostCall, sigVars
<1>3. PICK f \in Frames :
        /\ SetTop(t, f) /\ f.emission = d /\ f.stage = "next" /\ f.todo = Top(t).todo \ {x}
  BY <1>0, <1>1, DoneSets
<1>4. x \in Top(t).todo
  BY <1>0, <1>1, TopIs
<1>5. FreshFrame(f)'
  BY <1>0, <1>1, <1>2, <1>3, TopFresh DEF FreshFrame
<1>6. Shrunk(t, 0) /\ Fresh'
  BY <1>0, <1>1, <1>2, <1>3, <1>5, SetShrinks, SetFresh
<1>7. CASE UNCHANGED inbox
  BY <1>0, <1>2, <1>6, <1>7, OnceWalk
<1>8. CASE home[x] \in loops /\ inbox' = [inbox EXCEPT ![home[x]] = Append(@, <<d, x>>)]
  <2>1. PICK h \in LoopThreads : h = home[x]
    BY <1>8 DEF SigInv, Types, LoopTypes
  <2>2. /\ inbox \in [LoopThreads -> Seq(Emissions \X Slots)]
        /\ inbox[h] \in Seq(Emissions \X Slots) /\ <<d, x>> \in Emissions \X Slots
        /\ inbox'[h] = Append(inbox[h], <<d, x>>)
        /\ \A u \in LoopThreads : u # h => inbox'[u] = inbox[u]
    BY <1>8, <2>1 DEF SigInv, Types, LoopTypes
  <2>3. /\ Len(inbox'[h]) = Len(inbox[h]) + 1 /\ Len(inbox[h]) \in Nat
        /\ \A i \in 1..Len(inbox[h]) : inbox'[h][i] = inbox[h][i]
        /\ inbox'[h][Len(inbox[h]) + 1] = <<d, x>>
    BY <2>2
  <2>4. InFrame(d, x) /\ <<d, x>> \notin started
    BY <1>0, <1>1, <1>4, TopFresh DEF FreshFrame
  <2>5. \A u \in LoopThreads : \A i \in 1..Len(inbox[u]) : inbox[u][i] # <<d, x>>
    BY <2>4 DEF OnceInv, Either, InInbox
  <2>6. ~InFrame(d, x)'
    BY <1>0, <1>1, <1>3, <1>4, PostedIsGone
  <2>7. Apart' /\ \A e, s : InFrame(e, s)' => InFrame(e, s)
    BY <1>6, ShrunkApart DEF OnceInv
  <2>8. ASSUME NEW u \in LoopThreads, NEW i \in 1..Len(inbox'[u])
        PROVE  \/ i \in 1..Len(inbox[u]) /\ inbox'[u][i] = inbox[u][i]
               \/ u = h /\ i = Len(inbox[h]) + 1 /\ inbox'[u][i] = <<d, x>>
    <3>1. CASE u # h
      BY <2>2, <3>1
    <3>2. CASE u = h
      <4>1. i \in 1..(Len(inbox[h]) + 1)
        BY <2>3, <3>2
      <4>2. i \in 1..Len(inbox[h]) \/ i = Len(inbox[h]) + 1
        BY <2>3, <4>1
      <4> QED
        BY <2>3, <3>2, <4>2
    <3> QED
      BY <3>1, <3>2
  <2>9. ASSUME NEW u \in LoopThreads, NEW v \in LoopThreads, NEW i \in 1..Len(inbox'[u]),
               NEW j \in 1..Len(inbox'[v]), inbox'[u][i] = inbox'[v][j]
        PROVE  u = v /\ i = j
    <3>1. CASE i \in 1..Len(inbox[u]) /\ inbox'[u][i] = inbox[u][i]
      <4>1. inbox'[v][j] # <<d, x>>
        BY <2>5, <2>9, <3>1
      <4>2. j \in 1..Len(inbox[v]) /\ inbox'[v][j] = inbox[v][j]
        BY <2>8, <4>1
      <4>3. inbox[u][i] = inbox[v][j]
        BY <2>9, <3>1, <4>2
      <4>4. QueuedOnce
        BY DEF OnceInv
      <4> QED
        BY <3>1, <4>2, <4>3, <4>4, Zenon DEF QueuedOnce
    <3>2. CASE u = h /\ i = Len(inbox[h]) + 1 /\ inbox'[u][i] = <<d, x>>
      <4>1. inbox'[v][j] = <<d, x>>
        BY <2>9, <3>2
      <4>2. ~(j \in 1..Len(inbox[v]) /\ inbox'[v][j] = inbox[v][j])
        BY <2>5, <4>1
      <4>3. v = h /\ j = Len(inbox[h]) + 1
        <5>1. \/ j \in 1..Len(inbox[v]) /\ inbox'[v][j] = inbox[v][j]
              \/ v = h /\ j = Len(inbox[h]) + 1 /\ inbox'[v][j] = <<d, x>>
          BY <2>8
        <5> QED
          BY <4>2, <5>1, Zenon
      <4> QED
        BY <3>2, <4>3
    <3> QED
      BY <2>8, <3>1, <3>2
  <2>10. QueuedOnce'
    BY <2>9 DEF QueuedOnce
  <2>11. \A e, s : InInbox(e, s)' => InInbox(e, s) \/ (e = d /\ s = x)
    BY <2>8 DEF InInbox
  <2>12. Either'
    BY <1>2, <2>4, <2>6, <2>7, <2>11 DEF OnceInv, Either
  <2>13. Past'
    BY <1>2 DEF OnceInv, Past
  <2> QED
    BY <1>6, <2>7, <2>10, <2>12, <2>13 DEF OnceInv
<1> QED
  BY <1>2, <1>7, <1>8

LEMMA OnceTake ==
  ASSUME SigInv, OnceInv, NEW t \in Threads, Take(t)
  PROVE  OnceInv'
<1>1. /\ UNCHANGED <<nextEmit, started>>
      /\ t \in LoopThreads /\ inbox[t] \in Seq(Emissions \X Slots)
      /\ inbox \in [LoopThreads -> Seq(Emissions \X Slots)]
      /\ DOMAIN inbox[t] = 1..Len(inbox[t])
  BY DEF Take, history, SigInv, Types, LoopTypes
<1>2. PICK i \in 1..Len(inbox[t]) :
        /\ inbox' = [inbox EXCEPT ![t] = Taken(inbox[t], i)]
        /\ Enter(t, inbox[t][i][1], {inbox[t][i][2]}, TRUE)
  BY <1>1 DEF Take
<1>3. PICK d \in Emissions, x \in Slots : inbox[t][i] = <<d, x>>
  BY <1>1
<1>4. Enters(t, d, {x}) /\ {x} \in SUBSET Slots
  <2>1. inbox[t][i][1] = d /\ inbox[t][i][2] = x
    BY <1>3
  <2> QED
    BY <1>2, <2>1 DEF Enters
<1>5. InInbox(d, x) /\ ~InFrame(d, x) /\ <<d, x>> \notin started
  BY <1>1, <1>3 DEF OnceInv, Either, InInbox
<1>6. Apart' /\ \A e, s : InFrame(e, s)' => InFrame(e, s) \/ (e = d /\ s \in {x})
  BY <1>4, <1>5, EnterApart DEF OnceInv
<1>7. Fresh'
  BY <1>1, <1>4, <1>5, EnterFresh
<1>8. /\ Len(inbox'[t]) = Len(inbox[t]) - 1 /\ Len(inbox[t]) \in Nat
      /\ \A j \in 1..(Len(inbox[t]) - 1) :
           inbox'[t][j] = IF j < i THEN inbox[t][j] ELSE inbox[t][j + 1]
      /\ \A u \in LoopThreads : u # t => inbox'[u] = inbox[u]
  <2>1. inbox'[t] = Taken(inbox[t], i) /\ \A u \in LoopThreads : u # t => inbox'[u] = inbox[u]
    BY <1>1, <1>2
  <2>2. /\ Len(Taken(inbox[t], i)) = Len(inbox[t]) - 1
        /\ \A j \in 1..(Len(inbox[t]) - 1) :
             Taken(inbox[t], i)[j] = IF j < i THEN inbox[t][j] ELSE inbox[t][j + 1]
    BY <1>1, TakenIs
  <2>3. Len(inbox[t]) \in Nat
    BY <1>1
  <2> HIDE <1>1, <1>2
  <2> QED
    BY <2>1, <2>2, <2>3
<1> DEFINE old(u, j) == IF u = t /\ j >= i THEN j + 1 ELSE j
<1>9. ASSUME NEW u \in LoopThreads, NEW j \in 1..Len(inbox'[u])
      PROVE  /\ old(u, j) \in 1..Len(inbox[u]) /\ inbox'[u][j] = inbox[u][old(u, j)]
             /\ u # t \/ old(u, j) # i
  <2>1. CASE u # t
    BY <1>8, <2>1
  <2>2. CASE u = t
    <3>1. j \in 1..(Len(inbox[t]) - 1) /\ j \in Nat /\ i \in Nat /\ Len(inbox[t]) \in Nat
      BY <1>8, <2>2
    <3>2. CASE j < i
      BY <1>8, <2>2, <3>1, <3>2
    <3>3. CASE ~(j < i)
      <4>1. old(u, j) = j + 1 /\ j + 1 \in 1..Len(inbox[t]) /\ j + 1 # i
        BY <2>2, <3>1, <3>3
      <4>2. inbox'[t][j] = inbox[t][j + 1]
        BY <1>8, <3>1, <3>3
      <4> HIDE DEF old
      <4> QED
        BY <2>2, <4>1, <4>2
    <3> QED
      BY <3>2, <3>3
  <2> QED
    BY <2>1, <2>2
<1>10. ASSUME NEW u \in LoopThreads, NEW v \in LoopThreads,
              NEW j \in 1..Len(inbox'[u]), NEW k \in 1..Len(inbox'[v]),
              inbox'[u][j] = inbox'[v][k]
       PROVE  u = v /\ j = k
  <2>1. u = v /\ old(u, j) = old(v, k)
    <3> HIDE DEF old
    <3>1. PICK m \in 1..Len(inbox[u]) : m = old(u, j) /\ inbox'[u][j] = inbox[u][m]
      BY <1>9
    <3>2. PICK n \in 1..Len(inbox[v]) : n = old(v, k) /\ inbox'[v][k] = inbox[v][n]
      BY <1>9
    <3>3. inbox[u][m] = inbox[v][n]
      BY <1>10, <3>1, <3>2
    <3>4. u = v /\ m = n
      BY <3>3 DEF OnceInv, QueuedOnce
    <3> QED
      BY <3>1, <3>2, <3>4
  <2> QED
    BY <2>1
<1>11. QueuedOnce'
  BY <1>10 DEF QueuedOnce
<1>12. ASSUME NEW e, NEW s, InInbox(e, s)'
       PROVE  InInbox(e, s) /\ <<e, s>> # <<d, x>>
  <2>1. PICK u \in LoopThreads : \E j \in 1..Len(inbox'[u]) : inbox'[u][j] = <<e, s>>
    BY <1>12 DEF InInbox
  <2>2. PICK j \in 1..Len(inbox'[u]) : inbox'[u][j] = <<e, s>>
    BY <2>1
  <2> HIDE DEF old
  <2>3. PICK m \in 1..Len(inbox[u]) : inbox[u][m] = <<e, s>> /\ (u # t \/ m # i)
    BY <1>9, <2>2
  <2>4. inbox[u][m] # inbox[t][i]
    BY <1>1, <2>3 DEF OnceInv, QueuedOnce
  <2> QED
    BY <1>3, <2>3, <2>4 DEF InInbox
<1>13. Either'
  BY <1>1, <1>6, <1>12 DEF OnceInv, Either
<1>14. Past'
  BY <1>1 DEF OnceInv, Past
<1> QED
  BY <1>6, <1>7, <1>11, <1>13, <1>14 DEF OnceInv

LEMMA OnceLoopDestroy ==
  ASSUME SigInv, OnceInv, NEW t \in Threads, LoopDestroy(t)
  PROVE  OnceInv'
<1>1. /\ UNCHANGED <<nextEmit, started, stack>>
      /\ \A u \in LoopThreads : Len(inbox'[u]) = 0 \/ inbox'[u] = inbox[u]
  BY DEF LoopDestroy, SigInv, Types, LoopTypes
<1>2. Apart' /\ Fresh' /\ Past' /\ \A e, s : InFrame(e, s)' = InFrame(e, s)
  BY <1>1 DEF OnceInv, Apart, Fresh, FreshFrame, Past, InFrame
<1>3. QueuedOnce'
  BY <1>1 DEF OnceInv, QueuedOnce
<1>4. \A e, s : InInbox(e, s)' => InInbox(e, s)
  BY <1>1 DEF InInbox
<1>5. Either'
  BY <1>1, <1>2, <1>4 DEF OnceInv, Either
<1> QED
  BY <1>2, <1>3, <1>5 DEF OnceInv

LEMMA OnceBegin ==
  ASSUME SigInv, OnceInv, NEW t \in Threads, EmitBegin(t)
  PROVE  OnceInv'
<1>1. /\ UNCHANGED <<inbox, started>>
      /\ nextEmit' = nextEmit + 1 /\ nextEmit \in Emissions /\ nextEmit \in Nat
  BY DEF EmitBegin, loopVars, SigInv, Types, HistoryTypes, Emissions
<1>2. connected \in SUBSET Slots /\ Enters(t, nextEmit, connected)
  <2>1. slots' = slots \cap connected /\ connected \subseteq slots
    BY DEF EmitBegin, SigInv, Types, SlotTypes
  <2>2. slots' = connected
    BY <2>1
  <2>3. connected \in SUBSET Slots
    BY <2>1, SignalAssumption DEF SigInv, Types, SlotTypes, Issued, Slots, SignalAssumption
  <2> QED
    BY <2>2, <2>3 DEF EmitBegin, Enters
<1>3. PICK d \in Emissions : d = nextEmit
  BY <1>1
<1>4. \A s : ~InFrame(d, s)
  <2>1. ASSUME NEW u \in Threads, NEW i \in 1..Len(stack[u]) PROVE stack[u][i].emission # d
    <3>1. stack[u][i] \in Frames /\ FrameInv(u, stack[u][i])
      BY Above
    <3>2. stack[u][i].emission < nextEmit /\ stack[u][i].emission \in Nat
      BY <3>1 DEF FrameInv, Frames, Emissions
    <3> QED
      BY <1>1, <1>3, <3>2
  <2> QED
    BY <2>1 DEF InFrame
<1>5. \A s \in Slots : <<d, s>> \notin started /\ ~InInbox(d, s)
  <2>1. \A s \in Slots : <<d, s>> \notin started
    BY <1>1, <1>3 DEF OnceInv, Past
  <2>2. ASSUME NEW s, InInbox(d, s) PROVE FALSE
    <3>1. PICK u \in LoopThreads : \E j \in 1..Len(inbox[u]) : inbox[u][j] = <<d, s>>
      BY <2>2 DEF InInbox
    <3>2. d < nextEmit
      BY <3>1 DEF SigInv, InboxInv
    <3> QED
      BY <1>1, <1>3, <3>2
  <2> QED
    BY <2>1, <2>2
<1>6. Enters(t, d, connected)
  BY <1>2, <1>3
<1>7. Apart' /\ \A e, s : InFrame(e, s)' => InFrame(e, s) \/ (e = d /\ s \in connected)
  BY <1>2, <1>4, <1>6, EnterApart DEF OnceInv
<1>8. Fresh'
  BY <1>1, <1>2, <1>5, <1>6, EnterFresh
<1>9. QueuedOnce' /\ \A e, s : InInbox(e, s)' = InInbox(e, s)
  BY <1>1 DEF OnceInv, QueuedOnce, InInbox
<1>10. Either'
  BY <1>1, <1>5, <1>7, <1>9 DEF OnceInv, Either
<1>11. Past'
  BY <1>1 DEF OnceInv, Past, Emissions
<1> QED
  BY <1>7, <1>8, <1>9, <1>10, <1>11 DEF OnceInv

LEMMA OnceNext == SigInv /\ OnceInv /\ [Next]_vars => OnceInv'
<1> SUFFICES ASSUME SigInv, OnceInv, [Next]_vars PROVE OnceInv'
  OBVIOUS
<1>1. ASSUME NEW t \in Threads, Connect(t) \/ DisconnectAll(t) \/ Destroy(t) PROVE OnceInv'
  BY <1>1, OnceUnchanged DEF Connect, DisconnectAll, Destroy, Unlist, loopVars, history
<1>2. ASSUME NEW t \in Threads, NEW s \in Slots, Disconnect(t, s) PROVE OnceInv'
  BY <1>2, OnceUnchanged DEF Disconnect, loopVars
<1>3. ASSUME UNCHANGED vars PROVE OnceInv'
  BY <1>3, OnceUnchanged DEF vars, loopVars, history
<1> QED
  BY <1>1, <1>2, <1>3, OnceCheck, OnceCall, OnceReturn, OncePost, OnceLeave, OnceTake,
     OnceLoopDestroy, OnceBegin DEF Next, UserStep, EmitStep

LEMMA OnceInit == Init => OnceInv
<1> SUFFICES ASSUME Init PROVE OnceInv
  OBVIOUS
<1>1. /\ \A t \in Threads : Len(stack[t]) = 0
      /\ \A t \in LoopThreads : Len(inbox[t]) = 0
      /\ started = {} /\ 1..0 = {}
  BY DEF Init
<1>2. Apart /\ QueuedOnce /\ Fresh /\ Past
  BY <1>1 DEF Apart, QueuedOnce, Fresh, Past
<1>3. Either
  BY <1>1 DEF Either, InInbox
<1> QED
  BY <1>2, <1>3 DEF OnceInv

\* An emission calls a slot at most once, directly or through a loop's queue, and only
\* one that was connected when it began, whatever is connected, disconnected and emitted
\* meanwhile.
THEOREM CalledAtMostOnce == Spec => AtMostOnce
<1>1. ASSUME SigInv, OnceInv, NEW t \in Threads, NEW e \in Emissions, NEW s \in Slots,
             Starts(t, e, s)
      PROVE  <<e, s>> \notin started /\ s \in promised[e]
  <2>1. stack[t] # <<>> /\ Top(t).stage = "checked" /\ Top(t).slot = s /\ Top(t).emission = e
    BY <1>1 DEF Starts, At
  <2> QED
    BY <1>1, <2>1, TopIs, TopFresh DEF FrameInv, FreshFrame
<1>2. SigInv /\ OnceInv => [\A t \in Threads, e \in Emissions, s \in Slots :
        Starts(t, e, s) => <<e, s>> \notin started /\ s \in promised[e]]_vars
  BY <1>1
<1>3. Init => SigInv /\ OnceInv
  BY SigInvInit, OnceInit
<1>4. SigInv /\ OnceInv /\ [Next]_vars => (SigInv /\ OnceInv)'
  BY SigInvStep, OnceNext
<1> QED
  BY <1>2, <1>3, <1>4, PTL DEF Spec, AtMostOnce
=============================================================================
