--------------------------- MODULE WindowFocusProofs ---------------------------
(***************************************************************************)
(* Theorems about WindowFocus for all trees, sheets and bounds.             *)
(*                                                                          *)
(* Parts: sequences of frames; sheets confine the focus and callbacks are   *)
(* paired with it; trees that grow and shrink, paths and detached subtrees; *)
(* the inductive invariant Core of pointers, frames and trees, one lemma    *)
(* per action; and what is built on Core: where a sheet takes its restore   *)
(* target from, that the focus owner is usable, that unusable trees own no  *)
(* pointer, and that the focus comes back.                                  *)
(* FocusIsContained allows focus callbacks the operations of HarmlessOps.   *)
(* The theorems from TypeCorrect on assume that focus and hover callbacks   *)
(* call none of the window's operations. Event handlers call any of them.   *)
(***************************************************************************)
EXTENDS WindowFocus, TLAPS, WellFoundedInduction, FiniteSetTheorems

IsFrame(f) == f = [op |-> f.op, w |-> f.w, prev |-> f.prev, list |-> f.list]

Elements(s) == {s[i] : i \in 1..Len(s)}

Framed(s) == s \in Seq(Elements(s)) /\ \A f \in Elements(s) : IsFrame(f)

\* Frames of which none is about to give the focus to a widget.
Clean(s) == Framed(s) /\ \A f \in Elements(s) : f.op # "take"

\* What focus_widget() has left to do, the user code it tells, and what such code
\* may call.
Tells(f) ==
  \/ f.op \in {"out", "in", "taken", "take", "focus", "changed"}
  \/ f.op = "user" /\ f.w = "focus"

\* The operations that move no sheet and no widget and hide none.
HarmlessOps == {"focus", "disable", "focusable", "child"}

Contained(w) == w = None \/ TopModal = None \/ Inside(w, TopModal)

\* What waits to take the focus is in the top modal sheet, and nothing comes before
\* it that changes the sheets.
Guarded ==
  /\ Framed(stack)
  /\ \A i \in 1..Len(stack) : stack[i].op = "take" =>
       Contained(stack[i].w) /\ \A j \in 1..(i - 1) : Tells(stack[j])

\* Frames that may come before one that takes the focus.
News(s) ==
  /\ Framed(s)
  /\ \A f \in Elements(s) : Tells(f) /\ (f.op = "take" => Contained(f.w))

(***************************************************************************)
(* Sequences of frames.                                                     *)
(***************************************************************************)
LEMMA FrameShape ==
  ASSUME NEW op, NEW w
  PROVE  /\ IsFrame(Frame(op, w)) /\ Frame(op, w).op = op /\ Frame(op, w).w = w
         /\ IsFrame(UserFrame(w)) /\ UserFrame(w).op = "user" /\ UserFrame(w).w = w
         /\ \A list : /\ IsFrame([Frame(op, w) EXCEPT !.list = list])
                      /\ [Frame(op, w) EXCEPT !.list = list].op = op
  BY DEF Frame, UserFrame, IsFrame

\* The elements of a sequence are a set it is a sequence over.
LEMMA OwnElements ==
  ASSUME NEW S, NEW s \in Seq(S)
  PROVE  s \in Seq(Elements(s)) /\ Elements(s) \subseteq S
<1>1. Len(s) \in Nat /\ DOMAIN s = 1..Len(s) /\ \A i \in 1..Len(s) : s[i] \in S
  OBVIOUS
<1>2. \A i \in 1..Len(s) : s[i] \in Elements(s)
  BY DEF Elements
<1>3. Elements(s) \subseteq S
  BY <1>1 DEF Elements
<1>4. s = [i \in 1..Len(s) |-> s[i]]
  OBVIOUS
<1>5. s \in [1..Len(s) -> Elements(s)]
  BY <1>2, <1>4
<1> QED
  BY <1>1, <1>3, <1>5

LEMMA CleanOver ==
  ASSUME NEW S, NEW s \in Seq(S), \A f \in S : IsFrame(f) /\ f.op # "take"
  PROVE  Clean(s)
  BY OwnElements DEF Clean, Framed

LEMMA CleanEmpty == Clean(<<>>)
<1>1. Len(<<>>) = 0 /\ 1..0 = {} /\ <<>> \in Seq(Elements(<<>>))
  OBVIOUS
<1> QED
  BY <1>1 DEF Clean, Framed, Elements

LEMMA CleanTuples ==
  ASSUME NEW f, NEW g, NEW h, \A e \in {f, g, h} : IsFrame(e) /\ e.op # "take"
  PROVE  Clean(<<f>>) /\ Clean(<<f, g>>) /\ Clean(<<f, g, h>>)
<1> DEFINE S == {f, g, h}
<1>1. <<f>> \in Seq(S) /\ <<f, g>> \in Seq(S) /\ <<f, g, h>> \in Seq(S)
  OBVIOUS
<1> HIDE DEF S
<1>2. \A e \in S : IsFrame(e) /\ e.op # "take"
  BY DEF S
<1> QED
  BY <1>1, <1>2, CleanOver

LEMMA CleanOne ==
  ASSUME NEW f, IsFrame(f), f.op # "take"
  PROVE  Clean(<<f>>)
<1>1. \A e \in {f} : IsFrame(e) /\ e.op # "take"
  OBVIOUS
<1> QED
  BY <1>1, CleanTuples

LEMMA CleanConcat ==
  ASSUME NEW s, NEW t, Clean(s), Clean(t)
  PROVE  Clean(s \o t)
<1>1. PICK S : S = Elements(s) \cup Elements(t)
  OBVIOUS
<1>2. s \in Seq(S) /\ t \in Seq(S)
  <2>1. s \in Seq(Elements(s)) /\ t \in Seq(Elements(t))
    BY DEF Clean, Framed
  <2>2. Elements(s) \subseteq S /\ Elements(t) \subseteq S
    BY <1>1
  <2> QED
    BY <2>1, <2>2
<1>3. s \o t \in Seq(S)
  BY <1>2
<1>4. \A f \in S : IsFrame(f) /\ f.op # "take"
  BY <1>1 DEF Clean, Framed
<1> QED
  BY <1>3, <1>4, CleanOver

\* Nothing waits for the focus below a frame that does not tell of it.
LEMMA BelowIsClean ==
  ASSUME Guarded, stack # <<>>, ~Tells(Head(stack))
  PROVE  Clean(Tail(stack)) /\ (Head(stack).op # "take" => Clean(stack))
<1>1. /\ stack \in Seq(Elements(stack)) /\ \A f \in Elements(stack) : IsFrame(f)
      /\ Len(stack) \in Nat /\ Len(stack) > 0 /\ Head(stack) = stack[1]
  BY DEF Guarded, Framed
<1>2. \A i \in 1..Len(stack) : i > 1 => stack[i].op # "take"
  <2>1. ASSUME NEW i \in 1..Len(stack), i > 1 PROVE 1 \in 1..(i - 1)
    BY <1>1, <2>1
  <2> QED
    BY <1>1, <2>1 DEF Guarded
<1>3. PICK S : S = {f \in Elements(stack) : f.op # "take"}
  OBVIOUS
<1>4. \A f \in S : IsFrame(f) /\ f.op # "take"
  BY <1>1, <1>3
<1>5. Clean(Tail(stack))
  <2>1. /\ Len(Tail(stack)) = Len(stack) - 1 /\ Tail(stack) \in Seq(Elements(stack))
        /\ \A i \in 1..(Len(stack) - 1) : Tail(stack)[i] = stack[i + 1]
    BY <1>1
  <2>2. \A i \in 1..(Len(stack) - 1) :
          i + 1 \in 1..Len(stack) /\ i + 1 > 1 /\ stack[i + 1] \in S
    BY <1>1, <1>2, <1>3 DEF Elements
  <2>3. \A i \in 1..Len(Tail(stack)) : Tail(stack)[i] \in S
    BY <1>1, <2>1, <2>2
  <2>4. Tail(stack) \in Seq(S)
    <3>1. PICK t : t = Tail(stack)
      OBVIOUS
    <3>2. t \in Seq(Elements(stack)) /\ \A i \in 1..Len(t) : t[i] \in S
      BY <2>1, <2>3, <3>1
    <3>3. PICK n \in Nat : n = Len(t)
      BY <3>2
    <3>4. t \in [1..n -> S]
      BY <3>2, <3>3
    <3>5. t \in Seq(S)
      BY <3>4
    <3> QED
      BY <3>1, <3>5
  <2> QED
    BY <1>4, <2>4, CleanOver
<1>6. ASSUME Head(stack).op # "take" PROVE Clean(stack)
  <2>1. \A i \in 1..Len(stack) : stack[i].op # "take"
    BY <1>1, <1>2, <1>6
  <2> QED
    BY <1>1, <2>1 DEF Clean, Framed, Elements
<1> QED
  BY <1>5, <1>6

LEMMA CleanIsGuarded == Clean(stack) => Guarded
  BY DEF Clean, Guarded, Elements

LEMMA CleanNext == ASSUME Clean(stack') PROVE Guarded'
  BY DEF Clean, Guarded, Elements

LEMMA CrashIsGuarded == ASSUME Crash PROVE Guarded'
<1>1. Clean(<<>>)
  BY CleanEmpty
<1> QED
  BY <1>1, CleanNext DEF Crash

LEMMA ThenClean ==
  ASSUME Guarded, stack # <<>>, ~Tells(Head(stack)), NEW frames, Clean(frames), Then(frames)
  PROVE  Guarded'
<1>1. Clean(frames \o Tail(stack))
  BY BelowIsClean, CleanConcat
<1> QED
  BY <1>1, CleanNext DEF Then

LEMMA EventClean ==
  ASSUME NEW frames, Clean(frames), Event(frames)
  PROVE  Guarded'
  BY CleanNext DEF Event

\* The sheets stay as they are, and frames that may come before one that takes the
\* focus are put on the stack, or on what is left of it.
LEMMA TellsThen ==
  ASSUME Guarded, stack # <<>>, TopModal' = TopModal, Path' = Path,
         NEW frames, News(frames), NEW base, base = stack \/ base = Tail(stack),
         stack' = frames \o base
  PROVE  Guarded'
<1>1. PICK n : n = Len(frames)
  OBVIOUS
<1>2. PICK F, S : F = Elements(frames) /\ S = Elements(stack)
  OBVIOUS
<1>3. /\ frames \in Seq(F) /\ n \in Nat /\ stack \in Seq(S) /\ Len(stack) \in Nat
      /\ \A f \in F \cup S : IsFrame(f)
  BY <1>1, <1>2 DEF News, Guarded, Framed
<1>4. \A i \in 1..n : /\ frames[i] \in F /\ Tells(frames[i])
                      /\ frames[i].op = "take" => Contained(frames[i].w)
  BY <1>1, <1>2 DEF News, Elements
<1>5. PICK d \in {0, 1} :
        /\ base \in Seq(S) /\ Len(base) = Len(stack) - d
        /\ \A i \in 1..Len(base) : base[i] = stack[i + d]
  <2>1. CASE base = stack
    BY <1>3, <2>1
  <2>2. CASE base = Tail(stack)
    BY <1>3, <2>2
  <2> QED
    BY <2>1, <2>2
<1>6. /\ stack' \in Seq(F \cup S) /\ Len(stack') = n + Len(base)
      /\ \A i \in 1..n : stack'[i] = frames[i]
      /\ \A i \in 1..Len(stack') : i > n =>
           /\ i - n \in 1..Len(base) /\ stack'[i] = base[i - n]
           /\ (i - n) + d \in 1..Len(stack) /\ stack'[i] = stack[(i - n) + d]
  <2>1. frames \in Seq(F \cup S) /\ base \in Seq(F \cup S)
    BY <1>3, <1>5
  <2>2. /\ stack' \in Seq(F \cup S) /\ Len(stack') = n + Len(base)
        /\ \A i \in 1..n : stack'[i] = frames[i]
        /\ \A i \in 1..Len(stack') : i > n => stack'[i] = base[i - n]
    BY <1>1, <1>3, <2>1
  <2>3. Len(base) \in Nat
    BY <1>5
  <2>4. \A i \in 1..Len(stack') : i > n =>
          i - n \in 1..Len(base) /\ (i - n) + d \in 1..Len(stack)
    BY <1>3, <1>5, <2>2, <2>3
  <2> QED
    BY <1>5, <2>2, <2>4
<1>7. Framed(stack')
  BY <1>3, <1>6, OwnElements DEF Framed
<1>8. ASSUME NEW i \in 1..Len(stack'), stack'[i].op = "take"
      PROVE  Contained(stack[i].w)' /\ \A j \in 1..(i - 1) : Tells(stack[j])'
  <2>1. CASE i \in 1..n
    <3>1. \A j \in 1..(i - 1) : j \in 1..n
      BY <1>3, <2>1
    <3>2. Contained(stack'[i].w)
      BY <1>4, <1>6, <1>8, <2>1
    <3>3. Contained(stack[i].w)'
      BY <3>2 DEF Contained, Inside
    <3>4. \A j \in 1..(i - 1) : Tells(stack[j])'
      BY <1>4, <1>6, <3>1 DEF Tells
    <3> QED
      BY <3>3, <3>4
  <2>2. CASE i \notin 1..n
    <3>1. i \in Nat /\ i > n /\ i \in 1..Len(stack')
      BY <1>3, <1>8, <2>2
    <3>2. PICK m : m = (i - n) + d
      OBVIOUS
    <3>3. m \in 1..Len(stack) /\ stack'[i] = stack[m]
      BY <1>6, <3>1, <3>2
    <3>4. Contained(stack[m].w) /\ \A j \in 1..(m - 1) : Tells(stack[j])
      BY <1>8, <3>3 DEF Guarded
    <3>5. Contained(stack[i].w)'
      <4>1. Contained(stack'[i].w)
        BY <3>3, <3>4
      <4> QED
        BY <4>1 DEF Contained, Inside
    <3>6. ASSUME NEW j \in 1..(i - 1) PROVE Tells(stack[j])'
      <4>1. j \in 1..Len(stack') /\ j \in Nat
        BY <3>1
      <4>2. CASE j > n
        <5>1. (j - n) + d \in 1..(m - 1)
          BY <1>3, <1>6, <3>1, <3>2, <4>1, <4>2
        <5>2. stack'[j] = stack[(j - n) + d]
          BY <1>6, <4>1, <4>2
        <5>3. Tells(stack'[j])
          BY <3>4, <5>1, <5>2
        <5> QED
          BY <5>3 DEF Tells
      <4>3. CASE j \in 1..n
        <5>1. Tells(stack'[j])
          BY <1>4, <1>6, <4>3
        <5> QED
          BY <5>1 DEF Tells
      <4> QED
        BY <1>3, <4>1, <4>2, <4>3
    <3> QED
      BY <3>5, <3>6
  <2> QED
    BY <2>1, <2>2
<1> QED
  BY <1>7, <1>8 DEF Guarded

LEMMA NewsEmpty == News(<<>>)
<1>1. Clean(<<>>) /\ Elements(<<>>) = {}
  BY CleanEmpty DEF Elements
<1> QED
  BY <1>1 DEF News, Clean

LEMMA NewsTuples ==
  ASSUME NEW f, NEW g, NEW h,
         \A e \in {f, g, h} : IsFrame(e) /\ Tells(e) /\ (e.op = "take" => Contained(e.w))
  PROVE  News(<<f>>) /\ News(<<f, g, h>>)
<1>1. PICK S : S = {f, g, h}
  OBVIOUS
<1>2. <<f>> \in Seq(S) /\ <<f, g, h>> \in Seq(S)
  BY <1>1
<1>3. \A e \in S : IsFrame(e) /\ Tells(e) /\ (e.op = "take" => Contained(e.w))
  BY <1>1
<1>4. ASSUME NEW s \in Seq(S) PROVE News(s)
  BY <1>3, OwnElements DEF News, Framed
<1> QED
  BY <1>2, <1>4

LEMMA NewsOne ==
  ASSUME NEW f, IsFrame(f), Tells(f), f.op # "take"
  PROVE  News(<<f>>)
<1>1. \A e \in {f} : IsFrame(e) /\ Tells(e) /\ (e.op = "take" => Contained(e.w))
  OBVIOUS
<1> QED
  BY <1>1, NewsTuples

\* User code calls an operation: it is not told of the focus, and then nothing waits
\* for the focus, or the operation is harmless.
LEMMA CallGuarded ==
  ASSUME CallbackOps["focus"] \subseteq HarmlessOps, Guarded,
         NEW op, NEW frames, Clean(frames), Call(op, frames),
         op \in HarmlessOps => News(frames) /\ TopModal' = TopModal /\ Path' = Path
  PROVE  Guarded'
<1>1. CASE stack = <<>> \/ ~Tells(Head(stack))
  <2>1. Clean(stack)
    <3>1. CASE stack = <<>>
      <4>1. Clean(<<>>)
        BY CleanEmpty
      <4> QED
        BY <3>1, <4>1
    <3>2. CASE stack # <<>>
      <4>1. Head(stack).op # "take"
        BY <1>1, <3>2 DEF Tells
      <4> QED
        BY <1>1, <3>2, <4>1, BelowIsClean
    <3> QED
      BY <3>1, <3>2
  <2>2. Clean(frames \o stack)
    BY <2>1, CleanConcat
  <2> QED
    BY <2>2, CleanNext DEF Call
<1>2. CASE stack # <<>> /\ Tells(Head(stack))
  <2>1. Head(stack).op = "user" /\ op \in CallbackOps[Head(stack).w]
    BY <1>2 DEF Call
  <2>2. op \in HarmlessOps
    BY <1>2, <2>1 DEF Tells
  <2>3. stack' = frames \o stack
    BY DEF Call
  <2> QED
    BY <1>2, <2>2, <2>3, TellsThen
<1> QED
  BY <1>1, <1>2

(***************************************************************************)
(* The handlers.                                                            *)
(***************************************************************************)
LEMMA AtClean ==
  ASSUME Guarded, NEW op,
         op \notin {"user", "out", "in", "taken", "take", "focus", "changed"}, At(op)
  PROVE  /\ stack # <<>> /\ ~Tells(Head(stack))
         /\ Clean(Tail(stack))
  BY BelowIsClean DEF At, Tells

LEMMA SheetsStay ==
  ASSUME UNCHANGED <<overlays, parent, visible>>
  PROVE  TopModal' = TopModal /\ Path' = Path
  BY DEF TopModal, Path

LEMMA GuardedFocus ==
  ASSUME Guarded, Focus
  PROVE  Guarded'
<1>1. At("focus") /\ UNCHANGED <<overlays, parent, visible>>
  BY DEF Focus, trees, shown
<1>2. stack # <<>> /\ TopModal' = TopModal /\ Path' = Path
  BY <1>1, SheetsStay DEF At
<1>3. PICK target :
        \/ Then(<<>>)
        \/ Contained(target) /\ \/ Then(<<Frame("take", target)>>)
                                \/ Then(<<UserFrame("focus"), Frame("out", None),
                                          Frame("take", target)>>)
  <2> DEFINE t == IF Arg # None /\ CanFocus(Arg) /\ InWindow(Arg) THEN Arg ELSE None
  <2>1. CASE Arg # None /\ TopModal # None /\ ~Inside(Arg, TopModal)
    BY <2>1 DEF Focus
  <2>2. CASE ~(Arg # None /\ TopModal # None /\ ~Inside(Arg, TopModal))
    <3>1. Contained(t)
      BY <2>2 DEF Contained
    <3>2. \/ Then(<<>>)
          \/ Then(<<Frame("take", t)>>)
          \/ Then(<<UserFrame("focus"), Frame("out", None), Frame("take", t)>>)
      BY DEF Focus
    <3> HIDE DEF t
    <3> QED
      BY <3>1, <3>2
  <2> QED
    BY <2>1, <2>2
<1>4. CASE Then(<<>>)
  BY <1>2, <1>4, TellsThen, NewsEmpty DEF Then
<1>5. CASE Contained(target)
  <2>1. PICK take, out, user :
          /\ take = Frame("take", target) /\ out = Frame("out", None)
          /\ user = UserFrame("focus")
    OBVIOUS
  <2>2. /\ IsFrame(take) /\ take.op = "take" /\ take.w = target
        /\ IsFrame(out) /\ out.op = "out"
        /\ IsFrame(user) /\ user.op = "user" /\ user.w = "focus"
    BY <2>1, FrameShape
  <2>3. /\ \A e \in {take, out, user} :
             IsFrame(e) /\ Tells(e) /\ (e.op = "take" => Contained(e.w))
    BY <1>5, <2>2 DEF Tells
  <2>4. News(<<take>>) /\ News(<<user, out, take>>)
    BY <2>3, NewsTuples
  <2>5. \/ Then(<<>>)
        \/ Then(<<take>>)
        \/ Then(<<user, out, take>>)
    BY <1>3, <2>1
  <2> QED
    BY <1>2, <1>4, <2>4, <2>5, TellsThen DEF Then
<1> QED
  BY <1>3, <1>4, <1>5

\* The news to the old owner and to the new one, and the owner's becoming unusable.
LEMMA GuardedTells ==
  ASSUME Guarded, UserReturn \/ FocusChanged \/ Take \/ Taken \/ StateChanged
  PROVE  Guarded'
<1>1. PICK none, user, in, taken :
        /\ none = Frame("focus", None) /\ user = UserFrame("focus")
        /\ in = Frame("in", None) /\ taken = Frame("taken", None)
  OBVIOUS
<1>2. /\ IsFrame(none) /\ none.op = "focus"
      /\ IsFrame(user) /\ user.op = "user" /\ user.w = "focus"
      /\ IsFrame(in) /\ in.op = "in"
      /\ IsFrame(taken) /\ taken.op = "taken"
  BY <1>1, FrameShape
<1>3. News(<<>>) /\ News(<<none>>) /\ News(<<user>>) /\ News(<<user, in, taken>>)
  <2>1. /\ \A e \in {none} : IsFrame(e) /\ Tells(e) /\ (e.op = "take" => Contained(e.w))
        /\ \A e \in {user, in, taken} :
             IsFrame(e) /\ Tells(e) /\ (e.op = "take" => Contained(e.w))
    BY <1>2 DEF Tells
  <2> QED
    BY <2>1, NewsEmpty, NewsTuples
<1>4. CASE Crash
  BY <1>4, CrashIsGuarded
<1>5. CASE /\ stack # <<>> /\ UNCHANGED <<overlays, parent, visible>>
           /\ Then(<<>>) \/ Then(<<none>>) \/ Then(<<user>>) \/ Then(<<user, in, taken>>)
  BY <1>3, <1>5, SheetsStay, TellsThen DEF Then
<1>6. CASE UserReturn
  BY <1>5, <1>6 DEF UserReturn, At, trees, shown
<1>7. CASE FocusChanged
  BY <1>1, <1>4, <1>5, <1>7 DEF FocusChanged, At, trees, shown
<1>8. CASE Take
  BY <1>1, <1>5, <1>8 DEF Take, At, trees, shown
<1>9. CASE Taken
  BY <1>4, <1>5, <1>9 DEF Taken, At, trees, shown
<1>10. CASE StateChanged
  BY <1>1, <1>5, <1>10 DEF StateChanged, At, trees, shown, Unfocused
<1> QED
  BY <1>6, <1>7, <1>8, <1>9, <1>10

LEMMA OneFrame ==
  ASSUME NEW op, op # "take", NEW w
  PROVE  Clean(<<Frame(op, w)>>)
<1>1. PICK f : f = Frame(op, w)
  OBVIOUS
<1>2. IsFrame(f) /\ f.op # "take"
  BY <1>1, FrameShape
<1>3. Clean(<<f>>)
  BY <1>2, CleanOne
<1> QED
  BY <1>1, <1>3

LEMMA TwoFrames ==
  ASSUME NEW op, op # "take", NEW w, NEW other, other # "take", NEW x
  PROVE  Clean(<<Frame(op, w), Frame(other, x)>>)
<1>1. PICK f, g : f = Frame(op, w) /\ g = Frame(other, x)
  OBVIOUS
<1>2. \A e \in {f, g, g} : IsFrame(e) /\ e.op # "take"
  BY <1>1, FrameShape
<1>3. Clean(<<f, g>>)
  BY <1>2, CleanTuples
<1> QED
  BY <1>1, <1>3

LEMMA OneUser ==
  ASSUME NEW kind
  PROVE  Clean(<<UserFrame(kind)>>)
<1>1. PICK f : f = UserFrame(kind)
  OBVIOUS
<1>2. IsFrame(f) /\ f.op # "take"
  BY <1>1, FrameShape
<1>3. Clean(<<f>>)
  BY <1>2, CleanOne
<1> QED
  BY <1>1, <1>3

\* User code, a frame, and another or user code again.
LEMMA UserThen ==
  ASSUME NEW kind, NEW op, op # "take", NEW w
  PROVE  /\ Clean(<<UserFrame(kind), Frame(op, w)>>)
         /\ Clean(<<UserFrame(kind), Frame(op, w), UserFrame(kind)>>)
         /\ \A other, x : other # "take" =>
              Clean(<<UserFrame(kind), Frame(op, w), Frame(other, x)>>)
<1>1. ASSUME NEW other, other # "take", NEW x
      PROVE  /\ Clean(<<UserFrame(kind), Frame(op, w)>>)
             /\ Clean(<<UserFrame(kind), Frame(op, w), UserFrame(kind)>>)
             /\ Clean(<<UserFrame(kind), Frame(op, w), Frame(other, x)>>)
  <2>1. PICK u, f, g : u = UserFrame(kind) /\ f = Frame(op, w) /\ g = Frame(other, x)
    OBVIOUS
  <2>2. \A e \in {u, f, g} : IsFrame(e) /\ e.op # "take"
    BY <1>1, <2>1, FrameShape
  <2>3. Clean(<<u, f>>) /\ Clean(<<u, f, u>>) /\ Clean(<<u, f, g>>)
    BY <2>2, CleanTuples
  <2> QED
    BY <2>1, <2>3
<1>2. /\ Clean(<<UserFrame(kind), Frame(op, w)>>)
      /\ Clean(<<UserFrame(kind), Frame(op, w), UserFrame(kind)>>)
  <2>1. PICK other : other = "focus"
    OBVIOUS
  <2>2. other # "take"
    BY <2>1
  <2> QED
    BY <1>1, <2>2
<1> QED
  BY <1>1, <1>2

LEMMA UnfocusedClean ==
  ASSUME NEW w, NEW frames, Clean(frames)
  PROVE  Clean(Unfocused(w)) /\ Clean(Unfocused(w) \o frames)
<1>1. Clean(Unfocused(w))
  BY OneFrame, CleanEmpty DEF Unfocused
<1> QED
  BY <1>1, CleanConcat

\* The other handlers run when nothing waits for the focus.
LEMMA GuardedHandlers ==
  ASSUME Guarded,
         \/ Restore \/ RestoreFirst
         \/ SetHovered \/ Bubble \/ MoveDeliver \/ PressDeliver \/ ReleaseDeliver \/ Released
         \/ Detached \/ Forget \/ Unlink
         \/ ShownAgain \/ DismissLeave \/ DismissErase
  PROVE  Guarded'
<1>1. ASSUME NEW op,
             op \notin {"user", "out", "in", "taken", "take", "focus", "changed"}, At(op),
             NEW frames, Clean(frames), Then(frames)
      PROVE  Guarded'
  BY <1>1, AtClean, ThenClean
<1>2. CASE Crash
  BY <1>2, CrashIsGuarded
<1>5. CASE Restore
  <2>1. PICK arg : arg = Arg
    OBVIOUS
  <2>2. At("restore") /\ \/ Then(<<Frame("focus", arg), Frame("first", None)>>)
                         \/ Then(<<Frame("first", None)>>)
    BY <1>5, <2>1 DEF Restore
  <2> QED
    BY <1>1, <2>2, OneFrame, TwoFrames, OneUser, UserThen, CleanEmpty
<1>6. CASE RestoreFirst
  <2>1. At("first") /\ (Then(<<>>) \/ \E w : Then(<<Frame("focus", w)>>))
    BY <1>6 DEF RestoreFirst
  <2> QED
    BY <1>1, <2>1, OneFrame, TwoFrames, OneUser, UserThen, CleanEmpty
<1>7. CASE SetHovered
  BY <1>1, <1>2, <1>7, OneFrame, TwoFrames, OneUser, UserThen, CleanEmpty DEF SetHovered
<1>8. CASE Bubble
  <2>1. At("bubble") /\ (Crash \/ Then(<<>>) \/ Then(<<UserFrame("event")>>))
    BY <1>8 DEF Bubble
  <2> QED
    BY <1>1, <1>2, <2>1, OneFrame, TwoFrames, OneUser, UserThen, CleanEmpty
<1>9. CASE MoveDeliver
  BY <1>1, <1>9, OneFrame, TwoFrames, OneUser, UserThen, CleanEmpty DEF MoveDeliver
<1>10. CASE PressDeliver
  <2>1. PICK arg : arg = Arg
    OBVIOUS
  <2>2. At("press") /\ (Crash \/ Then(<<Frame("focus", arg), Frame("bubble", arg)>>))
    BY <1>10, <2>1 DEF PressDeliver
  <2> QED
    BY <1>1, <1>2, <2>2, OneFrame, TwoFrames, OneUser, UserThen, CleanEmpty
<1>11. CASE ReleaseDeliver
  <2>1. PICK arg, p : arg = Arg /\ p = pressed
    OBVIOUS
  <2>2. At("release") /\ \/ Then(<<Frame("bubble", arg)>>)
                         \/ Then(<<Frame("bubble", p), Frame("released", p)>>)
    BY <1>11, <2>1 DEF ReleaseDeliver
  <2> QED
    BY <1>1, <2>2, OneFrame, TwoFrames, OneUser, UserThen, CleanEmpty
<1>12. CASE Released
  BY <1>1, <1>12, OneFrame, TwoFrames, OneUser, UserThen, CleanEmpty DEF Released
<1>14. CASE Detached
  <2>1. PICK frames : frames = Unfocused(Arg) \o <<Frame("forget", Arg)>>
    OBVIOUS
  <2>2. Clean(frames) /\ Clean(<<>>)
    <3>1. PICK arg : arg = Arg
      OBVIOUS
    <3>2. Clean(<<Frame("forget", arg)>>)
      BY OneFrame, TwoFrames, OneUser, UserThen, CleanEmpty
    <3>3. Clean(Unfocused(arg) \o <<Frame("forget", arg)>>)
      BY <3>2, UnfocusedClean
    <3> QED
      BY <2>1, <3>1, <3>3, CleanEmpty
  <2>3. At("detached") /\ (Then(<<>>) \/ Then(frames))
    BY <1>14, <2>1 DEF Detached
  <2> QED
    BY <1>1, <2>2, <2>3
<1>15. CASE Forget
  BY <1>1, <1>15, OneFrame, TwoFrames, OneUser, UserThen, CleanEmpty DEF Forget
<1>16. CASE Unlink
  BY <1>1, <1>2, <1>16, OneFrame, TwoFrames, OneUser, UserThen, CleanEmpty DEF Unlink
<1>17. CASE ShownAgain
  BY <1>1, <1>2, <1>17, OneFrame, TwoFrames, OneUser, UserThen, CleanEmpty DEF ShownAgain
<1>18. CASE DismissLeave
  <2>1. PICK arg, top, i : /\ arg = Arg /\ top = Head(stack)
                           /\ i = IndexOf(Arg)
    OBVIOUS
  <2>2. PICK f, g : /\ f = Frame("detached", arg)
                    /\ g = [top EXCEPT !.op = "erase", !.prev = overlays[i].previous]
    OBVIOUS
  <2>3. At("leave") /\ (Crash \/ Then(<<f, g>>))
    BY <1>18, <2>1, <2>2 DEF DismissLeave
  <2>4. IsFrame(top)
    <3>1. stack \in Seq(Elements(stack)) /\ stack # <<>>
      BY <2>3 DEF At, Guarded, Framed
    <3>2. top \in Elements(stack)
      BY <2>1, <3>1
    <3> QED
      BY <3>2 DEF Guarded, Framed
  <2>5. IsFrame(g) /\ g.op = "erase"
    BY <2>2, <2>4 DEF IsFrame
  <2>6. Clean(<<f, g>>)
    <3>1. IsFrame(f) /\ f.op = "detached"
      BY <2>2, FrameShape
    <3>2. \A e \in {f, g, g} : IsFrame(e) /\ e.op # "take"
      BY <2>5, <3>1
    <3> QED
      BY <3>2, CleanTuples
  <2> QED
    BY <1>1, <1>2, <2>3, <2>6
<1>19. CASE DismissErase
  <2>1. PICK w : w = Head(stack).prev
    OBVIOUS
  <2>2. At("erase") /\ (Crash \/ Then(<<Frame("restore", w)>>))
    BY <1>19, <2>1 DEF DismissErase
  <2> QED
    BY <1>1, <1>2, <2>2, OneFrame, TwoFrames, OneUser, UserThen, CleanEmpty
<1> QED
  BY <1>5, <1>6, <1>7, <1>8, <1>9, <1>10, <1>11, <1>12, <1>14,
     <1>15, <1>16, <1>17, <1>18, <1>19

\* An event of the platform starts with nothing in progress.
LEMMA GuardedEvents ==
  ASSUME Guarded, PlatformEvent
  PROVE  Guarded'
<1>1. \A w : Clean(HoverFrames(w))
  BY UserThen, CleanEmpty DEF HoverFrames
<1>2. ASSUME NEW w, NEW op, op # "take" PROVE Clean(HoverFrames(w) \o <<Frame(op, w)>>)
  BY <1>1, <1>2, OneFrame, CleanConcat
<1>3. CASE WindowFocusIn
  <2>1. PICK w : w = pending
    OBVIOUS
  <2>2. Event(<<Frame("restore", w)>>)
    BY <1>3, <2>1 DEF WindowFocusIn
  <2> QED
    BY <2>2, OneFrame, TwoFrames, OneUser, UserThen, CleanEmpty, EventClean
<1>4. CASE WindowFocusOut
  BY <1>4, OneFrame, TwoFrames, OneUser, UserThen, CleanEmpty, EventClean DEF WindowFocusOut
<1>5. CASE MouseLeave
  <2>1. PICK frames : frames = HoverFrames(None)
    OBVIOUS
  <2>2. Event(frames) /\ Clean(frames)
    BY <1>1, <1>5, <2>1 DEF MouseLeave, Mouse
  <2> QED
    BY <2>2, EventClean
<1>6. CASE Key
  <2>1. PICK w : Event(<<Frame("bubble", w)>>)
    BY <1>6 DEF Key
  <2> QED
    BY <2>1, OneFrame, TwoFrames, OneUser, UserThen, CleanEmpty, EventClean
<1>7. CASE Tab
  <2>1. PICK w : Event(<<Frame("focus", w)>>)
    BY <1>7 DEF Tab
  <2> QED
    BY <2>1, OneFrame, TwoFrames, OneUser, UserThen, CleanEmpty, EventClean
<1>8. ASSUME NEW w, MouseMove(w) \/ MousePress(w) \/ MouseRelease(w) PROVE Guarded'
  <2>1. PICK op \in {"move", "press", "release"} :
          Event(HoverFrames(w) \o <<Frame(op, w)>>)
    BY <1>8 DEF MouseMove, MousePress, MouseRelease, Mouse
  <2>2. PICK frames : frames = HoverFrames(w) \o <<Frame(op, w)>>
    OBVIOUS
  <2>3. Clean(frames) /\ Event(frames)
    BY <1>2, <2>1, <2>2
  <2> QED
    BY <2>3, EventClean
<1> QED
  BY <1>3, <1>4, <1>5, <1>6, <1>7, <1>8 DEF PlatformEvent

\* An operation called by user code pushes what it has to do.
LEMMA GuardedCalls ==
  ASSUME CallbackOps["focus"] \subseteq HarmlessOps, Guarded, UserCall
  PROVE  Guarded'
<1>1. ASSUME NEW op, op \notin HarmlessOps, NEW frames, Clean(frames), Call(op, frames)
      PROVE  Guarded'
  BY <1>1, CallGuarded
<1>2. ASSUME NEW op, NEW frames, Clean(frames), News(frames), Call(op, frames),
             UNCHANGED <<overlays, parent, visible>>
      PROVE  Guarded'
  BY <1>2, CallGuarded, SheetsStay
<1>3. {"hide", "detach", "show", "dismiss"} \cap HarmlessOps = {}
  BY DEF HarmlessOps
<1>4. ASSUME NEW w, GrabFocus(w) PROVE Guarded'
  <2>1. PICK f : f = Frame("focus", w)
    OBVIOUS
  <2>2. IsFrame(f) /\ f.op = "focus"
    BY <2>1, FrameShape
  <2>3. Clean(<<f>>) /\ News(<<f>>)
    BY <2>2, CleanOne, NewsOne DEF Tells
  <2>4. Call("focus", <<f>>) /\ UNCHANGED <<overlays, parent, visible>>
    BY <1>4, <2>1 DEF GrabFocus, trees, shown
  <2> QED
    BY <1>2, <2>3, <2>4
<1>5. ASSUME NEW w, Hide(w) \/ Show(w) PROVE Guarded'
  <2>1. \/ Call("hide", <<UserFrame("event"), Frame("changed", w)>>)
        \/ Call("hide", <<UserFrame("event")>>)
    BY <1>5 DEF Hide, Show
  <2> QED
    BY <1>1, <1>3, <2>1, OneUser, UserThen
<1>6. ASSUME NEW w, SetSensitive(w) \/ SetFocusable(w) \/ SetChild(w) PROVE Guarded'
  <2>1. PICK f : f = Frame("changed", w)
    OBVIOUS
  <2>2. IsFrame(f) /\ f.op = "changed"
    BY <2>1, FrameShape
  <2>3. /\ Clean(<<f>>) /\ News(<<f>>)
        /\ Clean(<<>>) /\ News(<<>>)
    BY <2>2, CleanOne, NewsOne, CleanEmpty, NewsEmpty DEF Tells
  <2>4. /\ UNCHANGED <<overlays, parent, visible>>
        /\ \/ Call("disable", <<f>>)
           \/ Call("disable", <<>>)
           \/ Call("focusable", <<>>)
           \/ Call("child", <<>>)
    BY <1>6, <2>1 DEF SetSensitive, SetFocusable, SetChild, trees, shown
  <2> QED
    BY <1>2, <2>3, <2>4
<1>7. ASSUME NEW w, RemoveChild(w) PROVE Guarded'
  <2>1. PICK list : Call("detach", <<Frame("detached", w), Frame("detached", w),
                                     [Frame("unlink", w) EXCEPT !.list = list]>>)
    BY <1>7 DEF RemoveChild
  <2>2. PICK f, g : f = Frame("detached", w) /\ g = [Frame("unlink", w) EXCEPT !.list = list]
    OBVIOUS
  <2>3. IsFrame(f) /\ f.op = "detached" /\ IsFrame(g) /\ g.op = "unlink"
    BY <2>2, FrameShape
  <2>4. Clean(<<f, f, g>>)
    BY <2>3, CleanTuples
  <2>5. Call("detach", <<f, f, g>>)
    BY <2>1, <2>2
  <2> QED
    BY <1>1, <1>3, <2>4, <2>5
<1>8. ASSUME NEW w, NEW container, InsertChild(w, container) PROVE Guarded'
  BY <1>1, <1>3, <1>8, CleanEmpty DEF InsertChild
<1>9. ASSUME NEW sheet \in Sheets, NEW modal \in BOOLEAN, ShowOverlay(sheet, modal)
      PROVE  Guarded'
  <2>1. Call("show", <<>>) \/ \E w : Call("show", <<Frame("focus", w)>> \o <<>>)
    BY <1>9 DEF ShowOverlay, CallShow
  <2>2. ASSUME NEW w PROVE Clean(<<Frame("focus", w)>> \o <<>>)
    <3>1. Clean(<<Frame("focus", w)>>) /\ Clean(<<>>)
      BY OneFrame, CleanEmpty
    <3> QED
      BY <3>1, CleanConcat
  <2> QED
    BY <1>1, <1>3, <2>1, <2>2, CleanEmpty
<1>10. ASSUME NEW i \in DOMAIN overlays, NEW modal \in BOOLEAN, ShowAgain(i, modal)
       PROVE  Guarded'
  <2>1. PICK sheet, list : sheet = overlays[i].widget /\ list = OverlayList
    OBVIOUS
  <2>2. PICK g : g = [Frame("shown", sheet) EXCEPT !.list = list]
    OBVIOUS
  <2>3. Clean(<<g>>)
    <3>1. IsFrame(g) /\ g.op = "shown"
      BY <2>2, FrameShape
    <3> QED
      BY <3>1, CleanOne
  <2>4. Call("show", <<>>) \/ \E w : Call("show", <<Frame("focus", w)>> \o <<g>>)
    BY <1>10, <2>1, <2>2 DEF ShowAgain, CallShow
  <2>5. ASSUME NEW w PROVE Clean(<<Frame("focus", w)>> \o <<g>>)
    <3>1. Clean(<<Frame("focus", w)>>)
      BY OneFrame
    <3> QED
      BY <2>3, <3>1, CleanConcat
  <2> QED
    BY <1>1, <1>3, <2>4, <2>5, CleanEmpty
<1>11. ASSUME NEW i \in DOMAIN overlays, Dismiss(i) PROVE Guarded'
  <2>1. PICK sheet, list : sheet = overlays[i].widget /\ list = OverlayList
    OBVIOUS
  <2>2. PICK f : f = [Frame("leave", sheet) EXCEPT !.list = list]
    OBVIOUS
  <2>3. IsFrame(f) /\ f.op = "leave"
    BY <2>2, FrameShape
  <2>4. Clean(<<f>>)
    BY <2>3, CleanOne
  <2>5. PICK frames : frames = Unfocused(sheet) \o <<f>>
    OBVIOUS
  <2>6. Clean(frames)
    BY <2>4, <2>5, UnfocusedClean
  <2>7. Call("dismiss", frames)
    BY <1>11, <2>1, <2>2, <2>5 DEF Dismiss
  <2> QED
    BY <1>1, <1>3, <2>6, <2>7
<1> QED
  BY <1>4, <1>5, <1>6, <1>7, <1>8, <1>9, <1>10, <1>11 DEF UserCall

LEMMA GuardedStep ==
  ASSUME CallbackOps["focus"] \subseteq HarmlessOps, Guarded, [Next]_vars
  PROVE  Guarded'
<1>1. CASE UNCHANGED vars
  <2>1. stack' = stack /\ TopModal' = TopModal /\ Path' = Path
    BY <1>1 DEF vars, trees, shown, TopModal, Path
  <2> QED
    BY <2>1 DEF Guarded, Framed, Contained, Inside, Tells
<1>2. CASE Next
  BY <1>2, GuardedFocus, GuardedTells, GuardedHandlers, GuardedEvents, GuardedCalls
  DEF Next, HandlerStep, FocusStep
<1> QED
  BY <1>1, <1>2

\* The focus moves where it was let to.
LEMMA OnlyTakeFocuses ==
  ASSUME [Next]_vars, focused' # focused, focused' # None
  PROVE  Take
  BY DEF Next, HandlerStep, FocusStep, PlatformEvent, UserCall, Focus, FocusChanged, Taken,
     Restore, RestoreFirst, SetHovered, Bubble, MoveDeliver, PressDeliver, ReleaseDeliver,
     Released, StateChanged, Detached, Forget, Unlink, ShownAgain, DismissLeave, DismissErase,
     Crash, UserReturn, WindowFocusIn, WindowFocusOut, MouseLeave, Key, Tab, MouseMove,
     MousePress, MouseRelease, Mouse, GrabFocus, Hide, Show, SetSensitive, SetFocusable,
     RemoveChild, InsertChild, SetChild, ShowOverlay, ShowAgain, Dismiss, vars, focus

(***************************************************************************)
(* While a modal sheet is up the focus moves to widgets of that sheet only: *)
(* whoever asks for it, at whatever depth of handlers, whatever event       *)
(* handlers do to the trees and the overlays, and for all trees, as long as *)
(* focus controllers, which run between the test and the move, do no more   *)
(* than grab the focus, disable widgets, change what is focusable and       *)
(* replace the content.                                                     *)
(***************************************************************************)
THEOREM FocusIsContained ==
  ASSUME CallbackOps["focus"] \subseteq HarmlessOps
  PROVE  Spec => FocusMovesInsideModal
<1>1. Init => Guarded
  <2> SUFFICES ASSUME Init PROVE Guarded
    OBVIOUS
  <2>1. stack = <<>>
    BY DEF Init
  <2> QED
    BY <2>1, CleanEmpty DEF Guarded, Clean
<1>2. Guarded /\ [Next]_vars => Guarded'
  BY GuardedStep
<1>3. Guarded /\ [Next]_vars =>
        [(focused' # focused /\ focused' # None /\ TopModal' # None)
           => Inside(focused', TopModal')]_vars
  <2> SUFFICES ASSUME Guarded, [Next]_vars, focused' # focused, focused' # None,
                      TopModal' # None
               PROVE  Inside(focused', TopModal')
    OBVIOUS
  <2>1. Take
    BY OnlyTakeFocuses
  <2>2. PICK w : w = Head(stack).w
    OBVIOUS
  <2>3. /\ stack # <<>> /\ Head(stack).op = "take" /\ focused' = w
        /\ UNCHANGED <<trees, shown>>
    BY <2>1, <2>2 DEF Take, At, Arg
  <2>4. Contained(w)
    <3>1. 1 \in 1..Len(stack) /\ stack[1] = Head(stack)
      BY <2>3 DEF Guarded, Framed
    <3> QED
      BY <2>2, <2>3, <3>1 DEF Guarded
  <2>5. TopModal' = TopModal /\ Path' = Path
    BY <2>3 DEF TopModal, Path, trees, shown
  <2> QED
    BY <2>3, <2>4, <2>5 DEF Contained, Inside
<1> QED
  BY <1>1, <1>2, <1>3, PTL DEF Spec, FocusMovesInsideModal

(***************************************************************************)
(* The trees. F gives for each widget its parent, and P the widget and its  *)
(* ancestors: Path does for parent.                                         *)
(***************************************************************************)
Ancestral(P, F) ==
  \A w \in Widgets : P[w] = {w} \cup (IF F[w] # None THEN P[F[w]] ELSE {})

Trees(F) == F \in [Widgets -> Pointers] /\ Forest(F)

LEMMA Parents ==
  ASSUME NEW F, Trees(F), NEW w \in Widgets, F[w] # None
  PROVE  F[w] \in Widgets
  BY DEF Trees, Pointers

\* The equation of Path has a solution: the least set that has the widget and, with
\* a widget that has one, its parent.
LEMMA EquationHasSolution ==
  ASSUME NEW F, Trees(F)
  PROVE  \E p : p = [w \in Widgets |->
                       {w} \cup (IF F[w] # None THEN p[F[w]] ELSE {})]
<1> DEFINE Closed(S) == \A x \in S : F[x] # None => F[x] \in S
           A == [w \in Widgets |-> {a \in Widgets : \A S \in SUBSET Widgets :
                                      w \in S /\ Closed(S) => a \in S}]
<1>1. ASSUME NEW w \in Widgets
      PROVE  /\ w \in A[w] /\ A[w] \in SUBSET Widgets
             /\ \A a : a \in A[w] <=> /\ a \in Widgets
                                      /\ \A S \in SUBSET Widgets :
                                           w \in S /\ Closed(S) => a \in S
  OBVIOUS
<1>2. ASSUME NEW w \in Widgets PROVE Closed(A[w])
  <2>1. SUFFICES ASSUME NEW x \in A[w], F[x] # None PROVE F[x] \in A[w]
    OBVIOUS
  <2>2. F[x] \in Widgets
    BY <1>1, <2>1, Parents
  <2>3. ASSUME NEW S \in SUBSET Widgets, w \in S, Closed(S) PROVE F[x] \in S
    <3>1. x \in S
      BY <1>1, <2>3
    <3> QED
      BY <2>1, <2>3, <3>1
  <2> HIDE DEF A, Closed
  <2> QED
    BY <1>1, <2>2, <2>3
<1>3. ASSUME NEW w \in Widgets, F[w] = None PROVE A[w] = {w}
  <2>1. {w} \in SUBSET Widgets /\ w \in {w} /\ Closed({w})
    BY <1>3
  <2> HIDE DEF A, Closed
  <2>2. \A a \in A[w] : a \in {w}
    BY <1>1, <2>1
  <2> QED
    BY <1>1, <2>2
<1>4. ASSUME NEW w \in Widgets, F[w] # None PROVE A[w] = {w} \cup A[F[w]]
  <2>1. w \in Widgets /\ F[w] \in Widgets
    BY <1>4, Parents
  <2>2. PICK S : S = {w} \cup A[F[w]]
    OBVIOUS
  <2>3. S \in SUBSET Widgets /\ w \in S /\ F[w] \in S
    BY <1>1, <2>1, <2>2
  <2>4. Closed(S)
    <3>1. \A x \in A[F[w]] : F[x] # None => F[x] \in A[F[w]]
      BY <1>2, <2>1
    <3> HIDE DEF A
    <3>2. \A x \in S : x = w \/ x \in A[F[w]]
      BY <2>2
    <3> QED
      BY <2>2, <2>3, <3>1, <3>2
  <2>5. A[w] \subseteq S
    <3> HIDE DEF A, Closed
    <3> QED
      BY <1>1, <2>1, <2>3, <2>4
  <2>6. ASSUME NEW a \in A[F[w]] PROVE a \in A[w]
    <3>1. a \in Widgets
      BY <1>1, <2>1
    <3>2. ASSUME NEW T \in SUBSET Widgets, w \in T, Closed(T) PROVE a \in T
      <4>1. F[w] \in T
        BY <1>4, <3>2
      <4> HIDE DEF A, Closed
      <4> QED
        BY <1>1, <2>1, <3>2, <4>1
    <3> HIDE DEF A, Closed
    <3> QED
      BY <1>1, <2>1, <3>1, <3>2
  <2> HIDE DEF A
  <2> QED
    BY <1>1, <2>1, <2>2, <2>5, <2>6
<1>5. \A w \in Widgets : A[w] = {w} \cup (IF F[w] # None THEN A[F[w]] ELSE {})
  <2> HIDE DEF A
  <2> QED
    BY <1>3, <1>4
<1>6. A = [w \in Widgets |-> A[w]]
  OBVIOUS
<1> HIDE DEF A
<1>7. A = [w \in Widgets |-> {w} \cup (IF F[w] # None THEN A[F[w]] ELSE {})]
  BY <1>5, <1>6
<1> QED
  BY <1>7

LEMMA EquationIsAncestral ==
  ASSUME NEW F, Trees(F),
         NEW P, P = CHOOSE p : p = [w \in Widgets |->
                                      {w} \cup (IF F[w] # None THEN p[F[w]] ELSE {})]
  PROVE  Ancestral(P, F)
<1>1. P = [w \in Widgets |-> {w} \cup (IF F[w] # None THEN P[F[w]] ELSE {})]
  BY EquationHasSolution
<1> QED
  BY <1>1 DEF Ancestral

LEMMA PathIsAncestral ==
  Trees(parent) => Ancestral(Path, parent)
  BY EquationIsAncestral DEF Path

LEMMA PathIsAncestralNext ==
  Trees(parent') => Ancestral(Path', parent')
  BY EquationIsAncestral DEF Path

\* What holds of a widget when it holds of its parent holds of every widget: the
\* trees have no cycle.
LEMMA DownTheTrees ==
  ASSUME NEW F, Trees(F), NEW S \in SUBSET Widgets,
         \A w \in Widgets : (F[w] # None => F[w] \in S) => w \in S
  PROVE  S = Widgets
<1>1. SUFFICES ASSUME Widgets \ S # {} PROVE FALSE
  OBVIOUS
<1>2. PICK w \in Widgets \ S : F[w] \notin Widgets \ S
  BY <1>1 DEF Trees, Forest
<1>3. F[w] # None => F[w] \in S
  BY <1>2, Parents
<1> QED
  BY <1>2, <1>3

LEMMA PathOfParent ==
  ASSUME NEW F, Trees(F), NEW P, Ancestral(P, F)
  PROVE  \A w \in Widgets : /\ w \in P[w] /\ (F[w] = None => P[w] = {w})
                            /\ F[w] # None => F[w] \in Widgets /\ P[w] = {w} \cup P[F[w]]
<1>1. \A w \in Widgets : F[w] # None => F[w] \in Widgets
  BY Parents
<1>2. \A w \in Widgets : P[w] = {w} \cup (IF F[w] # None THEN P[F[w]] ELSE {})
  BY DEF Ancestral
<1> QED
  BY <1>1, <1>2

LEMMA PathHasWidgets ==
  ASSUME NEW F, Trees(F), NEW P, Ancestral(P, F)
  PROVE  \A w \in Widgets : P[w] \subseteq Widgets
<1>a. \A u \in Widgets : /\ u \in P[u] /\ (F[u] = None => P[u] = {u})
                         /\ F[u] # None => F[u] \in Widgets /\ P[u] = {u} \cup P[F[u]]
  BY PathOfParent
<1> DEFINE S == {w \in Widgets : P[w] \subseteq Widgets}
<1>1. ASSUME NEW w \in Widgets, F[w] # None => F[w] \in S PROVE w \in S
  BY <1>1, <1>a
<1>2. S \in SUBSET Widgets
  OBVIOUS
<1> HIDE DEF S
<1>3. S = Widgets
  BY <1>1, <1>2, DownTheTrees
<1> QED
  BY <1>3 DEF S

LEMMA PathIsTransitive ==
  ASSUME NEW F, Trees(F), NEW P, Ancestral(P, F)
  PROVE  \A w \in Widgets : \A v \in P[w] : P[v] \subseteq P[w]
<1>a. \A u \in Widgets : /\ u \in P[u] /\ (F[u] = None => P[u] = {u})
                         /\ F[u] # None => F[u] \in Widgets /\ P[u] = {u} \cup P[F[u]]
  BY PathOfParent
<1> DEFINE S == {w \in Widgets : \A v \in P[w] : P[v] \subseteq P[w]}
<1>1. ASSUME NEW w \in Widgets, F[w] # None => F[w] \in S PROVE w \in S
  <2>1. SUFFICES ASSUME NEW v \in P[w] PROVE P[v] \subseteq P[w]
    OBVIOUS
  <2>2. CASE v = w
    BY <2>2
  <2>3. CASE v # w
    <3>1. F[w] # None /\ P[w] = {w} \cup P[F[w]] /\ v \in P[F[w]]
      BY <2>3, <1>a
    <3>2. P[v] \subseteq P[F[w]]
      BY <1>1, <3>1
    <3> QED
      BY <3>1, <3>2
  <2> QED
    BY <2>2, <2>3
<1>2. S \in SUBSET Widgets
  OBVIOUS
<1> HIDE DEF S
<1>3. S = Widgets
  BY <1>1, <1>2, DownTheTrees
<1> QED
  BY <1>3 DEF S

\* A root above a widget is above all its ancestors, and is its only root.
LEMMA RootOfPath ==
  ASSUME NEW F, Trees(F), NEW P, Ancestral(P, F),
         NEW w \in Widgets, NEW r \in P[w], F[r] = None
  PROVE  /\ \A v \in P[w] : r \in P[v]
         /\ \A q \in P[w] : F[q] = None => q = r
<1>a. \A u \in Widgets : /\ u \in P[u] /\ (F[u] = None => P[u] = {u})
                         /\ F[u] # None => F[u] \in Widgets /\ P[u] = {u} \cup P[F[u]]
  BY PathOfParent
<1> DEFINE S == {u \in Widgets : \A q, v \in P[u] : F[q] = None => q \in P[v]}
<1>1. ASSUME NEW u \in Widgets, F[u] # None => F[u] \in S PROVE u \in S
  <2>1. SUFFICES ASSUME NEW q \in P[u], NEW v \in P[u], F[q] = None PROVE q \in P[v]
    OBVIOUS
  <2>2. CASE v = u
    BY <2>2
  <2>3. CASE v # u
    <3>1. F[u] # None /\ P[u] = {u} \cup P[F[u]]
      BY <2>3, <1>a
    <3>2. v \in P[F[u]] /\ q \in P[F[u]]
      BY <2>1, <2>3, <3>1
    <3> QED
      BY <1>1, <2>1, <3>1, <3>2
  <2> QED
    BY <2>2, <2>3
<1>2. S \in SUBSET Widgets
  OBVIOUS
<1> HIDE DEF S
<1>3. S = Widgets
  BY <1>1, <1>2, DownTheTrees
<1>4. \A q, v \in P[w] : F[q] = None => q \in P[v]
  BY <1>3 DEF S
<1>5. ASSUME NEW q \in P[w], F[q] = None PROVE q = r
  <2>1. r \in P[q] /\ q \in Widgets
    BY <1>4, PathHasWidgets
  <2>2. P[q] = {q}
    BY <1>5, <2>1, <1>a
  <2> QED
    BY <2>1, <2>2
<1> QED
  BY <1>4, <1>5

LEMMA PathGrows ==
  ASSUME NEW F, Trees(F), NEW P, Ancestral(P, F),
         NEW G, Trees(G), NEW Q, Ancestral(Q, G),
         \A w \in Widgets : F[w] # None => G[w] = F[w]
  PROVE  \A w \in Widgets : P[w] \subseteq Q[w]
<1>a. \A u \in Widgets : /\ u \in P[u] /\ (F[u] = None => P[u] = {u})
                         /\ F[u] # None => F[u] \in Widgets /\ P[u] = {u} \cup P[F[u]]
  BY PathOfParent
<1>b. \A u \in Widgets : /\ u \in Q[u] /\ (G[u] = None => Q[u] = {u})
                         /\ G[u] # None => G[u] \in Widgets /\ Q[u] = {u} \cup Q[G[u]]
  BY PathOfParent
<1> DEFINE S == {w \in Widgets : P[w] \subseteq Q[w]}
<1>1. ASSUME NEW w \in Widgets, F[w] # None => F[w] \in S PROVE w \in S
  <2>1. w \in Q[w] /\ (G[w] # None => Q[w] = {w} \cup Q[G[w]])
    BY <1>b
  <2>2. F[w] # None => P[w] = {w} \cup P[F[w]]
    BY <1>a
  <2>3. F[w] = None => P[w] = {w}
    BY <1>a
  <2> QED
    BY <1>1, <2>1, <2>2, <2>3
<1>2. S \in SUBSET Widgets
  OBVIOUS
<1> HIDE DEF S
<1>3. S = Widgets
  BY <1>1, <1>2, DownTheTrees
<1> QED
  BY <1>3 DEF S

\* Unlinking a widget leaves the paths alone that it is not on.
LEMMA PathWithoutLink ==
  ASSUME NEW F, Trees(F), NEW P, Ancestral(P, F), NEW x,
         NEW G, Trees(G), NEW Q, Ancestral(Q, G), \A u \in Widgets : u # x => G[u] = F[u]
  PROVE  \A w \in Widgets : x \notin P[w] => Q[w] = P[w]
<1>a. \A u \in Widgets : /\ u \in P[u] /\ (F[u] = None => P[u] = {u})
                         /\ F[u] # None => F[u] \in Widgets /\ P[u] = {u} \cup P[F[u]]
  BY PathOfParent
<1>b. \A u \in Widgets : /\ u \in Q[u] /\ (G[u] = None => Q[u] = {u})
                         /\ G[u] # None => G[u] \in Widgets /\ Q[u] = {u} \cup Q[G[u]]
  BY PathOfParent
<1> DEFINE S == {w \in Widgets : x \notin P[w] => Q[w] = P[w]}
<1>1. ASSUME NEW w \in Widgets, F[w] # None => F[w] \in S PROVE w \in S
  <2>1. SUFFICES ASSUME x \notin P[w] PROVE Q[w] = P[w]
    OBVIOUS
  <2>4. w # x /\ G[w] = F[w]
    BY <1>a, <2>1
  <2>5. CASE F[w] # None
    <3>1. P[w] = {w} \cup P[F[w]] /\ Q[w] = {w} \cup Q[G[w]]
      BY <1>a, <1>b, <2>4, <2>5
    <3> QED
      BY <1>1, <2>1, <2>5, <3>1
  <2>6. CASE F[w] = None
    BY <1>a, <1>b, <2>4, <2>6
  <2> QED
    BY <2>5, <2>6
<1>2. S \in SUBSET Widgets
  OBVIOUS
<1> HIDE DEF S
<1>3. S = Widgets
  BY <1>1, <1>2, DownTheTrees
<1> QED
  BY <1>3 DEF S

(***************************************************************************)
(* The stack. Sound says of a frame, given the frames above it, what may be *)
(* above it and what it relies on: an iterator, a widget it will use, that  *)
(* nothing points into the subtree it is about to drop.                     *)
(***************************************************************************)
FocusOps == {"focus", "user", "out", "take", "in", "taken"}

FrameOps ==
  FocusOps \cup {"restore", "first", "hover", "move", "press", "release", "released",
                 "bubble", "changed", "detached", "forget", "unlink", "shown", "leave",
                 "erase"}

TypedFrame(f) ==
  /\ f.op \in FrameOps /\ f.prev \in Pointers
  /\ f.op = "user" => f.w \in {"event", "focus", "hover"}
  /\ f.op \notin {"user", "focus"} => f.w \in Pointers

IsEvent(f) == f.op = "user" /\ f.w = "event"

\* Frames that rely on nothing, so anything may run above them.
Free(f) == f.op \in {"user", "changed", "released"}

\* A frame of focus_widget() that was called to clear the focus.
Clears(f) == f.op \in {"user", "out"} \/ (f.op \in {"focus", "take"} /\ f.w = None)

\* g may be below f. User code in an event handler is above free frames only: it
\* may do anything.
Precedes(f, g) ==
  \/ Free(g)
  \/ /\ ~IsEvent(f)
     /\ \/ g.op \in {"out", "in", "hover"} /\ f.op = "user"
        \/ g.op = "take" /\ f.op \in {"user", "out"}
        \/ g.op = "taken" /\ f.op \in {"user", "in"}
        \/ g.op \in {"move", "press", "release"} /\ f.op \in {"user", "hover"}
        \/ g.op \in {"bubble", "shown", "first"} /\ f.op \in FocusOps
        \/ g.op \in {"leave", "forget"} /\ Clears(f)
        \/ g.op \in {"detached", "erase", "unlink"}
             /\ (Clears(f) \/ f.op \in {"detached", "forget"})

Good(w) == w = None \/ InWindow(w)

\* What the frame itself relies on.
Owed(f) ==
  /\ f.op \in {"out", "in", "taken"} => focused # None
  /\ f.op = "take" => f.w = None \/ (InWindow(f.w) /\ CanFocus(f.w))
  /\ f.op \in {"hover", "move", "press", "release", "bubble"} => Good(f.w)
  /\ f.op \in {"shown", "leave", "erase"} =>
       f.list \in Seq(Sheets) /\ IteratorValid(f.w, f.list, OverlayList)
  /\ f.op = "unlink" => ChildIteratorValid(f.w, f.list, Siblings(f.w))

\* Nothing points into the subtree, or a frame above is about to see to it.
Gone(root, above) ==
  \/ \E f \in above : f.op = "detached" /\ f.w = root
  \/ /\ ~Inside(hovered, root) /\ ~Inside(pressed, root)
     /\ Inside(focused, root) => \E f \in above : f.op \in {"focus", "take"}

Sound(f, above) ==
  /\ TypedFrame(f)
  /\ \A g \in above : Precedes(g, f)
  /\ Owed(f)
  /\ f.op \in {"erase", "unlink"} => Gone(f.w, above)

Over(s, i) == {s[j] : j \in 1..(i - 1)}

AllSound(s) == Framed(s) /\ \A i \in 1..Len(s) : Sound(s[i], Over(s, i))

(***************************************************************************)
(* Positions in a stack.                                                    *)
(***************************************************************************)
LEMMA FramedFacts ==
  ASSUME NEW s, Framed(s)
  PROVE  /\ Len(s) \in Nat /\ DOMAIN s = 1..Len(s)
         /\ \A i \in 1..Len(s) : s[i] \in Elements(s) /\ IsFrame(s[i])
         /\ Elements(s) = Over(s, Len(s) + 1)
  BY DEF Framed, Elements, Over

LEMMA FramedEmpty == Framed(<<>>) /\ Elements(<<>>) = {} /\ Len(<<>>) = 0
<1>1. Len(<<>>) = 0 /\ 1..0 = {}
  OBVIOUS
<1> QED
  BY <1>1, CleanEmpty DEF Clean, Elements

LEMMA OverHead ==
  ASSUME NEW s, Framed(s), s # <<>>
  PROVE  /\ Len(s) > 0 /\ s[1] = Head(s) /\ Over(s, 1) = {} /\ IsFrame(Head(s))
         /\ Framed(Tail(s)) /\ Len(Tail(s)) = Len(s) - 1
         /\ \A i \in 1..Len(Tail(s)) :
              /\ i + 1 \in 1..Len(s) /\ Tail(s)[i] = s[i + 1]
              /\ Over(s, i + 1) = {Head(s)} \cup Over(Tail(s), i)
<1>1. /\ Len(s) \in Nat /\ Len(s) > 0 /\ s[1] = Head(s) /\ 1 \in 1..Len(s)
      /\ Tail(s) \in Seq(Elements(s)) /\ Len(Tail(s)) = Len(s) - 1
      /\ \A i \in 1..(Len(s) - 1) : Tail(s)[i] = s[i + 1]
  BY DEF Framed
<1>2. Framed(Tail(s)) /\ IsFrame(Head(s))
  BY <1>1, OwnElements, FramedFacts DEF Framed
<1>3. 1..(1 - 1) = {}
  OBVIOUS
<1>4. Over(s, 1) = {}
  BY <1>3 DEF Over
<1>5. PICK t : t = Tail(s)
  OBVIOUS
<1>6. PICK n \in Nat : n = Len(s) - 1
  <2>1. PICK k \in Nat : k = Len(s)
    BY <1>1
  <2>2. k - 1 \in Nat
    BY <1>1, <2>1
  <2> QED
    BY <2>1, <2>2
<1>7. ASSUME NEW i \in 1..n PROVE Over(s, i + 1) = {Head(s)} \cup Over(t, i)
  <2>1. ASSUME NEW e \in Over(s, i + 1) PROVE e \in {s[1]} \cup Over(t, i)
    <3>1. PICK j \in 1..i : e = s[j]
      BY DEF Over
    <3>2. CASE j > 1
      <4>1. j - 1 \in 1..(i - 1) /\ j - 1 \in 1..n /\ (j - 1) + 1 = j
        BY <3>2
      <4>2. t[j - 1] = s[j]
        BY <1>1, <1>5, <1>6, <4>1
      <4> QED
        BY <3>1, <4>1, <4>2 DEF Over
    <3>3. CASE ~(j > 1)
      <4>1. j = 1
        BY <3>3
      <4> QED
        BY <3>1, <4>1
    <3> QED
      BY <3>2, <3>3
  <2>2. s[1] \in Over(s, i + 1)
    <3>1. 1 \in 1..((i + 1) - 1)
      OBVIOUS
    <3> QED
      BY <3>1 DEF Over
  <2>3. ASSUME NEW e \in Over(t, i) PROVE e \in Over(s, i + 1)
    <3>1. PICK j \in 1..(i - 1) : e = t[j]
      BY DEF Over
    <3>2. j + 1 \in 1..((i + 1) - 1) /\ j \in 1..n
      OBVIOUS
    <3>3. t[j] = s[j + 1]
      BY <1>1, <1>5, <1>6, <3>2
    <3> QED
      BY <3>1, <3>2, <3>3 DEF Over
  <2> QED
    BY <1>1, <2>1, <2>2, <2>3
<1>8. ASSUME NEW i \in 1..n PROVE i + 1 \in 1..Len(s) /\ t[i] = s[i + 1]
  BY <1>1, <1>5, <1>6
<1>9. Len(t) = n
  BY <1>1, <1>5, <1>6
<1>10. \A i \in 1..Len(t) : /\ i + 1 \in 1..Len(s) /\ t[i] = s[i + 1]
                            /\ Over(s, i + 1) = {Head(s)} \cup Over(t, i)
  BY <1>7, <1>8, <1>9
<1> QED
  BY <1>1, <1>2, <1>4, <1>5, <1>10

LEMMA OverConcat ==
  ASSUME NEW s, NEW t, Framed(s), Framed(t)
  PROVE  /\ Framed(s \o t) /\ Len(s \o t) = Len(s) + Len(t)
         /\ \A i \in 1..Len(s) : /\ i \in 1..Len(s \o t) /\ (s \o t)[i] = s[i]
                                 /\ Over(s \o t, i) = Over(s, i)
         /\ \A i \in 1..Len(t) : /\ Len(s) + i \in 1..Len(s \o t) /\ (s \o t)[Len(s) + i] = t[i]
                                 /\ Over(s \o t, Len(s) + i) = Elements(s) \cup Over(t, i)
<1>1. PICK S : S = Elements(s) \cup Elements(t)
  OBVIOUS
<1>2. s \in Seq(S) /\ t \in Seq(S) /\ \A f \in S : IsFrame(f)
  <2>1. s \in Seq(Elements(s)) /\ t \in Seq(Elements(t))
    BY DEF Framed
  <2>2. Elements(s) \subseteq S /\ Elements(t) \subseteq S
    BY <1>1
  <2>3. s \in Seq(S) /\ t \in Seq(S)
    BY <2>1, <2>2
  <2> QED
    BY <1>1, <2>3 DEF Framed
<1>3. PICK u : u = s \o t
  OBVIOUS
<1>4. PICK m \in Nat, n \in Nat : m = Len(s) /\ n = Len(t)
  BY <1>2
<1>5. /\ u \in Seq(S) /\ Len(u) = m + n
      /\ \A i \in 1..m : u[i] = s[i]
      /\ \A i \in 1..n : u[m + i] = t[i]
  BY <1>2, <1>3, <1>4
<1>6. Framed(u)
  BY <1>2, <1>5, OwnElements DEF Framed
<1>7. ASSUME NEW i \in 1..m PROVE Over(u, i) = Over(s, i)
  <2>1. \A j \in 1..(i - 1) : u[j] = s[j]
    BY <1>5
  <2> QED
    BY <2>1 DEF Over
<1>8. ASSUME NEW i \in 1..n PROVE Over(u, m + i) = Elements(s) \cup Over(t, i)
  <2>1. ASSUME NEW e \in Over(u, m + i) PROVE e \in Elements(s) \cup Over(t, i)
    <3>1. PICK j \in 1..((m + i) - 1) : e = u[j]
      BY DEF Over
    <3>2. CASE j \in 1..m
      BY <1>4, <1>5, <3>1, <3>2 DEF Elements
    <3>3. CASE j > m
      <4>1. j - m \in 1..(i - 1) /\ j - m \in 1..n /\ m + (j - m) = j
        BY <3>3
      <4>2. t[j - m] = e
        BY <1>5, <3>1, <4>1
      <4> QED
        BY <4>1, <4>2 DEF Over
    <3> QED
      BY <3>2, <3>3
  <2>2. ASSUME NEW e \in Elements(s) PROVE e \in Over(u, m + i)
    <3>1. PICK j \in 1..m : e = s[j]
      BY <1>4 DEF Elements
    <3>2. j \in 1..((m + i) - 1)
      OBVIOUS
    <3> QED
      BY <1>5, <3>1, <3>2 DEF Over
  <2>3. ASSUME NEW e \in Over(t, i) PROVE e \in Over(u, m + i)
    <3>1. PICK j \in 1..(i - 1) : e = t[j]
      BY DEF Over
    <3>2. m + j \in 1..((m + i) - 1) /\ j \in 1..n
      OBVIOUS
    <3>3. e = u[m + j]
      BY <1>5, <3>1, <3>2
    <3> QED
      BY <3>2, <3>3 DEF Over
  <2> QED
    BY <2>1, <2>2, <2>3
<1>9. (\A i \in 1..m : i \in 1..Len(u)) /\ (\A i \in 1..n : m + i \in 1..Len(u))
  BY <1>5
<1> QED
  BY <1>3, <1>4, <1>5, <1>6, <1>7, <1>8, <1>9

\* What is above the first frames of a stack.
LEMMA OverStart ==
  /\ 1..0 = {} /\ 1..1 = {1} /\ 1..2 = {1, 2} /\ 1..3 = {1, 2, 3} /\ 1..4 = {1, 2, 3, 4}
  /\ \A s : /\ Over(s, 1) = {} /\ Over(s, 2) = {s[1]} /\ Over(s, 3) = {s[1], s[2]}
            /\ Over(s, 4) = {s[1], s[2], s[3]}
<1>1. 1..0 = {} /\ 1..1 = {1} /\ 1..2 = {1, 2} /\ 1..3 = {1, 2, 3} /\ 1..4 = {1, 2, 3, 4}
  OBVIOUS
<1>2. 1 - 1 = 0 /\ 2 - 1 = 1 /\ 3 - 1 = 2 /\ 4 - 1 = 3
  OBVIOUS
<1> QED
  BY <1>1, <1>2 DEF Over

LEMMA FramedOver ==
  ASSUME NEW S, NEW s \in Seq(S), \A x \in S : IsFrame(x)
  PROVE  Framed(s)
  BY OwnElements DEF Framed

\* The stack after the top frame gave way to others.
LEMMA StackThen ==
  ASSUME Framed(stack), stack # <<>>, NEW frames, Framed(frames), Then(frames)
  PROVE  /\ Framed(stack')
         /\ \A i \in 1..Len(frames) : stack'[i] = frames[i] /\ Over(stack', i) = Over(frames, i)
         /\ \A i \in 1..Len(stack') : i \in 1..Len(frames) \/
              \E k \in 1..Len(stack) : \E B :
                 /\ k > 1 /\ stack'[i] = stack[k]
                 /\ Over(stack, k) = {Head(stack)} \cup B
                 /\ Over(stack', i) = Elements(frames) \cup B
<1>1. PICK rest : rest = Tail(stack)
  OBVIOUS
<1>2. /\ Framed(rest) /\ Len(rest) = Len(stack) - 1 /\ Len(stack) \in Nat
      /\ \A i \in 1..Len(rest) :
           /\ i + 1 \in 1..Len(stack) /\ rest[i] = stack[i + 1]
           /\ Over(stack, i + 1) = {Head(stack)} \cup Over(rest, i)
  BY <1>1, OverHead, FramedFacts
<1>3. PICK next : next = frames \o rest
  OBVIOUS
<1>4. stack' = next
  BY <1>1, <1>3 DEF Then
<1>5. /\ Framed(next) /\ Len(next) = Len(frames) + Len(rest)
      /\ \A i \in 1..Len(frames) : next[i] = frames[i] /\ Over(next, i) = Over(frames, i)
      /\ \A i \in 1..Len(rest) :
           /\ next[Len(frames) + i] = rest[i]
           /\ Over(next, Len(frames) + i) = Elements(frames) \cup Over(rest, i)
  <2>1. Framed(frames) /\ Framed(rest)
    BY <1>2
  <2> QED
    BY <1>3, <2>1, OverConcat
<1>6. PICK m \in Nat, n \in Nat : m = Len(frames) /\ n = Len(rest)
  BY <1>2, FramedFacts
<1>7. ASSUME NEW i \in 1..(m + n), i \notin 1..m
      PROVE  \E k \in 1..Len(stack) : \E B :
                /\ k > 1 /\ next[i] = stack[k]
                /\ Over(stack, k) = {Head(stack)} \cup B
                /\ Over(next, i) = Elements(frames) \cup B
  <2>1. PICK j \in 1..n : i = m + j
    <3>1. i - m \in 1..n /\ m + (i - m) = i
      BY <1>7
    <3> QED
      BY <3>1
  <2>2. /\ next[i] = rest[j] /\ Over(next, i) = Elements(frames) \cup Over(rest, j)
        /\ j + 1 \in 1..Len(stack) /\ j + 1 > 1 /\ rest[j] = stack[j + 1]
        /\ Over(stack, j + 1) = {Head(stack)} \cup Over(rest, j)
    BY <1>2, <1>5, <1>6, <2>1
  <2> QED
    BY <2>2
<1> QED
  BY <1>4, <1>5, <1>6, <1>7

\* The same when frames are pushed on the stack as it is.
LEMMA StackPush ==
  ASSUME Framed(stack), NEW frames, Framed(frames), stack' = frames \o stack
  PROVE  /\ Framed(stack')
         /\ \A i \in 1..Len(frames) : stack'[i] = frames[i] /\ Over(stack', i) = Over(frames, i)
         /\ \A i \in 1..Len(stack') : i \in 1..Len(frames) \/
              \E k \in 1..Len(stack) :
                 /\ stack'[i] = stack[k]
                 /\ Over(stack', i) = Elements(frames) \cup Over(stack, k)
<1>1. PICK rest, next : rest = stack /\ next = frames \o rest
  OBVIOUS
<1>2. Framed(rest) /\ stack' = next
  BY <1>1
<1>3. /\ Framed(next) /\ Len(next) = Len(frames) + Len(rest)
      /\ \A i \in 1..Len(frames) : next[i] = frames[i] /\ Over(next, i) = Over(frames, i)
      /\ \A i \in 1..Len(rest) :
           /\ next[Len(frames) + i] = rest[i]
           /\ Over(next, Len(frames) + i) = Elements(frames) \cup Over(rest, i)
  <2>1. Framed(frames) /\ Framed(rest) /\ next = frames \o rest
    BY <1>1, <1>2
  <2> QED
    BY <2>1, OverConcat
<1>4. PICK m \in Nat, n \in Nat : m = Len(frames) /\ n = Len(rest)
  BY <1>2, FramedFacts
<1>5. ASSUME NEW i \in 1..(m + n), i \notin 1..m
      PROVE  \E k \in 1..Len(rest) : /\ next[i] = rest[k]
                                     /\ Over(next, i) = Elements(frames) \cup Over(rest, k)
  <2>1. i - m \in 1..n /\ m + (i - m) = i
    BY <1>5
  <2> QED
    BY <1>3, <1>4, <2>1
<1>6. Len(next) = m + n
  BY <1>3, <1>4
<1>7. \A i \in 1..Len(next) : i \in 1..Len(frames) \/
        \E k \in 1..Len(rest) : /\ next[i] = rest[k]
                               /\ Over(next, i) = Elements(frames) \cup Over(rest, k)
  BY <1>4, <1>5, <1>6
<1> QED
  BY <1>1, <1>2, <1>3, <1>7

\* The frames below stay sound when the top one gives way to frames that may be
\* above whatever it may be above.
LEMMA SoundThen ==
  ASSUME AllSound(stack), stack # <<>>, NEW frames, Framed(frames), Then(frames),
         \A i \in 1..Len(frames) : Sound(frames[i], Over(frames, i))',
         \A g, B : Sound(g, {Head(stack)} \cup B) => Sound(g, Elements(frames) \cup B)'
  PROVE  AllSound(stack)'
<1>1. Framed(stack)
  BY DEF AllSound
<1>2. /\ Framed(stack')
      /\ \A i \in 1..Len(frames) : stack'[i] = frames[i] /\ Over(stack', i) = Over(frames, i)
      /\ \A i \in 1..Len(stack') : i \in 1..Len(frames) \/
           \E k \in 1..Len(stack) : \E B :
              /\ k > 1 /\ stack'[i] = stack[k]
              /\ Over(stack, k) = {Head(stack)} \cup B
              /\ Over(stack', i) = Elements(frames) \cup B
  BY <1>1, StackThen
<1>3. ASSUME NEW i \in 1..Len(stack') PROVE Sound(stack[i], Over(stack, i))'
  <2>1. CASE i \in 1..Len(frames)
    <3>1. PICK f, B : f = frames[i] /\ B = Over(frames, i)
      OBVIOUS
    <3>2. stack'[i] = f /\ Over(stack', i) = B
      BY <1>2, <2>1, <3>1
    <3>3. Sound(f, B)'
      BY <2>1, <3>1
    <3> QED
      BY <3>2, <3>3
  <2>2. CASE i \notin 1..Len(frames)
    <3>1. PICK k, B :
            /\ k \in 1..Len(stack)
            /\ stack'[i] = stack[k]
            /\ Over(stack, k) = {Head(stack)} \cup B
            /\ Over(stack', i) = Elements(frames) \cup B
      BY <1>2, <2>2
    <3>2. Sound(stack[k], Over(stack, k))
      BY <3>1 DEF AllSound
    <3>3. PICK g, C : g = stack[k] /\ C = Elements(frames) \cup B
      OBVIOUS
    <3>4. Sound(g, C)'
      BY <3>1, <3>2, <3>3
    <3>5. stack'[i] = g /\ Over(stack', i) = C
      BY <3>1, <3>3
    <3> QED
      BY <3>4, <3>5
  <2> QED
    BY <2>1, <2>2
<1> QED
  BY <1>2, <1>3 DEF AllSound

\* The widgets are trees, and the roots of the window are roots of them.
Rooted == Forest(parent) /\ \A root \in Sheets \cup {Content} : parent[root] = None

\* The invariant: types, trees, pointers that are good, and a stack of sound frames.
Core == TypeOK /\ Rooted /\ PointersStayGood /\ AllSound(stack)

\* Nothing but free frames is below these.
Ends == {"restore", "first", "bubble", "move", "press", "release", "released", "changed",
         "unlink", "shown", "leave", "erase"}

LEMMA FrameFields ==
  ASSUME NEW op, NEW w
  PROVE  /\ IsFrame(Frame(op, w)) /\ Frame(op, w).op = op /\ Frame(op, w).w = w
         /\ Frame(op, w).prev = None
         /\ IsFrame(UserFrame(w)) /\ UserFrame(w).op = "user" /\ UserFrame(w).w = w
         /\ UserFrame(w).prev = None
         /\ \A list : LET f == [Frame(op, w) EXCEPT !.list = list]
                      IN  IsFrame(f) /\ f.op = op /\ f.w = w /\ f.prev = None /\ f.list = list
  BY DEF Frame, UserFrame, IsFrame

LEMMA FreeIsSound ==
  ASSUME NEW g, TypedFrame(g), Free(g)
  PROVE  \A A : Sound(g, A) /\ Sound(g, A)'
<1>1. /\ ~(g.op \in {"out", "in", "taken"}) /\ g.op # "take"
      /\ ~(g.op \in {"hover", "move", "press", "release", "bubble"})
      /\ ~(g.op \in {"shown", "leave", "erase"}) /\ g.op # "unlink"
      /\ ~(g.op \in {"erase", "unlink"})
  BY DEF Free
<1>2. Owed(g) /\ Owed(g)'
  BY <1>1 DEF Owed
<1>3. \A f : Precedes(f, g)
  BY DEF Precedes
<1> QED
  BY <1>1, <1>2, <1>3 DEF Sound

LEMMA AllSoundEmpty == AllSound(<<>>)'
<1>1. Framed(<<>>) /\ Len(<<>>) = 0 /\ 1..0 = {}
  BY FramedEmpty
<1> QED
  BY <1>1 DEF AllSound

\* The frames a step pushes, at most four.
LEMMA AllSoundOne ==
  ASSUME NEW f, IsFrame(f),
         Sound(f, {})'
  PROVE  AllSound(<<f>>)' /\ Framed(<<f>>) /\ Elements(<<f>>) = {f}
<1>1. PICK s, S : s = <<f>> /\ S = {f}
  OBVIOUS
<1>2. s \in Seq(S)
  BY <1>1
<1>3. Framed(s)
  <2>1. \A x \in S : IsFrame(x)
    BY <1>1
  <2> QED
    BY <1>2, <2>1, FramedOver
<1>4. Len(s) = 1 /\ s[1] = f
  BY <1>1
<1>5. Elements(s) = {f}
  BY <1>4, OverStart DEF Elements
<1>6. Over(s, 1) = {}
  BY <1>4, OverStart
<1>7. Sound(s[1], Over(s, 1))'
  BY <1>4, <1>6
<1>8. \A i \in 1..Len(s) : i = 1
  BY <1>4, OverStart
<1>9. AllSound(s)'
  BY <1>3, <1>7, <1>8 DEF AllSound
<1> QED
  BY <1>1, <1>3, <1>5, <1>9

LEMMA AllSoundTwo ==
  ASSUME NEW f, NEW g, IsFrame(f), IsFrame(g),
         Sound(f, {})', Sound(g, {f})'
  PROVE  AllSound(<<f, g>>)' /\ Framed(<<f, g>>) /\ Elements(<<f, g>>) = {f, g}
<1>1. PICK s, S : s = <<f, g>> /\ S = {f, g}
  OBVIOUS
<1>2. s \in Seq(S)
  BY <1>1
<1>3. Framed(s)
  <2>1. \A x \in S : IsFrame(x)
    BY <1>1
  <2> QED
    BY <1>2, <2>1, FramedOver
<1>4. Len(s) = 2 /\ s[1] = f /\ s[2] = g
  BY <1>1
<1>5. Elements(s) = {f, g}
  BY <1>4, OverStart DEF Elements
<1>6. Over(s, 1) = {} /\ Over(s, 2) = {f}
  BY <1>4, OverStart
<1>7. Sound(s[1], Over(s, 1))' /\ Sound(s[2], Over(s, 2))'
  BY <1>4, <1>6
<1>8. \A i \in 1..Len(s) : i = 1 \/ i = 2
  BY <1>4, OverStart
<1>9. AllSound(s)'
  BY <1>3, <1>7, <1>8 DEF AllSound
<1> QED
  BY <1>1, <1>3, <1>5, <1>9

LEMMA AllSoundThree ==
  ASSUME NEW f, NEW g, NEW h, IsFrame(f), IsFrame(g), IsFrame(h),
         Sound(f, {})', Sound(g, {f})', Sound(h, {f, g})'
  PROVE  AllSound(<<f, g, h>>)' /\ Framed(<<f, g, h>>) /\ Elements(<<f, g, h>>) = {f, g, h}
<1>1. PICK s, S : s = <<f, g, h>> /\ S = {f, g, h}
  OBVIOUS
<1>2. s \in Seq(S)
  BY <1>1
<1>3. Framed(s)
  <2>1. \A x \in S : IsFrame(x)
    BY <1>1
  <2> QED
    BY <1>2, <2>1, FramedOver
<1>4. Len(s) = 3 /\ s[1] = f /\ s[2] = g /\ s[3] = h
  BY <1>1
<1>5. Elements(s) = {f, g, h}
  BY <1>4, OverStart DEF Elements
<1>6. Over(s, 1) = {} /\ Over(s, 2) = {f} /\ Over(s, 3) = {f, g}
  BY <1>4, OverStart
<1>7. Sound(s[1], Over(s, 1))' /\ Sound(s[2], Over(s, 2))' /\ Sound(s[3], Over(s, 3))'
  BY <1>4, <1>6
<1>8. \A i \in 1..Len(s) : i = 1 \/ i = 2 \/ i = 3
  BY <1>4, OverStart
<1>9. AllSound(s)'
  BY <1>3, <1>7, <1>8 DEF AllSound
<1> QED
  BY <1>1, <1>3, <1>5, <1>9

LEMMA AllSoundFour ==
  ASSUME NEW f, NEW g, NEW h, NEW e, IsFrame(f), IsFrame(g), IsFrame(h), IsFrame(e),
         Sound(f, {})', Sound(g, {f})', Sound(h, {f, g})', Sound(e, {f, g, h})'
  PROVE  AllSound(<<f, g, h, e>>)' /\ Framed(<<f, g, h, e>>) /\ Elements(<<f, g, h, e>>) = {f, g, h, e}
<1>1. PICK s, S : s = <<f, g, h, e>> /\ S = {f, g, h, e}
  OBVIOUS
<1>2. s \in Seq(S)
  BY <1>1
<1>3. Framed(s)
  <2>1. \A x \in S : IsFrame(x)
    BY <1>1
  <2> QED
    BY <1>2, <2>1, FramedOver
<1>4. Len(s) = 4 /\ s[1] = f /\ s[2] = g /\ s[3] = h /\ s[4] = e
  BY <1>1
<1>5. Elements(s) = {f, g, h, e}
  BY <1>4, OverStart DEF Elements
<1>6. Over(s, 1) = {} /\ Over(s, 2) = {f} /\ Over(s, 3) = {f, g} /\ Over(s, 4) = {f, g, h}
  BY <1>4, OverStart
<1>7. Sound(s[1], Over(s, 1))' /\ Sound(s[2], Over(s, 2))' /\ Sound(s[3], Over(s, 3))' /\ Sound(s[4], Over(s, 4))'
  BY <1>4, <1>6
<1>8. \A i \in 1..Len(s) : i = 1 \/ i = 2 \/ i = 3 \/ i = 4
  BY <1>4, OverStart
<1>9. AllSound(s)'
  BY <1>3, <1>7, <1>8 DEF AllSound
<1> QED
  BY <1>1, <1>3, <1>5, <1>9

\* The top frame has nothing above it.
LEMMA HeadIsSound ==
  ASSUME AllSound(stack), stack # <<>>
  PROVE  Sound(Head(stack), {}) /\ IsFrame(Head(stack)) /\ Framed(stack)
<1>1. Framed(stack)
  BY DEF AllSound
<1>2. Len(stack) > 0 /\ stack[1] = Head(stack) /\ Over(stack, 1) = {} /\ IsFrame(Head(stack))
  BY <1>1, OverHead
<1>3. 1 \in 1..Len(stack)
  BY <1>1, <1>2, FramedFacts
<1>4. Sound(stack[1], Over(stack, 1))
  BY <1>3 DEF AllSound
<1> QED
  BY <1>1, <1>2, <1>4

LEMMA EndsThen ==
  ASSUME AllSound(stack), stack # <<>>, Head(stack).op \in Ends,
         NEW frames, AllSound(frames)', Then(frames)
  PROVE  AllSound(stack)'
<1>1. Framed(frames) /\ \A i \in 1..Len(frames) : Sound(frames[i], Over(frames, i))'
  BY DEF AllSound
<1>2. PICK h : h = Head(stack)
  OBVIOUS
<1>3. ASSUME NEW g, NEW B, Sound(g, {h} \cup B) PROVE Sound(g, Elements(frames) \cup B)'
  <2>1. TypedFrame(g) /\ Precedes(h, g) /\ h.op \in Ends
    BY <1>2, <1>3 DEF Sound
  <2>2. Free(g)
    BY <2>1 DEF Ends, Precedes, FocusOps, Clears
  <2> QED
    BY <2>1, <2>2, FreeIsSound
<1> QED
  BY <1>1, <1>2, <1>3, SoundThen

\* An operation user code calls, at the top level or in an event handler.
LEMMA CallSound ==
  ASSUME CallbackOps["focus"] = {}, CallbackOps["hover"] = {}, AllSound(stack),
         NEW op, NEW frames, AllSound(frames)', Call(op, frames)
  PROVE  /\ AllSound(stack)' /\ Framed(stack) /\ crashed' = crashed
         /\ stack # <<>> => IsEvent(Head(stack))
         /\ \A k \in 1..Len(stack) : Free(stack[k])
<1>1. Framed(stack) /\ Framed(frames) /\ \A i \in 1..Len(frames) : Sound(frames[i], Over(frames, i))'
  BY DEF AllSound
<1>2. stack' = frames \o stack /\ crashed' = crashed
  BY DEF Call
<1>3. stack # <<>> => IsEvent(Head(stack))
  <2>1. SUFFICES ASSUME stack # <<>> PROVE IsEvent(Head(stack))
    OBVIOUS
  <2>2. TypedFrame(Head(stack))
    BY <2>1, HeadIsSound DEF Sound
  <2>3. Head(stack).op = "user" /\ op \in CallbackOps[Head(stack).w]
    BY <2>1 DEF Call
  <2> QED
    BY <2>2, <2>3 DEF TypedFrame, IsEvent
<1>4. ASSUME NEW k \in 1..Len(stack) PROVE Free(stack[k]) /\ TypedFrame(stack[k])
  <2>1. stack # <<>> /\ Len(stack) \in Nat
    BY <1>1, <1>4, FramedFacts, FramedEmpty
  <2>2. TypedFrame(stack[k]) /\ \A g \in Over(stack, k) : Precedes(g, stack[k])
    BY DEF AllSound, Sound
  <2>3. Head(stack) = stack[1]
    BY <1>1, <2>1, OverHead
  <2>4. CASE k = 1
    BY <1>3, <2>1, <2>2, <2>3, <2>4 DEF IsEvent, Free
  <2>5. CASE k # 1
    <3>1. 1 \in 1..(k - 1)
      BY <2>1, <2>5
    <3>2. Precedes(Head(stack), stack[k])
      BY <2>2, <2>3, <3>1 DEF Over
    <3> QED
      BY <1>3, <2>1, <2>2, <3>2 DEF Precedes
  <2> QED
    BY <2>4, <2>5
<1>5. /\ Framed(stack')
      /\ \A i \in 1..Len(frames) : stack'[i] = frames[i] /\ Over(stack', i) = Over(frames, i)
      /\ \A i \in 1..Len(stack') : i \in 1..Len(frames) \/
           \E k \in 1..Len(stack) :
              /\ stack'[i] = stack[k]
              /\ Over(stack', i) = Elements(frames) \cup Over(stack, k)
  BY <1>1, <1>2, StackPush
<1>6. ASSUME NEW i \in 1..Len(stack') PROVE Sound(stack[i], Over(stack, i))'
  <2>1. CASE i \in 1..Len(frames)
    <3>1. PICK f, B : f = frames[i] /\ B = Over(frames, i)
      OBVIOUS
    <3>2. stack'[i] = f /\ Over(stack', i) = B
      BY <1>5, <2>1, <3>1
    <3>3. Sound(f, B)'
      BY <1>1, <2>1, <3>1
    <3> QED
      BY <3>2, <3>3
  <2>2. CASE i \notin 1..Len(frames)
    <3>1. PICK k \in 1..Len(stack) : stack'[i] = stack[k]
      BY <1>5, <2>2
    <3>2. PICK g, B : g = stack[k] /\ B = Over(stack', i)
      OBVIOUS
    <3>3. Sound(g, B)'
      BY <1>4, <3>2, FreeIsSound
    <3> QED
      BY <3>1, <3>2, <3>3
  <2> QED
    BY <2>1, <2>2
<1> QED
  BY <1>1, <1>2, <1>3, <1>4, <1>5, <1>6 DEF AllSound

LEMMA EventSound ==
  ASSUME NEW frames, AllSound(frames)', Event(frames)
  PROVE  AllSound(stack)' /\ crashed' = crashed
<1>1. stack' = frames /\ crashed' = crashed
  BY DEF Event
<1> QED
  BY <1>1 DEF AllSound

(***************************************************************************)
(* What a step leaves alone.                                                *)
(***************************************************************************)
LEMMA TreesStay ==
  ASSUME UNCHANGED trees
  PROVE  /\ \A w, a : Inside(w, a)' <=> Inside(w, a)
         /\ \A w : InWindow(w)' <=> InWindow(w)
         /\ \A w : Good(w)' <=> Good(w)
         /\ OverlayList' = OverlayList
         /\ \A w : Siblings(w)' = Siblings(w)
<1>1. Path' = Path /\ overlays' = overlays /\ child' = child /\ parent' = parent
  BY DEF Path, trees
<1>2. \A w, a : Inside(w, a)' <=> Inside(w, a)
  BY <1>1 DEF Inside
<1>3. \A w : InWindow(w)' <=> InWindow(w)
  BY <1>1, <1>2 DEF InWindow, SheetsOf
<1> QED
  BY <1>1, <1>2, <1>3 DEF Good, OverlayList, Siblings

LEMMA OwedStays ==
  ASSUME UNCHANGED <<trees, shown>>, NEW f, Owed(f),
         f.op \in {"out", "in", "taken"} => focused' # None
  PROVE  Owed(f)'
<1>1. \A w : CanFocus(w)' <=> CanFocus(w)
  BY DEF CanFocus, shown
<1> QED
  BY <1>1, TreesStay DEF Owed

LEMMA GoneStays ==
  ASSUME UNCHANGED <<trees, pointer, focused>>, NEW root, NEW A, NEW B, Gone(root, A),
         \A f \in A : f.op = "detached" => f \in B,
         focused # None =>
           \A f \in A : f.op \in {"focus", "take"} => \E g \in B : g.op \in {"focus", "take"}
  PROVE  Gone(root, B)'
<1>1. /\ Inside(hovered, root)' <=> Inside(hovered, root)
      /\ Inside(pressed, root)' <=> Inside(pressed, root)
      /\ Inside(focused, root)' <=> Inside(focused, root)
  BY TreesStay DEF pointer, Inside
<1>2. Inside(focused, root) => focused # None
  BY DEF Inside
<1> QED
  BY <1>1, <1>2 DEF Gone

LEMMA SoundBelow ==
  ASSUME UNCHANGED <<trees, shown>>, NEW g, NEW h, NEW B, NEW F, Sound(g, {h} \cup B),
         \A f \in F : Precedes(f, g),
         g.op \in {"out", "in", "taken"} => focused' # None,
         g.op \in {"erase", "unlink"} => Gone(g.w, F \cup B)'
  PROVE  Sound(g, F \cup B)'
<1>1. Owed(g)'
  BY OwedStays DEF Sound
<1> QED
  BY <1>1 DEF Sound, Precedes

\* A step that leaves trees, widgets and pointers alone.
LEMMA QuietThen ==
  ASSUME AllSound(stack), stack # <<>>, UNCHANGED <<trees, shown, pointer, focused>>,
         NEW frames, AllSound(frames)', Then(frames), Head(stack).op # "detached",
         \A g : Precedes(Head(stack), g) => \A f \in Elements(frames) : Precedes(f, g),
         \/ Head(stack).op \notin {"focus", "take"} \/ focused = None
         \/ \E f \in Elements(frames) : f.op \in {"focus", "take"}
         \/ Head(stack).w # None
  PROVE  AllSound(stack)'
<1>1. PICK h, F : h = Head(stack) /\ F = Elements(frames)
  OBVIOUS
<1>2. ASSUME NEW g, NEW B, Sound(g, {h} \cup B) PROVE Sound(g, F \cup B)'
  <2>1. Precedes(h, g) /\ Owed(g)
    BY <1>2 DEF Sound
  <2>2. \A f \in F : Precedes(f, g)
    BY <1>1, <2>1
  <2>3. g.op \in {"out", "in", "taken"} => focused' # None
    BY <2>1 DEF Owed
  <2>4. ASSUME g.op \in {"erase", "unlink"} PROVE Gone(g.w, F \cup B)'
    <3>1. Gone(g.w, {h} \cup B)
      BY <1>2, <2>4 DEF Sound
    <3>2. h.op \in {"focus", "take"} => h.w = None
      BY <2>1, <2>4 DEF Precedes, Free, Clears
    <3>3. ~(h.op \in {"focus", "take"}) \/ focused = None \/ \E f \in F : f.op \in {"focus", "take"}
      BY <1>1, <3>2
    <3>4. PICK A, C : A = {h} \cup B /\ C = F \cup B
      OBVIOUS
    <3>5. \A f \in A : f.op = "detached" => f \in C
      BY <1>1, <3>4
    <3>6. focused # None =>
            \A f \in A : f.op \in {"focus", "take"} => \E e \in C : e.op \in {"focus", "take"}
      BY <3>3, <3>4
    <3>7. Gone(g.w, C)'
      BY <3>1, <3>4, <3>5, <3>6, GoneStays
    <3> QED
      BY <3>4, <3>7
  <2> QED
    BY <1>2, <2>2, <2>3, <2>4, SoundBelow
<1>3. Framed(frames) /\ \A i \in 1..Len(frames) : Sound(frames[i], Over(frames, i))'
  BY DEF AllSound
<1> QED
  BY <1>1, <1>2, <1>3, SoundThen

LEMMA CoreStays ==
  ASSUME Core, UNCHANGED <<trees, shown, crashed>>, AllSound(stack)',
         \A w \in {hovered', pressed', focused'} : w \in Pointers /\ Good(w),
         pending' \in Pointers,
         last' = last \/ last' \in [op : {"other", "return", "release"}, w : Pointers]
  PROVE  Core'
<1>1. TypeOK'
  <2>1. {hovered', pressed', focused', pending'} \subseteq Pointers
    OBVIOUS
  <2>2. /\ child' = child /\ overlays' = overlays /\ parent' = parent
        /\ visible' = visible /\ sensitive' = sensitive /\ focusable' = focusable
        /\ crashed' = crashed
    BY DEF trees, shown
  <2>3. last' \in [op : {"other", "return", "release"}, w : Pointers]
    BY DEF Core, TypeOK
  <2> QED
    BY <2>1, <2>2, <2>3 DEF Core, TypeOK
<1>2. \A w \in {hovered', pressed', focused'} : Good(w)'
  <2>1. PICK x, y, z : x = hovered' /\ y = pressed' /\ z = focused'
    OBVIOUS
  <2>2. Good(x)' /\ Good(y)' /\ Good(z)'
    BY <2>1, TreesStay
  <2> QED
    BY <2>1, <2>2
<1>3. PointersStayGood'
  BY <1>2 DEF Core, PointersStayGood, Good
<1>4. Rooted'
  BY DEF Core, Rooted, trees
<1> QED
  BY <1>1, <1>3, <1>4 DEF Core

LEMMA AtHead ==
  ASSUME Core, NEW op, At(op)
  PROVE  /\ stack # <<>> /\ Head(stack).op = op /\ Arg = Head(stack).w /\ ~crashed
         /\ Sound(Head(stack), {}) /\ IsFrame(Head(stack)) /\ AllSound(stack)
  BY HeadIsSound DEF At, Arg, Core

LEMMA PointersAre ==
  ASSUME Core
  PROVE  /\ ~crashed /\ pending \in Pointers
         /\ \A w \in {hovered, pressed, focused} : w \in Pointers /\ Good(w)
  BY DEF Core, TypeOK, PointersStayGood, Good

\* The roots of the window, and what is above a widget of the window.
LEMMA WindowRoots ==
  ASSUME TypeOK, Rooted
  PROVE  \A r \in SheetsOf(overlays) \cup ({child} \ {None}) :
           r \in Widgets /\ parent[r] = None /\ (r \in Sheets \/ r = Content)
<1>1. ASSUME NEW r \in SheetsOf(overlays) PROVE r \in Sheets
  <2>1. PICK i \in DOMAIN overlays : r = overlays[i].widget
    BY DEF SheetsOf
  <2>2. overlays[i] \in Entries
    BY DEF TypeOK
  <2> QED
    BY <2>1, <2>2 DEF Entries
<1>2. child \in {Content, None}
  BY DEF TypeOK
<1> QED
  BY <1>1, <1>2, TreeAssumption DEF Rooted

LEMMA WindowIsClosed ==
  ASSUME TypeOK, Rooted, NEW p \in Pointers, NEW a, Inside(p, a), InWindow(p)
  PROVE  InWindow(a)
<1>1. PICK r \in SheetsOf(overlays) \cup ({child} \ {None}) : Inside(p, r)
  BY DEF InWindow
<1>2. parent[r] = None
  BY WindowRoots
<1>3. p \in Widgets /\ a \in Path[p] /\ r \in Path[p]
  BY <1>1 DEF Inside, Pointers
<1>4. Trees(parent) /\ Ancestral(Path, parent)
  BY PathIsAncestral DEF TypeOK, Rooted, Trees
<1>5. r \in Path[a] /\ a \in Widgets
  BY <1>2, <1>3, <1>4, RootOfPath, PathHasWidgets
<1>6. a # None
  BY <1>5, TreeAssumption
<1> QED
  BY <1>5, <1>6 DEF InWindow, Inside

\* A frame of focus_widget() relies on little when nothing is above it.
LEMMA UserIsSound ==
  ASSUME NEW u, u.op = "user", u.w \in {"event", "focus", "hover"}, u.prev = None
  PROVE  Free(u) /\ TypedFrame(u) /\ \A A : Sound(u, A)'
<1>1. Free(u) /\ TypedFrame(u)
  BY DEF Free, TypedFrame, FrameOps, FocusOps, Pointers
<1> QED
  BY <1>1, FreeIsSound

LEMMA PlainIsSound ==
  ASSUME NEW f, NEW A, f.op \in {"focus", "restore", "first", "detached", "forget"},
         f.op # "focus" => f.w \in Pointers, f.prev \in Pointers, \A g \in A : Precedes(g, f)
  PROVE  Sound(f, A)'
  BY DEF Sound, TypedFrame, FrameOps, FocusOps, Owed, Precedes, Free, IsEvent, Clears

LEMMA FocusKeepsCore ==
  ASSUME Core, Focus
  PROVE  Core'
<1>1. /\ stack # <<>> /\ Head(stack).op = "focus" /\ Arg = Head(stack).w
      /\ Sound(Head(stack), {}) /\ AllSound(stack)
      /\ UNCHANGED <<trees, shown, pointer, focused, pending, crashed, last>>
  BY AtHead DEF Focus
<1>2. PICK target :
        /\ target = None \/ (target = Arg /\ InWindow(target) /\ CanFocus(target))
        /\ Arg = None => target = None
        /\ \/ Then(<<>>) /\ (Arg = None => focused = None)
           \/ focused = None /\ Then(<<Frame("take", target)>>)
           \/ focused # None
              /\ Then(<<UserFrame("focus"), Frame("out", None), Frame("take", target)>>)
  <2> DEFINE t == IF Arg # None /\ CanFocus(Arg) /\ InWindow(Arg) THEN Arg ELSE None
  <2>1. /\ t = None \/ (t = Arg /\ InWindow(t) /\ CanFocus(t))
        /\ Arg = None => t = None
    OBVIOUS
  <2>2. \/ Then(<<>>) /\ (Arg = None => focused = None)
        \/ focused = None /\ Then(<<Frame("take", t)>>)
        \/ focused # None /\ Then(<<UserFrame("focus"), Frame("out", None), Frame("take", t)>>)
    BY DEF Focus
  <2> HIDE DEF t
  <2> QED
    BY <2>1, <2>2
<1>3. PICK u, o, t : u = UserFrame("focus") /\ o = Frame("out", None) /\ t = Frame("take", target)
  OBVIOUS
<1>4. /\ IsFrame(u) /\ u.op = "user" /\ u.w = "focus" /\ u.prev = None
      /\ IsFrame(o) /\ o.op = "out" /\ o.w = None /\ o.prev = None
      /\ IsFrame(t) /\ t.op = "take" /\ t.w = target /\ t.prev = None
  BY <1>3, FrameFields
<1>5. PICK h : h = Head(stack)
  OBVIOUS
<1>6. h.op = "focus" /\ target \in Pointers /\ None \in Pointers
  BY <1>1, <1>2, <1>5 DEF CanFocus, Core, TypeOK, Pointers
<1>7. ASSUME NEW g, Precedes(h, g)
      PROVE  Precedes(u, g) /\ Precedes(o, g) /\ Precedes(t, g)
  BY <1>1, <1>2, <1>4, <1>5, <1>6, <1>7 DEF Precedes, FocusOps, Clears, IsEvent
<1>8. \A A : Sound(u, A)'
  BY <1>4, UserIsSound
<1>9. InWindow(target)' <=> InWindow(target)
  BY <1>1, TreesStay
<1>10. ASSUME NEW A, \A e \in A : e \in {u, o} PROVE Sound(t, A)'
  <2>1. Owed(t)'
    <3>1. CanFocus(target)' <=> CanFocus(target)
      BY <1>1 DEF CanFocus, shown
    <3> QED
      BY <1>2, <1>4, <1>9, <3>1 DEF Owed
  <2>2. Precedes(u, t) /\ Precedes(o, t)
    BY <1>4 DEF Precedes, IsEvent
  <2>3. TypedFrame(t)
    BY <1>4, <1>6 DEF TypedFrame, FrameOps, FocusOps
  <2> QED
    BY <1>4, <1>10, <2>1, <2>2, <2>3 DEF Sound, TypedFrame, Precedes
<1>11. ASSUME focused # None PROVE Sound(o, {u})'
  <2>1. Owed(o)'
    BY <1>1, <1>4, <1>11 DEF Owed
  <2>2. Precedes(u, o) /\ TypedFrame(o)
    BY <1>4, <1>6 DEF Precedes, IsEvent, TypedFrame, FrameOps, FocusOps
  <2> QED
    BY <1>4, <2>1, <2>2 DEF Sound, TypedFrame, Precedes
<1>12. AllSound(stack)'
  <2>1. CASE Then(<<>>) /\ (Arg = None => focused = None)
    <3>1. Elements(<<>>) = {}
      BY FramedEmpty
    <3>2. Head(stack).op # "detached"
      BY <1>1
    <3> QED
      BY <1>1, <2>1, <3>1, <3>2, AllSoundEmpty, QuietThen
  <2>2. CASE focused = None /\ Then(<<Frame("take", target)>>)
    <3>1. AllSound(<<t>>)' /\ Elements(<<t>>) = {t}
      BY <1>4, <1>10, AllSoundOne
    <3>2. Then(<<t>>) /\ focused = None
      BY <1>3, <2>2
    <3>3. PICK frames : frames = <<t>>
      OBVIOUS
    <3> QED
      BY <1>1, <1>5, <1>7, <3>1, <3>2, <3>3, QuietThen
  <2>3. CASE focused # None
             /\ Then(<<UserFrame("focus"), Frame("out", None), Frame("take", target)>>)
    <3>1. Sound(u, {})' /\ Sound(o, {u})' /\ Sound(t, {u, o})'
      BY <1>8, <1>10, <1>11, <2>3
    <3>2. AllSound(<<u, o, t>>)' /\ Elements(<<u, o, t>>) = {u, o, t}
      BY <1>4, <3>1, AllSoundThree
    <3>3. PICK frames : frames = <<u, o, t>>
      OBVIOUS
    <3>4. Then(frames) /\ AllSound(frames)' /\ Elements(frames) = {u, o, t}
      BY <1>3, <2>3, <3>2, <3>3
    <3> QED
      BY <1>1, <1>4, <1>5, <1>7, <3>4, QuietThen
  <2> QED
    BY <1>2, <2>1, <2>2, <2>3
<1> QED
  BY <1>1, <1>12, CoreStays, PointersAre DEF pointer

LEMMA UserReturnKeepsCore ==
  ASSUME Core, UserReturn
  PROVE  Core'
<1>1. /\ stack # <<>> /\ Head(stack).op = "user" /\ AllSound(stack) /\ Then(<<>>)
      /\ UNCHANGED <<trees, shown, pointer, focus, crashed, last>>
  BY AtHead DEF UserReturn
<1>2. AllSound(stack)'
  <2>1. Elements(<<>>) = {}
    BY FramedEmpty
  <2>2. Head(stack).op # "detached" /\ Head(stack).op \notin {"focus", "take"}
    BY <1>1
  <2>3. UNCHANGED <<trees, shown, pointer, focused>>
    BY <1>1 DEF focus
  <2> QED
    BY <1>1, <2>1, <2>2, <2>3, AllSoundEmpty, QuietThen
<1> QED
  BY <1>1, <1>2, CoreStays, PointersAre DEF pointer, focus

LEMMA FocusChangedKeepsCore ==
  ASSUME Core, FocusChanged
  PROVE  Core'
<1>1. /\ stack # <<>> /\ Head(stack).op \in {"out", "in"} /\ AllSound(stack)
      /\ Sound(Head(stack), {})
  BY AtHead DEF FocusChanged
<1>2. focused # None
  BY <1>1 DEF Sound, Owed
<1>3. /\ Then(<<UserFrame("focus")>>)
      /\ UNCHANGED <<trees, shown, pointer, focus, crashed, last>>
  BY <1>2 DEF FocusChanged
<1>4. PICK u : u = UserFrame("focus")
  OBVIOUS
<1>5. IsFrame(u) /\ u.op = "user" /\ u.w = "focus" /\ u.prev = None
  BY <1>4, FrameFields
<1>6. AllSound(<<u>>)' /\ Elements(<<u>>) = {u}
  BY <1>5, UserIsSound, AllSoundOne
<1>7. PICK h : h = Head(stack)
  OBVIOUS
<1>8. ASSUME NEW g, Precedes(h, g) PROVE Precedes(u, g)
  BY <1>1, <1>5, <1>7, <1>8 DEF Precedes, FocusOps, Clears, IsEvent
<1>9. AllSound(stack)'
  <2>1. PICK frames : frames = <<u>>
    OBVIOUS
  <2>2. Head(stack).op # "detached" /\ Head(stack).op \notin {"focus", "take"}
    BY <1>1
  <2>3. Then(frames) /\ UNCHANGED <<trees, shown, pointer, focused>>
    BY <1>3, <1>4, <2>1 DEF focus
  <2> QED
    BY <1>1, <1>6, <1>7, <1>8, <2>1, <2>2, <2>3, QuietThen
<1> QED
  BY <1>3, <1>9, CoreStays, PointersAre DEF pointer, focus

LEMMA TakeKeepsCore ==
  ASSUME Core, Take
  PROVE  Core'
<1>1. /\ stack # <<>> /\ Head(stack).op = "take" /\ Arg = Head(stack).w
      /\ AllSound(stack) /\ Sound(Head(stack), {})
      /\ UNCHANGED <<trees, shown, pointer, pending, crashed, last>>
  BY AtHead DEF Take
<1>2. PICK h, w : h = Head(stack) /\ w = Arg
  OBVIOUS
<1>3. /\ h.op = "take" /\ h.w = w /\ w \in Pointers /\ Good(w) /\ focused' = w
  BY <1>1, <1>2 DEF Sound, TypedFrame, Owed, Good, Take
<1>4. ASSUME NEW F, NEW g, NEW B, Sound(g, {h} \cup B), \A f \in F : Precedes(f, g)
      PROVE  Sound(g, F \cup B)'
  <2>1. Precedes(h, g)
    BY <1>4 DEF Sound
  <2>2. ~(g.op \in {"out", "in", "taken"})
    BY <1>3, <2>1 DEF Precedes, Free
  <2>3. ASSUME g.op \in {"erase", "unlink"} PROVE Gone(g.w, F \cup B)'
    <3>1. w = None
      BY <1>3, <2>1, <2>3 DEF Precedes, Free, Clears
    <3>2. Gone(g.w, {h} \cup B)
      BY <1>4, <2>3 DEF Sound
    <3>3. \/ \E f \in B : f.op = "detached" /\ f.w = g.w
          \/ ~Inside(hovered, g.w) /\ ~Inside(pressed, g.w)
      BY <1>3, <3>2 DEF Gone
    <3>4. /\ Inside(hovered, g.w)' <=> Inside(hovered, g.w)
          /\ Inside(pressed, g.w)' <=> Inside(pressed, g.w)
          /\ ~Inside(focused, g.w)'
      BY <1>1, <1>3, <3>1, TreesStay DEF pointer, Inside
    <3> QED
      BY <3>3, <3>4 DEF Gone
  <2> QED
    BY <1>1, <1>4, <2>2, <2>3, SoundBelow
<1>5. CASE w = None
  <2>1. Then(<<>>) /\ AllSound(<<>>)' /\ Framed(<<>>) /\ Elements(<<>>) = {}
    BY <1>2, <1>5, AllSoundEmpty, FramedEmpty DEF Take
  <2>2. \A i \in 1..Len(<<>>) : Sound(<<>>[i], Over(<<>>, i))'
    BY <2>1 DEF AllSound
  <2>3. \A g, B : Sound(g, {h} \cup B) => Sound(g, {} \cup B)'
    BY <1>4
  <2>4. AllSound(stack)'
    BY <1>1, <1>2, <2>1, <2>2, <2>3, SoundThen
  <2> QED
    BY <1>1, <1>3, <2>4, CoreStays, PointersAre DEF pointer
<1>6. CASE w # None
  <2>1. PICK u, i, t : /\ u = UserFrame("focus") /\ i = Frame("in", None)
                       /\ t = Frame("taken", None)
    OBVIOUS
  <2>2. /\ IsFrame(u) /\ u.op = "user" /\ u.w = "focus" /\ u.prev = None
        /\ IsFrame(i) /\ i.op = "in" /\ i.w = None /\ i.prev = None
        /\ IsFrame(t) /\ t.op = "taken" /\ t.w = None /\ t.prev = None
    BY <2>1, FrameFields
  <2>3. focused' # None
    BY <1>3, <1>6
  <2>4. Owed(i)' /\ Owed(t)'
    BY <2>2, <2>3 DEF Owed
  <2>5. Precedes(u, i) /\ Precedes(u, t) /\ Precedes(i, t) /\ TypedFrame(i) /\ TypedFrame(t)
    BY <2>2 DEF Precedes, IsEvent, TypedFrame, FrameOps, FocusOps, Pointers
  <2>6. Sound(u, {})' /\ Sound(i, {u})' /\ Sound(t, {u, i})'
    <3>1. Sound(u, {})'
      BY <2>2, UserIsSound
    <3>2. Sound(i, {u})' /\ Sound(t, {u, i})'
      BY <2>2, <2>4, <2>5 DEF Sound, TypedFrame, Precedes
    <3> QED
      BY <3>1, <3>2
  <2>7. PICK frames : frames = <<u, i, t>>
    OBVIOUS
  <2>8. AllSound(frames)' /\ Framed(frames) /\ Elements(frames) = {u, i, t}
    BY <2>2, <2>6, <2>7, AllSoundThree
  <2>9. Then(frames) /\ \A k \in 1..Len(frames) : Sound(frames[k], Over(frames, k))'
    BY <1>2, <1>6, <2>1, <2>7, <2>8 DEF Take, AllSound
  <2>10. ASSUME NEW g, NEW B, Sound(g, {h} \cup B) PROVE Sound(g, Elements(frames) \cup B)'
    <3>1. Precedes(h, g)
      BY <2>10 DEF Sound
    <3>2. Precedes(u, g) /\ Precedes(i, g) /\ Precedes(t, g)
      BY <1>3, <1>6, <2>2, <3>1 DEF Precedes, FocusOps, Clears, IsEvent
    <3> QED
      BY <1>4, <2>8, <2>10, <3>2
  <2>11. AllSound(stack)'
    BY <1>1, <1>2, <2>8, <2>9, <2>10, SoundThen
  <2> QED
    BY <1>1, <1>3, <2>11, CoreStays, PointersAre DEF pointer
<1> QED
  BY <1>5, <1>6

LEMMA TakenKeepsCore ==
  ASSUME Core, Taken
  PROVE  Core'
<1>1. /\ stack # <<>> /\ Head(stack).op = "taken" /\ AllSound(stack) /\ Sound(Head(stack), {})
  BY AtHead DEF Taken
<1>2. focused # None
  BY <1>1 DEF Sound, Owed
<1>3. /\ Then(<<>>) /\ pending' = focused
      /\ UNCHANGED <<trees, shown, pointer, focused, crashed, last>>
  BY <1>2 DEF Taken
<1>4. AllSound(stack)'
  <2>1. Elements(<<>>) = {}
    BY FramedEmpty
  <2>2. Head(stack).op # "detached" /\ Head(stack).op \notin {"focus", "take"}
    BY <1>1
  <2> QED
    BY <1>1, <1>3, <2>1, <2>2, AllSoundEmpty, QuietThen
<1> QED
  BY <1>3, <1>4, CoreStays, PointersAre DEF pointer

LEMMA RestoreKeepsCore ==
  ASSUME Core, Restore \/ RestoreFirst
  PROVE  Core'
<1>1. /\ stack # <<>> /\ Head(stack).op \in Ends /\ AllSound(stack)
      /\ UNCHANGED <<trees, shown, pointer, focus, crashed, last>>
  BY AtHead DEF Restore, RestoreFirst, Ends
<1>2. PICK w : \/ Then(<<Frame("focus", w), Frame("first", None)>>)
               \/ Then(<<Frame("first", None)>>)
               \/ Then(<<Frame("focus", w)>>)
               \/ Then(<<>>)
  BY DEF Restore, RestoreFirst
<1>3. PICK f, g : f = Frame("focus", w) /\ g = Frame("first", None)
  OBVIOUS
<1>4. /\ IsFrame(f) /\ f.op = "focus" /\ f.prev = None
      /\ IsFrame(g) /\ g.op = "first" /\ g.w = None /\ g.prev = None
  BY <1>3, FrameFields
<1>5. None \in Pointers /\ Precedes(f, g)
  BY <1>4 DEF Pointers, Precedes, FocusOps, IsEvent
<1>6. Sound(f, {})' /\ Sound(g, {})' /\ Sound(g, {f})'
  BY <1>4, <1>5, PlainIsSound
<1>7. AllSound(<<f, g>>)' /\ AllSound(<<g>>)' /\ AllSound(<<f>>)' /\ AllSound(<<>>)'
  BY <1>4, <1>6, AllSoundTwo, AllSoundOne, AllSoundEmpty
<1>8. Then(<<f, g>>) \/ Then(<<g>>) \/ Then(<<f>>) \/ Then(<<>>)
  BY <1>2, <1>3
<1>9. AllSound(stack)'
  BY <1>1, <1>7, <1>8, EndsThen
<1> QED
  BY <1>1, <1>9, CoreStays, PointersAre DEF pointer, focus

LEMMA SetHoveredKeepsCore ==
  ASSUME Core, SetHovered
  PROVE  Core'
<1>1. /\ stack # <<>> /\ Head(stack).op = "hover" /\ AllSound(stack) /\ Sound(Head(stack), {})
      /\ Arg = Head(stack).w
  BY AtHead DEF SetHovered
<1>2. PICK h, w : h = Head(stack) /\ w = Arg
  OBVIOUS
<1>3. w \in Pointers /\ Good(w)
  BY <1>1, <1>2 DEF Sound, TypedFrame, Owed
<1>4. /\ Then(<<>>) /\ hovered' = w
      /\ UNCHANGED <<trees, shown, pressed, focus, crashed, last>>
  BY <1>2, <1>3 DEF SetHovered, Good
<1>5. ASSUME NEW g, NEW B, Sound(g, {h} \cup B) PROVE Sound(g, {} \cup B)'
  <2>1. Precedes(h, g) /\ h.op = "hover"
    BY <1>1, <1>2, <1>5 DEF Sound
  <2>2. ~(g.op \in {"out", "in", "taken"}) /\ ~(g.op \in {"erase", "unlink"})
    BY <2>1 DEF Precedes, Free, Clears
  <2>3. \A f \in {} : Precedes(f, g)
    OBVIOUS
  <2> QED
    BY <1>4, <1>5, <2>2, <2>3, SoundBelow
<1>6. AllSound(stack)'
  <2>1. Framed(<<>>) /\ Elements(<<>>) = {}
    BY FramedEmpty
  <2>2. \A i \in 1..Len(<<>>) : Sound(<<>>[i], Over(<<>>, i))'
    BY AllSoundEmpty DEF AllSound
  <2> QED
    BY <1>1, <1>2, <1>4, <1>5, <2>1, <2>2, SoundThen
<1> QED
  BY <1>3, <1>4, <1>6, CoreStays, PointersAre DEF focus

\* Frames that hold a widget the handler goes on with.
LEMMA GoodIsSound ==
  ASSUME NEW f, NEW A, f.op \in {"hover", "bubble", "move", "press", "release", "released"},
         f.w \in Pointers, Good(f.w)', f.prev \in Pointers, \A g \in A : Precedes(g, f)
  PROVE  Sound(f, A)'
  BY DEF Sound, TypedFrame, FrameOps, Owed

LEMMA DeliverKeepsCore ==
  ASSUME Core, Bubble \/ MoveDeliver \/ PressDeliver \/ ReleaseDeliver \/ Released
  PROVE  Core'
<1>1. /\ stack # <<>> /\ AllSound(stack) /\ Arg = Head(stack).w /\ Sound(Head(stack), {})
      /\ Head(stack).op \in {"bubble", "move", "press", "release", "released"}
  BY AtHead DEF Bubble, MoveDeliver, PressDeliver, ReleaseDeliver, Released
<1>2. /\ Arg \in Pointers /\ (Head(stack).op # "released" => Good(Arg))
      /\ Head(stack).op \in Ends
  BY <1>1 DEF Sound, TypedFrame, Owed, Ends
<1>3. /\ UNCHANGED <<trees, shown, hovered, focus, crashed, last>>
      /\ pressed' \in {pressed, None} \/ (PressDeliver /\ pressed' = Arg)
  BY <1>1, <1>2 DEF Bubble, MoveDeliver, PressDeliver, ReleaseDeliver, Released, Good, At,
                    pointer
<1>4. PICK w, u, f, b, r :
        /\ w \in Pointers /\ Good(w)
        /\ u = UserFrame("event") /\ f = Frame("focus", w)
        /\ b = Frame("bubble", w) /\ r = Frame("released", w)
        /\ Then(<<>>) \/ Then(<<u>>) \/ Then(<<b>>) \/ Then(<<f, b>>) \/ Then(<<b, r>>)
  <2>1. \E w \in {Arg, pressed} : Good(w) /\ w \in Pointers /\
           \/ Then(<<>>) \/ Then(<<UserFrame("event")>>) \/ Then(<<Frame("bubble", w)>>)
           \/ Then(<<Frame("focus", w), Frame("bubble", w)>>)
           \/ Then(<<Frame("bubble", w), Frame("released", w)>>)
    <3>1. CASE Bubble
      BY <1>1, <1>2, <3>1, PointersAre DEF Bubble, At, Good
    <3>2. CASE MoveDeliver
      BY <1>1, <1>2, <3>2, PointersAre DEF MoveDeliver, At
    <3>3. CASE PressDeliver
      BY <1>1, <1>2, <3>3 DEF PressDeliver, At, Good
    <3>4. CASE ReleaseDeliver
      BY <1>1, <1>2, <3>4, PointersAre DEF ReleaseDeliver, At
    <3>5. CASE Released
      BY <1>1, <1>2, <3>5, PointersAre DEF Released, At
    <3> QED
      BY <3>1, <3>2, <3>3, <3>4, <3>5
  <2> QED
    BY <2>1
<1>5. /\ IsFrame(u) /\ u.op = "user" /\ u.w = "event" /\ u.prev = None
      /\ IsFrame(f) /\ f.op = "focus" /\ f.w = w /\ f.prev = None
      /\ IsFrame(b) /\ b.op = "bubble" /\ b.w = w /\ b.prev = None
      /\ IsFrame(r) /\ r.op = "released" /\ r.w = w /\ r.prev = None
  BY <1>4, FrameFields
<1>6. Good(w)' /\ None \in Pointers
  BY <1>3, <1>4, TreesStay DEF Pointers
<1>7. Precedes(f, b) /\ Precedes(b, r)
  BY <1>5 DEF Precedes, Free, FocusOps, IsEvent
<1>8. Sound(u, {})' /\ Sound(f, {})' /\ Sound(b, {})' /\ Sound(b, {f})' /\ Sound(r, {b})'
  BY <1>4, <1>5, <1>6, <1>7, UserIsSound, PlainIsSound, GoodIsSound
<1>9. /\ AllSound(<<>>)' /\ AllSound(<<u>>)' /\ AllSound(<<b>>)' /\ AllSound(<<f, b>>)'
      /\ AllSound(<<b, r>>)'
  BY <1>5, <1>8, AllSoundEmpty, AllSoundOne, AllSoundTwo
<1>10. AllSound(stack)'
  BY <1>1, <1>2, <1>4, <1>9, EndsThen
<1>11. pressed' \in Pointers /\ Good(pressed')
  <2>1. PressDeliver => Head(stack).op = "press"
    BY DEF PressDeliver, At
  <2> QED
    BY <1>2, <1>3, <2>1, PointersAre DEF Good, Pointers
<1> QED
  BY <1>3, <1>10, <1>11, CoreStays, PointersAre DEF focus

\* Nothing is left to point into a subtree that was cleared.
LEMMA ClearedIsOutside ==
  ASSUME NEW p, NEW root
  PROVE  /\ ~Inside(Cleared(p, root), root)
         /\ \A a : Inside(Cleared(p, root), a) => Inside(p, a)
         /\ Cleared(p, root) \in {p, None}
  BY DEF Cleared, Inside

LEMMA TwoTuples ==
  ASSUME NEW f, NEW g
  PROVE  <<f>> \o <<g>> = <<f, g>>
<1>1. PICK a, b, c, S : a = <<f>> /\ b = <<g>> /\ c = <<f, g>> /\ S = {f, g}
  OBVIOUS
<1>2. a \in Seq(S) /\ b \in Seq(S) /\ c \in Seq(S)
  BY <1>1
<1>3. Len(a) = 1 /\ Len(b) = 1 /\ Len(c) = 2 /\ a[1] = f /\ b[1] = g /\ c[1] = f /\ c[2] = g
  BY <1>1
<1>4. PICK d : d = a \o b
  OBVIOUS
<1>5. d \in Seq(S) /\ Len(d) = 2 /\ d[1] = f /\ d[2] = g
  <2>1. d \in Seq(S) /\ Len(d) = Len(a) + Len(b)
    BY <1>2, <1>4
  <2>2. \A i \in 1..Len(a) : d[i] = a[i]
    BY <1>2, <1>4
  <2>3. \A i \in 1..Len(b) : d[Len(a) + i] = b[i]
    BY <1>2, <1>4
  <2>4. 1 \in 1..Len(a) /\ 1 \in 1..Len(b) /\ Len(a) + 1 = 2 /\ Len(a) + Len(b) = 2
    BY <1>3
  <2> QED
    BY <1>3, <2>1, <2>2, <2>3, <2>4
<1>6. d \in [1..2 -> S] /\ c \in [1..2 -> S]
  <2>1. \A s \in Seq(S) : s \in [1..Len(s) -> S]
    OBVIOUS
  <2> QED
    BY <1>2, <1>3, <1>5, <2>1
<1>7. \A i \in 1..2 : d[i] = c[i]
  BY <1>3, <1>5, OverStart
<1>8. d = c
  BY <1>6, <1>7
<1> QED
  BY <1>1, <1>4, <1>8

LEMMA StateChangedKeepsCore ==
  ASSUME Core, StateChanged
  PROVE  Core'
<1>1. /\ stack # <<>> /\ Head(stack).op = "changed" /\ Head(stack).op \in Ends /\ AllSound(stack)
      /\ Sound(Head(stack), {}) /\ Arg = Head(stack).w
      /\ UNCHANGED <<trees, shown, focus, crashed>>
      /\ last' = [op |-> "release", w |-> Arg]
  BY AtHead DEF StateChanged, Ends
<1>2. Arg \in Pointers
  BY <1>1 DEF Sound, TypedFrame
<1>3. /\ hovered' \in {hovered, None} /\ pressed' \in {pressed, None}
      /\ Then(<<>>) \/ Then(<<Frame("focus", None)>>)
  BY ClearedIsOutside DEF StateChanged, Unfocused, pointer
<1>4. PICK f : f = Frame("focus", None)
  OBVIOUS
<1>5. IsFrame(f) /\ f.op = "focus" /\ f.w = None /\ f.prev = None /\ None \in Pointers
  BY <1>4, FrameFields DEF Pointers
<1>6. AllSound(<<f>>)' /\ AllSound(<<>>)'
  BY <1>5, PlainIsSound, AllSoundOne, AllSoundEmpty
<1>7. AllSound(stack)'
  BY <1>1, <1>3, <1>4, <1>6, EndsThen
<1>8. last' \in [op : {"other", "return", "release"}, w : Pointers]
  BY <1>1, <1>2
<1> QED
  BY <1>1, <1>3, <1>5, <1>7, <1>8, CoreStays, PointersAre DEF focus, Good

LEMMA DetachedKeepsCore ==
  ASSUME Core, Detached
  PROVE  Core'
<1>1. /\ stack # <<>> /\ Head(stack).op = "detached" /\ AllSound(stack)
      /\ Sound(Head(stack), {}) /\ Arg = Head(stack).w
      /\ UNCHANGED <<trees, shown, focus, crashed>> /\ last' = Other
  BY AtHead DEF Detached
<1>2. PICK h, w : h = Head(stack) /\ w = Arg
  OBVIOUS
<1>3. h.op = "detached" /\ h.w = w /\ w \in Pointers /\ None \in Pointers
  BY <1>1, <1>2 DEF Sound, TypedFrame, Pointers
<1>4. /\ hovered' \in {hovered, None} /\ pressed' \in {pressed, None}
      /\ \A a : Inside(hovered', a) => Inside(hovered, a)
      /\ \A a : Inside(pressed', a) => Inside(pressed, a)
      /\ ~Inside(hovered', w) /\ ~Inside(pressed', w)
  <2>1. CASE InWindow(w)
    BY <1>2, <2>1, ClearedIsOutside DEF Detached
  <2>2. CASE ~InWindow(w)
    <3>1. UNCHANGED pointer
      BY <1>2, <2>2 DEF Detached
    <3>2. ~Inside(hovered, w) /\ ~Inside(pressed, w)
      BY <2>2, WindowIsClosed, PointersAre DEF Core, Good, Inside
    <3> QED
      BY <3>1, <3>2 DEF pointer
  <2> QED
    BY <2>1, <2>2
<1>5. ASSUME NEW F, NEW g, NEW B, Sound(g, {h} \cup B), \A f \in F : Precedes(f, g),
             Inside(focused, w) => \E f \in F : f.op = "focus"
      PROVE  Sound(g, F \cup B)'
  <2>1. Precedes(h, g)
    BY <1>5 DEF Sound
  <2>2. ~(g.op \in {"out", "in", "taken"})
    BY <1>3, <2>1 DEF Precedes, Free
  <2>3. ASSUME g.op \in {"erase", "unlink"} PROVE Gone(g.w, F \cup B)'
    <3>1. Gone(g.w, {h} \cup B)
      BY <1>5, <2>3 DEF Sound
    <3>2. \A p, a : Inside(p, a)' <=> Inside(p, a)
      BY <1>1, TreesStay
    <3>3. PICK x, y, z : x = hovered' /\ y = pressed' /\ z = focused'
      OBVIOUS
    <3>4. \A a : /\ Inside(hovered, a)' => Inside(hovered, a)
                 /\ Inside(pressed, a)' => Inside(pressed, a)
                 /\ Inside(focused, a)' <=> Inside(focused, a)
      <4>1. \A a : Inside(x, a)' <=> Inside(x, a)
        BY <3>2
      <4>2. \A a : Inside(y, a)' <=> Inside(y, a)
        BY <3>2
      <4>3. \A a : Inside(z, a)' <=> Inside(z, a)
        BY <3>2
      <4>4. z = focused
        BY <1>1, <3>3 DEF focus
      <4> QED
        BY <1>4, <3>3, <4>1, <4>2, <4>3, <4>4
    <3>5. ~Inside(hovered, w)' /\ ~Inside(pressed, w)'
      <4>1. (Inside(x, w)' <=> Inside(x, w)) /\ (Inside(y, w)' <=> Inside(y, w))
        BY <3>2
      <4> QED
        BY <1>4, <3>3, <4>1
    <3>6. CASE g.w = w
      BY <1>5, <3>4, <3>5, <3>6 DEF Gone
    <3>7. CASE g.w # w
      <4>1. \/ \E f \in B : f.op = "detached" /\ f.w = g.w
            \/ /\ ~Inside(hovered, g.w) /\ ~Inside(pressed, g.w)
               /\ Inside(focused, g.w) => \E f \in B : f.op \in {"focus", "take"}
        BY <1>3, <3>1, <3>7 DEF Gone
      <4> QED
        BY <3>4, <4>1 DEF Gone
    <3> QED
      BY <3>6, <3>7
  <2> QED
    BY <1>1, <1>5, <2>2, <2>3, SoundBelow
<1>6. PICK f, g : f = Frame("focus", None) /\ g = Frame("forget", w)
  OBVIOUS
<1>7. /\ IsFrame(f) /\ f.op = "focus" /\ f.w = None /\ f.prev = None
      /\ IsFrame(g) /\ g.op = "forget" /\ g.w = w /\ g.prev = None
  BY <1>6, FrameFields
<1>8. Precedes(f, g)
  BY <1>7 DEF Precedes, Clears, IsEvent
<1>9. Sound(f, {})' /\ Sound(g, {f})' /\ Sound(g, {})'
  BY <1>3, <1>7, <1>8, PlainIsSound
<1>10. ASSUME NEW e, Precedes(h, e) PROVE Precedes(f, e) /\ Precedes(g, e)
  BY <1>3, <1>7, <1>10 DEF Precedes, FocusOps, Clears, IsEvent
<1>11. PICK frames :
         /\ Then(frames) /\ AllSound(frames)' /\ Framed(frames)
         /\ Elements(frames) \subseteq {f, g}
         /\ Inside(focused, w) => f \in Elements(frames)
  <2>1. CASE ~InWindow(w)
    <3>1. ~Inside(focused, w)
      BY <2>1, WindowIsClosed, PointersAre DEF Core, Good, Inside
    <3>2. Then(<<>>)
      BY <1>2, <2>1 DEF Detached
    <3> QED
      BY <3>1, <3>2, AllSoundEmpty, FramedEmpty
  <2>2. CASE InWindow(w) /\ Inside(focused, w)
    <3>1. Then(<<f>> \o <<g>>)
      BY <1>2, <1>6, <2>2 DEF Detached, Unfocused
    <3>2. <<f>> \o <<g>> = <<f, g>>
      BY TwoTuples
    <3>3. AllSound(<<f, g>>)' /\ Framed(<<f, g>>) /\ Elements(<<f, g>>) = {f, g}
      BY <1>7, <1>9, AllSoundTwo
    <3>4. PICK s : s = <<f, g>>
      OBVIOUS
    <3>5. Then(s) /\ AllSound(s)' /\ Framed(s) /\ Elements(s) = {f, g}
      BY <3>1, <3>2, <3>3, <3>4
    <3> QED
      BY <3>5
  <2>3. CASE InWindow(w) /\ ~Inside(focused, w)
    <3>1. Then(<<>> \o <<g>>)
      BY <1>2, <1>6, <2>3 DEF Detached, Unfocused
    <3>2. <<>> \o <<g>> = <<g>>
      OBVIOUS
    <3>3. AllSound(<<g>>)' /\ Framed(<<g>>) /\ Elements(<<g>>) = {g}
      BY <1>7, <1>9, AllSoundOne
    <3>4. PICK s : s = <<g>>
      OBVIOUS
    <3>5. Then(s) /\ AllSound(s)' /\ Framed(s) /\ Elements(s) = {g}
      BY <3>1, <3>2, <3>3, <3>4
    <3> QED
      BY <2>3, <3>5
  <2> QED
    BY <2>1, <2>2, <2>3
<1>12. ASSUME NEW e, NEW B, Sound(e, {h} \cup B) PROVE Sound(e, Elements(frames) \cup B)'
  <2>1. Precedes(h, e)
    BY <1>12 DEF Sound
  <2>2. \A x \in Elements(frames) : Precedes(x, e)
    BY <1>10, <1>11, <2>1
  <2>3. Inside(focused, w) => \E x \in Elements(frames) : x.op = "focus"
    BY <1>7, <1>11
  <2> QED
    BY <1>5, <1>12, <2>2, <2>3
<1>13. AllSound(stack)'
  <2>1. \A i \in 1..Len(frames) : Sound(frames[i], Over(frames, i))'
    BY <1>11 DEF AllSound
  <2> QED
    BY <1>1, <1>2, <1>11, <1>12, <2>1, SoundThen
<1>14. last' \in [op : {"other", "return", "release"}, w : Pointers]
  BY <1>1, <1>3 DEF Other
<1> QED
  BY <1>1, <1>3, <1>4, <1>13, <1>14, CoreStays, PointersAre DEF focus, Good

LEMMA ForgetKeepsCore ==
  ASSUME Core, Forget
  PROVE  Core'
<1>1. /\ stack # <<>> /\ Head(stack).op = "forget" /\ AllSound(stack) /\ Then(<<>>)
      /\ UNCHANGED <<trees, shown, pointer, focused, crashed, last>>
      /\ pending' \in {pending, None}
  BY AtHead, ClearedIsOutside DEF Forget
<1>2. AllSound(stack)'
  <2>1. Elements(<<>>) = {}
    BY FramedEmpty
  <2>2. Head(stack).op # "detached" /\ Head(stack).op \notin {"focus", "take"}
    BY <1>1
  <2> QED
    BY <1>1, <2>1, <2>2, AllSoundEmpty, QuietThen
<1> QED
  BY <1>1, <1>2, CoreStays, PointersAre DEF pointer, Pointers

\* A subtree that nothing points into can leave the window.
LEMMA GoneIsOutside ==
  ASSUME NEW root, Gone(root, {})
  PROVE  \A p \in {hovered, pressed, focused} : ~Inside(p, root)
  BY DEF Gone

LEMMA UnlinkKeepsCore ==
  ASSUME Core, Unlink
  PROVE  Core'
<1>1. /\ stack # <<>> /\ Head(stack).op = "unlink" /\ Head(stack).op \in Ends
      /\ AllSound(stack) /\ Sound(Head(stack), {}) /\ Arg = Head(stack).w
  BY AtHead DEF Unlink, Ends
<1>2. PICK x : x = Arg
  OBVIOUS
<1>3. /\ parent' = [parent EXCEPT ![x] = None] /\ Then(<<>>)
      /\ UNCHANGED <<child, overlays, shown, pointer, focus, crashed, last>>
  BY <1>1, <1>2 DEF Unlink, Sound, Owed
<1>4. \A p \in {hovered, pressed, focused} : ~Inside(p, x)
  BY <1>1, <1>2, GoneIsOutside DEF Sound
<1>5. AllSound(stack)'
  BY <1>1, <1>3, AllSoundEmpty, EndsThen
<1>10. /\ Trees(parent) /\ parent' \in [Widgets -> Pointers] /\ None \notin Widgets
       /\ \A u \in Widgets : /\ u # x => parent'[u] = parent[u]
                            /\ parent'[u] \in {parent[u], None}
  BY <1>3, TreeAssumption DEF Core, TypeOK, Rooted, Trees, Pointers
<1>11. Forest(parent')
  <2> SUFFICES ASSUME NEW S \in (SUBSET Widgets) \ {{}} PROVE \E w \in S : parent'[w] \notin S
    BY DEF Forest
  <2>1. PICK w \in S : parent[w] \notin S
    BY <1>10 DEF Trees, Forest
  <2> QED
    BY <1>10, <2>1
<1>12. Rooted'
  <2>1. \A root \in Sheets \cup {Content} : root \in Widgets /\ parent[root] = None
    BY TreeAssumption DEF Core, Rooted
  <2> QED
    BY <1>10, <1>11, <2>1 DEF Rooted, Forest
<1>6. Ancestral(Path, parent) /\ Ancestral(Path', parent') /\ Trees(parent')
  BY <1>10, <1>11, PathIsAncestral, PathIsAncestralNext DEF Trees, Forest
<1>7. ASSUME NEW p \in {hovered, pressed, focused}, p # None
      PROVE  \E r \in SheetsOf(overlays) \cup ({child} \ {None}) : r \in Path'[p]
  <2>1. PICK r \in SheetsOf(overlays) \cup ({child} \ {None}) : r \in Path[p]
    BY <1>7, PointersAre DEF Good, InWindow, Inside
  <2>2. p \in Widgets /\ x \notin Path[p]
    BY <1>4, <1>7, PointersAre DEF Pointers, Inside
  <2>3. Path'[p] = Path[p]
    BY <1>6, <1>10, <2>2, PathWithoutLink
  <2> QED
    BY <2>1, <2>3
<1>8. PointersStayGood'
  <2>1. hovered' = hovered /\ pressed' = pressed /\ focused' = focused /\ crashed' = crashed
        /\ overlays' = overlays /\ child' = child
    BY <1>3 DEF pointer, focus
  <2> QED
    BY <1>7, <2>1 DEF Core, PointersStayGood, InWindow, Inside, SheetsOf
<1>9. TypeOK'
  BY <1>3, <1>10 DEF Core, TypeOK, shown, pointer, focus
<1> QED
  BY <1>5, <1>8, <1>9, <1>12 DEF Core

\* An iterator that is still good points at its entry.
LEMMA IteratorPoints ==
  ASSUME TypeOK, NEW list \in Seq(Sheets), NEW w, IteratorValid(w, list, OverlayList)
  PROVE  /\ IndexOf(w) \in DOMAIN overlays /\ overlays[IndexOf(w)].widget = w
         /\ w \in Sheets
<1>1. PICK n \in Nat : n = Len(overlays) /\ DOMAIN overlays = 1..n
  BY DEF TypeOK
<1>2. \A i \in 1..n : overlays[i] \in Entries /\ overlays[i].widget \in Sheets
  <2>1. \A i \in 1..n : overlays[i] \in Entries
    BY <1>1 DEF TypeOK
  <2> QED
    BY <2>1 DEF Entries
<1>3. /\ OverlayList \in Seq(Sheets) /\ Len(OverlayList) = n
      /\ \A i \in 1..n : OverlayList[i] = overlays[i].widget
  BY <1>1, <1>2 DEF OverlayList
<1>4. PICK i \in DOMAIN list : /\ list[i] = w /\ i <= Len(OverlayList)
                               /\ \A j \in 1..i : OverlayList[j] = list[j]
  BY DEF IteratorValid
<1>5. i \in 1..n /\ i \in 1..i
  BY <1>3, <1>4
<1>6. i \in DOMAIN overlays /\ overlays[i].widget = w
  BY <1>1, <1>3, <1>4, <1>5
<1> QED
  BY <1>1, <1>2, <1>6 DEF IndexOf

LEMMA ShownAgainKeepsCore ==
  ASSUME Core, ShownAgain
  PROVE  Core'
<1>1. /\ stack # <<>> /\ Head(stack).op = "shown" /\ Head(stack).op \in Ends
      /\ AllSound(stack) /\ Sound(Head(stack), {}) /\ Arg = Head(stack).w
  BY AtHead DEF ShownAgain, Ends
<1>2. Then(<<>>) /\ UNCHANGED <<trees, shown, pointer, focus, crashed, last>>
  BY <1>1 DEF ShownAgain, Sound, Owed
<1>3. AllSound(stack)'
  BY <1>1, <1>2, AllSoundEmpty, EndsThen
<1> QED
  BY <1>2, <1>3, CoreStays, PointersAre DEF pointer, focus

LEMMA DismissLeaveKeepsCore ==
  ASSUME Core, DismissLeave
  PROVE  Core'
<1>1. /\ stack # <<>> /\ Head(stack).op = "leave" /\ Head(stack).op \in Ends
      /\ AllSound(stack) /\ Sound(Head(stack), {}) /\ Arg = Head(stack).w
      /\ IsFrame(Head(stack))
  BY AtHead DEF DismissLeave, Ends
<1>2. PICK h, w : h = Head(stack) /\ w = Arg
  OBVIOUS
<1>3. /\ h.op = "leave" /\ h.w = w /\ w \in Pointers /\ h.list \in Seq(Sheets) /\ IsFrame(h)
      /\ IteratorValid(w, h.list, OverlayList)
  BY <1>1, <1>2 DEF Sound, TypedFrame, Owed
<1>4. PICK v : v = overlays[IndexOf(w)].previous
  OBVIOUS
<1>5. v \in Pointers
  <2>1. overlays[IndexOf(w)] \in Entries
    BY <1>3, IteratorPoints DEF Core, TypeOK
  <2> QED
    BY <1>4, <2>1 DEF Entries
<1>6. PICK f, g : f = Frame("detached", w) /\ g = [h EXCEPT !.op = "erase", !.prev = v]
  OBVIOUS
<1>7. /\ Then(<<f, g>>) /\ UNCHANGED <<trees, shown, pointer, focus, crashed, last>>
  BY <1>2, <1>3, <1>4, <1>6 DEF DismissLeave
<1>8. /\ IsFrame(f) /\ f.op = "detached" /\ f.w = w /\ f.prev = None
      /\ IsFrame(g) /\ g.op = "erase" /\ g.w = w /\ g.prev = v /\ g.list = h.list
  <2>1. IsFrame(g) /\ g.op = "erase" /\ g.w = w /\ g.prev = v /\ g.list = h.list
    BY <1>3, <1>6 DEF IsFrame
  <2> QED
    BY <1>6, <2>1, FrameFields
<1>9. Sound(f, {})'
  BY <1>3, <1>8, PlainIsSound DEF Pointers
<1>10. Sound(g, {f})'
  <2>1. Owed(g)'
    <3>1. IteratorValid(w, h.list, OverlayList)'
      <4>1. OverlayList' = OverlayList
        BY <1>7, TreesStay
      <4> QED
        BY <1>3, <4>1
    <3> QED
      BY <1>3, <1>8, <3>1 DEF Owed
  <2>2. Gone(w, {f})'
    BY <1>8 DEF Gone
  <2>3. TypedFrame(g) /\ Precedes(f, g)
    BY <1>3, <1>5, <1>8 DEF TypedFrame, FrameOps, Precedes, IsEvent
  <2> QED
    BY <1>8, <2>1, <2>2, <2>3 DEF Sound, TypedFrame, Precedes
<1>11. AllSound(<<f, g>>)'
  BY <1>8, <1>9, <1>10, AllSoundTwo
<1>12. AllSound(stack)'
  BY <1>1, <1>7, <1>11, EndsThen
<1> QED
  BY <1>7, <1>12, CoreStays, PointersAre DEF pointer, focus

\* The vector without the entry at an index.
LEMMA WithoutEntry ==
  ASSUME TypeOK, NEW i \in DOMAIN overlays, NEW s, s = Without(i)
  PROVE  /\ s \in Seq(Entries)
         /\ \A j \in DOMAIN s : \E k \in DOMAIN overlays : k # i /\ s[j] = overlays[k]
         /\ \A k \in DOMAIN overlays : k # i => \E j \in DOMAIN s : s[j] = overlays[k]
         /\ \A j, k \in DOMAIN s : s[j].widget = s[k].widget => j = k
<1>1. PICK n \in Nat : n = Len(overlays) /\ DOMAIN overlays = 1..n
  BY DEF TypeOK
<1>2. \A k \in 1..n : overlays[k] \in Entries
  BY <1>1 DEF TypeOK
<1>3. PICK m \in Nat : m + 1 = n
  <2>1. n > 0 /\ n - 1 \in Nat /\ (n - 1) + 1 = n
    BY <1>1
  <2> QED
    BY <2>1
<1>5. s = [k \in 1..m |-> overlays[IF k < i THEN k ELSE k + 1]]
  <2>1. Len(overlays) - 1 = m
    BY <1>1, <1>3
  <2> QED
    BY <2>1 DEF Without
<1>6. DOMAIN s = 1..m /\ i \in 1..n
  BY <1>1, <1>5
<1>7. ASSUME NEW j \in 1..m
      PROVE  /\ j < i => j \in 1..n /\ j # i /\ s[j] = overlays[j]
             /\ ~(j < i) => j + 1 \in 1..n /\ j + 1 # i /\ s[j] = overlays[j + 1]
  BY <1>3, <1>5, <1>6
<1>8. s \in Seq(Entries)
  <2>1. \A j \in 1..m : s[j] \in Entries
    BY <1>2, <1>7
  <2>2. s \in [1..m -> Entries]
    BY <1>5, <2>1
  <2> QED
    BY <2>2
<1>9. \A j \in 1..m : \E k \in 1..n : k # i /\ s[j] = overlays[k]
  BY <1>7
<1>10. ASSUME NEW k \in 1..n, k # i PROVE \E j \in 1..m : s[j] = overlays[k]
  <2>1. CASE k < i
    <3>1. k \in 1..m
      BY <1>3, <1>6, <2>1
    <3> QED
      BY <1>7, <2>1, <3>1
  <2>2. CASE k > i
    <3>1. k - 1 \in 1..m /\ ~(k - 1 < i) /\ (k - 1) + 1 = k
      BY <1>3, <1>6, <2>2
    <3> QED
      BY <1>7, <3>1
  <2> QED
    BY <1>6, <1>10, <2>1, <2>2
<1>11. ASSUME NEW j \in 1..m, NEW k \in 1..m, s[j].widget = s[k].widget PROVE j = k
  <2>1. PICK p \in 1..n, q \in 1..n :
          /\ s[j] = overlays[p] /\ (p = IF j < i THEN j ELSE j + 1)
          /\ s[k] = overlays[q] /\ (q = IF k < i THEN k ELSE k + 1)
    BY <1>7
  <2>2. p = q
    BY <1>1, <1>11, <2>1 DEF TypeOK
  <2> QED
    BY <1>6, <2>1, <2>2
<1>12. \A j \in DOMAIN s : \E k \in DOMAIN overlays : k # i /\ s[j] = overlays[k]
  BY <1>1, <1>6, <1>9
<1>13. \A k \in DOMAIN overlays : k # i => \E j \in DOMAIN s : s[j] = overlays[k]
  BY <1>1, <1>6, <1>10
<1>14. \A j, k \in DOMAIN s : s[j].widget = s[k].widget => j = k
  BY <1>6, <1>11
<1> QED
  BY <1>8, <1>12, <1>13, <1>14

LEMMA DismissEraseKeepsCore ==
  ASSUME Core, DismissErase
  PROVE  Core'
<1>1. /\ stack # <<>> /\ Head(stack).op = "erase" /\ Head(stack).op \in Ends
      /\ AllSound(stack) /\ Sound(Head(stack), {}) /\ Arg = Head(stack).w
  BY AtHead DEF DismissErase, Ends
<1>2. PICK w, i, v : w = Arg /\ i = IndexOf(w) /\ v = Head(stack).prev
  OBVIOUS
<1>3. /\ i \in DOMAIN overlays /\ overlays[i].widget = w /\ v \in Pointers
      /\ IteratorValid(w, Head(stack).list, OverlayList) /\ w \in Sheets
  <2>1. Head(stack).list \in Seq(Sheets) /\ IteratorValid(w, Head(stack).list, OverlayList)
    BY <1>1, <1>2 DEF Sound, Owed
  <2>2. v \in Pointers
    BY <1>1, <1>2 DEF Sound, TypedFrame
  <2> QED
    BY <1>2, <2>1, <2>2, IteratorPoints DEF Core
<1>4. /\ Then(<<Frame("restore", v)>>) /\ overlays' = Without(i)
      /\ last' = [op |-> "return", w |-> v]
      /\ UNCHANGED <<child, parent, shown, pointer, focus, crashed>>
  BY <1>2, <1>3 DEF DismissErase
<1>5. PICK f : f = Frame("restore", v)
  OBVIOUS
<1>6. IsFrame(f) /\ f.op = "restore" /\ f.w = v /\ f.prev = None /\ None \in Pointers
  BY <1>5, FrameFields DEF Pointers
<1>7. AllSound(<<f>>)'
  BY <1>3, <1>6, PlainIsSound, AllSoundOne
<1>8. AllSound(stack)'
  BY <1>1, <1>4, <1>5, <1>7, EndsThen
<1>9. \A p \in {hovered, pressed, focused} : ~Inside(p, w)
  BY <1>1, <1>2, GoneIsOutside DEF Sound
<1>10. Path' = Path
  BY <1>4 DEF Path
<1>11. /\ overlays' \in Seq(Entries)
       /\ \A j, k \in DOMAIN overlays' : overlays'[j].widget = overlays'[k].widget => j = k
       /\ \A k \in DOMAIN overlays : k # i =>
            \E j \in DOMAIN overlays' : overlays'[j] = overlays[k]
  <2>1. PICK s : s = Without(i)
    OBVIOUS
  <2>2. /\ s \in Seq(Entries)
        /\ \A j, k \in DOMAIN s : s[j].widget = s[k].widget => j = k
        /\ \A k \in DOMAIN overlays : k # i => \E j \in DOMAIN s : s[j] = overlays[k]
    <3>1. TypeOK
      BY DEF Core
    <3>2. s \in Seq(Entries)
      BY <1>3, <2>1, <3>1, WithoutEntry
    <3>3. \A j, k \in DOMAIN s : s[j].widget = s[k].widget => j = k
      BY <1>3, <2>1, <3>1, WithoutEntry
    <3>4. \A k \in DOMAIN overlays : k # i => \E j \in DOMAIN s : s[j] = overlays[k]
      BY <1>3, <2>1, <3>1, WithoutEntry
    <3> QED
      BY <3>2, <3>3, <3>4
  <2>3. overlays' = s
    BY <1>4, <2>1
  <2> QED
    BY <2>2, <2>3
<1>12. ASSUME NEW p \in {hovered, pressed, focused}, p # None
       PROVE  \E r \in SheetsOf(overlays') \cup ({child} \ {None}) : r \in Path[p]
  <2>1. PICK r \in SheetsOf(overlays) \cup ({child} \ {None}) : Inside(p, r)
    BY <1>12, PointersAre DEF Good, InWindow
  <2>2. r # w
    BY <1>9, <2>1
  <2>3. ASSUME r \in SheetsOf(overlays) PROVE r \in SheetsOf(overlays')
    <3>1. PICK k \in DOMAIN overlays : r = overlays[k].widget
      BY <2>3 DEF SheetsOf
    <3>2. k # i
      BY <1>3, <2>2, <3>1
    <3>3. PICK j \in DOMAIN overlays' : overlays'[j] = overlays[k]
      BY <1>11, <3>2
    <3> QED
      BY <3>1, <3>3 DEF SheetsOf
  <2> QED
    BY <2>1, <2>3 DEF Inside
<1>13. /\ hovered' = hovered /\ pressed' = pressed /\ focused' = focused /\ crashed' = crashed
       /\ pending' = pending /\ child' = child /\ visible' = visible /\ sensitive' = sensitive
       /\ parent' = parent /\ focusable' = focusable
  BY <1>4 DEF pointer, focus, shown
<1>14. PointersStayGood'
  BY <1>10, <1>12, <1>13 DEF Core, PointersStayGood, InWindow, Inside, SheetsOf
<1>15. TypeOK'
  <2>1. last' \in [op : {"other", "return", "release"}, w : Pointers]
    BY <1>3, <1>4
  <2> QED
    BY <1>11, <1>13, <2>1 DEF Core, TypeOK
<1>16. Rooted'
  BY <1>13 DEF Core, Rooted
<1> QED
  BY <1>8, <1>14, <1>15, <1>16 DEF Core

LessThan == OpToRel(<, Nat)

\* A nonempty set of indices has a last one.
LEMMA LastOfIndices ==
  ASSUME NEW n \in Nat, NEW S, S \subseteq 1..n, S # {}
  PROVE  \E i \in S : \A j \in S : j <= i
<1>1. PICK T : T = {n - i : i \in S}
  OBVIOUS
<1>2. T \subseteq Nat /\ T # {}
  <2>1. \A i \in S : n - i \in Nat
    OBVIOUS
  <2> QED
    BY <1>1, <2>1
<1>3. IsWellFoundedOn(LessThan, Nat)
  BY NatLessThanWellFounded, Zenon DEF LessThan
<1>4. \E s \in T : \A t \in T : <<t, s>> \notin LessThan
  BY <1>2, <1>3, WFMin, Zenon
<1>5. PICK s \in T : \A t \in T : <<t, s>> \notin LessThan
  BY <1>4
<1>6. \A t \in T : s <= t
  <2> TAKE t \in T
  <2>1. <<t, s>> \notin LessThan /\ s \in Nat /\ t \in Nat
    BY <1>2, <1>5
  <2> QED
    BY <2>1 DEF LessThan, OpToRel
<1>7. PICK i \in S : s = n - i
  BY <1>1, <1>5
<1>8. \A j \in S : n - j \in T
  BY <1>1
<1>9. \A j \in S : n - i <= n - j
  BY <1>6, <1>7, <1>8
<1> QED
  BY <1>9

\* The modal sheet that owns the input is a sheet of the window.
LEMMA TopModalIsUp ==
  ASSUME TypeOK, Rooted, TopModal # None
  PROVE  \E i \in DOMAIN overlays : /\ TopModal = overlays[i].widget
                                    /\ TopModal \in Sheets /\ InWindow(TopModal)
<1> DEFINE modal == {i \in DOMAIN overlays :
                       overlays[i].modal /\ overlays[i].widget \in visible}
<1>1. PICK n \in Nat : DOMAIN overlays = 1..n
  BY DEF TypeOK
<1>2. modal # {} /\ TopModal = overlays[CHOOSE i \in modal : \A j \in modal : j <= i].widget
  BY DEF TopModal
<1>3. \E i \in modal : \A j \in modal : j <= i
  BY <1>1, <1>2, LastOfIndices
<1>4. PICK i \in DOMAIN overlays : TopModal = overlays[i].widget
  <2>1. (CHOOSE i \in modal : \A j \in modal : j <= i) \in modal
    BY <1>3
  <2> QED
    BY <1>2, <2>1
<1>5. TopModal \in SheetsOf(overlays)
  BY <1>4 DEF SheetsOf
<1>6. TopModal \in Sheets /\ TopModal \in Widgets
  <2>1. overlays[i] \in Entries
    BY <1>4 DEF TypeOK
  <2> QED
    BY <1>4, <2>1, TreeAssumption DEF Entries
<1>7. InWindow(TopModal)
  <2>1. TopModal \in Path[TopModal] /\ TopModal # None
    BY <1>6, PathIsAncestral, PathOfParent, TreeAssumption DEF TypeOK, Rooted, Trees
  <2> QED
    BY <1>5, <2>1 DEF InWindow, Inside
<1> QED
  BY <1>4, <1>6, <1>7

LEMMA HitIsGood ==
  ASSUME NEW w, Hit(w)
  PROVE  Good(w)
  BY DEF Hit, Good, InWindow, SheetsOf

LEMMA FourTuples ==
  ASSUME NEW f, NEW g, NEW h, NEW e
  PROVE  <<f, g, h>> \o <<e>> = <<f, g, h, e>>
<1>1. PICK a, b, c, S : /\ a = <<f, g, h>> /\ b = <<e>> /\ c = <<f, g, h, e>>
                        /\ S = {f, g, h, e}
  OBVIOUS
<1>2. a \in Seq(S) /\ b \in Seq(S) /\ c \in Seq(S)
  BY <1>1
<1>3. /\ Len(a) = 3 /\ a[1] = f /\ a[2] = g /\ a[3] = h /\ Len(b) = 1 /\ b[1] = e
      /\ Len(c) = 4 /\ c[1] = f /\ c[2] = g /\ c[3] = h /\ c[4] = e
  BY <1>1
<1>4. PICK d : d = a \o b
  OBVIOUS
<1>5. /\ d \in Seq(S) /\ Len(d) = 4 /\ d[1] = f /\ d[2] = g /\ d[3] = h /\ d[4] = e
  <2>1. d \in Seq(S) /\ Len(d) = Len(a) + Len(b)
    BY <1>2, <1>4
  <2>2. \A i \in 1..Len(a) : d[i] = a[i]
    BY <1>2, <1>4
  <2>3. \A i \in 1..Len(b) : d[Len(a) + i] = b[i]
    BY <1>2, <1>4
  <2>4. /\ 1 \in 1..Len(a) /\ 2 \in 1..Len(a) /\ 3 \in 1..Len(a) /\ 1 \in 1..Len(b)
        /\ Len(a) + 1 = 4 /\ Len(a) + Len(b) = 4
    BY <1>3
  <2> QED
    BY <1>3, <2>1, <2>2, <2>3, <2>4
<1>6. d \in [1..4 -> S] /\ c \in [1..4 -> S]
  <2>1. \A s \in Seq(S) : s \in [1..Len(s) -> S]
    OBVIOUS
  <2> QED
    BY <1>2, <1>3, <1>5, <2>1
<1>7. \A i \in 1..4 : d[i] = c[i]
  BY <1>3, <1>5, OverStart
<1>8. d = c
  BY <1>6, <1>7
<1> QED
  BY <1>1, <1>4, <1>8

\* The frames of a pointer event: user code that leaves and enters widgets, then
\* what the event itself does.
LEMMA HoverSound ==
  ASSUME NEW w \in Pointers, Good(w)', NEW op \in {"move", "press", "release"},
         NEW frames, \/ frames = HoverFrames(w)
                     \/ frames = HoverFrames(w) \o <<Frame(op, w)>>
  PROVE  AllSound(frames)'
<1>1. PICK u, h, m : u = UserFrame("hover") /\ h = Frame("hover", w) /\ m = Frame(op, w)
  OBVIOUS
<1>2. /\ IsFrame(u) /\ u.op = "user" /\ u.w = "hover" /\ u.prev = None
      /\ IsFrame(h) /\ h.op = "hover" /\ h.w = w /\ h.prev = None
      /\ IsFrame(m) /\ m.op = op /\ m.w = w /\ m.prev = None /\ None \in Pointers
  <2>1. IsFrame(u) /\ u.op = "user" /\ u.w = "hover" /\ u.prev = None
    BY <1>1, FrameFields
  <2>2. IsFrame(h) /\ h.op = "hover" /\ h.w = w /\ h.prev = None
    BY <1>1, FrameFields
  <2>3. IsFrame(m) /\ m.op = op /\ m.w = w /\ m.prev = None
    BY <1>1, FrameFields
  <2> QED
    BY <2>1, <2>2, <2>3 DEF Pointers
<1>3. Precedes(u, h) /\ Precedes(u, m) /\ Precedes(h, m)
  BY <1>2 DEF Precedes, IsEvent
<1>4. \A A : Sound(u, A)'
  BY <1>2, UserIsSound
<1>5. Sound(h, {u})' /\ Sound(m, {})' /\ Sound(m, {u, h, u})'
  BY <1>2, <1>3, GoodIsSound
<1>6. AllSound(<<>>)' /\ AllSound(<<m>>)' /\ AllSound(<<u, h, u>>)' /\ AllSound(<<u, h, u, m>>)'
  BY <1>2, <1>4, <1>5, AllSoundEmpty, AllSoundOne, AllSoundThree, AllSoundFour
<1>7. /\ <<u, h, u>> \o <<m>> = <<u, h, u, m>> /\ <<>> \o <<m>> = <<m>>
  BY FourTuples
<1>8. \/ frames = <<>> \/ frames = <<u, h, u>> \/ frames = <<m>> \/ frames = <<u, h, u, m>>
  BY <1>1, <1>7 DEF HoverFrames
<1> QED
  BY <1>6, <1>8

\* A platform event with one frame, or none in progress.
LEMMA EventsKeepCore ==
  ASSUME Core, PlatformEvent
  PROVE  Core'
<1>1. /\ \A w \in {hovered, pressed, focused} : w \in Pointers /\ Good(w)
      /\ pending \in Pointers /\ None \in Pointers /\ Good(None)
  BY PointersAre DEF Pointers, Good
<1>2. Other \in [op : {"other", "return", "release"}, w : Pointers]
  BY <1>1 DEF Other
<1>3. ASSUME UNCHANGED <<trees, shown>>, UNCHANGED <<pointer, focus>>,
             last' = Other, NEW frames, AllSound(frames)', Event(frames)
      PROVE  Core'
  BY <1>1, <1>2, <1>3, EventSound, CoreStays DEF pointer, focus, Event
<1>4. CASE WindowFocusIn
  <2>1. PICK f : f = Frame("restore", pending)
    OBVIOUS
  <2>2. IsFrame(f) /\ f.op = "restore" /\ f.w = pending /\ f.prev = None
    BY <2>1, FrameFields
  <2>3. AllSound(<<f>>)'
    BY <1>1, <2>2, PlainIsSound, AllSoundOne
  <2>4. Event(<<f>>) /\ UNCHANGED <<trees, shown, pointer, focus, crashed>>
        /\ last' = [op |-> "return", w |-> pending]
    BY <1>4, <2>1 DEF WindowFocusIn, Event
  <2>5. AllSound(stack)'
    BY <2>3, <2>4, EventSound
  <2>6. last' \in [op : {"other", "return", "release"}, w : Pointers]
    BY <1>1, <2>4
  <2> QED
    BY <1>1, <2>4, <2>5, <2>6, CoreStays DEF pointer, focus
<1>5. CASE WindowFocusOut
  <2>1. PICK f : f = Frame("focus", None)
    OBVIOUS
  <2>2. IsFrame(f) /\ f.op = "focus" /\ f.w = None /\ f.prev = None
    BY <2>1, FrameFields
  <2>3. AllSound(<<f>>)'
    BY <1>1, <2>2, PlainIsSound, AllSoundOne
  <2>4. Event(<<f>>) /\ UNCHANGED <<trees, shown, focused, crashed>>
        /\ last' = Other /\ hovered' = None /\ pressed' = None /\ pending' \in {focused, pending}
    BY <1>5, <2>1 DEF WindowFocusOut, Event
  <2>5. AllSound(stack)'
    BY <2>3, <2>4, EventSound
  <2> QED
    BY <1>1, <1>2, <2>4, <2>5, CoreStays
<1>6. ASSUME NEW w \in Pointers, Good(w), NEW op \in {"move", "press", "release"}, NEW frames,
             \/ frames = HoverFrames(w)
             \/ frames = HoverFrames(w) \o <<Frame(op, w)>>,
             Mouse(frames)
      PROVE  Core'
  <2>1. UNCHANGED <<trees, shown>> /\ UNCHANGED <<pointer, focus>> /\ last' = Other /\ Event(frames)
    BY <1>6 DEF Mouse
  <2>2. Good(w)'
    BY <1>6, <2>1, TreesStay
  <2>3. AllSound(frames)'
    BY <1>6, <2>2, HoverSound
  <2> QED
    BY <1>3, <2>1, <2>3
<1>7. CASE MouseLeave
  <2>1. PICK frames : frames = HoverFrames(None)
    OBVIOUS
  <2>2. Mouse(frames) /\ "move" \in {"move", "press", "release"}
    BY <1>7, <2>1 DEF MouseLeave
  <2> QED
    BY <1>1, <1>6, <2>1, <2>2
<1>8. ASSUME NEW w \in Targets \cup {None}, MouseMove(w) \/ MousePress(w) \/ MouseRelease(w)
      PROVE  Core'
  <2>1. w \in Pointers
    BY TreeAssumption DEF Pointers
  <2>2. Good(w)
    BY <1>8, HitIsGood DEF MouseMove, MousePress, MouseRelease
  <2>3. PICK op \in {"move", "press", "release"} : Mouse(HoverFrames(w) \o <<Frame(op, w)>>)
    BY <1>8 DEF MouseMove, MousePress, MouseRelease
  <2>4. PICK frames : frames = HoverFrames(w) \o <<Frame(op, w)>>
    OBVIOUS
  <2>5. Mouse(frames)
    BY <2>3, <2>4
  <2> QED
    BY <1>6, <2>1, <2>2, <2>4, <2>5
<1>9. CASE Key
  <2>1. PICK w : /\ w = TopModal \/ w = focused
                 /\ w # None /\ Event(<<Frame("bubble", w)>>)
    BY <1>9 DEF Key
  <2>2. w \in Pointers /\ Good(w)
    <3>1. CASE w = TopModal
      BY <2>1, <3>1, TopModalIsUp, TreeAssumption DEF Core, Pointers, Good
    <3>2. CASE w = focused
      BY <1>1, <3>2
    <3> QED
      BY <2>1, <3>1, <3>2
  <2>3. UNCHANGED <<trees, shown>> /\ UNCHANGED <<pointer, focus>> /\ last' = Other
    BY <1>9 DEF Key
  <2>4. PICK b : b = Frame("bubble", w)
    OBVIOUS
  <2>5. IsFrame(b) /\ b.op = "bubble" /\ b.w = w /\ b.prev = None
    BY <2>4, FrameFields
  <2>6. Good(w)'
    BY <2>2, <2>3, TreesStay
  <2>7. AllSound(<<b>>)' /\ Event(<<b>>)
    BY <1>1, <2>1, <2>2, <2>4, <2>5, <2>6, GoodIsSound, AllSoundOne
  <2> QED
    BY <1>3, <2>3, <2>7
<1>10. CASE Tab
  <2>1. PICK w : Event(<<Frame("focus", w)>>)
    BY <1>10 DEF Tab
  <2>2. UNCHANGED <<trees, shown>> /\ UNCHANGED <<pointer, focus>> /\ last' = Other
    BY <1>10 DEF Tab
  <2>3. PICK f : f = Frame("focus", w)
    OBVIOUS
  <2>4. IsFrame(f) /\ f.op = "focus" /\ f.prev = None
    BY <2>3, FrameFields
  <2>5. AllSound(<<f>>)' /\ Event(<<f>>)
    BY <1>1, <2>1, <2>3, <2>4, PlainIsSound, AllSoundOne
  <2> QED
    BY <1>3, <2>2, <2>5
<1> QED
  BY <1>4, <1>5, <1>7, <1>8, <1>9, <1>10 DEF PlatformEvent

\* The types after a step that leaves the pointers and the overlays alone.
LEMMA CoreAfterCall ==
  ASSUME Core, UNCHANGED <<trees, pointer, focus, crashed>>, AllSound(stack)',
         visible' \subseteq Widgets, sensitive' \subseteq Widgets,
         focusable' \subseteq Widgets, last' = Other
  PROVE  Core'
<1>1. Other \in [op : {"other", "return", "release"}, w : Pointers]
  BY DEF Other, Pointers
<1>2. TypeOK'
  BY <1>1 DEF Core, TypeOK, trees, pointer, focus
<1>3. \A w : InWindow(w)' <=> InWindow(w)
  BY TreesStay
<1>4. hovered' = hovered /\ pressed' = pressed /\ focused' = focused /\ crashed' = crashed
  BY DEF pointer, focus
<1>5. PICK x, y, z : x = hovered /\ y = pressed /\ z = focused
  OBVIOUS
<1>6. (InWindow(x)' <=> InWindow(x)) /\ (InWindow(y)' <=> InWindow(y)) /\ (InWindow(z)' <=> InWindow(z))
  BY <1>3
<1>7. \A w \in {x, y, z} : w = None \/ InWindow(w)
  BY <1>5 DEF Core, PointersStayGood
<1>8. PointersStayGood'
  BY <1>4, <1>5, <1>6, <1>7 DEF Core, PointersStayGood
<1>9. Rooted'
  BY DEF Core, Rooted, trees
<1> QED
  BY <1>2, <1>8, <1>9 DEF Core

LEMMA WidgetCallsKeepCore ==
  ASSUME CallbackOps["focus"] = {}, CallbackOps["hover"] = {}, Core,
         NEW w, GrabFocus(w) \/ (w \in Hideable /\ (Hide(w) \/ Show(w)))
                \/ (w \in Disableable /\ SetSensitive(w))
                \/ (w \in Refocusable /\ SetFocusable(w))
  PROVE  Core'
<1>1. PICK u, c, f : u = UserFrame("event") /\ c = Frame("changed", w) /\ f = Frame("focus", w)
  OBVIOUS
<1>2. IsFrame(u) /\ u.op = "user" /\ u.w = "event" /\ u.prev = None
  BY <1>1, FrameFields
<1>3. /\ IsFrame(c) /\ c.op = "changed" /\ c.w = w /\ c.prev = None
      /\ IsFrame(f) /\ f.op = "focus" /\ f.w = w /\ f.prev = None
  BY <1>1, FrameFields
<1>4. None \in Pointers /\ \A A : Sound(u, A)'
  BY <1>2, UserIsSound DEF Pointers
<1>5. Sound(f, {})'
  BY <1>3, <1>4, PlainIsSound
<1>6. w \in Pointers => \A A : Sound(c, A)'
  <2>1. w \in Pointers => TypedFrame(c) /\ Free(c)
    BY <1>3, <1>4 DEF TypedFrame, FrameOps, Free
  <2> QED
    BY <2>1, FreeIsSound
<1>7. AllSound(<<>>)' /\ AllSound(<<u>>)' /\ AllSound(<<f>>)'
  BY <1>2, <1>3, <1>4, <1>5, AllSoundEmpty, AllSoundOne
<1>8. w \in Pointers => AllSound(<<u, c>>)' /\ AllSound(<<c>>)'
  BY <1>2, <1>3, <1>4, <1>6, AllSoundTwo, AllSoundOne
<1>9. GrabFocus(w) \/ w \in Widgets
  BY TreeAssumption
<1>10. \E op : Call(op, <<>>) \/ Call(op, <<u>>) \/ Call(op, <<f>>)
               \/ (w \in Widgets /\ (Call(op, <<u, c>>) \/ Call(op, <<c>>)))
  BY <1>1, <1>9 DEF GrabFocus, Hide, Show, SetSensitive, SetFocusable
<1>11. PICK op, frames : Call(op, frames) /\ AllSound(frames)'
  BY <1>7, <1>8, <1>10 DEF Pointers
<1>12. AllSound(stack)' /\ crashed' = crashed
  BY <1>11, CallSound DEF Core
<1>13. /\ visible' \subseteq Widgets /\ sensitive' \subseteq Widgets
       /\ focusable' \subseteq Widgets /\ last' = Other
       /\ UNCHANGED <<trees, pointer, focus>>
  BY <1>9 DEF GrabFocus, Hide, Show, SetSensitive, SetFocusable, shown, Core, TypeOK
<1> QED
  BY <1>12, <1>13, CoreAfterCall

LEMMA RemoveChildKeepsCore ==
  ASSUME CallbackOps["focus"] = {}, CallbackOps["hover"] = {}, Core,
         NEW w \in Detachable, RemoveChild(w)
  PROVE  Core'
<1>1. w \in Widgets /\ parent[w] # None /\ w \in Pointers /\ None \in Pointers
  BY TreeAssumption DEF RemoveChild, Pointers
<1>2. PICK d, g : d = Frame("detached", w) /\ g = [Frame("unlink", w) EXCEPT !.list = Siblings(w)]
  OBVIOUS
<1>3. /\ Call("detach", <<d, d, g>>) /\ UNCHANGED <<trees, shown, pointer, focus>> /\ last' = Other
  BY <1>2 DEF RemoveChild
<1>4. /\ IsFrame(d) /\ d.op = "detached" /\ d.w = w /\ d.prev = None
      /\ IsFrame(g) /\ g.op = "unlink" /\ g.w = w /\ g.prev = None /\ g.list = Siblings(w)
  <2>1. IsFrame(d) /\ d.op = "detached" /\ d.w = w /\ d.prev = None
    BY <1>2, FrameFields
  <2>2. PICK list : list = Siblings(w)
    OBVIOUS
  <2>3. g = [Frame("unlink", w) EXCEPT !.list = list]
    BY <1>2, <2>2
  <2>4. IsFrame(g) /\ g.op = "unlink" /\ g.w = w /\ g.prev = None /\ g.list = list
    BY <2>3, FrameFields
  <2> QED
    BY <2>1, <2>2, <2>4
<1>5. Precedes(d, d) /\ Precedes(d, g)
  BY <1>4 DEF Precedes, IsEvent
<1>6. Sound(d, {})' /\ Sound(d, {d})'
  BY <1>1, <1>4, <1>5, PlainIsSound
<1>7. Sound(g, {d, d})'
  <2>1. Siblings(w)' = Siblings(w)
    BY <1>3, TreesStay
  <2>2. ChildIteratorValid(w, Siblings(w), Siblings(w))
    BY <1>1 DEF ChildIteratorValid, Siblings
  <2>3. ChildIteratorValid(w, g.list, Siblings(w))'
    BY <1>4, <2>1, <2>2
  <2>4. Owed(g)'
    BY <1>4, <2>3 DEF Owed
  <2>5. Gone(w, {d, d})'
    BY <1>4 DEF Gone
  <2>6. TypedFrame(g)
    BY <1>1, <1>4 DEF TypedFrame, FrameOps
  <2> QED
    BY <1>4, <1>5, <2>4, <2>5, <2>6 DEF Sound, TypedFrame, Precedes
<1>8. AllSound(<<d, d, g>>)'
  <2>1. Sound(g, {d, d})'
    BY <1>7
  <2> QED
    BY <1>4, <1>6, <2>1, AllSoundThree
<1>9. AllSound(stack)' /\ crashed' = crashed
  BY <1>3, <1>8, CallSound DEF Core
<1> QED
  BY <1>3, <1>9, CoreAfterCall DEF Core, TypeOK, shown

\* A tree that is inserted into another does not close a cycle.
LEMMA ForestGrows ==
  ASSUME NEW F, Trees(F), NEW P, Ancestral(P, F), NEW w \in Widgets, NEW c \in Widgets,
         w \notin P[c], NEW G, G = [F EXCEPT ![w] = c]
  PROVE  Trees(G)
<1>1. /\ G \in [Widgets -> Pointers] /\ G[w] = c /\ None \notin Widgets
      /\ \A u \in Widgets : u # w => G[u] = F[u]
  BY TreeAssumption DEF Trees, Pointers
<1>2. ASSUME NEW S \in SUBSET Widgets, S # {}, \A x \in S : G[x] \in S PROVE FALSE
  <2>1. PICK x \in S : F[x] \notin S
    BY <1>2 DEF Trees, Forest
  <2>2. c \in S
    BY <1>1, <1>2, <2>1
  <2>3. PICK T : T = S \cap P[c]
    OBVIOUS
  <2>4. c \in T /\ T \subseteq Widgets
    BY <2>2, <2>3, PathOfParent
  <2>5. ASSUME NEW y \in T PROVE F[y] \in T
    <3>1. y \in Widgets /\ y # w /\ y \in P[c] /\ F[y] = G[y] /\ G[y] \in S
      BY <1>1, <1>2, <2>3, <2>4
    <3>2. F[y] \in Widgets /\ F[y] # None
      BY <1>1, <3>1
    <3>3. F[y] \in P[y]
      BY <3>1, <3>2, PathOfParent
    <3>4. P[y] \subseteq P[c]
      BY <3>1, PathIsTransitive
    <3> QED
      BY <2>3, <3>1, <3>3, <3>4
  <2> QED
    BY <2>4, <2>5 DEF Trees, Forest
<1>3. Forest(G)
  BY <1>2 DEF Forest
<1> QED
  BY <1>1, <1>3 DEF Trees

LEMMA InsertChildKeepsCore ==
  ASSUME CallbackOps["focus"] = {}, CallbackOps["hover"] = {}, Core,
         NEW w \in Detachable, NEW container \in Containers, InsertChild(w, container)
  PROVE  Core'
<1>1. /\ Call("detach", <<>>) /\ last' = Other
      /\ parent[w] = None /\ w \notin Path[container]
      /\ parent' = [parent EXCEPT ![w] = container]
      /\ UNCHANGED <<child, overlays, shown, pointer, focus>>
  BY DEF InsertChild
<1>2. AllSound(stack)' /\ crashed' = crashed
  BY <1>1, AllSoundEmpty, CallSound DEF Core
<1>3. Other \in [op : {"other", "return", "release"}, w : Pointers]
  BY DEF Other, Pointers
<1>4. /\ w \in Widgets /\ container \in Widgets /\ w \notin Sheets \cup {Content}
      /\ \A root \in Sheets \cup {Content} : root \in Widgets
  BY TreeAssumption
<1>5. Trees(parent) /\ Ancestral(Path, parent)
  BY PathIsAncestral DEF Core, TypeOK, Rooted, Trees
<1>6. PICK F, G, P : F = parent /\ G = parent' /\ P = Path
  OBVIOUS
<1>7. Trees(G) /\ \A u \in Widgets : F[u] # None => G[u] = F[u]
  <2>1. /\ Trees(F) /\ Ancestral(P, F) /\ w \notin P[container] /\ F[w] = None
        /\ G = [F EXCEPT ![w] = container]
    BY <1>1, <1>5, <1>6
  <2>2. Trees(G)
    BY <1>4, <2>1, ForestGrows
  <2>3. \A u \in Widgets : F[u] # None => G[u] = F[u]
    BY <2>1 DEF Trees
  <2> QED
    BY <2>2, <2>3
<1>8. TypeOK'
  BY <1>1, <1>2, <1>3, <1>6, <1>7 DEF Core, TypeOK, shown, pointer, focus, Trees
<1>9. Rooted'
  <2>1. \A root \in Sheets \cup {Content} : parent'[root] = None
    BY <1>1, <1>4, <1>5 DEF Core, Rooted, Trees
  <2>2. Forest(parent')
    BY <1>6, <1>7 DEF Trees
  <2> QED
    BY <2>1, <2>2 DEF Rooted, Forest
<1>10. \A p \in Widgets : Path[p] \subseteq Path'[p]
  <2>1. PICK Q : Q = Path'
    OBVIOUS
  <2>2. Ancestral(Q, G)
    BY <1>6, <1>7, <2>1, PathIsAncestralNext DEF Trees, Forest
  <2>3. Trees(F) /\ Ancestral(P, F)
    BY <1>5, <1>6
  <2>4. \A p \in Widgets : P[p] \subseteq Q[p]
    BY <1>7, <2>2, <2>3, PathGrows
  <2> QED
    BY <1>6, <2>1, <2>4
<1>11. ASSUME NEW p \in {hovered, pressed, focused}, p # None
       PROVE  \E r \in SheetsOf(overlays) \cup ({child} \ {None}) : r \in Path'[p]
  BY <1>10, <1>11, PointersAre DEF Good, InWindow, Inside, Pointers
<1>12. hovered' = hovered /\ pressed' = pressed /\ focused' = focused
       /\ overlays' = overlays /\ child' = child
  BY <1>1 DEF pointer, focus
<1>13. PointersStayGood'
  BY <1>2, <1>11, <1>12 DEF Core, PointersStayGood, InWindow, Inside, SheetsOf
<1> QED
  BY <1>2, <1>8, <1>9, <1>13 DEF Core

LEMMA SetChildKeepsCore ==
  ASSUME CallbackOps["focus"] = {}, CallbackOps["hover"] = {}, Core,
         NEW root \in {Content, None}, SetChild(root)
  PROVE  Core'
<1>1. /\ Call("child", <<>>) /\ child' = root /\ last' = Other
      /\ hovered' = None /\ pressed' = None /\ focused' = None /\ pending' = None
      /\ UNCHANGED <<overlays, parent, shown>>
  BY DEF SetChild
<1>2. AllSound(stack)' /\ crashed' = crashed
  BY <1>1, AllSoundEmpty, CallSound DEF Core
<1>3. Other \in [op : {"other", "return", "release"}, w : Pointers] /\ None \in Pointers
  BY DEF Other, Pointers
<1>4. TypeOK'
  BY <1>1, <1>2, <1>3 DEF Core, TypeOK, shown
<1>5. PointersStayGood'
  BY <1>1, <1>2 DEF Core, PointersStayGood
<1>6. Rooted'
  BY <1>1 DEF Core, Rooted
<1> QED
  BY <1>2, <1>4, <1>5, <1>6 DEF Core

\* The pointers stay good when the window gets more sheets.
LEMMA MoreSheets ==
  ASSUME Core, UNCHANGED <<child, parent, shown, pointer, focus, crashed>>, last' = Other,
         AllSound(stack)', overlays' \in Seq(Entries),
         \A j, k \in DOMAIN overlays' : overlays'[j].widget = overlays'[k].widget => j = k,
         SheetsOf(overlays) \subseteq SheetsOf(overlays')
  PROVE  Core'
<1>1. Path' = Path
  BY DEF Path
<1>2. Other \in [op : {"other", "return", "release"}, w : Pointers]
  BY DEF Other, Pointers
<1>3. TypeOK'
  BY <1>2 DEF Core, TypeOK, shown, pointer, focus
<1>4. ASSUME NEW p \in {hovered, pressed, focused}, p # None
      PROVE  \E r \in SheetsOf(overlays') \cup ({child} \ {None}) : r \in Path[p]
  BY <1>4, PointersAre DEF Good, InWindow, Inside
<1>5. hovered' = hovered /\ pressed' = pressed /\ focused' = focused /\ child' = child
      /\ crashed' = crashed
  BY DEF pointer, focus
<1>6. PointersStayGood'
  BY <1>1, <1>4, <1>5 DEF Core, PointersStayGood, InWindow, Inside, SheetsOf
<1>7. Rooted'
  BY DEF Core, Rooted
<1> QED
  BY <1>3, <1>6, <1>7 DEF Core

LEMMA ShowOverlayKeepsCore ==
  ASSUME CallbackOps["focus"] = {}, CallbackOps["hover"] = {}, Core,
         NEW sheet \in Sheets, NEW modal \in BOOLEAN, ShowOverlay(sheet, modal)
  PROVE  Core'
<1>17. PICK first : \/ Call("show", <<>>)
                    \/ Call("show", <<Frame("focus", first)>> \o <<>>)
  BY DEF ShowOverlay, CallShow
<1>1. PICK f, v, e : /\ f = Frame("focus", first)
                     /\ v = (IF modal THEN focused ELSE None)
                     /\ e = [widget |-> sheet, modal |-> modal, previous |-> v]
  OBVIOUS
<1>2. /\ sheet \notin SheetsOf(overlays) /\ last' = Other
      /\ Call("show", <<f>>) \/ Call("show", <<>>)
      /\ overlays' = Append(overlays, e)
      /\ UNCHANGED <<child, parent, shown, pointer, focus>>
  <2>1. <<f>> \o <<>> = <<f>>
    OBVIOUS
  <2>2. Call("show", <<f>>) \/ Call("show", <<>>)
    BY <1>1, <1>17, <2>1
  <2>3. /\ sheet \notin SheetsOf(overlays) /\ last' = Other
        /\ overlays' = Append(overlays, e)
        /\ UNCHANGED <<child, parent, shown, pointer, focus>>
    BY <1>1 DEF ShowOverlay
  <2> QED
    BY <2>2, <2>3
<1>3. IsFrame(f) /\ f.op = "focus" /\ f.prev = None /\ None \in Pointers
  BY <1>1, FrameFields DEF Pointers
<1>4. AllSound(<<f>>)' /\ AllSound(<<>>)'
  BY <1>3, PlainIsSound, AllSoundOne, AllSoundEmpty
<1>5. AllSound(stack)' /\ crashed' = crashed
  BY <1>2, <1>4, CallSound DEF Core
<1>6. e \in Entries /\ e.widget = sheet
  BY <1>1, PointersAre, <1>3 DEF Entries
<1>7. PICK n \in Nat : n = Len(overlays) /\ DOMAIN overlays = 1..n /\ overlays \in Seq(Entries)
  BY DEF Core, TypeOK
<1>8. PICK s : s = Append(overlays, e)
  OBVIOUS
<1>9. /\ s \in Seq(Entries) /\ Len(s) = n + 1 /\ s[n + 1] = e
      /\ \A i \in 1..n : s[i] = overlays[i]
  BY <1>6, <1>7, <1>8
<1>10. DOMAIN s = 1..(n + 1)
  BY <1>9
<1>11. \A i \in 1..n : overlays[i].widget # sheet
  BY <1>2, <1>7 DEF SheetsOf
<1>12. \A j, k \in 1..n : overlays[j].widget = overlays[k].widget => j = k
  BY <1>7 DEF Core, TypeOK
<1>13. ASSUME NEW j \in 1..(n + 1), NEW k \in 1..(n + 1), s[j].widget = s[k].widget
       PROVE  j = k
  <2>1. (j \in 1..n \/ j = n + 1) /\ (k \in 1..n \/ k = n + 1)
    OBVIOUS
  <2>2. CASE j \in 1..n /\ k \in 1..n
    BY <1>9, <1>12, <1>13, <2>2
  <2>3. CASE j \in 1..n /\ k = n + 1
    BY <1>6, <1>9, <1>11, <1>13, <2>3
  <2>4. CASE j = n + 1 /\ k \in 1..n
    BY <1>6, <1>9, <1>11, <1>13, <2>4
  <2> QED
    BY <2>1, <2>2, <2>3, <2>4
<1>14. SheetsOf(overlays) \subseteq SheetsOf(s)
  <2>1. \A i \in 1..n : i \in DOMAIN s /\ s[i] = overlays[i]
    BY <1>9, <1>10
  <2> QED
    BY <1>7, <2>1 DEF SheetsOf
<1>15. \A j, k \in DOMAIN overlays' : overlays'[j].widget = overlays'[k].widget => j = k
  BY <1>2, <1>8, <1>10, <1>13
<1>16. overlays' \in Seq(Entries) /\ SheetsOf(overlays) \subseteq SheetsOf(overlays')
  BY <1>2, <1>8, <1>9, <1>14
<1> QED
  BY <1>2, <1>5, <1>15, <1>16, MoreSheets

\* The sheets of the window, as the vector of overlays has them.
LEMMA OverlayListOf ==
  ASSUME TypeOK
  PROVE  /\ OverlayList \in Seq(Sheets) /\ DOMAIN OverlayList = DOMAIN overlays
         /\ \A i \in DOMAIN overlays : /\ overlays[i].widget \in Sheets
                                       /\ OverlayList[i] = overlays[i].widget
                                       /\ overlays[i].previous \in Pointers
                                       /\ IteratorValid(overlays[i].widget, OverlayList, OverlayList)
<1>1. PICK n \in Nat : n = Len(overlays) /\ DOMAIN overlays = 1..n
  BY DEF TypeOK
<1>2. \A i \in 1..n : overlays[i] \in Entries
  BY <1>1 DEF TypeOK
<1>3. \A i \in 1..n : overlays[i].widget \in Sheets /\ overlays[i].previous \in Pointers
  BY <1>2 DEF Entries
<1>4. OverlayList = [i \in 1..n |-> overlays[i].widget]
  BY <1>1 DEF OverlayList
<1>5. OverlayList \in [1..n -> Sheets]
  BY <1>3, <1>4
<1>6. OverlayList \in Seq(Sheets) /\ DOMAIN OverlayList = 1..n /\ Len(OverlayList) = n
  BY <1>5
<1>7. ASSUME NEW i \in 1..n
      PROVE  IteratorValid(overlays[i].widget, OverlayList, OverlayList)
  <2>1. i <= Len(OverlayList) /\ Len(OverlayList) <= Len(OverlayList)
    BY <1>6
  <2>2. OverlayList[i] = overlays[i].widget
    BY <1>4
  <2> QED
    BY <1>6, <2>1, <2>2 DEF IteratorValid
<1>8. \A i \in 1..n : OverlayList[i] = overlays[i].widget
  BY <1>4
<1> QED
  BY <1>1, <1>3, <1>6, <1>7, <1>8

LEMMA ShowAgainKeepsCore ==
  ASSUME CallbackOps["focus"] = {}, CallbackOps["hover"] = {}, Core,
         NEW i \in DOMAIN overlays, NEW modal \in BOOLEAN, ShowAgain(i, modal)
  PROVE  Core'
<1>1. PICK sheet, list : sheet = overlays[i].widget /\ list = OverlayList
  OBVIOUS
<1>24. PICK first :
         \/ Call("show", <<>>)
         \/ Call("show", <<Frame("focus", first)>>
                           \o <<[Frame("shown", sheet) EXCEPT !.list = list]>>)
  BY <1>1 DEF ShowAgain, CallShow
<1>2. PICK f, g : /\ f = Frame("focus", first)
                  /\ g = [Frame("shown", sheet) EXCEPT !.list = list]
  OBVIOUS
<1>3. PICK v : v = (IF ~modal THEN None
                    ELSE IF (modal /\ ~Inside(focused, sheet)) /\ focused # None THEN focused
                    ELSE overlays[i].previous)
  OBVIOUS
<1>4. PICK e : e = [widget |-> sheet, modal |-> modal, previous |-> v]
  OBVIOUS
<1>5. /\ last' = Other /\ (Call("show", <<f, g>>) \/ Call("show", <<>>))
      /\ overlays' = [overlays EXCEPT ![i] = e]
      /\ UNCHANGED <<child, parent, shown, pointer, focus>>
  <2>1. Call("show", <<f, g>>) \/ Call("show", <<>>)
    <3>1. Call("show", <<f>> \o <<g>>) \/ Call("show", <<>>)
      BY <1>2, <1>24
    <3> QED
      BY <3>1, TwoTuples
  <2>2. /\ last' = Other /\ overlays' = [overlays EXCEPT ![i] = e]
        /\ UNCHANGED <<child, parent, shown, pointer, focus>>
    BY <1>1, <1>3, <1>4 DEF ShowAgain
  <2> QED
    BY <2>1, <2>2
<1>6. TypeOK /\ None \in Pointers
  BY DEF Core, Pointers
<1>7. /\ list \in Seq(Sheets) /\ sheet \in Sheets /\ overlays[i].previous \in Pointers
      /\ IteratorValid(sheet, list, list)
  BY <1>1, <1>6, OverlayListOf
<1>8. sheet \in Pointers
  BY <1>7, TreeAssumption DEF Pointers
<1>9. v \in Pointers
  <2>1. focused \in Pointers
    BY PointersAre
  <2> QED
    BY <1>3, <1>6, <1>7, <2>1
<1>10. e \in Entries /\ e.widget = sheet
  BY <1>4, <1>7, <1>9 DEF Entries
<1>11. PICK n \in Nat : n = Len(overlays) /\ DOMAIN overlays = 1..n /\ overlays \in Seq(Entries)
  BY <1>6 DEF TypeOK
<1>12. PICK s : s = [overlays EXCEPT ![i] = e]
  OBVIOUS
<1>13. /\ s \in Seq(Entries) /\ DOMAIN s = DOMAIN overlays
       /\ \A j \in DOMAIN overlays : s[j].widget = overlays[j].widget
  <2>1. s \in Seq(Entries) /\ DOMAIN s = DOMAIN overlays
    BY <1>10, <1>11, <1>12
  <2>2. \A j \in DOMAIN overlays : s[j] = IF j = i THEN e ELSE overlays[j]
    BY <1>11, <1>12
  <2> QED
    BY <1>1, <1>10, <2>1, <2>2
<1>14. SheetsOf(overlays) \subseteq SheetsOf(s)
  BY <1>13 DEF SheetsOf
<1>15. \A j, k \in DOMAIN s : s[j].widget = s[k].widget => j = k
  BY <1>6, <1>13 DEF TypeOK
<1>16. OverlayList' = list
  <2>1. overlays' = s
    BY <1>5, <1>12
  <2>2. [j \in DOMAIN s |-> s[j].widget] = [j \in DOMAIN overlays |-> overlays[j].widget]
    BY <1>13
  <2> QED
    BY <1>1, <2>1, <2>2 DEF OverlayList
<1>17. /\ IsFrame(f) /\ f.op = "focus" /\ f.prev = None
       /\ IsFrame(g) /\ g.op = "shown" /\ g.w = sheet /\ g.prev = None /\ g.list = list
  BY <1>2, FrameFields
<1>18. Sound(f, {})'
  BY <1>6, <1>17, PlainIsSound
<1>19. Sound(g, {f})'
  <2>1. Owed(g)'
    <3>1. IteratorValid(sheet, list, OverlayList)'
      BY <1>7, <1>16
    <3> QED
      BY <1>7, <1>17, <3>1 DEF Owed
  <2>2. TypedFrame(g)
    BY <1>6, <1>8, <1>17 DEF TypedFrame, FrameOps
  <2>3. Precedes(f, g)
    BY <1>17 DEF Precedes, FocusOps, IsEvent
  <2> QED
    BY <1>17, <2>1, <2>2, <2>3 DEF Sound, TypedFrame, Precedes
<1>20. AllSound(<<f, g>>)' /\ AllSound(<<>>)'
  BY <1>17, <1>18, <1>19, AllSoundTwo, AllSoundEmpty
<1>21. AllSound(stack)' /\ crashed' = crashed
  BY <1>5, <1>20, CallSound DEF Core
<1>22. overlays' = s
  BY <1>5, <1>12
<1>23. /\ overlays' \in Seq(Entries) /\ SheetsOf(overlays) \subseteq SheetsOf(overlays')
       /\ \A j, k \in DOMAIN overlays' : overlays'[j].widget = overlays'[k].widget => j = k
  BY <1>13, <1>14, <1>15, <1>22
<1> QED
  BY <1>5, <1>21, <1>23, MoreSheets

LEMMA DismissKeepsCore ==
  ASSUME CallbackOps["focus"] = {}, CallbackOps["hover"] = {}, Core,
         NEW i \in DOMAIN overlays, Dismiss(i)
  PROVE  Core'
<1>1. PICK sheet, list : sheet = overlays[i].widget /\ list = OverlayList
  OBVIOUS
<1>2. PICK f, g : /\ f = Frame("focus", None)
                  /\ g = [Frame("leave", sheet) EXCEPT !.list = list]
  OBVIOUS
<1>3. /\ last' = Other
      /\ Call("dismiss", <<f>> \o <<g>>) \/ Call("dismiss", <<>> \o <<g>>)
      /\ hovered' \in {hovered, None} /\ pressed' \in {pressed, None}
      /\ UNCHANGED <<trees, shown, focus>>
  BY <1>1, <1>2, ClearedIsOutside DEF Dismiss, Unfocused
<1>4. TypeOK /\ None \in Pointers
  BY DEF Core, Pointers
<1>5. /\ list \in Seq(Sheets) /\ sheet \in Sheets /\ IteratorValid(sheet, list, list)
  BY <1>1, <1>4, OverlayListOf
<1>6. sheet \in Pointers
  BY <1>5, TreeAssumption DEF Pointers
<1>7. OverlayList' = list
  BY <1>1, <1>3, TreesStay
<1>8. /\ IsFrame(f) /\ f.op = "focus" /\ f.w = None /\ f.prev = None
      /\ IsFrame(g) /\ g.op = "leave" /\ g.w = sheet /\ g.prev = None /\ g.list = list
  BY <1>2, FrameFields
<1>9. Sound(f, {})'
  BY <1>4, <1>8, PlainIsSound
<1>10. Sound(g, {f})' /\ Sound(g, {})'
  <2>1. Owed(g)'
    <3>1. IteratorValid(sheet, list, OverlayList)'
      BY <1>5, <1>7
    <3> QED
      BY <1>5, <1>8, <3>1 DEF Owed
  <2>2. TypedFrame(g)
    BY <1>4, <1>6, <1>8 DEF TypedFrame, FrameOps
  <2>3. Precedes(f, g)
    BY <1>8 DEF Precedes, Clears, IsEvent
  <2> QED
    BY <1>8, <2>1, <2>2, <2>3 DEF Sound, TypedFrame, Precedes
<1>11. AllSound(<<f, g>>)' /\ AllSound(<<g>>)'
  BY <1>8, <1>9, <1>10, AllSoundTwo, AllSoundOne
<1>12. <<f>> \o <<g>> = <<f, g>> /\ <<>> \o <<g>> = <<g>>
  BY TwoTuples
<1>13. AllSound(stack)' /\ crashed' = crashed
  BY <1>3, <1>11, <1>12, CallSound DEF Core
<1>14. Other \in [op : {"other", "return", "release"}, w : Pointers]
  BY <1>4 DEF Other
<1> QED
  BY <1>3, <1>4, <1>13, <1>14, CoreStays, PointersAre DEF focus, Good

LEMMA UserCallsKeepCore ==
  ASSUME CallbackOps["focus"] = {}, CallbackOps["hover"] = {}, Core, UserCall
  PROVE  Core'
<1>1. ASSUME NEW w, GrabFocus(w) \/ (w \in Hideable /\ (Hide(w) \/ Show(w)))
                    \/ (w \in Disableable /\ SetSensitive(w))
                    \/ (w \in Refocusable /\ SetFocusable(w))
      PROVE  Core'
  BY <1>1, WidgetCallsKeepCore
<1>2. ASSUME NEW w \in Detachable, RemoveChild(w) PROVE Core'
  BY <1>2, RemoveChildKeepsCore
<1>7. ASSUME NEW w \in Detachable, NEW container \in Containers, InsertChild(w, container)
      PROVE  Core'
  BY <1>7, InsertChildKeepsCore
<1>3. ASSUME NEW root \in {Content, None}, SetChild(root) PROVE Core'
  BY <1>3, SetChildKeepsCore
<1>4. ASSUME NEW sheet \in Sheets, NEW modal \in BOOLEAN, ShowOverlay(sheet, modal) PROVE Core'
  BY <1>4, ShowOverlayKeepsCore
<1>5. ASSUME NEW i \in DOMAIN overlays, NEW modal \in BOOLEAN, ShowAgain(i, modal) PROVE Core'
  BY <1>5, ShowAgainKeepsCore
<1>6. ASSUME NEW i \in DOMAIN overlays, Dismiss(i) PROVE Core'
  BY <1>6, DismissKeepsCore
<1> QED
  BY <1>1, <1>2, <1>3, <1>4, <1>5, <1>6, <1>7 DEF UserCall

LEMMA CoreStep ==
  ASSUME CallbackOps["focus"] = {}, CallbackOps["hover"] = {}, Core, [Next]_vars
  PROVE  Core'
<1>1. CASE FocusStep
  BY <1>1, FocusKeepsCore, FocusChangedKeepsCore, TakeKeepsCore, TakenKeepsCore,
     RestoreKeepsCore DEF FocusStep
<1>2. CASE SetHovered \/ Bubble \/ MoveDeliver \/ PressDeliver \/ ReleaseDeliver \/ Released
  BY <1>2, SetHoveredKeepsCore, DeliverKeepsCore
<1>3. CASE StateChanged \/ Detached \/ Forget \/ Unlink
  BY <1>3, StateChangedKeepsCore, DetachedKeepsCore, ForgetKeepsCore, UnlinkKeepsCore
<1>4. CASE ShownAgain \/ DismissLeave \/ DismissErase
  BY <1>4, ShownAgainKeepsCore, DismissLeaveKeepsCore, DismissEraseKeepsCore
<1>5. CASE UserReturn \/ PlatformEvent \/ UserCall
  BY <1>5, UserReturnKeepsCore, EventsKeepCore, UserCallsKeepCore
<1>6. CASE UNCHANGED vars
  <2>1. UNCHANGED <<trees, shown, pointer, focus, crashed, last, stack>>
    BY <1>6 DEF vars
  <2>2. AllSound(stack)'
    <3>1. ASSUME NEW f, NEW A, Sound(f, A) PROVE Sound(f, A)'
      <4>1. Owed(f)'
        <5>1. f.op \in {"out", "in", "taken"} => focused' # None
          BY <2>1, <3>1 DEF Sound, Owed, focus
        <5> QED
          BY <2>1, <3>1, <5>1, OwedStays DEF Sound
      <4>2. f.op \in {"erase", "unlink"} => Gone(f.w, A)'
        BY <2>1, <3>1, GoneStays DEF Sound, focus
      <4> QED
        BY <3>1, <4>1, <4>2 DEF Sound, TypedFrame, Precedes
    <3>2. PICK s : s = stack
      OBVIOUS
    <3>3. AllSound(s)'
      BY <3>1, <3>2 DEF Core, AllSound, Framed, Elements
    <3> QED
      BY <2>1, <3>2, <3>3
  <2> QED
    BY <2>1, <2>2, CoreStays, PointersAre DEF pointer, focus
<1> QED
  BY <1>1, <1>2, <1>3, <1>4, <1>5, <1>6 DEF Next, HandlerStep

LEMMA CoreInit == Init => Core
<1> SUFFICES ASSUME Init PROVE Core
  OBVIOUS
<1>1. AllSound(stack)
  BY FramedEmpty DEF Init, AllSound
<1>2. overlays \in Seq(Entries) /\ \A i, j \in DOMAIN overlays : i = j
  BY DEF Init
<1>3. TypeOK
  BY <1>2, TreeAssumption DEF Init, TypeOK, Pointers, Other
<1>4. PointersStayGood
  BY DEF Init, PointersStayGood
<1>5. Rooted
  BY TreeAssumption DEF Init, Rooted
<1> QED
  BY <1>1, <1>3, <1>4, <1>5 DEF Core

\* With focus and hover callbacks that call no operation, every variable keeps its
\* type and no sheet is listed twice, whatever the trees, the overlays and what
\* event handlers do.
THEOREM TypeCorrect ==
  ASSUME CallbackOps["focus"] = {}, CallbackOps["hover"] = {}
  PROVE  Spec => []TypeOK
<1>1. Core /\ [Next]_vars => Core'
  BY CoreStep
<1>2. Core => TypeOK
  BY DEF Core
<1> QED
  BY CoreInit, <1>1, <1>2, PTL DEF Spec

\* Under the same condition the hovered, pressed and focused widgets are in the
\* window's trees after each step of each handler, however event handlers hide,
\* disable, detach, show and dismiss what it is working on, and no handler goes on
\* with a pointer or an iterator that they invalidated.
THEOREM PointersAreGood ==
  ASSUME CallbackOps["focus"] = {}, CallbackOps["hover"] = {}
  PROVE  Spec => []PointersStayGood
<1>1. Core /\ [Next]_vars => Core'
  BY CoreStep
<1>2. Core => PointersStayGood
  BY DEF Core
<1> QED
  BY CoreInit, <1>1, <1>2, PTL DEF Spec

(***************************************************************************)
(* Restore targets. The focused widget is in one tree of the window, so a   *)
(* sheet that is not up is not above it.                                    *)
(***************************************************************************)
LEMMA FocusIsOutside ==
  ASSUME Core, NEW sheet \in Sheets, sheet \notin SheetsOf(overlays)
  PROVE  ~Inside(focused, sheet)
<1>1. PICK p : p = focused
  OBVIOUS
<1>2. SUFFICES ASSUME p # None, sheet \in Path[p] PROVE FALSE
  BY <1>1 DEF Inside
<1>3. p \in Widgets
  BY <1>1, <1>2, PointersAre DEF Pointers
<1>4. PICK r \in SheetsOf(overlays) \cup ({child} \ {None}) : r \in Path[p]
  BY <1>1, <1>2, PointersAre DEF Good, InWindow, Inside
<1>5. parent[r] = None
  BY WindowRoots DEF Core
<1>6. Trees(parent) /\ Ancestral(Path, parent) /\ parent[sheet] = None
  BY PathIsAncestral DEF Core, TypeOK, Rooted, Trees
<1>7. sheet = r
  BY <1>2, <1>3, <1>4, <1>5, <1>6, RootOfPath
<1>8. child \in {Content, None} /\ sheet # Content /\ sheet # None
  BY TreeAssumption DEF Core, TypeOK
<1> QED
  BY <1>4, <1>7, <1>8

LEMMA OverlaysStay ==
  ASSUME [Next]_vars
  PROVE  \/ overlays' = overlays \/ DismissErase
         \/ \E sheet \in Sheets, modal \in BOOLEAN : ShowOverlay(sheet, modal)
         \/ \E i \in DOMAIN overlays, modal \in BOOLEAN : ShowAgain(i, modal)
<1>1. CASE FocusStep
  BY <1>1 DEF FocusStep, Focus, FocusChanged, Crash, Take, Taken, Restore, RestoreFirst, trees
<1>2. CASE SetHovered \/ Bubble \/ MoveDeliver \/ PressDeliver \/ ReleaseDeliver \/ Released
  BY <1>2 DEF SetHovered, Bubble, MoveDeliver, PressDeliver, ReleaseDeliver, Released, Crash,
     trees
<1>3. CASE StateChanged \/ Detached \/ Forget \/ Unlink \/ ShownAgain \/ DismissLeave
  BY <1>3 DEF StateChanged, Detached, Forget, Unlink, ShownAgain, DismissLeave, Crash, trees
<1>4. CASE UserReturn
  BY <1>4 DEF UserReturn, trees
<1>5. CASE PlatformEvent
  BY <1>5 DEF PlatformEvent, WindowFocusIn, WindowFocusOut, MouseLeave, Key, Tab, MouseMove,
     MousePress, MouseRelease, Mouse, trees
<1>6. CASE UserCall
  BY <1>6 DEF UserCall, GrabFocus, Hide, Show, SetSensitive, SetFocusable, RemoveChild,
     InsertChild, SetChild, Dismiss, trees
<1>7. CASE UNCHANGED vars
  BY <1>7 DEF vars, trees
<1> QED
  BY <1>1, <1>2, <1>3, <1>4, <1>5, <1>6, <1>7 DEF Next, HandlerStep

LEMMA OutsideStep ==
  ASSUME Core, [Next]_vars, NEW j \in DOMAIN overlays'
  PROVE  \/ \E k \in DOMAIN overlays : /\ overlays[k].widget = overlays'[j].widget
                                       /\ overlays[k].previous = overlays'[j].previous
         \/ ~Inside(overlays'[j].previous, overlays'[j].widget)
<1>1. CASE overlays' = overlays
  BY <1>1
<1>2. CASE DismissErase
  <2>1. PICK i : i = IndexOf(Arg)
    OBVIOUS
  <2>2. /\ Head(stack).op = "erase" /\ Sound(Head(stack), {}) /\ Arg = Head(stack).w
    BY <1>2, AtHead DEF DismissErase
  <2>3. i \in DOMAIN overlays /\ IteratorValid(Arg, Head(stack).list, OverlayList)
    <3>1. Head(stack).list \in Seq(Sheets) /\ IteratorValid(Arg, Head(stack).list, OverlayList)
      BY <2>2 DEF Sound, Owed
    <3> QED
      BY <2>1, <3>1, IteratorPoints DEF Core
  <2>4. overlays' = Without(i)
    BY <1>2, <2>1, <2>3 DEF DismissErase
  <2>5. PICK s : s = Without(i)
    OBVIOUS
  <2>6. \A m \in DOMAIN s : \E k \in DOMAIN overlays : s[m] = overlays[k]
    <3>1. TypeOK
      BY DEF Core
    <3> QED
      BY <2>3, <2>5, <3>1, WithoutEntry
  <2> QED
    BY <2>4, <2>5, <2>6
<1>3. ASSUME NEW sheet \in Sheets, NEW modal \in BOOLEAN, ShowOverlay(sheet, modal)
      PROVE  \/ \E k \in DOMAIN overlays : overlays'[j] = overlays[k]
             \/ ~Inside(overlays'[j].previous, overlays'[j].widget)
  <2>1. PICK v, e : /\ v = (IF modal THEN focused ELSE None)
                    /\ e = [widget |-> sheet, modal |-> modal, previous |-> v]
    OBVIOUS
  <2>2. overlays' = Append(overlays, e) /\ sheet \notin SheetsOf(overlays)
    BY <1>3, <2>1 DEF ShowOverlay
  <2>3. ~Inside(v, sheet)
    <3>1. ~Inside(None, sheet)
      BY DEF Inside
    <3>2. ~Inside(focused, sheet)
      BY <2>2, FocusIsOutside
    <3> QED
      BY <2>1, <3>1, <3>2
  <2>4. PICK n \in Nat : n = Len(overlays) /\ DOMAIN overlays = 1..n /\ overlays \in Seq(Entries)
    BY DEF Core, TypeOK
  <2>5. PICK s : s = Append(overlays, e)
    OBVIOUS
  <2>6. e \in Entries /\ e.widget = sheet /\ e.previous = v
    BY <2>1, PointersAre DEF Entries, Pointers
  <2>7. DOMAIN s = 1..(n + 1) /\ s[n + 1] = e /\ \A i \in 1..n : s[i] = overlays[i]
    BY <2>4, <2>5, <2>6
  <2>8. j \in DOMAIN s
    BY <2>2, <2>5
  <2>9. s[j] = e \/ \E k \in DOMAIN overlays : s[j] = overlays[k]
    BY <2>4, <2>7, <2>8
  <2> QED
    BY <2>2, <2>3, <2>5, <2>6, <2>9
<1>4. ASSUME NEW i \in DOMAIN overlays, NEW modal \in BOOLEAN, ShowAgain(i, modal)
      PROVE  \/ \E k \in DOMAIN overlays : /\ overlays[k].widget = overlays'[j].widget
                                           /\ overlays[k].previous = overlays'[j].previous
             \/ ~Inside(overlays'[j].previous, overlays'[j].widget)
  <2>1. PICK sheet, v, e :
          /\ sheet = overlays[i].widget
          /\ v = (IF ~modal THEN None
                  ELSE IF (modal /\ ~Inside(focused, sheet)) /\ focused # None THEN focused
                  ELSE overlays[i].previous)
          /\ e = [widget |-> sheet, modal |-> modal, previous |-> v]
    OBVIOUS
  <2>2. overlays' = [overlays EXCEPT ![i] = e]
    BY <1>4, <2>1 DEF ShowAgain
  <2>3. e.widget = sheet /\ e.previous = v
    BY <2>1
  <2>4. v = overlays[i].previous \/ ~Inside(v, sheet)
    <3>1. ~Inside(None, sheet)
      BY DEF Inside
    <3> QED
      BY <2>1, <3>1
  <2>5. PICK s : s = [overlays EXCEPT ![i] = e]
    OBVIOUS
  <2>6. DOMAIN s = DOMAIN overlays /\ \A k \in DOMAIN overlays : s[k] = IF k = i THEN e ELSE overlays[k]
    <3>1. PICK n \in Nat : DOMAIN overlays = 1..n /\ overlays \in Seq(Entries)
      BY DEF Core, TypeOK
    <3> QED
      BY <2>5, <3>1
  <2>7. j \in DOMAIN overlays
    BY <2>2, <2>5, <2>6
  <2>8. \/ \E k \in DOMAIN overlays : /\ overlays[k].widget = s[j].widget
                                      /\ overlays[k].previous = s[j].previous
        \/ ~Inside(s[j].previous, s[j].widget)
    <3>1. CASE j = i
      BY <2>1, <2>3, <2>4, <2>6, <2>7, <3>1
    <3>2. CASE j # i
      BY <2>6, <2>7, <3>2
    <3> QED
      BY <3>1, <3>2
  <2> QED
    BY <2>2, <2>5, <2>8
<1> QED
  BY <1>1, <1>2, <1>3, <1>4, OverlaysStay

\* Under the same condition a sheet takes its restore target from outside its own
\* tree whenever it takes one, in show_overlay() of a new sheet and of one that is
\* up: the focus is in one tree of the window at any time, whatever event handlers
\* did to the trees before.
THEOREM RestoreTargets ==
  ASSUME CallbackOps["focus"] = {}, CallbackOps["hover"] = {}
  PROVE  Spec => RestoreTargetsComeFromOutside
<1>1. Core /\ [Next]_vars => Core'
  BY CoreStep
<1>2. Core /\ [Next]_vars =>
        [ \A i \in DOMAIN overlays' :
            LET entry == overlays'[i]
                kept == \E j \in DOMAIN overlays :
                          /\ overlays[j].widget = entry.widget
                          /\ overlays[j].previous = entry.previous
            IN  kept \/ ~Inside(entry.previous, entry.widget) ]_vars
  BY OutsideStep
<1> QED
  BY CoreInit, <1>1, <1>2, PTL DEF Spec, RestoreTargetsComeFromOutside

(***************************************************************************)
(* Who has the focus. What a step keeps of the stack, by position.          *)
(***************************************************************************)
LEMMA StackKeeps ==
  ASSUME Framed(stack), stack # <<>>, NEW frames, Framed(frames), Then(frames)
  PROVE  /\ \A i \in 1..Len(frames) : /\ i \in 1..Len(stack') /\ stack'[i] = frames[i]
                                      /\ Over(stack', i) = Over(frames, i)
         /\ \A k \in 1..Len(stack) : k > 1 =>
              \E i \in 1..Len(stack') : \E B :
                 /\ stack'[i] = stack[k]
                 /\ Over(stack, k) = {Head(stack)} \cup B
                 /\ Over(stack', i) = Elements(frames) \cup B
<1>1. PICK rest, next : rest = Tail(stack) /\ next = frames \o rest
  OBVIOUS
<1>2. /\ Framed(rest) /\ Len(rest) = Len(stack) - 1 /\ Len(stack) \in Nat
      /\ \A i \in 1..Len(rest) :
           /\ i + 1 \in 1..Len(stack) /\ rest[i] = stack[i + 1]
           /\ Over(stack, i + 1) = {Head(stack)} \cup Over(rest, i)
  BY <1>1, OverHead, FramedFacts
<1>3. stack' = next
  BY <1>1 DEF Then
<1>4. /\ Framed(next) /\ Len(next) = Len(frames) + Len(rest)
      /\ \A i \in 1..Len(frames) : /\ i \in 1..Len(next) /\ next[i] = frames[i]
                                   /\ Over(next, i) = Over(frames, i)
  <2>1. Framed(frames) /\ Framed(rest)
    BY <1>2
  <2> QED
    BY <1>1, <2>1, OverConcat
<1>5. \A i \in 1..Len(rest) :
        /\ Len(frames) + i \in 1..Len(next)
        /\ next[Len(frames) + i] = rest[i]
        /\ Over(next, Len(frames) + i) = Elements(frames) \cup Over(rest, i)
  <2>1. Framed(frames) /\ Framed(rest) /\ next = frames \o rest
    BY <1>1, <1>2
  <2> QED
    BY <2>1, OverConcat
<1>6. ASSUME NEW k \in 1..Len(stack), k > 1
      PROVE  \E i \in 1..Len(next) : \E B :
                 /\ next[i] = stack[k]
                 /\ Over(stack, k) = {Head(stack)} \cup B
                 /\ Over(next, i) = Elements(frames) \cup B
  <2>1. PICK j \in 1..Len(rest) : k = j + 1
    <3>1. k - 1 \in 1..Len(rest) /\ (k - 1) + 1 = k
      BY <1>2, <1>6
    <3> QED
      BY <3>1
  <2>2. rest[j] = stack[k] /\ Over(stack, k) = {Head(stack)} \cup Over(rest, j)
    BY <1>2, <2>1
  <2>3. PICK i, B : /\ i \in 1..Len(next) /\ B = Over(rest, j) /\ next[i] = rest[j]
                    /\ Over(next, i) = Elements(frames) \cup B
    BY <1>5, <2>1
  <2>4. next[i] = stack[k] /\ Over(stack, k) = {Head(stack)} \cup B
    BY <2>2, <2>3
  <2> QED
    BY <2>3, <2>4
<1> QED
  BY <1>3, <1>4, <1>6

LEMMA PushKeeps ==
  ASSUME Framed(stack), NEW frames, Framed(frames), stack' = frames \o stack
  PROVE  /\ \A i \in 1..Len(frames) : i \in 1..Len(stack') /\ stack'[i] = frames[i]
         /\ \A k \in 1..Len(stack) : \E i \in 1..Len(stack') : stack'[i] = stack[k]
<1>1. PICK rest, next : rest = stack /\ next = frames \o rest
  OBVIOUS
<1>2. Framed(rest) /\ stack' = next
  BY <1>1
<1>3. /\ \A i \in 1..Len(frames) : i \in 1..Len(next) /\ next[i] = frames[i]
      /\ \A i \in 1..Len(rest) : /\ Len(frames) + i \in 1..Len(next)
                                 /\ next[Len(frames) + i] = rest[i]
  <2>1. Framed(frames) /\ Framed(rest)
    BY <1>2
  <2> QED
    BY <1>1, <2>1, OverConcat
<1> QED
  BY <1>1, <1>2, <1>3

\* The frames a step pushes.
LEMMA FramedTuples ==
  ASSUME NEW f, NEW g, NEW h, IsFrame(f), IsFrame(g), IsFrame(h)
  PROVE  /\ Framed(<<f>>) /\ Len(<<f>>) = 1 /\ Elements(<<f>>) = {f}
         /\ Framed(<<f, g>>) /\ Len(<<f, g>>) = 2 /\ Elements(<<f, g>>) = {f, g}
         /\ Framed(<<f, g, h>>) /\ Len(<<f, g, h>>) = 3 /\ Elements(<<f, g, h>>) = {f, g, h}
<1>1. PICK S, a, b, c : S = {f, g, h} /\ a = <<f>> /\ b = <<f, g>> /\ c = <<f, g, h>>
  OBVIOUS
<1>2. a \in Seq(S) /\ b \in Seq(S) /\ c \in Seq(S) /\ \A x \in S : IsFrame(x)
  BY <1>1
<1>3. Framed(a) /\ Framed(b) /\ Framed(c)
  BY <1>2, FramedOver
<1>4. /\ Len(a) = 1 /\ Len(b) = 2 /\ Len(c) = 3 /\ a[1] = f /\ b[1] = f /\ b[2] = g
      /\ c[1] = f /\ c[2] = g /\ c[3] = h
  BY <1>1
<1>5. 1..1 = {1} /\ 1..2 = {1, 2} /\ 1..3 = {1, 2, 3}
  BY OverStart
<1>6. Elements(a) = {f} /\ Elements(b) = {f, g} /\ Elements(c) = {f, g, h}
  BY <1>4, <1>5 DEF Elements
<1> QED
  BY <1>1, <1>3, <1>4, <1>6

\* A handler that is not in the course of a change of the focus: the frames below
\* its own stay.
LEMMA OthersThen ==
  ASSUME Core, HandlerStep, ~Crash,
         ~(Focus \/ Take \/ StateChanged) /\ ~(FocusChanged /\ Head(stack).op = "out")
  PROVE  /\ \E frames : Framed(frames) /\ Then(frames)
         /\ stack # <<>> /\ UNCHANGED <<shown, focused>>
         /\ Head(stack).op \notin {"user", "out", "focus", "take", "changed"}
<1>1. \A op, w : IsFrame(Frame(op, w)) /\ IsFrame(UserFrame(w))
  BY FrameFields
<1>2. /\ Framed(<<>>)
      /\ \A f : IsFrame(f) => Framed(<<f>>)
      /\ \A f, g : IsFrame(f) /\ IsFrame(g) => Framed(<<f, g>>)
  BY FramedTuples, FramedEmpty
<1>3. CASE FocusChanged \/ Taken \/ Restore \/ RestoreFirst
  BY <1>1, <1>2, <1>3 DEF FocusChanged, Taken, Restore, RestoreFirst, At, focus
<1>4. CASE SetHovered \/ Bubble \/ MoveDeliver \/ PressDeliver \/ ReleaseDeliver \/ Released
  BY <1>1, <1>2, <1>4 DEF SetHovered, Bubble, MoveDeliver, PressDeliver, ReleaseDeliver,
     Released, At, focus
<1>5. CASE Detached
  <2>1. PICK w, f, g : w = Arg /\ f = Frame("focus", None) /\ g = Frame("forget", w)
    OBVIOUS
  <2>2. IsFrame(f) /\ IsFrame(g)
    BY <1>1, <2>1
  <2>3. Then(<<>>) \/ Then(<<f>> \o <<g>>) \/ Then(<<>> \o <<g>>)
    BY <1>5, <2>1 DEF Detached, Unfocused
  <2>4. <<f>> \o <<g>> = <<f, g>> /\ <<>> \o <<g>> = <<g>>
    BY TwoTuples
  <2>5. \E frames : Framed(frames) /\ Then(frames)
    BY <1>2, <2>2, <2>3, <2>4
  <2> QED
    BY <1>5, <2>5 DEF Detached, At, focus
<1>6. CASE Forget \/ Unlink \/ ShownAgain
  BY <1>1, <1>2, <1>6 DEF Forget, Unlink, ShownAgain, At, focus
<1>7. CASE DismissLeave
  <2>1. PICK f, g : /\ f = Frame("detached", Arg)
                    /\ g = [Head(stack) EXCEPT !.op = "erase",
                                        !.prev = overlays[IndexOf(Arg)].previous]
    OBVIOUS
  <2>2. IsFrame(Head(stack))
    BY <1>7, AtHead DEF DismissLeave
  <2>3. IsFrame(f) /\ IsFrame(g)
    BY <1>1, <2>1, <2>2 DEF IsFrame
  <2>4. Then(<<f, g>>)
    BY <1>7, <2>1 DEF DismissLeave
  <2>5. Framed(<<f, g>>)
    BY <1>2, <2>3
  <2> QED
    BY <1>7, <2>4, <2>5 DEF DismissLeave, At, focus
<1>8. CASE DismissErase
  BY <1>1, <1>2, <1>8 DEF DismissErase, At, focus
<1> QED
  BY <1>3, <1>4, <1>5, <1>6, <1>7, <1>8 DEF HandlerStep, FocusStep

\* User code told by focus_widget(), and the call that tells it.
TellsFocus(f) == f.op = "out" \/ (f.op = "user" /\ f.w = "focus")

\* focus_widget() is about to clear the focus: nothing but telling the owner comes
\* before that.
Waits(s) ==
  \E i \in 1..Len(s) : /\ s[i].op \in {"focus", "take"} /\ s[i].w = None
                       /\ \A f \in Over(s, i) : TellsFocus(f)

\* The window will be told that the widget was hidden or disabled.
Told(w, s) == \E i \in 1..Len(s) : s[i].op = "changed" /\ s[i].w = w

LEMMA WaitsHead ==
  ASSUME Framed(stack), Waits(stack)
  PROVE  /\ stack # <<>>
         /\ TellsFocus(Head(stack)) \/ (Head(stack).op \in {"focus", "take"} /\ Head(stack).w = None)
<1>1. PICK i \in 1..Len(stack) : /\ stack[i].op \in {"focus", "take"} /\ stack[i].w = None
                                 /\ \A f \in Over(stack, i) : TellsFocus(f)
  BY DEF Waits
<1>2. Len(stack) \in Nat /\ stack # <<>>
  BY <1>1, FramedFacts, FramedEmpty
<1>3. stack[1] = Head(stack)
  BY <1>2, OverHead
<1>4. CASE i = 1
  BY <1>1, <1>2, <1>3, <1>4
<1>5. CASE i # 1
  <2>1. 1 \in 1..(i - 1)
    BY <1>2, <1>5
  <2> QED
    BY <1>1, <1>2, <1>3, <2>1 DEF Over
<1> QED
  BY <1>4, <1>5

LEMMA WaitsThen ==
  ASSUME Framed(stack), stack # <<>>, NEW frames, Framed(frames), Then(frames),
         \/ Waits(frames)
         \/ Waits(stack) /\ TellsFocus(Head(stack)) /\ \A f \in Elements(frames) : TellsFocus(f)
  PROVE  Waits(stack')
<1>1. /\ \A i \in 1..Len(frames) : /\ i \in 1..Len(stack') /\ stack'[i] = frames[i]
                                   /\ Over(stack', i) = Over(frames, i)
      /\ \A k \in 1..Len(stack) : k > 1 =>
           \E i \in 1..Len(stack') : \E B :
              /\ stack'[i] = stack[k]
              /\ Over(stack, k) = {Head(stack)} \cup B
              /\ Over(stack', i) = Elements(frames) \cup B
  BY StackKeeps
<1>2. CASE Waits(frames)
  BY <1>1, <1>2 DEF Waits
<1>3. CASE Waits(stack) /\ TellsFocus(Head(stack)) /\ \A f \in Elements(frames) : TellsFocus(f)
  <2>1. PICK k \in 1..Len(stack) : /\ stack[k].op \in {"focus", "take"} /\ stack[k].w = None
                                   /\ \A f \in Over(stack, k) : TellsFocus(f)
    BY <1>3 DEF Waits
  <2>2. k > 1
    <3>1. stack[1] = Head(stack) /\ Len(stack) \in Nat
      BY OverHead, FramedFacts
    <3>2. k # 1
      BY <1>3, <2>1, <3>1 DEF TellsFocus
    <3> QED
      BY <3>1, <3>2
  <2>3. PICK i, B :
              /\ i \in 1..Len(stack')
              /\ stack'[i] = stack[k]
              /\ Over(stack, k) = {Head(stack)} \cup B
              /\ Over(stack', i) = Elements(frames) \cup B
    BY <1>1, <2>2
  <2>4. \A f \in Over(stack', i) : TellsFocus(f)
    BY <1>3, <2>1, <2>3
  <2> QED
    BY <2>1, <2>3, <2>4 DEF Waits
<1> QED
  BY <1>2, <1>3

LEMMA ToldThen ==
  ASSUME Framed(stack), stack # <<>>, NEW frames, Framed(frames), Then(frames), NEW w,
         Told(w, stack), Head(stack).op # "changed" \/ Head(stack).w # w
  PROVE  Told(w, stack')
<1>1. PICK k \in 1..Len(stack) : stack[k].op = "changed" /\ stack[k].w = w
  BY DEF Told
<1>2. k > 1
  <2>1. stack[1] = Head(stack) /\ Len(stack) \in Nat
    BY OverHead, FramedFacts
  <2>2. k # 1
    BY <1>1, <2>1
  <2> QED
    BY <2>1, <2>2
<1>3. PICK i \in 1..Len(stack') : stack'[i] = stack[k]
  BY <1>2, StackKeeps
<1> QED
  BY <1>1, <1>3 DEF Told

\* focus_widget() either has nothing to do or leaves it to the last of its frames.
LEMMA FocusDoes ==
  ASSUME Core, Focus
  PROVE  /\ stack # <<>> /\ Head(stack).op = "focus" /\ Arg = Head(stack).w /\ Framed(stack)
         /\ UNCHANGED <<trees, shown, pointer, focused, pending, crashed, last>>
         /\ \E frames :
              /\ Framed(frames) /\ Then(frames)
              /\ \/ /\ frames = <<>> /\ (Arg = None => focused = None)
                    /\ (Arg # None /\ CanFocus(Arg) /\ InWindow(Arg)
                          /\ (TopModal = None \/ Inside(Arg, TopModal)) => focused = Arg)
                 \/ \E n \in 1..Len(frames) :
                      /\ frames[n].op = "take"
                      /\ (Arg = None => frames[n].w = None)
                      /\ (Arg # None /\ CanFocus(Arg) /\ InWindow(Arg) => frames[n].w = Arg)
                      /\ \A f \in Over(frames, n) : TellsFocus(f)
                      /\ \A i \in 1..Len(frames) : i = n \/ TellsFocus(frames[i])
<1>1. /\ stack # <<>> /\ Head(stack).op = "focus" /\ Arg = Head(stack).w /\ Framed(stack)
      /\ UNCHANGED <<trees, shown, pointer, focused, pending, crashed, last>>
  BY AtHead DEF Focus, AllSound
<1>2. PICK target :
        /\ Arg = None => target = None
        /\ Arg # None /\ CanFocus(Arg) /\ InWindow(Arg) => target = Arg
        /\ \/ /\ Then(<<>>) /\ (Arg = None => focused = None)
              /\ (Arg # None /\ CanFocus(Arg) /\ InWindow(Arg)
                    /\ (TopModal = None \/ Inside(Arg, TopModal)) => focused = Arg)
           \/ Then(<<Frame("take", target)>>)
           \/ Then(<<UserFrame("focus"), Frame("out", None), Frame("take", target)>>)
  <2> DEFINE t == IF Arg # None /\ CanFocus(Arg) /\ InWindow(Arg) THEN Arg ELSE None
  <2>1. /\ Arg = None => t = None
        /\ Arg # None /\ CanFocus(Arg) /\ InWindow(Arg) => t = Arg
    OBVIOUS
  <2>2. \/ /\ Then(<<>>) /\ (Arg = None => focused = None)
           /\ (Arg # None /\ CanFocus(Arg) /\ InWindow(Arg)
                 /\ (TopModal = None \/ Inside(Arg, TopModal)) => focused = Arg)
        \/ Then(<<Frame("take", t)>>)
        \/ Then(<<UserFrame("focus"), Frame("out", None), Frame("take", t)>>)
    BY DEF Focus
  <2> HIDE DEF t
  <2> QED
    BY <2>1, <2>2
<1>3. PICK u, o, t : u = UserFrame("focus") /\ o = Frame("out", None) /\ t = Frame("take", target)
  OBVIOUS
<1>4. /\ IsFrame(u) /\ u.op = "user" /\ u.w = "focus"
      /\ IsFrame(o) /\ o.op = "out"
      /\ IsFrame(t) /\ t.op = "take" /\ t.w = target
  BY <1>3, FrameFields
<1>5. TellsFocus(u) /\ TellsFocus(o)
  BY <1>4 DEF TellsFocus
<1>6. CASE Then(<<t>>)
  <2>1. PICK s : s = <<t>>
    OBVIOUS
  <2>2. Framed(s) /\ Len(s) = 1 /\ s[1] = t /\ Then(s)
    BY <1>4, <1>6, <2>1, FramedTuples
  <2>3. Over(s, 1) = {} /\ 1..1 = {1}
    BY OverStart
  <2>4. 1 \in 1..Len(s) /\ \A i \in 1..Len(s) : i = 1
    BY <2>2, <2>3
  <2> QED
    BY <1>1, <1>2, <1>4, <2>2, <2>3, <2>4
<1>7. CASE Then(<<u, o, t>>)
  <2>1. PICK s : s = <<u, o, t>>
    OBVIOUS
  <2>2. Framed(s) /\ Len(s) = 3 /\ s[1] = u /\ s[2] = o /\ s[3] = t /\ Then(s)
    BY <1>4, <1>7, <2>1, FramedTuples
  <2>3. Over(s, 3) = {u, o} /\ 1..3 = {1, 2, 3}
    BY <2>2, OverStart
  <2>4. 3 \in 1..Len(s) /\ \A i \in 1..Len(s) : i = 3 \/ TellsFocus(s[i])
    BY <1>5, <2>2, <2>3
  <2>5. \A f \in Over(s, 3) : TellsFocus(f)
    BY <1>5, <2>3
  <2> QED
    BY <1>1, <1>2, <1>4, <2>2, <2>4, <2>5
<1> QED
  BY <1>1, <1>2, <1>3, <1>6, <1>7, FramedEmpty

Usable(w) == w \in visible \cap sensitive

\* The focused widget is visible and sensitive, or the window is about to clear the
\* focus or to be told of the change.
Fit ==
  focused = None \/ Usable(focused) \/ Waits(stack) \/ Told(focused, stack)

LEMMA FitFocus ==
  ASSUME Core, Fit, Focus
  PROVE  Fit'
<1>1. /\ stack # <<>> /\ Head(stack).op = "focus" /\ Arg = Head(stack).w /\ Framed(stack)
      /\ UNCHANGED <<trees, shown, pointer, focused, pending, crashed, last>>
  BY FocusDoes
<1>2. PICK frames :
        /\ Framed(frames) /\ Then(frames)
        /\ \/ frames = <<>> /\ (Arg = None => focused = None)
           \/ \E n \in 1..Len(frames) : /\ frames[n].op = "take"
                                        /\ (Arg = None => frames[n].w = None)
                                        /\ \A f \in Over(frames, n) : TellsFocus(f)
  BY FocusDoes
<1>3. ~TellsFocus(Head(stack))
  BY <1>1 DEF TellsFocus
<1>4. Waits(stack) => focused = None \/ Waits(stack')
  <2>1. SUFFICES ASSUME Waits(stack) PROVE focused = None \/ Waits(stack')
    OBVIOUS
  <2>2. Arg = None
    BY <1>1, <1>3, <2>1, WaitsHead
  <2>3. CASE frames = <<>> /\ (Arg = None => focused = None)
    BY <2>2, <2>3
  <2>4. ASSUME NEW n \in 1..Len(frames), frames[n].op = "take", frames[n].w = None,
               \A f \in Over(frames, n) : TellsFocus(f)
        PROVE  Waits(stack')
    <3>1. Waits(frames)
      BY <2>4 DEF Waits
    <3> QED
      BY <1>1, <1>2, <3>1, WaitsThen
  <2> QED
    BY <1>2, <2>2, <2>3, <2>4
<1>5. \A w : Told(w, stack) => Told(w, stack')
  BY <1>1, <1>2, ToldThen
<1>6. focused' = focused /\ (Usable(focused)' <=> Usable(focused))
  BY <1>1 DEF Usable, shown
<1> QED
  BY <1>4, <1>5, <1>6 DEF Fit

LEMMA FitTake ==
  ASSUME Core, Take
  PROVE  Fit'
<1>1. PICK w : w = Arg
  OBVIOUS
<1>2. focused' = w /\ (w = None \/ Usable(w)) /\ UNCHANGED shown
  BY <1>1, AtHead DEF Take, Sound, Owed, CanFocus, Usable
<1>3. focused' = None \/ Usable(focused)'
  BY <1>2 DEF Usable, shown
<1> QED
  BY <1>3 DEF Fit

LEMMA FitStateChanged ==
  ASSUME Core, Fit, StateChanged
  PROVE  Fit'
<1>1. /\ stack # <<>> /\ Head(stack).op = "changed" /\ Arg = Head(stack).w /\ Framed(stack)
      /\ UNCHANGED <<trees, shown, focus>>
  BY AtHead DEF StateChanged, AllSound
<1>2. PICK f : f = Frame("focus", None)
  OBVIOUS
<1>3. IsFrame(f) /\ f.op = "focus" /\ f.w = None
  BY <1>2, FrameFields
<1>4. PICK frames : /\ Framed(frames) /\ Then(frames)
                    /\ (focused = Arg /\ focused # None) => Usable(focused) \/ frames = <<f>>
  <2>1. CASE Arg \in visible \cap sensitive \/ ~InWindow(Arg)
    <3>1. Then(<<>>) /\ Framed(<<>>)
      BY <2>1, FramedEmpty DEF StateChanged
    <3>2. focused = Arg /\ focused # None => Usable(focused)
      BY <2>1, PointersAre DEF Fit, Usable, Good
    <3> QED
      BY <3>1, <3>2
  <2>2. CASE ~(Arg \in visible \cap sensitive \/ ~InWindow(Arg))
    <3>1. Then(Unfocused(Arg))
      BY <2>2 DEF StateChanged
    <3>2. CASE Inside(focused, Arg)
      <4>1. Unfocused(Arg) = <<f>>
        BY <1>2, <3>2 DEF Unfocused
      <4> QED
        BY <1>3, <3>1, <4>1, FramedTuples
    <3>3. CASE ~Inside(focused, Arg)
      <4>1. Unfocused(Arg) = <<>>
        BY <3>3 DEF Unfocused
      <4>2. ASSUME focused = Arg, focused # None PROVE FALSE
        <5>1. PICK p : p = focused
          OBVIOUS
        <5>2. p \in Widgets
          BY <4>2, <5>1, PointersAre DEF Pointers
        <5>3. Trees(parent)
          BY DEF Core, TypeOK, Rooted, Trees
        <5>4. Ancestral(Path, parent)
          BY <5>3, PathIsAncestral
        <5>5. p \in Path[p]
          BY <5>2, <5>3, <5>4, PathOfParent
        <5> QED
          BY <3>3, <4>2, <5>1, <5>5 DEF Inside
      <4> QED
        BY <3>1, <4>1, <4>2, FramedEmpty
    <3> QED
      BY <3>2, <3>3
  <2> QED
    BY <2>1, <2>2
<1>5. focused' = focused /\ (Usable(focused)' <=> Usable(focused))
  BY <1>1 DEF Usable, shown, focus
<1>6. ~Waits(stack)
  <2>1. ~TellsFocus(Head(stack))
    BY <1>1 DEF TellsFocus
  <2> QED
    BY <1>1, <2>1, WaitsHead
<1>7. CASE focused = Arg /\ focused # None /\ ~Usable(focused)
  <2>1. frames = <<f>> /\ Len(<<f>>) = 1 /\ frames[1] = f
    BY <1>3, <1>4, <1>7, FramedTuples
  <2>2. Over(frames, 1) = {} /\ 1 \in 1..Len(frames)
    BY <2>1, OverStart
  <2>3. Waits(frames)
    BY <1>3, <2>1, <2>2 DEF Waits
  <2>4. Waits(stack')
    BY <1>1, <1>4, <2>3, WaitsThen
  <2> QED
    BY <1>5, <2>4 DEF Fit
<1>8. CASE focused # Arg /\ focused # None /\ ~Usable(focused)
  <2>1. Told(focused, stack)
    BY <1>6, <1>8 DEF Fit
  <2>2. Told(focused, stack')
    BY <1>1, <1>4, <1>8, <2>1, ToldThen
  <2> QED
    BY <1>5, <2>1, <2>2 DEF Fit
<1>9. CASE focused = None \/ Usable(focused)
  BY <1>5, <1>9 DEF Fit
<1> QED
  BY <1>7, <1>8, <1>9

\* The frames of an operation user code calls.
LEMMA CallsPush ==
  ASSUME Core, UserCall
  PROVE  \E op, frames : Call(op, frames) /\ Framed(frames)
<1>1. \A op, w : IsFrame(Frame(op, w)) /\ IsFrame(UserFrame(w))
  BY FrameFields
<1>2. /\ Framed(<<>>)
      /\ \A f : IsFrame(f) => Framed(<<f>>)
      /\ \A f, g : IsFrame(f) /\ IsFrame(g) => Framed(<<f, g>>)
      /\ \A f, g, h : IsFrame(f) /\ IsFrame(g) /\ IsFrame(h) => Framed(<<f, g, h>>)
  BY FramedTuples, FramedEmpty
<1>3. ASSUME NEW op, NEW w, NEW list PROVE IsFrame([Frame(op, w) EXCEPT !.list = list])
  BY FrameFields
<1>4. ASSUME NEW w, GrabFocus(w) \/ Hide(w) \/ Show(w) \/ SetSensitive(w) \/ SetFocusable(w)
      PROVE  \E op, frames : Call(op, frames) /\ Framed(frames)
  BY <1>1, <1>2, <1>4 DEF GrabFocus, Hide, Show, SetSensitive, SetFocusable
<1>5. ASSUME NEW w, RemoveChild(w)
      PROVE  \E op, frames : Call(op, frames) /\ Framed(frames)
  <2>1. PICK f, g : f = Frame("detached", w) /\ g = [Frame("unlink", w) EXCEPT !.list = Siblings(w)]
    OBVIOUS
  <2>2. Call("detach", <<f, f, g>>) /\ IsFrame(f) /\ IsFrame(g)
    BY <1>1, <1>3, <1>5, <2>1 DEF RemoveChild
  <2> QED
    BY <1>2, <2>2
<1>6. ASSUME NEW w, SetChild(w) \/ \E container : InsertChild(w, container)
      PROVE  \E op, frames : Call(op, frames) /\ Framed(frames)
  BY <1>2, <1>6 DEF InsertChild, SetChild
<1>7. ASSUME NEW sheet, NEW modal, ShowOverlay(sheet, modal)
      PROVE  \E op, frames : Call(op, frames) /\ Framed(frames)
  <2>1. PICK w : Call("show", <<>>) \/ Call("show", <<Frame("focus", w)>> \o <<>>)
    BY <1>7 DEF ShowOverlay, CallShow
  <2>2. PICK f : f = Frame("focus", w)
    OBVIOUS
  <2>3. IsFrame(f) /\ <<f>> \o <<>> = <<f>>
    BY <1>1, <2>2
  <2>4. Call("show", <<>>) \/ Call("show", <<f>>)
    BY <2>1, <2>2, <2>3
  <2> QED
    BY <1>2, <2>3, <2>4
<1>8. ASSUME NEW i, NEW modal, ShowAgain(i, modal)
      PROVE  \E op, frames : Call(op, frames) /\ Framed(frames)
  <2>1. PICK g : g = [Frame("shown", overlays[i].widget) EXCEPT !.list = OverlayList]
    OBVIOUS
  <2>2. PICK w : Call("show", <<>>) \/ Call("show", <<Frame("focus", w)>> \o <<g>>)
    BY <1>8, <2>1 DEF ShowAgain, CallShow
  <2>3. PICK f : f = Frame("focus", w)
    OBVIOUS
  <2>4. IsFrame(f) /\ IsFrame(g)
    BY <1>1, <1>3, <2>1, <2>3
  <2>5. <<f>> \o <<g>> = <<f, g>>
    BY TwoTuples
  <2>6. Call("show", <<>>) \/ Call("show", <<f, g>>)
    BY <2>2, <2>3, <2>5
  <2> QED
    BY <1>2, <2>4, <2>6
<1>9. ASSUME NEW i, Dismiss(i)
      PROVE  \E op, frames : Call(op, frames) /\ Framed(frames)
  <2>1. PICK f, g : /\ f = Frame("focus", None)
                    /\ g = [Frame("leave", overlays[i].widget) EXCEPT !.list = OverlayList]
    OBVIOUS
  <2>2. IsFrame(f) /\ IsFrame(g)
    BY <1>1, <1>3, <2>1
  <2>3. Call("dismiss", <<f>> \o <<g>>) \/ Call("dismiss", <<>> \o <<g>>)
    BY <1>9, <2>1 DEF Dismiss, Unfocused
  <2>4. <<f>> \o <<g>> = <<f, g>> /\ <<>> \o <<g>> = <<g>>
    BY TwoTuples
  <2> QED
    BY <1>2, <2>2, <2>3, <2>4
<1> QED
  BY <1>4, <1>5, <1>6, <1>7, <1>8, <1>9 DEF UserCall

LEMMA ToldPush ==
  ASSUME Framed(stack), NEW op, NEW frames, Call(op, frames), Framed(frames), NEW w,
         Told(w, stack) \/ Told(w, frames)
  PROVE  Told(w, stack')
<1>1. stack' = frames \o stack
  BY DEF Call
<1>2. /\ \A i \in 1..Len(frames) : i \in 1..Len(stack') /\ stack'[i] = frames[i]
      /\ \A k \in 1..Len(stack) : \E i \in 1..Len(stack') : stack'[i] = stack[k]
  BY <1>1, PushKeeps
<1> QED
  BY <1>2 DEF Told

LEMMA FitHide ==
  ASSUME Core, NEW w, Hide(w) \/ SetSensitive(w)
  PROVE  /\ focused' = focused
         /\ \/ Usable(focused) => Usable(focused)'
            \/ focused = w /\ Told(w, stack')
<1>1. PICK u, c : u = UserFrame("event") /\ c = Frame("changed", w)
  OBVIOUS
<1>2. IsFrame(u) /\ IsFrame(c) /\ c.op = "changed" /\ c.w = w
  BY <1>1, FrameFields
<1>3. focused' = focused
  BY DEF Hide, SetSensitive, focus
<1>4. PICK s, t : s = <<u, c>> /\ t = <<c>>
  OBVIOUS
<1>5. /\ Framed(s) /\ Len(s) = 2 /\ s[2] = c /\ 2 \in 1..2
      /\ Framed(t) /\ Len(t) = 1 /\ t[1] = c /\ 1 \in 1..1
  <2>1. Framed(<<u, c>>) /\ Framed(<<c>>)
    BY <1>2, FramedTuples
  <2> QED
    BY <1>4, <2>1
<1>6. Told(w, s) /\ Told(w, t)
  BY <1>2, <1>5 DEF Told
<1>7. \/ Usable(focused) => Usable(focused)'
      \/ focused = w /\ (Call("hide", s) \/ Call("disable", t))
  BY <1>1, <1>3, <1>4 DEF Hide, SetSensitive, Usable
<1>8. Framed(stack)
  BY DEF Core, AllSound
<1> QED
  BY <1>3, <1>5, <1>6, <1>7, <1>8, ToldPush

LEMMA FitCalls ==
  ASSUME CallbackOps["focus"] = {}, CallbackOps["hover"] = {}, Core, Fit, UserCall
  PROVE  Fit'
<1>1. PICK op, frames : Call(op, frames) /\ Framed(frames)
  BY CallsPush
<1>2. Framed(stack)
  BY DEF Core, AllSound
<1>3. ~Waits(stack)
  <2>1. SUFFICES ASSUME Waits(stack) PROVE FALSE
    OBVIOUS
  <2>2. stack # <<>>
    BY <1>2, <2>1, WaitsHead
  <2>3. Head(stack).op = "user" /\ op \in CallbackOps[Head(stack).w]
    BY <1>1, <2>2 DEF Call
  <2>4. ~TellsFocus(Head(stack))
    BY <2>3 DEF TellsFocus
  <2> QED
    BY <1>2, <2>1, <2>3, <2>4, WaitsHead
<1>4. \A w : Told(w, stack) => Told(w, stack')
  BY <1>1, <1>2, ToldPush
<1>5. ASSUME focused' = focused, Usable(focused) => Usable(focused)' PROVE Fit'
  BY <1>3, <1>4, <1>5 DEF Fit
<1>6. ASSUME NEW w, Hide(w) \/ SetSensitive(w) PROVE Fit'
  <2>1. /\ focused' = focused
        /\ \/ Usable(focused) => Usable(focused)'
           \/ focused = w /\ Told(w, stack')
    BY <1>6, FitHide
  <2> QED
    BY <1>5, <2>1 DEF Fit
<1>7. ASSUME NEW w, \/ GrabFocus(w) \/ SetFocusable(w) \/ RemoveChild(w)
                    \/ \E container : InsertChild(w, container)
      PROVE  Fit'
  <2>1. focused' = focused /\ visible' = visible /\ sensitive' = sensitive
    BY <1>7 DEF GrabFocus, SetFocusable, RemoveChild, InsertChild, focus, shown
  <2>2. Usable(focused) => Usable(focused)'
    BY <2>1 DEF Usable, shown
  <2> QED
    BY <1>5, <2>1, <2>2
<1>8. ASSUME NEW w, Show(w) PROVE Fit'
  <2>1. focused' = focused /\ visible \subseteq visible' /\ sensitive' = sensitive
    BY <1>8 DEF Show, focus
  <2>2. Usable(focused) => Usable(focused)'
    BY <2>1 DEF Usable
  <2> QED
    BY <1>5, <2>1, <2>2
<1>9. ASSUME NEW x, NEW y, ShowOverlay(x, y) \/ ShowAgain(x, y) \/ Dismiss(x) PROVE Fit'
  <2>1. focused' = focused /\ UNCHANGED shown
    BY <1>9 DEF ShowOverlay, ShowAgain, Dismiss, focus
  <2>2. Usable(focused) => Usable(focused)'
    BY <2>1 DEF Usable, shown
  <2> QED
    BY <1>5, <2>1, <2>2
<1>10. ASSUME NEW root, SetChild(root) PROVE Fit'
  BY <1>10 DEF SetChild, Fit
<1> QED
  BY <1>6, <1>7, <1>8, <1>9, <1>10 DEF UserCall

LEMMA EventsPush ==
  ASSUME PlatformEvent
  PROVE  stack = <<>> /\ UNCHANGED <<trees, shown, focused>>
  BY DEF PlatformEvent, WindowFocusIn, WindowFocusOut, MouseLeave, Key, Tab, MouseMove,
     MousePress, MouseRelease, Mouse, Event, focus

LEMMA FitStep ==
  ASSUME CallbackOps["focus"] = {}, CallbackOps["hover"] = {}, Core, Fit, [Next]_vars
  PROVE  Fit'
<1>1. Framed(stack)
  BY DEF Core, AllSound
<1>2. ASSUME NEW frames, Framed(frames), Then(frames), stack # <<>>, UNCHANGED <<shown, focused>>,
             Head(stack).op # "changed",
             \/ Head(stack).op \notin {"user", "out", "focus", "take"}
             \/ Head(stack).op \in {"user", "out"} /\ \A f \in Elements(frames) : TellsFocus(f)
      PROVE  Fit'
  <2>1. \A w : Told(w, stack) => Told(w, stack')
    BY <1>1, <1>2, ToldThen
  <2>2. Waits(stack) => Waits(stack')
    <3>1. SUFFICES ASSUME Waits(stack) PROVE Waits(stack')
      OBVIOUS
    <3>2. TellsFocus(Head(stack)) \/ Head(stack).op \in {"focus", "take"}
      BY <1>1, <3>1, WaitsHead
    <3>3. TellsFocus(Head(stack)) /\ \A f \in Elements(frames) : TellsFocus(f)
      BY <1>2, <3>2 DEF TellsFocus
    <3> QED
      BY <1>1, <1>2, <3>1, <3>3, WaitsThen
  <2>3. Usable(focused)' <=> Usable(focused)
    BY <1>2 DEF Usable, shown
  <2> QED
    BY <1>2, <2>1, <2>2, <2>3 DEF Fit
<1>3. ~Crash
  <2>1. Core'
    BY CoreStep
  <2>2. ~crashed'
    BY <2>1 DEF Core, PointersStayGood
  <2> QED
    BY <2>2 DEF Crash
<1>4. CASE Focus \/ Take \/ StateChanged
  BY <1>4, FitFocus, FitTake, FitStateChanged
<1>5. CASE FocusChanged /\ Head(stack).op = "out"
  <2>1. PICK u : u = UserFrame("focus")
    OBVIOUS
  <2>2. IsFrame(u) /\ TellsFocus(u)
    BY <2>1, FrameFields DEF TellsFocus
  <2>3. Then(<<u>>) /\ stack # <<>> /\ UNCHANGED <<shown, focused>>
    BY <1>3, <1>5, <2>1 DEF FocusChanged, At, focus
  <2>4. Framed(<<u>>) /\ \A f \in Elements(<<u>>) : TellsFocus(f)
    <3>1. Framed(<<u>>) /\ Elements(<<u>>) = {u}
      BY <2>2, FramedTuples
    <3> QED
      BY <2>2, <3>1
  <2> QED
    BY <1>2, <1>5, <2>3, <2>4
<1>6. CASE HandlerStep /\ ~(Focus \/ Take \/ StateChanged)
           /\ ~(FocusChanged /\ Head(stack).op = "out")
  <2>1. PICK frames : Framed(frames) /\ Then(frames)
    BY <1>3, <1>6, OthersThen
  <2>2. /\ stack # <<>> /\ UNCHANGED <<shown, focused>>
        /\ Head(stack).op \notin {"user", "out", "focus", "take", "changed"}
    BY <1>3, <1>6, OthersThen
  <2> QED
    BY <1>2, <2>1, <2>2
<1>7. CASE UserReturn
  <2>1. Then(<<>>) /\ stack # <<>> /\ Head(stack).op = "user" /\ UNCHANGED <<shown, focused>>
    BY <1>7 DEF UserReturn, At, focus
  <2>2. Framed(<<>>) /\ \A f \in Elements(<<>>) : TellsFocus(f)
    BY FramedEmpty
  <2> QED
    BY <1>2, <2>1, <2>2
<1>8. CASE PlatformEvent
  <2>1. stack = <<>> /\ UNCHANGED <<shown, focused>>
    BY <1>8, EventsPush
  <2>2. ~Waits(stack) /\ \A w : ~Told(w, stack)
    <3>1. Len(stack) = 0 /\ 1..0 = {}
      BY <2>1, FramedEmpty
    <3> QED
      BY <3>1 DEF Waits, Told
  <2>3. Usable(focused)' <=> Usable(focused)
    BY <2>1 DEF Usable, shown
  <2> QED
    BY <2>1, <2>2, <2>3 DEF Fit
<1>9. CASE UserCall
  BY <1>9, FitCalls
<1>10. CASE UNCHANGED vars
  <2>1. focused' = focused /\ stack' = stack /\ (Usable(focused)' <=> Usable(focused))
    BY <1>10 DEF vars, shown, focus, Usable
  <2> QED
    BY <2>1 DEF Fit
<1> QED
  BY <1>4, <1>5, <1>6, <1>7, <1>8, <1>9, <1>10 DEF Next

\* Under the same condition the focused widget is visible and sensitive itself
\* whenever nothing is in progress, whatever event handlers hide and disable and
\* however the calls nest.
THEOREM FocusOwnerIsUsable ==
  ASSUME CallbackOps["focus"] = {}, CallbackOps["hover"] = {}
  PROVE  Spec => []FocusedIsUsable
<1>1. Init => Core /\ Fit
  BY CoreInit DEF Init, Fit
<1>2. Core /\ Fit /\ [Next]_vars => Core' /\ Fit'
  BY CoreStep, FitStep
<1>3. Core /\ Fit => FocusedIsUsable
  <2>1. 1..0 = {} /\ Len(<<>>) = 0
    BY FramedEmpty
  <2> QED
    BY <2>1 DEF Fit, Usable, FocusedIsUsable, Quiet, Waits, Told
<1> QED
  BY <1>1, <1>2, <1>3, PTL DEF Spec

(***************************************************************************)
(* What a widget that was hidden or disabled still has.                     *)
(***************************************************************************)
Unused ==
  last.op = "release" =>
    /\ \A i \in 1..Len(stack) : Free(stack[i]) \/ Clears(stack[i])
    /\ last.w \notin visible \cap sensitive =>
         /\ ~Inside(hovered, last.w) /\ ~Inside(pressed, last.w)
         /\ Inside(focused, last.w) => Waits(stack)

LEMMA UnusedThen ==
  ASSUME Core, Unused, last.op = "release", last' = last, UNCHANGED <<trees, shown, hovered>>,
         pressed' \in {pressed, None}, focused' \in {focused, None}, stack # <<>>,
         NEW frames, Framed(frames), Then(frames),
         \A f \in Elements(frames) : Free(f) \/ Clears(f),
         Waits(stack) /\ focused' # None => Waits(stack')
  PROVE  Unused'
<1>1. Framed(stack)
  BY DEF Core, AllSound
<1>2. \A i \in 1..Len(stack') : Free(stack'[i]) \/ Clears(stack'[i])
  <2>1. /\ \A i \in 1..Len(frames) : stack'[i] = frames[i]
        /\ \A i \in 1..Len(stack') : i \in 1..Len(frames) \/
             \E k \in 1..Len(stack) : stack'[i] = stack[k]
    BY <1>1, StackThen
  <2>2. \A i \in 1..Len(frames) : Free(frames[i]) \/ Clears(frames[i])
    BY FramedFacts
  <2> QED
    BY <2>1, <2>2 DEF Unused
<1>3. PICK x, y, z : x = last.w /\ y = pressed' /\ z = focused'
  OBVIOUS
<1>4. /\ Inside(hovered, x)' <=> Inside(hovered, x)
      /\ Inside(pressed, x)' => Inside(pressed, x)
      /\ Inside(focused, x)' => Inside(focused, x) /\ focused' # None
  <2>1. Inside(hovered, x)' <=> Inside(hovered, x)
    BY TreesStay DEF Inside
  <2>2. (Inside(y, x)' <=> Inside(y, x)) /\ (Inside(z, x)' <=> Inside(z, x)) /\ ~Inside(None, x)
    BY TreesStay DEF Inside
  <2>3. (Inside(pressed, x)' <=> Inside(y, x)') /\ (Inside(focused, x)' <=> Inside(z, x)')
    BY <1>3 DEF Inside
  <2> QED
    BY <1>3, <2>1, <2>2, <2>3
<1>5. /\ last.op = "release" /\ (x \notin visible \cap sensitive =>
           /\ ~Inside(hovered, x) /\ ~Inside(pressed, x)
           /\ Inside(focused, x) => Waits(stack))
  BY <1>3 DEF Unused
<1>6. x \notin (visible \cap sensitive)' =>
           /\ ~Inside(hovered, x)' /\ ~Inside(pressed, x)'
           /\ Inside(focused, x)' => Waits(stack)'
  BY <1>4, <1>5 DEF shown
<1>7. last'.w = x
  BY <1>3
<1> QED
  BY <1>2, <1>6, <1>7 DEF Unused

LEMMA UnusedStateChanged ==
  ASSUME Core, StateChanged
  PROVE  Unused'
<1>1. /\ stack # <<>> /\ Head(stack).op = "changed" /\ Arg = Head(stack).w /\ Framed(stack)
      /\ UNCHANGED <<trees, shown, focus>> /\ last' = [op |-> "release", w |-> Arg]
  BY AtHead DEF StateChanged, AllSound
<1>2. PICK f, x : f = Frame("focus", None) /\ x = Arg
  OBVIOUS
<1>3. IsFrame(f) /\ f.op = "focus" /\ f.w = None /\ Clears(f)
  BY <1>2, FrameFields DEF Clears
<1>4. x \in Pointers
  BY <1>2, AtHead DEF StateChanged, Sound, TypedFrame
<1>5. PICK frames :
        /\ Framed(frames) /\ Then(frames)
        /\ frames = <<>> \/ frames = <<f>>
        /\ x \notin visible \cap sensitive =>
             /\ ~Inside(hovered', x) /\ ~Inside(pressed', x)
             /\ Inside(focused, x) => frames = <<f>>
  <2>1. CASE x \in visible \cap sensitive \/ ~InWindow(x)
    <3>1. Then(<<>>) /\ Framed(<<>>) /\ UNCHANGED pointer
      BY <1>2, <2>1, FramedEmpty DEF StateChanged
    <3>2. ~InWindow(x) => \A p \in {hovered, pressed, focused} : ~Inside(p, x)
      BY WindowIsClosed, PointersAre DEF Core, Good, Inside
    <3> QED
      BY <2>1, <3>1, <3>2 DEF pointer
  <2>2. CASE ~(x \in visible \cap sensitive \/ ~InWindow(x))
    <3>1. /\ Then(Unfocused(x)) /\ hovered' = Cleared(hovered, x) /\ pressed' = Cleared(pressed, x)
      BY <1>2, <2>2 DEF StateChanged
    <3>2. ~Inside(hovered', x) /\ ~Inside(pressed', x)
      BY <3>1, ClearedIsOutside
    <3>3. (Inside(focused, x) /\ Then(<<f>>)) \/ (~Inside(focused, x) /\ Then(<<>>))
      BY <1>2, <3>1 DEF Unfocused
    <3>4. Framed(<<f>>) /\ Framed(<<>>)
      BY <1>3, FramedTuples, FramedEmpty
    <3> QED
      BY <3>2, <3>3, <3>4
  <2> QED
    BY <2>1, <2>2
<1>6. \A i \in 1..Len(stack') : Free(stack'[i]) \/ Clears(stack'[i])
  <2>1. /\ \A i \in 1..Len(frames) : stack'[i] = frames[i]
        /\ \A i \in 1..Len(stack') : i \in 1..Len(frames) \/
             \E k \in 1..Len(stack) : \E B :
                /\ k > 1 /\ stack'[i] = stack[k]
                /\ Over(stack, k) = {Head(stack)} \cup B
                /\ Over(stack', i) = Elements(frames) \cup B
    BY <1>1, <1>5, StackThen
  <2>2. \A i \in 1..Len(frames) : Clears(frames[i])
    <3>1. Elements(<<>>) = {} /\ Elements(<<f>>) = {f}
      BY <1>3, FramedEmpty, FramedTuples
    <3>2. \A i \in 1..Len(frames) : frames[i] \in Elements(frames)
      BY <1>5, FramedFacts
    <3> QED
      BY <1>3, <1>5, <3>1, <3>2
  <2>3. ASSUME NEW k \in 1..Len(stack), NEW B, Over(stack, k) = {Head(stack)} \cup B
        PROVE  Free(stack[k])
    <3>1. Sound(stack[k], Over(stack, k))
      BY DEF Core, AllSound
    <3>2. Precedes(Head(stack), stack[k])
      BY <2>3, <3>1 DEF Sound
    <3> QED
      BY <1>1, <3>2 DEF Precedes, FocusOps, Clears
  <2> QED
    BY <2>1, <2>2, <2>3
<1>7. frames = <<f>> => Waits(stack')
  <2>1. SUFFICES ASSUME frames = <<f>> PROVE Waits(stack')
    OBVIOUS
  <2>2. Len(<<f>>) = 1 /\ frames[1] = f
    BY <1>3, <2>1, FramedTuples
  <2>3. Over(frames, 1) = {} /\ 1 \in 1..Len(frames)
    BY <2>1, <2>2, OverStart
  <2>4. Waits(frames)
    BY <1>3, <2>2, <2>3 DEF Waits
  <2> QED
    BY <1>1, <1>5, <2>4, WaitsThen
<1>8. PICK p, q : p = hovered' /\ q = pressed'
  OBVIOUS
<1>9. /\ Inside(hovered, x)' <=> Inside(p, x)
      /\ Inside(pressed, x)' <=> Inside(q, x)
      /\ Inside(focused, x)' <=> Inside(focused, x)
  <2>1. (Inside(p, x)' <=> Inside(p, x)) /\ (Inside(q, x)' <=> Inside(q, x))
    BY <1>1, TreesStay
  <2>2. (Inside(hovered, x)' <=> Inside(p, x)') /\ (Inside(pressed, x)' <=> Inside(q, x)')
    BY <1>8 DEF Inside
  <2>3. Inside(focused, x)' <=> Inside(focused, x)
    BY <1>1, TreesStay DEF focus, Inside
  <2> QED
    BY <2>1, <2>2, <2>3
<1>10. x \notin (visible \cap sensitive)' =>
           /\ ~Inside(hovered, x)' /\ ~Inside(pressed, x)'
           /\ Inside(focused, x)' => Waits(stack)'
  <2>1. visible' = visible /\ sensitive' = sensitive
    BY <1>1 DEF shown
  <2> QED
    BY <1>5, <1>7, <1>8, <1>9, <2>1
<1>11. last'.w = x
  BY <1>1, <1>2
<1> QED
  BY <1>6, <1>10, <1>11 DEF Unused

\* The steps that begin something: nothing was being released.
LEMMA OthersAreRecorded ==
  ASSUME PlatformEvent \/ UserCall
  PROVE  last'.op # "release"
<1>1. Other.op # "release" /\ \A w : [op |-> "return", w |-> w].op # "release"
  BY DEF Other
<1>2. CASE PlatformEvent
  <2>1. last' = Other \/ \E w : last' = [op |-> "return", w |-> w]
    BY <1>2 DEF PlatformEvent, WindowFocusIn, WindowFocusOut, MouseLeave, Key, Tab, MouseMove,
       MousePress, MouseRelease, Mouse
  <2> QED
    BY <1>1, <2>1
<1>3. CASE UserCall
  <2>1. last' = Other
    BY <1>3 DEF UserCall, GrabFocus, Hide, Show, SetSensitive, SetFocusable, RemoveChild, InsertChild,
       SetChild, ShowOverlay, ShowAgain, Dismiss
  <2> QED
    BY <1>1, <2>1
<1> QED
  BY <1>2, <1>3

\* While something is being released only these steps are taken.
LEMMA ReleaseSteps ==
  ASSUME Core, Unused, last.op = "release", [Next]_vars, ~Crash
  PROVE  \/ PlatformEvent \/ UserCall \/ StateChanged \/ UNCHANGED vars
         \/ UserReturn \/ FocusChanged \/ Focus \/ Take \/ Released
<1>1. HandlerStep => stack # <<>> /\ (Free(Head(stack)) \/ Clears(Head(stack)))
  <2>1. SUFFICES ASSUME HandlerStep, stack # <<>> PROVE Free(Head(stack)) \/ Clears(Head(stack))
    BY DEF HandlerStep, FocusStep, Focus, FocusChanged, Take, Taken, Restore, RestoreFirst,
       SetHovered, Bubble, MoveDeliver, PressDeliver, ReleaseDeliver, Released, StateChanged,
       Detached, Forget, Unlink, ShownAgain, DismissLeave, DismissErase, At
  <2>2. Framed(stack)
    BY DEF Core, AllSound
  <2>3. Head(stack) = stack[1] /\ 1 \in 1..Len(stack)
    BY <2>1, <2>2, OverHead, FramedFacts
  <2> QED
    BY <2>3 DEF Unused
<1>2. HandlerStep => Head(stack).op \in {"user", "changed", "released", "out", "focus", "take"}
  BY <1>1 DEF Free, Clears
<1>3. HandlerStep => ~(Taken \/ Restore \/ RestoreFirst)
  BY <1>2 DEF Taken, Restore, RestoreFirst, At
<1>4. HandlerStep => ~(SetHovered \/ Bubble \/ MoveDeliver \/ PressDeliver \/ ReleaseDeliver)
  BY <1>2 DEF SetHovered, Bubble, MoveDeliver, PressDeliver, ReleaseDeliver, At
<1>5. HandlerStep => ~(Detached \/ Forget \/ Unlink \/ ShownAgain \/ DismissLeave \/ DismissErase)
  BY <1>2 DEF Detached, Forget, Unlink, ShownAgain, DismissLeave, DismissErase, At
<1> QED
  BY <1>3, <1>4, <1>5 DEF Next, HandlerStep, FocusStep

\* And no other begins to.
LEMMA ReleaseBegins ==
  ASSUME Core, [Next]_vars, last.op # "release"
  PROVE  StateChanged \/ last'.op # "release"
<1>1. Other.op # "release" /\ \A w : [op |-> "return", w |-> w].op # "release"
  BY DEF Other
<1>2. CASE FocusStep
  <2>1. last' = last
    BY <1>2 DEF FocusStep, Focus, FocusChanged, Take, Taken, Restore, RestoreFirst, Crash
  <2> QED
    BY <2>1
<1>3. CASE SetHovered \/ Bubble \/ MoveDeliver \/ PressDeliver \/ ReleaseDeliver \/ Released
  <2>1. last' = last
    BY <1>3 DEF SetHovered, Bubble, MoveDeliver, PressDeliver, ReleaseDeliver, Released, Crash
  <2> QED
    BY <2>1
<1>4. CASE Forget \/ Unlink \/ ShownAgain \/ DismissLeave \/ UserReturn \/ UNCHANGED vars
  <2>1. last' = last
    BY <1>4 DEF Forget, Unlink, ShownAgain, DismissLeave, UserReturn, Crash, vars
  <2> QED
    BY <2>1
<1>5. CASE Detached
  BY <1>1, <1>5 DEF Detached
<1>6. CASE DismissErase
  <2>1. last' = last \/ \E w : last' = [op |-> "return", w |-> w]
    BY <1>6 DEF DismissErase, Crash
  <2> QED
    BY <1>1, <2>1
<1>7. CASE PlatformEvent \/ UserCall
  BY <1>7, OthersAreRecorded
<1> QED
  BY <1>2, <1>3, <1>4, <1>5, <1>6, <1>7 DEF Next, HandlerStep

LEMMA UnusedStep ==
  ASSUME CallbackOps["focus"] = {}, CallbackOps["hover"] = {}, Core, Unused, [Next]_vars
  PROVE  Unused'
<1>1. ~Crash
  <2>1. Core'
    BY CoreStep
  <2>2. ~crashed'
    BY <2>1 DEF Core, PointersStayGood
  <2> QED
    BY <2>2 DEF Crash
<1>2. CASE last'.op # "release"
  BY <1>2 DEF Unused
<1>3. CASE StateChanged
  BY <1>3, UnusedStateChanged
<1>4. ASSUME last.op = "release", FocusChanged PROVE Unused'
  <2>1. PICK u : u = UserFrame("focus")
    OBVIOUS
  <2>2. IsFrame(u) /\ u.op = "user" /\ u.w = "focus"
    BY <2>1, FrameFields
  <2>3. TellsFocus(u) /\ Free(u)
    BY <2>2 DEF TellsFocus, Free
  <2>4. PICK frames : frames = <<u>>
    OBVIOUS
  <2>5. Framed(frames) /\ Elements(frames) = {u}
    BY <2>2, <2>4, FramedTuples
  <2>6. /\ Then(frames) /\ stack # <<>> /\ last' = last
        /\ UNCHANGED <<trees, shown, hovered, pressed, focused>>
    BY <1>1, <1>4, <2>1, <2>4 DEF FocusChanged, At, focus, pointer
  <2>7. Head(stack).op \in {"out", "in"} /\ Framed(stack)
    BY <1>4 DEF FocusChanged, At, Core, AllSound
  <2>8. Waits(stack) => Waits(stack')
    <3>1. SUFFICES ASSUME Waits(stack) PROVE Waits(stack')
      OBVIOUS
    <3>2. TellsFocus(Head(stack))
      BY <2>7, <3>1, WaitsHead
    <3> QED
      BY <2>3, <2>5, <2>6, <2>7, <3>1, <3>2, WaitsThen
  <2> QED
    BY <1>4, <2>3, <2>5, <2>6, <2>8, UnusedThen
<1>5. ASSUME last.op = "release", Focus PROVE Unused'
  <2>1. /\ stack # <<>> /\ Head(stack).op = "focus" /\ Arg = Head(stack).w /\ Framed(stack)
        /\ UNCHANGED <<trees, shown, pointer, focused, pending, crashed, last>>
    BY <1>5, FocusDoes
  <2>2. PICK frames :
          /\ Framed(frames) /\ Then(frames)
          /\ \/ frames = <<>> /\ (Arg = None => focused = None)
             \/ \E n \in 1..Len(frames) : /\ frames[n].op = "take"
                                          /\ (Arg = None => frames[n].w = None)
                                          /\ \A f \in Over(frames, n) : TellsFocus(f)
                                          /\ \A i \in 1..Len(frames) : i = n \/ TellsFocus(frames[i])
    BY <1>5, FocusDoes
  <2>3. Arg = None
    <3>1. Head(stack) = stack[1] /\ 1 \in 1..Len(stack)
      BY <2>1, OverHead, FramedFacts
    <3>2. Clears(Head(stack))
      BY <1>5, <2>1, <3>1 DEF Unused, Free
    <3> QED
      BY <2>1, <3>2 DEF Clears
  <2>4. \A f \in Elements(frames) : Clears(f)
    <3>1. Elements(<<>>) = {}
      BY FramedEmpty
    <3>2. \A f : TellsFocus(f) => Clears(f)
      BY DEF TellsFocus, Clears
    <3>3. ASSUME NEW n \in 1..Len(frames), frames[n].op = "take", frames[n].w = None,
                 \A i \in 1..Len(frames) : i = n \/ TellsFocus(frames[i]),
                 NEW f \in Elements(frames)
          PROVE  Clears(f)
      BY <3>2, <3>3 DEF Elements, Clears
    <3> QED
      BY <2>2, <2>3, <3>1, <3>3
  <2>5. focused' # None => (Waits(stack) => Waits(stack'))
    <3>1. SUFFICES ASSUME focused' # None PROVE Waits(stack')
      OBVIOUS
    <3>2. focused # None
      BY <2>1, <3>1
    <3>3. Waits(frames)
      BY <2>2, <2>3, <3>2 DEF Waits
    <3> QED
      BY <2>1, <2>2, <3>3, WaitsThen
  <2> QED
    BY <1>5, <2>1, <2>2, <2>4, <2>5, UnusedThen DEF pointer
<1>6. ASSUME last.op = "release", Take PROVE Unused'
  <2>1. /\ stack # <<>> /\ Head(stack).op = "take" /\ Arg = Head(stack).w /\ Framed(stack)
        /\ UNCHANGED <<trees, shown, pointer, last>> /\ focused' = Arg
    BY <1>6, AtHead DEF Take, AllSound
  <2>2. Arg = None
    <3>1. Head(stack) = stack[1] /\ 1 \in 1..Len(stack)
      BY <2>1, OverHead, FramedFacts
    <3>2. Clears(Head(stack))
      BY <1>6, <2>1, <3>1 DEF Unused, Free
    <3> QED
      BY <2>1, <3>2 DEF Clears
  <2>3. Then(<<>>) /\ Framed(<<>>) /\ Elements(<<>>) = {}
    BY <1>6, <2>2, FramedEmpty DEF Take
  <2>4. focused' = None /\ hovered' = hovered /\ pressed' = pressed
    BY <2>1, <2>2 DEF pointer
  <2>5. PICK frames : frames = <<>>
    OBVIOUS
  <2> QED
    BY <1>6, <2>1, <2>3, <2>4, <2>5, UnusedThen
<1>7. ASSUME last.op = "release", UserReturn \/ Released PROVE Unused'
  <2>1. /\ stack # <<>> /\ Head(stack).op \in {"user", "released"} /\ Then(<<>>) /\ last' = last
        /\ UNCHANGED <<trees, shown, hovered, focused>> /\ pressed' \in {pressed, None}
    BY <1>7 DEF UserReturn, Released, At, focus, pointer
  <2>2. Framed(<<>>) /\ Elements(<<>>) = {} /\ Framed(stack)
    BY FramedEmpty DEF Core, AllSound
  <2>3. Waits(stack) => Waits(stack')
    <3>1. SUFFICES ASSUME Waits(stack) PROVE Waits(stack')
      OBVIOUS
    <3>2. TellsFocus(Head(stack))
      BY <2>1, <2>2, <3>1, WaitsHead
    <3> QED
      BY <2>1, <2>2, <3>1, <3>2, WaitsThen
  <2>4. PICK frames : frames = <<>>
    OBVIOUS
  <2> QED
    BY <1>7, <2>1, <2>2, <2>3, <2>4, UnusedThen
<1>8. CASE UNCHANGED vars
  <2>1. /\ stack' = stack /\ last' = last /\ UNCHANGED <<trees, shown>>
        /\ hovered' = hovered /\ pressed' = pressed /\ focused' = focused
    BY <1>8 DEF vars, pointer, focus
  <2>2. visible' = visible /\ sensitive' = sensitive /\ Path' = Path
    BY <2>1 DEF shown, trees, Path
  <2> QED
    BY <2>1, <2>2 DEF Unused, Inside
<1>9. CASE last'.op = "release" /\ ~StateChanged
  <2>1. last.op = "release"
    BY <1>9, ReleaseBegins
  <2>2. ~PlatformEvent /\ ~UserCall
    BY <1>9, OthersAreRecorded
  <2> QED
    BY <1>1, <1>4, <1>5, <1>6, <1>7, <1>8, <1>9, <2>1, <2>2, ReleaseSteps
<1> QED
  BY <1>2, <1>3, <1>9

\* Under the same condition nothing in a subtree that was hidden or disabled is left
\* hovered, pressed or focused when the handler of the change has run to its end,
\* even if a slot of on_unmap moved the focus or hid more.
THEOREM UnusableIsReleased ==
  ASSUME CallbackOps["focus"] = {}, CallbackOps["hover"] = {}
  PROVE  Spec => []UnusableTreesAreReleased
<1>1. Init => Core /\ Unused
  BY CoreInit DEF Init, Unused, Other
<1>2. Core /\ Unused /\ [Next]_vars => Core' /\ Unused'
  BY CoreStep, UnusedStep
<1>3. Core /\ Unused => UnusableTreesAreReleased
  <2>1. 1..0 = {} /\ Len(<<>>) = 0
    BY FramedEmpty
  <2>2. stack = <<>> => ~Waits(stack)
    BY <2>1 DEF Waits
  <2> QED
    BY <2>2 DEF Unused, UnusableTreesAreReleased, Quiet
<1> QED
  BY <1>1, <1>2, <1>3, PTL DEF Spec

(***************************************************************************)
(* Giving the focus back.                                                   *)
(***************************************************************************)
Gives == {"restore", "focus", "take"}

GivesBack == FocusOps \cup {"restore", "first", "changed", "released"}

\* The widget can have the focus: focus_widget() will not refuse it.
Able(w) == InWindow(w) /\ CanFocus(w) /\ (TopModal = None \/ Inside(w, TopModal))

\* At most one frame is about to give the focus to a widget.
Lone(s) ==
  \A i \in 1..Len(s) : s[i].op \in Gives => \A f \in Over(s, i) : f.op \notin Gives

\* The widget has the focus and nothing is about to take it away, or it is about
\* to get it.
Gets(w, s) ==
  \/ focused = w /\ \A i \in 1..Len(s) : s[i].op \notin Gives \cup {"out"}
  \/ \E i \in 1..Len(s) : s[i].op \in Gives /\ s[i].w = w

Returning ==
  last.op = "return" =>
    /\ \A i \in 1..Len(stack) : stack[i].op \in GivesBack
    /\ Lone(stack)
    /\ Able(last.w) => Gets(last.w, stack)

LEMMA BelowHead ==
  ASSUME Core, stack # <<>>, NEW k \in 1..Len(stack), k > 1
  PROVE  Precedes(Head(stack), stack[k]) /\ Head(stack) \in Over(stack, k)
<1>1. stack[1] = Head(stack) /\ Len(stack) \in Nat
  BY OverHead, FramedFacts DEF Core, AllSound
<1>2. 1 \in 1..(k - 1)
  BY <1>1
<1>3. Head(stack) \in Over(stack, k)
  BY <1>1, <1>2 DEF Over
<1>4. Sound(stack[k], Over(stack, k))
  BY DEF Core, AllSound
<1> QED
  BY <1>3, <1>4 DEF Sound

LEMMA HeadGets ==
  ASSUME Core, stack # <<>>, Lone(stack), Head(stack).op \in Gives, NEW w
  PROVE  /\ \A k \in 1..Len(stack) : k > 1 => stack[k].op \notin Gives
         /\ Gets(w, stack) => Head(stack).w = w
<1>1. \A k \in 1..Len(stack) : k > 1 => stack[k].op \notin Gives
  BY BelowHead DEF Lone
<1>2. stack[1] = Head(stack) /\ Len(stack) \in Nat /\ 1 \in 1..Len(stack)
  BY OverHead, FramedFacts DEF Core, AllSound
<1>3. \A k \in 1..Len(stack) : k = 1 \/ k > 1
  BY <1>2
<1> QED
  BY <1>1, <1>2, <1>3 DEF Gets

LEMMA AbleStays ==
  ASSUME UNCHANGED <<trees, shown>>, NEW w
  PROVE  Able(w)' <=> Able(w)
<1>1. /\ Path' = Path /\ overlays' = overlays
      /\ visible' = visible /\ sensitive' = sensitive /\ focusable' = focusable
  BY DEF Path, trees, shown
<1>2. TopModal' = TopModal
  BY <1>1 DEF TopModal
<1>3. CanFocus(w)' <=> CanFocus(w)
  BY <1>1 DEF CanFocus
<1>4. InWindow(w)' <=> InWindow(w)
  BY TreesStay
<1> QED
  BY <1>1, <1>2, <1>3, <1>4 DEF Able, Inside

LEMMA ReturningThen ==
  ASSUME Core, Returning, last.op = "return", last' = last, UNCHANGED <<trees, shown>>,
         stack # <<>>, NEW frames, Framed(frames), Then(frames),
         \A f \in Elements(frames) : f.op \in GivesBack,
         Lone(frames),
         \/ \A f \in Elements(frames) : f.op \notin Gives
         \/ \A k \in 1..Len(stack) : k > 1 => stack[k].op \notin Gives,
         Able(last.w) => Gets(last.w, stack)'
  PROVE  Returning'
<1>1. Framed(stack)
  BY DEF Core, AllSound
<1>2. /\ \A i \in 1..Len(frames) : stack'[i] = frames[i] /\ Over(stack', i) = Over(frames, i)
      /\ \A i \in 1..Len(stack') : i \in 1..Len(frames) \/
           \E k \in 1..Len(stack) : \E B :
              /\ k > 1 /\ stack'[i] = stack[k]
              /\ Over(stack, k) = {Head(stack)} \cup B
              /\ Over(stack', i) = Elements(frames) \cup B
  BY <1>1, StackThen
<1>3. \A i \in 1..Len(frames) : frames[i] \in Elements(frames)
  BY FramedFacts
<1>4. \A i \in 1..Len(stack') : stack'[i].op \in GivesBack
  BY <1>2, <1>3 DEF Returning
<1>5. ASSUME NEW i \in 1..Len(stack'), stack'[i].op \in Gives, NEW f \in Over(stack', i)
      PROVE  f.op \notin Gives
  <2>1. CASE i \in 1..Len(frames)
    BY <1>2, <1>5, <2>1 DEF Lone
  <2>2. CASE i \notin 1..Len(frames)
    <3>1. PICK k, B :
              /\ k \in 1..Len(stack) /\ k > 1 /\ stack'[i] = stack[k]
              /\ Over(stack, k) = {Head(stack)} \cup B
              /\ Over(stack', i) = Elements(frames) \cup B
      BY <1>2, <2>2
    <3>2. \A g \in B : g.op \notin Gives
      BY <1>5, <3>1 DEF Returning, Lone
    <3>3. \A g \in Elements(frames) : g.op \notin Gives
      BY <1>5, <3>1
    <3> QED
      BY <1>5, <3>1, <3>2, <3>3
  <2> QED
    BY <2>1, <2>2
<1>6. Lone(stack')
  BY <1>5 DEF Lone
<1>7. PICK w : w = last.w
  OBVIOUS
<1>8. Able(w)' => Gets(w, stack)'
  BY <1>7, AbleStays
<1>9. last'.w = w
  BY <1>7
<1>10. Lone(stack)'
  BY <1>6 DEF Lone, Over
<1> QED
  BY <1>4, <1>8, <1>9, <1>10 DEF Returning

\* A step that neither gives nor takes the focus.
LEMMA ReturningKeeps ==
  ASSUME Core, Returning, last.op = "return", last' = last, UNCHANGED <<trees, shown, focused>>,
         stack # <<>>, NEW frames, Framed(frames), Then(frames),
         \A f \in Elements(frames) : f.op \in GivesBack \ (Gives \cup {"out"}),
         Head(stack).op \notin Gives
  PROVE  Returning'
<1>1. Framed(stack)
  BY DEF Core, AllSound
<1>2. \A i \in 1..Len(frames) : frames[i] \in Elements(frames)
  BY FramedFacts
<1>3. Lone(frames)
  BY <1>2 DEF Lone
<1>4. PICK w : w = last.w
  OBVIOUS
<1>5. ASSUME Gets(w, stack) PROVE Gets(w, stack)'
  <2>1. CASE focused = w /\ \A i \in 1..Len(stack) : stack[i].op \notin Gives \cup {"out"}
    <3>1. /\ \A i \in 1..Len(frames) : stack'[i] = frames[i]
          /\ \A i \in 1..Len(stack') : i \in 1..Len(frames) \/
               \E k \in 1..Len(stack) : stack'[i] = stack[k]
      BY <1>1, StackThen
    <3>2. \A i \in 1..Len(stack') : stack'[i].op \notin Gives \cup {"out"}
      BY <1>2, <2>1, <3>1
    <3> QED
      BY <2>1, <3>2 DEF Gets
  <2>2. ASSUME NEW k \in 1..Len(stack), stack[k].op \in Gives, stack[k].w = w
        PROVE  Gets(w, stack)'
    <3>1. k > 1
      <4>1. stack[1] = Head(stack) /\ Len(stack) \in Nat
        BY <1>1, OverHead, FramedFacts
      <4>2. k # 1
        BY <2>2, <4>1
      <4> QED
        BY <4>1, <4>2
    <3>2. PICK i \in 1..Len(stack') : stack'[i] = stack[k]
      BY <1>1, <3>1, StackKeeps
    <3> QED
      BY <2>2, <3>2 DEF Gets
  <2> QED
    BY <1>5, <2>1, <2>2 DEF Gets
<1>6. Able(last.w) => Gets(last.w, stack)'
  BY <1>4, <1>5 DEF Returning
<1>7. \A f \in Elements(frames) : f.op \in GivesBack /\ f.op \notin Gives
  OBVIOUS
<1> QED
  BY <1>3, <1>6, <1>7, ReturningThen

LEMMA LoneTuples ==
  ASSUME NEW f, NEW g, IsFrame(f), IsFrame(g), f.op \notin Gives \/ g.op \notin Gives
  PROVE  Lone(<<>>) /\ Lone(<<f>>) /\ Lone(<<f, g>>)
<1>1. PICK a, b, c : a = <<>> /\ b = <<f>> /\ c = <<f, g>>
  OBVIOUS
<1>2. Len(a) = 0 /\ Len(b) = 1 /\ Len(c) = 2 /\ b[1] = f /\ c[1] = f /\ c[2] = g
  BY <1>1
<1>3. 1..0 = {} /\ 1..1 = {1} /\ 1..2 = {1, 2}
  BY OverStart
<1>4. Over(b, 1) = {} /\ Over(c, 1) = {} /\ Over(c, 2) = {f}
  BY <1>2, OverStart
<1>5. Lone(a)
  BY <1>2, <1>3 DEF Lone
<1>6. Lone(b)
  BY <1>2, <1>3, <1>4 DEF Lone
<1>7. Lone(c)
  BY <1>2, <1>3, <1>4 DEF Lone
<1> QED
  BY <1>1, <1>5, <1>6, <1>7

\* A frame among those a step pushed.
LEMMA GetsNext ==
  ASSUME Core, stack # <<>>, NEW frames, Framed(frames), Then(frames), NEW w,
         NEW i \in 1..Len(frames), frames[i].op \in Gives, frames[i].w = w
  PROVE  Gets(w, stack)'
<1>1. i \in 1..Len(stack') /\ stack'[i] = frames[i]
  BY StackKeeps DEF Core, AllSound
<1> QED
  BY <1>1 DEF Gets

\* No frame gives or takes the focus any more.
LEMMA HasNext ==
  ASSUME Core, stack # <<>>, NEW frames, Framed(frames), Then(frames), NEW w, focused' = w,
         \A f \in Elements(frames) : f.op \notin Gives \cup {"out"},
         \A k \in 1..Len(stack) : k > 1 => stack[k].op \notin Gives \cup {"out"}
  PROVE  Gets(w, stack)'
<1>1. /\ \A i \in 1..Len(frames) : stack'[i] = frames[i]
      /\ \A i \in 1..Len(stack') : i \in 1..Len(frames) \/
           \E k \in 1..Len(stack) : \E B :
              /\ k > 1 /\ stack'[i] = stack[k]
              /\ Over(stack, k) = {Head(stack)} \cup B
              /\ Over(stack', i) = Elements(frames) \cup B
  <2>1. Framed(stack)
    BY DEF Core, AllSound
  <2> QED
    BY <2>1, StackThen
<1>2. \A i \in 1..Len(frames) : frames[i] \in Elements(frames)
  BY FramedFacts
<1>3. \A i \in 1..Len(stack') : stack'[i].op \notin Gives \cup {"out"}
  BY <1>1, <1>2
<1> QED
  BY <1>3 DEF Gets

LEMMA ReturningFocus ==
  ASSUME Core, Returning, last.op = "return", Focus
  PROVE  Returning'
<1>1. /\ stack # <<>> /\ Head(stack).op = "focus" /\ Arg = Head(stack).w /\ Framed(stack)
      /\ UNCHANGED <<trees, shown, pointer, focused, pending, crashed, last>>
  BY FocusDoes
<1>2. PICK frames :
        /\ Framed(frames) /\ Then(frames)
        /\ \/ /\ frames = <<>>
              /\ (Arg # None /\ CanFocus(Arg) /\ InWindow(Arg)
                    /\ (TopModal = None \/ Inside(Arg, TopModal)) => focused = Arg)
           \/ \E n \in 1..Len(frames) :
                /\ frames[n].op = "take"
                /\ (Arg # None /\ CanFocus(Arg) /\ InWindow(Arg) => frames[n].w = Arg)
                /\ \A f \in Over(frames, n) : TellsFocus(f)
                /\ \A i \in 1..Len(frames) : i = n \/ TellsFocus(frames[i])
  BY FocusDoes
<1>3. Lone(stack) /\ (Able(last.w) => Gets(last.w, stack))
  BY DEF Returning
<1>4. Head(stack).op \in Gives
  BY <1>1 DEF Gives
<1>5. \A k \in 1..Len(stack) : k > 1 => stack[k].op \notin Gives \cup {"out"}
  <2>1. \A k \in 1..Len(stack) : k > 1 => stack[k].op \notin Gives
    BY <1>1, <1>3, <1>4, HeadGets
  <2>2. ASSUME NEW k \in 1..Len(stack), k > 1, stack[k].op = "out" PROVE FALSE
    <3>1. Precedes(Head(stack), stack[k])
      BY <1>1, <2>2, BelowHead
    <3> QED
      BY <1>1, <2>2, <3>1 DEF Precedes, Free
  <2> QED
    BY <2>1, <2>2
<1>6. PICK w : w = last.w
  OBVIOUS
<1>7. Able(w) => Arg = w /\ w # None /\ CanFocus(w) /\ InWindow(w)
                   /\ (TopModal = None \/ Inside(w, TopModal))
  <2>1. Able(w) => Head(stack).w = w
    BY <1>1, <1>3, <1>4, <1>6, HeadGets
  <2> QED
    BY <1>1, <2>1 DEF Able, InWindow, Inside
<1>8. \A f : TellsFocus(f) => f.op \in GivesBack /\ f.op \notin Gives
  BY DEF TellsFocus, GivesBack, Gives, FocusOps
<1>9. last' = last
  BY <1>1
<1>10. CASE frames = <<>>
               /\ (Arg # None /\ CanFocus(Arg) /\ InWindow(Arg)
                    /\ (TopModal = None \/ Inside(Arg, TopModal)) => focused = Arg)
  <2>1. Elements(frames) = {} /\ Len(frames) = 0 /\ 1..0 = {}
    BY <1>10, FramedEmpty
  <2>2. ASSUME Able(w) PROVE Gets(w, stack)'
    <3>1. focused' = w
      BY <1>1, <1>7, <1>10, <2>2
    <3> QED
      BY <1>1, <1>2, <1>5, <2>1, <3>1, HasNext
  <2>3. Lone(frames)
    BY <2>1 DEF Lone
  <2>4. Able(last.w) => Gets(last.w, stack)'
    BY <1>6, <1>9, <2>2
  <2> QED
    BY <1>1, <1>2, <1>5, <2>1, <2>3, <2>4, ReturningThen
<1>11. ASSUME NEW n \in 1..Len(frames), frames[n].op = "take",
              Arg # None /\ CanFocus(Arg) /\ InWindow(Arg) => frames[n].w = Arg,
              \A f \in Over(frames, n) : TellsFocus(f),
              \A i \in 1..Len(frames) : i = n \/ TellsFocus(frames[i])
       PROVE  Returning'
  <2>1. Lone(frames)
    BY <1>8, <1>11 DEF Lone
  <2>2. \A f \in Elements(frames) : f.op \in GivesBack
    BY <1>8, <1>11 DEF Elements, GivesBack, FocusOps
  <2>3. ASSUME Able(w) PROVE Gets(w, stack)'
    <3>1. frames[n].w = w /\ frames[n].op \in Gives
      BY <1>7, <1>11, <2>3 DEF Gives
    <3> QED
      BY <1>1, <1>2, <3>1, GetsNext
  <2>4. Able(last.w) => Gets(last.w, stack)'
    BY <1>6, <1>9, <2>3
  <2> QED
    BY <1>1, <1>2, <1>5, <2>1, <2>2, <2>4, ReturningThen
<1> QED
  BY <1>2, <1>10, <1>11

LEMMA ReturningTake ==
  ASSUME Core, Returning, last.op = "return", Take
  PROVE  Returning'
<1>1. /\ stack # <<>> /\ Head(stack).op = "take" /\ Arg = Head(stack).w /\ Framed(stack)
      /\ UNCHANGED <<trees, shown, last>> /\ focused' = Arg
  BY AtHead DEF Take, AllSound
<1>2. PICK u, i, t : u = UserFrame("focus") /\ i = Frame("in", None) /\ t = Frame("taken", None)
  OBVIOUS
<1>3. /\ IsFrame(u) /\ u.op = "user" /\ IsFrame(i) /\ i.op = "in" /\ IsFrame(t) /\ t.op = "taken"
  BY <1>2, FrameFields
<1>4. PICK frames : Then(frames) /\ (frames = <<>> \/ frames = <<u, i, t>>)
  BY <1>2 DEF Take
<1>5. Framed(frames) /\ Elements(frames) \subseteq {u, i, t}
  <2>1. Framed(<<>>) /\ Elements(<<>>) = {}
    BY FramedEmpty
  <2>2. IsFrame(u) /\ IsFrame(i) /\ IsFrame(t)
    BY <1>3
  <2>3. Framed(<<u, i, t>>)
    BY <2>2, FramedTuples
  <2>4. Elements(<<u, i, t>>) = {u, i, t}
    <3>1. PICK s : s = <<u, i, t>>
      OBVIOUS
    <3>2. Len(s) = 3 /\ s[1] = u /\ s[2] = i /\ s[3] = t /\ 1..3 = {1, 2, 3}
      BY <3>1, OverStart
    <3>3. Elements(s) = {u, i, t}
      BY <3>2 DEF Elements
    <3> QED
      BY <3>1, <3>3
  <2> QED
    BY <1>4, <2>1, <2>3, <2>4
<1>6. \A f \in Elements(frames) : f.op \in GivesBack /\ f.op \notin Gives \cup {"out"}
  BY <1>3, <1>5 DEF GivesBack, FocusOps, Gives
<1>7. Lone(frames)
  <2>1. \A k \in 1..Len(frames) : frames[k] \in Elements(frames)
    BY <1>5, FramedFacts
  <2> QED
    BY <1>6, <2>1 DEF Lone
<1>8. Lone(stack) /\ (Able(last.w) => Gets(last.w, stack))
  BY DEF Returning
<1>9. Head(stack).op \in Gives
  BY <1>1 DEF Gives
<1>10. \A k \in 1..Len(stack) : k > 1 => stack[k].op \notin Gives \cup {"out"}
  <2>1. \A k \in 1..Len(stack) : k > 1 => stack[k].op \notin Gives
    BY <1>1, <1>8, <1>9, HeadGets
  <2>2. ASSUME NEW k \in 1..Len(stack), k > 1, stack[k].op = "out" PROVE FALSE
    <3>1. Precedes(Head(stack), stack[k])
      BY <1>1, <2>2, BelowHead
    <3> QED
      BY <1>1, <2>2, <3>1 DEF Precedes, Free
  <2> QED
    BY <2>1, <2>2
<1>11. PICK w : w = last.w
  OBVIOUS
<1>12. ASSUME Able(w) PROVE Gets(w, stack)'
  <2>1. Head(stack).w = w
    BY <1>1, <1>8, <1>9, <1>11, <1>12, HeadGets
  <2>2. focused' = w
    BY <1>1, <2>1
  <2> QED
    BY <1>1, <1>4, <1>5, <1>6, <1>10, <2>2, HasNext
<1>13. last' = last
  BY <1>1
<1>14. Able(last.w) => Gets(last.w, stack)'
  BY <1>11, <1>12, <1>13
<1> QED
  BY <1>1, <1>4, <1>5, <1>6, <1>7, <1>14, ReturningThen

LEMMA ReturningRestore ==
  ASSUME Core, Returning, last.op = "return", Restore
  PROVE  Returning'
<1>1. /\ stack # <<>> /\ Head(stack).op = "restore" /\ Arg = Head(stack).w
      /\ UNCHANGED <<trees, shown, focus, last>>
  BY AtHead DEF Restore
<1>2. PICK f, g : f = Frame("focus", Arg) /\ g = Frame("first", None)
  OBVIOUS
<1>3. /\ IsFrame(f) /\ f.op = "focus" /\ f.w = Arg /\ IsFrame(g) /\ g.op = "first"
  BY <1>2, FrameFields
<1>4. PICK frames : /\ Then(frames)
                    /\ \/ Arg # None /\ frames = <<f, g>>
                       \/ (Arg = None \/ ~InWindow(Arg)) /\ frames = <<g>>
  BY <1>2 DEF Restore
<1>5. Framed(frames) /\ Elements(frames) \subseteq {f, g} /\ Lone(frames)
  <2>1. Framed(<<g>>) /\ Elements(<<g>>) = {g} /\ Framed(<<f, g>>) /\ Elements(<<f, g>>) = {f, g}
    BY <1>3, FramedTuples
  <2>2. Lone(<<g>>) /\ Lone(<<f, g>>)
    BY <1>3, LoneTuples DEF Gives
  <2> QED
    BY <1>4, <2>1, <2>2
<1>6. \A e \in Elements(frames) : e.op \in GivesBack
  BY <1>3, <1>5 DEF GivesBack, FocusOps
<1>7. Lone(stack) /\ (Able(last.w) => Gets(last.w, stack))
  BY DEF Returning
<1>8. Head(stack).op \in Gives
  BY <1>1 DEF Gives
<1>9. \A k \in 1..Len(stack) : k > 1 => stack[k].op \notin Gives
  BY <1>1, <1>7, <1>8, HeadGets
<1>10. PICK w : w = last.w
  OBVIOUS
<1>11. ASSUME Able(w) PROVE Gets(w, stack)'
  <2>1. Head(stack).w = w
    BY <1>1, <1>7, <1>8, <1>10, <1>11, HeadGets
  <2>2. frames = <<f, g>> /\ f.w = w
    BY <1>1, <1>3, <1>4, <1>11, <2>1 DEF Able, InWindow, Inside
  <2>3. 1 \in 1..Len(frames) /\ frames[1] = f
    BY <2>2
  <2>4. frames[1].op \in Gives /\ frames[1].w = w
    BY <1>3, <2>2, <2>3 DEF Gives
  <2> QED
    BY <1>1, <1>4, <1>5, <2>3, <2>4, GetsNext
<1>12. last' = last
  BY <1>1
<1>13. Able(last.w) => Gets(last.w, stack)'
  BY <1>10, <1>11, <1>12
<1> QED
  BY <1>1, <1>4, <1>5, <1>6, <1>9, <1>13, ReturningThen

LEMMA ReturningFirst ==
  ASSUME Core, Returning, last.op = "return", RestoreFirst
  PROVE  Returning'
<1>1. /\ stack # <<>> /\ Head(stack).op = "first" /\ last' = last
      /\ UNCHANGED <<trees, shown, focused>>
  BY AtHead DEF RestoreFirst, focus
<1>2. \A k \in 1..Len(stack) : k > 1 => stack[k].op \notin Gives \cup {"out"}
  <2>1. ASSUME NEW k \in 1..Len(stack), k > 1 PROVE Free(stack[k])
    <3>1. Precedes(Head(stack), stack[k])
      BY <1>1, <2>1, BelowHead
    <3> QED
      BY <1>1, <3>1 DEF Precedes, FocusOps, Clears
  <2> QED
    BY <2>1 DEF Free, Gives
<1>3. PICK w : w = last.w
  OBVIOUS
<1>4. Able(w) => focused = w /\ focused # None
  <2>1. SUFFICES ASSUME Able(w) PROVE focused = w /\ w # None
    OBVIOUS
  <2>2. Gets(w, stack) /\ w # None
    BY <1>3, <2>1 DEF Returning, Able, InWindow, Inside
  <2>3. stack[1] = Head(stack) /\ Len(stack) \in Nat
    BY <1>1, OverHead, FramedFacts DEF Core, AllSound
  <2>4. \A i \in 1..Len(stack) : i = 1 \/ i > 1
    BY <2>3
  <2>5. \A i \in 1..Len(stack) : stack[i].op \notin Gives
    BY <1>1, <1>2, <2>3, <2>4 DEF Gives
  <2> QED
    BY <2>2, <2>5 DEF Gets
<1>5. PICK x : Then(<<>>) \/ (focused = None /\ Then(<<Frame("focus", x)>>))
  BY DEF RestoreFirst
<1>6. PICK f : f = Frame("focus", x)
  OBVIOUS
<1>7. IsFrame(f) /\ f.op = "focus"
  BY <1>6, FrameFields
<1>8. CASE Then(<<>>)
  <2>1. Framed(<<>>) /\ Elements(<<>>) = {} /\ Lone(<<>>)
    <3>1. Framed(<<>>) /\ Elements(<<>>) = {} /\ Len(<<>>) = 0
      BY FramedEmpty
    <3>2. 1..0 = {}
      OBVIOUS
    <3> QED
      BY <3>1, <3>2 DEF Lone
  <2>2. PICK frames : frames = <<>>
    OBVIOUS
  <2>3. ASSUME Able(w) PROVE Gets(w, stack)'
    <3>1. focused' = w
      BY <1>1, <1>4, <2>3
    <3> QED
      BY <1>1, <1>2, <1>8, <2>1, <2>2, <3>1, HasNext
  <2>4. Able(last.w) => Gets(last.w, stack)'
    BY <1>1, <1>3, <2>3
  <2> QED
    BY <1>1, <1>8, <2>1, <2>2, <2>4, ReturningThen
<1>9. CASE focused = None /\ Then(<<f>>)
  <2>1. Framed(<<f>>) /\ Elements(<<f>>) = {f}
    BY <1>7, FramedTuples
  <2>2. Lone(<<f>>)
    <3>1. PICK g : g = Frame("first", None)
      OBVIOUS
    <3>2. IsFrame(g) /\ g.op \notin Gives
      BY <3>1, FrameFields DEF Gives
    <3> QED
      BY <1>7, <3>2, LoneTuples
  <2>3. PICK frames : frames = <<f>>
    OBVIOUS
  <2>4. ~Able(w)
    BY <1>4, <1>9
  <2>5. \A e \in Elements(frames) : e.op \in GivesBack
    BY <1>7, <2>1, <2>3 DEF GivesBack, FocusOps
  <2>6. Able(last.w) => Gets(last.w, stack)'
    BY <1>3, <2>4
  <2> QED
    BY <1>1, <1>2, <1>9, <2>1, <2>2, <2>3, <2>5, <2>6, ReturningThen
<1> QED
  BY <1>5, <1>6, <1>8, <1>9

\* While the focus is being given back only these steps are taken.
LEMMA ReturnSteps ==
  ASSUME Core, Returning, last.op = "return", [Next]_vars
  PROVE  \/ PlatformEvent \/ UserCall \/ StateChanged \/ UNCHANGED vars
         \/ UserReturn \/ FocusChanged \/ Focus \/ Take \/ Taken \/ Restore \/ RestoreFirst
         \/ Released
<1>1. HandlerStep => Head(stack).op \in GivesBack
  <2>1. SUFFICES ASSUME HandlerStep, stack # <<>> PROVE Head(stack).op \in GivesBack
    BY DEF HandlerStep, FocusStep, Focus, FocusChanged, Take, Taken, Restore, RestoreFirst,
       SetHovered, Bubble, MoveDeliver, PressDeliver, ReleaseDeliver, Released, StateChanged,
       Detached, Forget, Unlink, ShownAgain, DismissLeave, DismissErase, At
  <2>2. Framed(stack)
    BY DEF Core, AllSound
  <2>3. Head(stack) = stack[1] /\ 1 \in 1..Len(stack)
    BY <2>1, <2>2, OverHead, FramedFacts
  <2> QED
    BY <2>3 DEF Returning
<1>2. HandlerStep => ~(SetHovered \/ Bubble \/ MoveDeliver \/ PressDeliver \/ ReleaseDeliver)
  BY <1>1 DEF GivesBack, FocusOps, SetHovered, Bubble, MoveDeliver, PressDeliver,
     ReleaseDeliver, At
<1>3. HandlerStep => ~(Detached \/ Forget \/ Unlink \/ ShownAgain \/ DismissLeave \/ DismissErase)
  BY <1>1 DEF GivesBack, FocusOps, Detached, Forget, Unlink, ShownAgain, DismissLeave,
     DismissErase, At
<1> QED
  BY <1>2, <1>3 DEF Next, HandlerStep, FocusStep

\* And these two begin to.
LEMMA ReturnBegins ==
  ASSUME [Next]_vars, last' # last, last'.op = "return"
  PROVE  WindowFocusIn \/ (DismissErase /\ ~Crash)
<1>1. Other.op # "return" /\ \A w : [op |-> "release", w |-> w].op # "return"
  BY DEF Other
<1>2. FocusStep => last' = last
  BY DEF FocusStep, Focus, FocusChanged, Take, Taken, Restore, RestoreFirst, Crash
<1>3. SetHovered \/ Bubble \/ MoveDeliver \/ PressDeliver \/ ReleaseDeliver \/ Released
        => last' = last
  BY DEF SetHovered, Bubble, MoveDeliver, PressDeliver, ReleaseDeliver, Released, Crash
<1>4. Forget \/ Unlink \/ ShownAgain \/ DismissLeave \/ UserReturn \/ UNCHANGED vars
        => last' = last
  BY DEF Forget, Unlink, ShownAgain, DismissLeave, UserReturn, Crash, vars
<1>5. Detached \/ StateChanged => last'.op # "return"
  BY <1>1 DEF Detached, StateChanged
<1>6. UserCall => last'.op # "return"
  <2>1. UserCall => last' = Other
    BY DEF UserCall, GrabFocus, Hide, Show, SetSensitive, SetFocusable, RemoveChild, InsertChild,
       SetChild, ShowOverlay, ShowAgain, Dismiss
  <2> QED
    BY <1>1, <2>1
<1>7. PlatformEvent => WindowFocusIn \/ last'.op # "return"
  <2>1. PlatformEvent => WindowFocusIn \/ last' = Other
    BY DEF PlatformEvent, WindowFocusOut, MouseLeave, Key, Tab, MouseMove, MousePress,
       MouseRelease, Mouse
  <2> QED
    BY <1>1, <2>1
<1>8. ~Crash
  BY DEF Crash
<1> QED
  BY <1>2, <1>3, <1>4, <1>5, <1>6, <1>7, <1>8 DEF Next, HandlerStep

LEMMA ReturningBegins ==
  ASSUME Core, WindowFocusIn \/ (DismissErase /\ ~Crash)
  PROVE  Returning'
<1>1. PICK w, f, t : /\ f = Frame("restore", w) /\ t = stack'
                     /\ last' = [op |-> "return", w |-> w]
                     /\ \/ stack = <<>> /\ stack' = <<f>>
                        \/ stack # <<>> /\ Head(stack).op = "erase" /\ Then(<<f>>)
  BY DEF WindowFocusIn, Event, DismissErase, At
<1>2. IsFrame(f) /\ f.op = "restore" /\ f.w = w
  BY <1>1, FrameFields
<1>3. PICK frames : frames = <<f>>
  OBVIOUS
<1>4. Framed(frames) /\ Elements(frames) = {f} /\ Len(frames) = 1 /\ frames[1] = f
  BY <1>2, <1>3, FramedTuples
<1>5. Over(frames, 1) = {} /\ 1..1 = {1}
  BY OverStart
<1>6. /\ 1 \in 1..Len(t) /\ t[1] = f
      /\ \A i \in 1..Len(t) : \/ t[i] = f /\ Over(t, i) = {}
                              \/ t[i].op \in {"user", "changed", "released"}
  <2>1. CASE stack = <<>> /\ stack' = <<f>>
    BY <1>1, <1>3, <1>4, <1>5, <2>1
  <2>2. CASE stack # <<>> /\ Head(stack).op = "erase" /\ Then(<<f>>)
    <3>1. Framed(stack) /\ Then(frames)
      BY <1>3, <2>2 DEF Core, AllSound
    <3>2. /\ \A i \in 1..Len(frames) : stack'[i] = frames[i] /\ Over(stack', i) = Over(frames, i)
          /\ \A i \in 1..Len(stack') : i \in 1..Len(frames) \/
               \E k \in 1..Len(stack) : \E B :
                  /\ k > 1 /\ stack'[i] = stack[k]
                  /\ Over(stack, k) = {Head(stack)} \cup B
                  /\ Over(stack', i) = Elements(frames) \cup B
      BY <1>4, <2>2, <3>1, StackThen
    <3>3. ASSUME NEW k \in 1..Len(stack), k > 1
          PROVE  stack[k].op \in {"user", "changed", "released"}
      <4>1. Precedes(Head(stack), stack[k])
        BY <2>2, <3>3, BelowHead
      <4> QED
        BY <2>2, <4>1 DEF Precedes, Free, FocusOps, Clears
    <3>4. 1 \in 1..Len(stack') /\ stack'[1] = frames[1]
      BY <1>4, <1>5, <2>2, <3>1, StackKeeps
    <3> QED
      BY <1>1, <1>4, <1>5, <3>2, <3>3, <3>4
  <2> QED
    BY <1>1, <2>1, <2>2
<1>7. \A i \in 1..Len(t) : t[i].op \in GivesBack
  BY <1>2, <1>6 DEF GivesBack, FocusOps
<1>8. Lone(t)
  BY <1>6 DEF Lone, Gives
<1>9. Gets(w, stack)'
  BY <1>1, <1>2, <1>6 DEF Gets, Gives
<1>10. last'.w = w
  BY <1>1
<1>11. Lone(stack)'
  BY <1>1, <1>8 DEF Lone, Over
<1> QED
  BY <1>1, <1>7, <1>9, <1>10, <1>11 DEF Returning

LEMMA ReturningStep ==
  ASSUME CallbackOps["focus"] = {}, CallbackOps["hover"] = {}, Core, Returning, [Next]_vars
  PROVE  Returning'
<1>1. ~Crash
  <2>1. Core'
    BY CoreStep
  <2>2. ~crashed'
    BY <2>1 DEF Core, PointersStayGood
  <2> QED
    BY <2>2 DEF Crash
<1>2. CASE last'.op # "return"
  BY <1>2 DEF Returning
<1>3. CASE WindowFocusIn \/ DismissErase
  BY <1>1, <1>3, ReturningBegins
<1>4. ASSUME last.op = "return", FocusChanged PROVE Returning'
  <2>1. PICK u : u = UserFrame("focus")
    OBVIOUS
  <2>2. IsFrame(u) /\ u.op = "user"
    BY <2>1, FrameFields
  <2>3. PICK frames : frames = <<u>>
    OBVIOUS
  <2>4. Framed(frames) /\ Elements(frames) = {u}
    BY <2>2, <2>3, FramedTuples
  <2>5. /\ Then(frames) /\ stack # <<>> /\ last' = last /\ Head(stack).op \in {"out", "in"}
        /\ UNCHANGED <<trees, shown, focused>>
    BY <1>1, <1>4, <2>1, <2>3 DEF FocusChanged, At, focus
  <2>6. \A f \in Elements(frames) : f.op \in GivesBack \ (Gives \cup {"out"})
    BY <2>2, <2>4 DEF GivesBack, FocusOps, Gives
  <2>7. Head(stack).op \notin Gives
    BY <2>5 DEF Gives
  <2> QED
    BY <1>4, <2>4, <2>5, <2>6, <2>7, ReturningKeeps
<1>5. ASSUME last.op = "return", UserReturn \/ Taken \/ Released PROVE Returning'
  <2>1. /\ Then(<<>>) /\ stack # <<>> /\ last' = last
        /\ Head(stack).op \in {"user", "taken", "released"}
        /\ UNCHANGED <<trees, shown, focused>>
    BY <1>1, <1>5 DEF UserReturn, Taken, Released, At, focus
  <2>2. PICK frames : frames = <<>>
    OBVIOUS
  <2>3. Framed(frames) /\ Elements(frames) = {}
    BY <2>2, FramedEmpty
  <2>4. Head(stack).op \notin Gives
    BY <2>1 DEF Gives
  <2> QED
    BY <1>5, <2>1, <2>2, <2>3, <2>4, ReturningKeeps
<1>6. CASE UNCHANGED vars
  <2>1. stack' = stack /\ last' = last /\ focused' = focused /\ UNCHANGED <<trees, shown>>
    BY <1>6 DEF vars, focus
  <2>2. PICK w : w = last.w
    OBVIOUS
  <2>3. Able(w)' <=> Able(w)
    BY <2>1, AbleStays
  <2>4. Gets(w, stack)' <=> Gets(w, stack)
    BY <2>1 DEF Gets
  <2>5. Lone(stack)' <=> Lone(stack)
    BY <2>1
  <2> QED
    BY <2>1, <2>2, <2>3, <2>4, <2>5 DEF Returning
<1>7. CASE last'.op = "return" /\ last' = last /\ ~WindowFocusIn
  <2>1. ~UserCall /\ ~StateChanged
    <3>1. Other.op # "return" /\ \A w : [op |-> "release", w |-> w].op # "return"
      BY DEF Other
    <3>2. UserCall => last' = Other
      BY DEF UserCall, GrabFocus, Hide, Show, SetSensitive, SetFocusable, RemoveChild, InsertChild,
         SetChild, ShowOverlay, ShowAgain, Dismiss
    <3>3. StateChanged => last' = [op |-> "release", w |-> Arg]
      BY DEF StateChanged
    <3> QED
      BY <1>7, <3>1, <3>2, <3>3
  <2>2. ~PlatformEvent
    <3>1. PlatformEvent => WindowFocusIn \/ last' = Other
      BY DEF PlatformEvent, WindowFocusOut, MouseLeave, Key, Tab, MouseMove, MousePress,
         MouseRelease, Mouse
    <3>2. Other.op # "return"
      BY DEF Other
    <3> QED
      BY <1>7, <3>1, <3>2
  <2> QED
    BY <1>4, <1>5, <1>6, <1>7, <2>1, <2>2, ReturnSteps, ReturningFocus, ReturningTake,
       ReturningRestore, ReturningFirst
<1>8. CASE last'.op = "return" /\ last' # last
  BY <1>3, <1>8, ReturnBegins
<1> QED
  BY <1>2, <1>3, <1>7, <1>8

\* Under the same condition the focus comes back: when a dismissal or an activation of
\* the window has run to its end, the widget it was to be given to has it, if it is
\* still in the window, can have it and no other modal sheet is up, whatever slots
\* and controllers did on the way.
THEOREM FocusComesBack ==
  ASSUME CallbackOps["focus"] = {}, CallbackOps["hover"] = {}
  PROVE  Spec => []FocusReturns
<1>1. Init => Core /\ Returning
  BY CoreInit DEF Init, Returning, Other
<1>2. Core /\ Returning /\ [Next]_vars => Core' /\ Returning'
  BY CoreStep, ReturningStep
<1>3. Core /\ Returning => FocusReturns
  <2>1. 1..0 = {} /\ Len(<<>>) = 0
    BY FramedEmpty
  <2>2. \A w : stack = <<>> /\ Gets(w, stack) => focused = w
    BY <2>1 DEF Gets
  <2> QED
    BY <2>2 DEF Returning, FocusReturns, Quiet, Able
<1> QED
  BY <1>1, <1>2, <1>3, PTL DEF Spec

================================================================================
