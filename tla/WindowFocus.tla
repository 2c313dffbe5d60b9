------------------------------ MODULE WindowFocus ------------------------------
(***************************************************************************)
(* The input state of nk::Window (src/platform/window.cpp): the widgets it  *)
(* points at as hovered, pressed and focused, its stack of overlays, and    *)
(* the operations on windows and widgets that move or clear them.           *)
(*                                                                          *)
(* Handlers call user code at several places (controllers, virtual          *)
(* functions and signals of widgets), and user code may call operations     *)
(* again before the handler goes on. What a handler has left to do is       *)
(* therefore a stack of frames, the next one first; a "user" frame is user  *)
(* code in control, of one of three kinds:                                  *)
(*   event   an event handler, or a slot of on_map or on_unmap              *)
(*   focus   a focus controller or on_focus_changed                         *)
(*   hover   a pointer controller's on_enter or on_leave                    *)
(*                                                                          *)
(* A pointer to a widget that left the window may dangle, so using one      *)
(* crashes; so does using a null pointer or an invalidated iterator.        *)
(*                                                                          *)
(* The order of the children of a widget is left open: where the code takes *)
(* the next or the first focusable widget, any may be taken.                *)
(***************************************************************************)
EXTENDS Integers, Sequences, FiniteSets

CONSTANTS
  Widgets,
  None,          \* the null pointer
  Content,       \* the root set_child() installs
  Sheets,        \* the roots of overlays
  Parent,        \* widget -> its parent at the start
  Focusable,     \* the widgets that are focusable at the start
  Targets,       \* the widgets the pointer may hit
  Hideable,      \* the widgets user code hides and shows
  Disableable,   \* the widgets user code disables and enables
  Refocusable,   \* the widgets user code makes focusable, or not focusable
  Detachable,    \* the widgets user code removes from their parents and inserts
  Containers,    \* the widgets it inserts them into
  Grabbers,      \* the widgets user code gives the focus
  MaxNesting,    \* bound on the user code in progress when an operation is called
  CallbackOps    \* kind of user frame -> the operations called from it

Pointers == Widgets \cup {None}

Ops == {"focus", "hide", "disable", "focusable", "detach", "show", "dismiss", "child"}

\* validate_child(): "Widget trees cannot contain cycles"
Forest(parentOf) ==
  \A S \in (SUBSET Widgets) \ {{}} : \E w \in S : parentOf[w] \notin S

ASSUME TreeAssumption ==
  /\ None \notin Widgets /\ IsFiniteSet(Widgets)
  /\ Content \in Widgets
  /\ Sheets \subseteq Widgets \ {Content}
  /\ Parent \in [Widgets -> Pointers] /\ Forest(Parent)
  /\ \A root \in Sheets \cup {Content} : Parent[root] = None
  /\ Focusable \cup Targets \cup Hideable \cup Disableable \cup Refocusable
       \cup Containers \cup Grabbers \subseteq Widgets
  /\ Detachable \subseteq Widgets \ (Sheets \cup {Content})
  /\ CallbackOps \in [{"event", "focus", "hover"} -> SUBSET Ops]

Entries == [widget : Sheets, modal : BOOLEAN, previous : Pointers]

VARIABLES
  child,       \* Impl::child: Content or None
  overlays,    \* Impl::overlays, the topmost last
  parent,      \* widget -> its parent, or None
  visible,     \* the widgets set visible
  sensitive,   \* the widgets set sensitive
  focusable,   \* the widgets set focusable
  hovered, pressed, focused,
  pending,     \* pending_focus_restore
  stack,       \* what is left to do, next first
  crashed,     \* undefined behaviour was reached
  last         \* which of the handlers that take or give back the focus ran
               \* last, and for which widget

trees   == <<child, overlays, parent>>
shown   == <<visible, sensitive, focusable>>
pointer == <<hovered, pressed>>
focus   == <<focused, pending>>
vars    == <<trees, shown, pointer, focus, stack, crashed, last>>

-----------------------------------------------------------------------------
(* The trees                                                                *)

\* The widget and its ancestors.
Path[w \in Widgets] ==
  {w} \cup (IF parent[w] # None THEN Path[parent[w]] ELSE {})

\* is_descendant_of()
Inside(w, ancestor) == w # None /\ ancestor \in Path[w]

SheetsOf(list) == {list[i].widget : i \in DOMAIN list}

InWindow(w) ==
  \E root \in SheetsOf(overlays) \cup ({child} \ {None}) : Inside(w, root)

\* The visible modal sheet that owns the input, if any.
TopModal ==
  LET modal == {i \in DOMAIN overlays :
                  overlays[i].modal /\ overlays[i].widget \in visible}
  IN  IF modal = {} THEN None
      ELSE overlays[CHOOSE i \in modal : \A j \in modal : j <= i].widget

\* can_focus_widget(): the widget alone, not its ancestors.
CanFocus(w) == w \in focusable \cap visible \cap sensitive

\* collect_focusable_widgets()
FocusableIn(scope) ==
  {w \in focusable :
     /\ Inside(w, scope)
     /\ \A v \in Path[w] : Inside(v, scope) => v \in visible \cap sensitive}

Scope == IF TopModal # None THEN TopModal ELSE child

\* What the pointer may hit: nothing, a visible widget, or the focused widget even
\* when an ancestor of it is hidden. A visible modal sheet has the size of the
\* window and hides all but itself and the overlays above it.
Hit(w) ==
  IF TopModal = None
  THEN w = None \/ (InWindow(w) /\ (Path[w] \subseteq visible \/ w = focused))
  ELSE \E i, j \in DOMAIN overlays :
         /\ overlays[i].widget = TopModal
         /\ j >= i
         /\ Inside(w, overlays[j].widget)
         /\ Path[w] \subseteq visible

-----------------------------------------------------------------------------
(* Frames                                                                   *)

Frame(op, w) == [op |-> op, w |-> w, prev |-> None, list |-> <<>>]

UserFrame(kind) == [op |-> "user", w |-> kind, prev |-> None, list |-> <<>>]

At(op) == ~crashed /\ stack # <<>> /\ Head(stack).op = op

Arg == Head(stack).w

\* The frame is done and the given ones come next.
Then(frames) == stack' = frames \o Tail(stack)

Crash ==
  /\ crashed' = TRUE
  /\ stack' = <<>>
  /\ UNCHANGED <<trees, shown, pointer, focus, last>>

Other == [op |-> "other", w |-> None]

\* An event of the platform: nothing is in progress.
Event(frames) ==
  /\ ~crashed
  /\ stack = <<>>
  /\ stack' = frames
  /\ UNCHANGED crashed

\* An operation called by user code, at the top level or in a callback.
Call(op, frames) ==
  /\ ~crashed
  /\ stack # <<>> =>
       /\ Head(stack).op = "user"
       /\ op \in CallbackOps[Head(stack).w]
       /\ Cardinality({i \in DOMAIN stack : stack[i].op = "user"}) < MaxNesting
  /\ stack' = frames \o stack
  /\ UNCHANGED crashed

\* The iterator to w into the vector `before` is still good in `now`.
IteratorValid(w, before, now) ==
  \E i \in DOMAIN before :
    /\ before[i] = w
    /\ i <= Len(now) /\ Len(now) <= Len(before)
    /\ \A j \in 1..i : now[j] = before[j]

OverlayList == [i \in DOMAIN overlays |-> overlays[i].widget]

\* The children of the widget's parent. An iterator into their vector is taken to
\* be good only while none is added and none is removed.
Siblings(w) == {v \in Widgets : parent[v] # None /\ parent[v] = parent[w]}

ChildIteratorValid(w, before, now) == w \in before /\ now = before

Init ==
  /\ child = None
  /\ overlays = <<>>
  /\ parent = Parent
  /\ visible = Widgets
  /\ sensitive = Widgets
  /\ focusable = Focusable
  /\ hovered = None /\ pressed = None /\ focused = None
  /\ pending = None
  /\ stack = <<>>
  /\ crashed = FALSE
  /\ last = Other

UserReturn ==
  /\ At("user")
  /\ Then(<<>>)
  /\ UNCHANGED <<trees, shown, pointer, focus, crashed, last>>

-----------------------------------------------------------------------------
(* focus_widget()                                                           *)

\* Mutant: any widget of the window may take the focus.
FocusUncontained ==
  /\ At("focus")
  /\ LET target == IF Arg # None /\ CanFocus(Arg) /\ InWindow(Arg) THEN Arg ELSE None
     IN  IF target = focused
         THEN Then(<<>>)
         ELSE IF focused = None
         THEN Then(<<Frame("take", target)>>)
         ELSE /\ Then(<<UserFrame("focus"), Frame("out", None), Frame("take", target)>>)
  /\ UNCHANGED <<trees, shown, pointer, focused, pending, crashed, last>>

\* A visible modal sheet refuses the focus to widgets outside it; a widget that
\* cannot have it clears it; the owner is told first, by its controllers.
Focus ==
  /\ At("focus")
  /\ LET target == IF Arg # None /\ CanFocus(Arg) /\ InWindow(Arg) THEN Arg ELSE None
         refused == Arg # None /\ TopModal # None /\ ~Inside(Arg, TopModal)
     IN  IF refused \/ target = focused
         THEN Then(<<>>)
         ELSE IF focused = None
         THEN Then(<<Frame("take", target)>>)
         ELSE /\ Then(<<UserFrame("focus"), Frame("out", None), Frame("take", target)>>)
  /\ UNCHANGED <<trees, shown, pointer, focused, pending, crashed, last>>

\* focused_widget->on_focus_changed(), through the pointer as it is now.
FocusChanged ==
  /\ At("out") \/ At("in")
  /\ IF focused = None THEN Crash
     ELSE /\ Then(<<UserFrame("focus")>>)
          /\ UNCHANGED <<trees, shown, pointer, focus, crashed, last>>

Take ==
  /\ At("take")
  /\ focused' = Arg
  /\ IF Arg = None
     THEN Then(<<>>)
     ELSE /\ Then(<<UserFrame("focus"), Frame("in", None), Frame("taken", None)>>)
  /\ UNCHANGED <<trees, shown, pointer, pending, crashed, last>>

Taken ==
  /\ At("taken")
  /\ IF focused = None THEN Crash
     ELSE /\ Then(<<>>)
          /\ pending' = focused
          /\ UNCHANGED <<trees, shown, pointer, focused, crashed,
                         last>>

\* restore_focus_or_first(): the previous owner if it still exists (one that
\* left the window may have been destroyed), else the first widget of the scope.
Restore ==
  /\ At("restore")
  /\ \/ /\ Arg # None
        /\ Then(<<Frame("focus", Arg), Frame("first", None)>>)
     \/ /\ Arg = None \/ ~InWindow(Arg)
        /\ Then(<<Frame("first", None)>>)
  /\ UNCHANGED <<trees, shown, pointer, focus, crashed, last>>

\* Mutant: not only when nothing has the focus.
RestoreFirstAlways ==
  /\ At("first")
  /\ \/ FocusableIn(Scope) = {} /\ Then(<<>>)
     \/ \E w \in FocusableIn(Scope) : Then(<<Frame("focus", w)>>)
  /\ UNCHANGED <<trees, shown, pointer, focus, crashed, last>>

RestoreFirst ==
  /\ At("first")
  /\ \/ /\ focused # None \/ FocusableIn(Scope) = {}
        /\ Then(<<>>)
     \/ /\ focused = None
        /\ \E w \in FocusableIn(Scope) : Then(<<Frame("focus", w)>>)
  /\ UNCHANGED <<trees, shown, pointer, focus, crashed, last>>

\* grab_focus() of a widget of the window.
GrabFocus(w) ==
  /\ InWindow(w)
  /\ Call("focus", <<Frame("focus", w)>>)
  /\ last' = Other
  /\ UNCHANGED <<trees, shown, pointer, focus>>

\* Tab and Shift+Tab: another focusable widget of the scope.
Tab ==
  /\ \/ FocusableIn(Scope) = {} /\ Event(<<Frame("focus", None)>>)
     \/ \E w \in FocusableIn(Scope) : Event(<<Frame("focus", w)>>)
  /\ last' = Other
  /\ UNCHANGED <<trees, shown, pointer, focus>>

\* FocusIn and FocusOut of the window.
WindowFocusIn ==
  /\ Event(<<Frame("restore", pending)>>)
  /\ last' = [op |-> "return", w |-> pending]
  /\ UNCHANGED <<trees, shown, pointer, focus>>

WindowFocusOut ==
  /\ Event(<<Frame("focus", None)>>)
  /\ hovered' = None /\ pressed' = None
  /\ pending' = IF focused # None THEN focused ELSE pending
  /\ last' = Other
  /\ UNCHANGED <<trees, shown, focused>>

-----------------------------------------------------------------------------
(* Pointer and key events                                                   *)

HoverFrames(w) ==
  IF hovered = w THEN <<>>
  ELSE <<UserFrame("hover"), Frame("hover", w), UserFrame("hover")>>

SetHovered ==
  /\ At("hover")
  /\ IF Arg # None /\ ~InWindow(Arg) THEN Crash
     ELSE /\ hovered' = Arg
          /\ Then(<<>>)
          /\ UNCHANGED <<trees, shown, pressed, focus, crashed, last>>

\* dispatch_mouse_bubble() and its like: each widget of the path is held and
\* checked before it is called; only the target itself is used unchecked.
Bubble ==
  /\ At("bubble")
  /\ IF Arg # None /\ ~InWindow(Arg) THEN Crash
     ELSE /\ Then(IF Arg = None THEN <<>> ELSE <<UserFrame("event")>>)
          /\ UNCHANGED <<trees, shown, pointer, focus, crashed, last>>

Mouse(frames) ==
  /\ child # None
  /\ Event(frames)
  /\ last' = Other
  /\ UNCHANGED <<trees, shown, pointer, focus>>

MouseLeave == Mouse(HoverFrames(None))

MouseMove(w) == Hit(w) /\ Mouse(HoverFrames(w) \o <<Frame("move", w)>>)

\* A motion goes to the press owner, if any; the pointer entering the window and
\* the wheel go to the widget that was hit.
MoveDeliver ==
  /\ At("move")
  /\ \E w \in {pressed, Arg} :
       /\ w = None => Arg = None
       /\ Then(<<Frame("bubble", w)>>)
  /\ UNCHANGED <<trees, shown, pointer, focus, crashed, last>>

MousePress(w) ==
  Hit(w) /\ Mouse(HoverFrames(w) \o <<Frame("press", w)>>)

PressDeliver ==
  /\ At("press")
  /\ IF Arg # None /\ ~InWindow(Arg) THEN Crash
     ELSE /\ pressed' = Arg
          /\ Then(<<Frame("focus", Arg), Frame("bubble", Arg)>>)
          /\ UNCHANGED <<trees, shown, hovered, focus, crashed, last>>

MouseRelease(w) ==
  Hit(w) /\ Mouse(HoverFrames(w) \o <<Frame("release", w)>>)

ReleaseDeliver ==
  /\ At("release")
  /\ Then(IF pressed = None THEN <<Frame("bubble", Arg)>>
          ELSE <<Frame("bubble", pressed), Frame("released", pressed)>>)
  /\ UNCHANGED <<trees, shown, pointer, focus, crashed, last>>

\* The handler may have pressed or detached something meanwhile.
Released ==
  /\ At("released")
  /\ pressed' = IF pressed = Arg THEN None ELSE pressed
  /\ Then(<<>>)
  /\ UNCHANGED <<trees, shown, hovered, focus, crashed, last>>

\* A key or text event bubbles from the focused widget, or from the modal
\* sheet when the focus is not in it.
Key ==
  LET target == IF TopModal # None /\ ~Inside(focused, TopModal) THEN TopModal
                ELSE focused
  IN  /\ target # None
      /\ Event(<<Frame("bubble", target)>>)
      /\ last' = Other
      /\ UNCHANGED <<trees, shown, pointer, focus>>

-----------------------------------------------------------------------------
(* Visibility, sensitivity and the tree                                     *)

Cleared(p, w) == IF Inside(p, w) THEN None ELSE p

Unfocused(w) == IF Inside(focused, w) THEN <<Frame("focus", None)>> ELSE <<>>

\* set_visible(): on_map or on_unmap is emitted; of a widget that is hidden the
\* window is told after that.
Hide(w) ==
  /\ w \in visible
  /\ Call("hide", <<UserFrame("event"), Frame("changed", w)>>)
  /\ visible' = visible \ {w}
  /\ last' = Other
  /\ UNCHANGED <<trees, sensitive, focusable, pointer, focus>>

Show(w) ==
  /\ w \notin visible
  /\ Call("hide", <<UserFrame("event")>>)
  /\ visible' = visible \cup {w}
  /\ last' = Other
  /\ UNCHANGED <<trees, sensitive, focusable, pointer, focus>>

SetSensitive(w) ==
  /\ IF w \in sensitive
     THEN /\ Call("disable", <<Frame("changed", w)>>)
          /\ sensitive' = sensitive \ {w}
     ELSE /\ Call("disable", <<>>)
          /\ sensitive' = sensitive \cup {w}
  /\ last' = Other
  /\ UNCHANGED <<trees, visible, focusable, pointer, focus>>

\* set_focusable(): nobody is told, so a focus owner that is made unfocusable keeps
\* the focus.
SetFocusable(w) ==
  /\ Call("focusable", <<>>)
  /\ focusable' = IF w \in focusable THEN focusable \ {w} ELSE focusable \cup {w}
  /\ last' = Other
  /\ UNCHANGED <<trees, visible, sensitive, pointer, focus>>

\* Mutant: only the widget itself is looked for, not its descendants.
StateChangedSelf ==
  /\ At("changed")
  /\ IF Arg \in visible \cap sensitive \/ ~InWindow(Arg)
     THEN Then(<<>>) /\ UNCHANGED pointer
     ELSE /\ hovered' = IF hovered = Arg THEN None ELSE hovered
          /\ pressed' = IF pressed = Arg THEN None ELSE pressed
          /\ Then(IF focused = Arg THEN <<Frame("focus", None)>> ELSE <<>>)
  /\ last' = [op |-> "release", w |-> Arg]
  /\ UNCHANGED <<trees, shown, focus, crashed>>

\* Mutant: a widget that can no longer be used keeps the keyboard.
StateChangedVisibleOnly ==
  /\ At("changed")
  /\ IF Arg \in visible \/ ~InWindow(Arg)
     THEN Then(<<>>) /\ UNCHANGED pointer
     ELSE /\ hovered' = Cleared(hovered, Arg)
          /\ pressed' = Cleared(pressed, Arg)
          /\ Then(Unfocused(Arg))
  /\ last' = [op |-> "release", w |-> Arg]
  /\ UNCHANGED <<trees, shown, focus, crashed>>

\* handle_widget_state_change()
StateChanged ==
  /\ At("changed")
  /\ IF Arg \in visible \cap sensitive \/ ~InWindow(Arg)
     THEN Then(<<>>) /\ UNCHANGED pointer
     ELSE /\ hovered' = Cleared(hovered, Arg)
          /\ pressed' = Cleared(pressed, Arg)
          /\ Then(Unfocused(Arg))
  /\ last' = [op |-> "release", w |-> Arg]
  /\ UNCHANGED <<trees, shown, focus, crashed>>

\* Mutant: the press is forgotten.
DetachedPressed ==
  /\ At("detached")
  /\ IF ~InWindow(Arg) THEN Then(<<>>) /\ UNCHANGED pointer
     ELSE /\ hovered' = Cleared(hovered, Arg)
          /\ UNCHANGED pressed
          /\ Then(Unfocused(Arg) \o <<Frame("forget", Arg)>>)
  /\ last' = Other
  /\ UNCHANGED <<trees, shown, focus, crashed>>

\* handle_widget_detached(), called for a widget that has a host window
Detached ==
  /\ At("detached")
  /\ IF ~InWindow(Arg) THEN Then(<<>>) /\ UNCHANGED pointer
     ELSE /\ hovered' = Cleared(hovered, Arg)
          /\ pressed' = Cleared(pressed, Arg)
          /\ Then(Unfocused(Arg) \o <<Frame("forget", Arg)>>)
  /\ last' = Other
  /\ UNCHANGED <<trees, shown, focus, crashed>>

Forget ==
  /\ At("forget")
  /\ pending' = Cleared(pending, Arg)
  /\ Then(<<>>)
  /\ UNCHANGED <<trees, shown, pointer, focused, crashed, last>>

\* remove_child(): the window is told directly, and again by
\* set_host_window(nullptr), before the child is unlinked.
RemoveChild(w) ==
  /\ parent[w] # None
  /\ Call("detach", <<Frame("detached", w), Frame("detached", w),
                      [Frame("unlink", w) EXCEPT !.list = Siblings(w)]>>)
  /\ last' = Other
  /\ UNCHANGED <<trees, shown, pointer, focus>>

Unlink ==
  /\ At("unlink")
  /\ IF ~ChildIteratorValid(Arg, Head(stack).list, Siblings(Arg)) THEN Crash
     ELSE /\ parent' = [parent EXCEPT ![Arg] = None]
          /\ Then(<<>>)
          /\ UNCHANGED <<child, overlays, shown, pointer, focus, crashed,
                         last>>

\* append_child() and insert_child(), of a widget that has no parent and is no
\* root of the window, into any widget that is not in its own tree.
InsertChild(w, container) ==
  /\ parent[w] = None
  /\ w \notin Path[container]
  /\ Call("detach", <<>>)
  /\ parent' = [parent EXCEPT ![w] = container]
  /\ last' = Other
  /\ UNCHANGED <<child, overlays, shown, pointer, focus>>

\* set_child(): the pointers are dropped first, whichever tree they are in and
\* without a word to the widgets.
SetChild(root) ==
  /\ Call("child", <<>>)
  /\ child' = root
  /\ hovered' = None /\ pressed' = None /\ focused' = None /\ pending' = None
  /\ last' = Other
  /\ UNCHANGED <<overlays, parent, shown>>

-----------------------------------------------------------------------------
(* Overlays                                                                 *)

\* What a modal sheet may give the focus to.
FirstIn(sheet) == IF FocusableIn(sheet) = {} THEN {sheet} ELSE FocusableIn(sheet)

\* show_overlay() gives the focus to a widget of the sheet if it takes it.
CallShow(takes, sheet, frames) ==
  \/ ~takes /\ Call("show", <<>>)
  \/ takes /\ \E w \in FirstIn(sheet) : Call("show", <<Frame("focus", w)>> \o frames)

\* Mutant: a sheet that is up already is pushed again.
ShowOverlayTwice(sheet, modal) ==
  /\ Len(overlays) < 2
  /\ CallShow(modal, sheet, <<>>)
  /\ overlays' = Append(overlays, [widget |-> sheet, modal |-> modal,
                                   previous |-> IF modal THEN focused ELSE None])
  /\ last' = Other
  /\ UNCHANGED <<child, parent, shown, pointer, focus>>

\* show_overlay() of a new sheet; a modal one takes the focus.
ShowOverlay(sheet, modal) ==
  /\ sheet \notin SheetsOf(overlays)
  /\ CallShow(modal, sheet, <<>>)
  /\ overlays' = Append(overlays, [widget |-> sheet, modal |-> modal,
                                   previous |-> IF modal THEN focused ELSE None])
  /\ last' = Other
  /\ UNCHANGED <<child, parent, shown, pointer, focus>>

\* Mutant: the restore target is always taken anew.
ShowAgainOverwriting(i, modal) ==
  LET sheet == overlays[i].widget
  IN  /\ CallShow(modal, sheet, <<>>)
      /\ overlays' = [overlays EXCEPT ![i] =
           [widget |-> sheet, modal |-> modal,
            previous |-> IF modal THEN focused ELSE None]]
      /\ last' = Other
      /\ UNCHANGED <<child, parent, shown, pointer, focus>>

\* show_overlay() of one that is up already: a modal one takes the focus unless
\* it has it, and then keeps its restore target.
ShowAgain(i, modal) ==
  LET sheet == overlays[i].widget
      takes == modal /\ ~Inside(focused, sheet)
      shownAgain == [Frame("shown", sheet) EXCEPT !.list = OverlayList]
  IN  /\ CallShow(takes, sheet, <<shownAgain>>)
      /\ overlays' = [overlays EXCEPT ![i] =
           [widget |-> sheet, modal |-> modal,
            previous |-> IF ~modal THEN None
                         ELSE IF takes /\ focused # None THEN focused
                         ELSE overlays[i].previous]]
      /\ last' = Other
      /\ UNCHANGED <<child, parent, shown, pointer, focus>>

\* The rest of show_overlay() uses its reference to the entry.
ShownAgain ==
  /\ At("shown")
  /\ IF ~IteratorValid(Arg, Head(stack).list, OverlayList) THEN Crash
     ELSE /\ Then(<<>>)
          /\ UNCHANGED <<trees, shown, pointer, focus, crashed, last>>

\* dismiss_overlay(); an iterator to the entry is kept to the end.
Dismiss(i) ==
  LET sheet == overlays[i].widget
  IN  /\ Call("dismiss", Unfocused(sheet) \o
                <<[Frame("leave", sheet) EXCEPT !.list = OverlayList]>>)
      /\ hovered' = Cleared(hovered, sheet)
      /\ pressed' = Cleared(pressed, sheet)
      /\ last' = Other
      /\ UNCHANGED <<trees, shown, focus>>

\* The index of a sheet, and the vector without the entry at an index.
IndexOf(sheet) == CHOOSE i \in DOMAIN overlays : overlays[i].widget = sheet

Without(i) ==
  [k \in 1..(Len(overlays) - 1) |-> overlays[IF k < i THEN k ELSE k + 1]]

\* The restore target is read and the sheet leaves the window.
DismissLeave ==
  /\ At("leave")
  /\ IF ~IteratorValid(Arg, Head(stack).list, OverlayList) THEN Crash
     ELSE /\ Then(<<Frame("detached", Arg),
                    [Head(stack) EXCEPT !.op = "erase",
                                        !.prev = overlays[IndexOf(Arg)].previous]>>)
          /\ UNCHANGED <<trees, shown, pointer, focus, crashed, last>>

DismissErase ==
  /\ At("erase")
  /\ IF ~IteratorValid(Arg, Head(stack).list, OverlayList) THEN Crash
     ELSE /\ Then(<<Frame("restore", Head(stack).prev)>>)
          /\ overlays' = Without(IndexOf(Arg))
          /\ last' = [op |-> "return", w |-> Head(stack).prev]
          /\ UNCHANGED <<child, parent, shown, pointer, focus, crashed>>

-----------------------------------------------------------------------------
FocusStep ==
  Focus \/ FocusChanged \/ Take \/ Taken \/ Restore \/ RestoreFirst

HandlerStep ==
  \/ FocusStep
  \/ SetHovered \/ Bubble \/ MoveDeliver \/ PressDeliver \/ ReleaseDeliver \/ Released
  \/ StateChanged \/ Detached \/ Forget \/ Unlink
  \/ ShownAgain \/ DismissLeave \/ DismissErase

PlatformEvent ==
  \/ WindowFocusIn \/ WindowFocusOut
  \/ MouseLeave \/ Key \/ Tab
  \/ \E w \in Targets \cup {None} : MouseMove(w) \/ MousePress(w) \/ MouseRelease(w)

UserCall ==
  \/ \E w \in Grabbers : GrabFocus(w)
  \/ \E w \in Hideable : Hide(w) \/ Show(w)
  \/ \E w \in Disableable : SetSensitive(w)
  \/ \E w \in Refocusable : SetFocusable(w)
  \/ \E w \in Detachable : RemoveChild(w)
  \/ \E w \in Detachable, container \in Containers : InsertChild(w, container)
  \/ \E root \in {Content, None} : SetChild(root)
  \/ \E sheet \in Sheets, modal \in BOOLEAN : ShowOverlay(sheet, modal)
  \/ \E i \in DOMAIN overlays, modal \in BOOLEAN : ShowAgain(i, modal)
  \/ \E i \in DOMAIN overlays : Dismiss(i)

Next == HandlerStep \/ UserReturn \/ PlatformEvent \/ UserCall

Spec == Init /\ [][Next]_vars

-----------------------------------------------------------------------------
(* Properties                                                               *)

Quiet == stack = <<>> /\ ~crashed

\* The types of the variables, and no sheet is listed twice: overlays are found
\* by widget, so a second entry of one could never be dismissed.
TypeOK ==
  /\ child \in {Content, None}
  /\ overlays \in Seq(Entries)
  /\ parent \in [Widgets -> Pointers]
  /\ visible \subseteq Widgets /\ sensitive \subseteq Widgets /\ focusable \subseteq Widgets
  /\ {hovered, pressed, focused, pending} \subseteq Pointers
  /\ last \in [op : {"other", "return", "release"}, w : Pointers]
  /\ crashed \in BOOLEAN
  /\ \A i, j \in DOMAIN overlays : overlays[i].widget = overlays[j].widget => i = j

\* Whatever event handlers do to the trees while the window is in the middle of a
\* dispatch, a dismissal or a removal, its raw pointers to widgets point into
\* its trees and no handler goes on with a pointer or an iterator that its
\* callbacks invalidated.
PointersStayGood ==
  /\ ~crashed
  /\ \A w \in {hovered, pressed, focused} : w = None \/ InWindow(w)

\* "A programmatic restore (for example after a nested confirmation) must obey
\* the same containment as Tab": no step of focus_widget(), whoever asked for it
\* and whatever event handlers do, moves the focus outside the top modal sheet.
\* The test comes before the old owner is told, and the focus moves after, so this
\* depends on what focus controllers may do in between: grab the focus for another
\* widget, which then moves twice, or disable widgets, but not change the overlays.
FocusMovesInsideModal ==
  [][ (focused' # focused /\ focused' # None /\ TopModal' # None)
        => Inside(focused', TopModal') ]_vars

\* Between events the focused widget is visible and sensitive itself, although it
\* can be hidden and disabled by any handler that runs before it takes the focus.
\* That it is focusable is not promised: set_focusable(false) does not look.
FocusedIsUsable == Quiet /\ focused # None => focused \in visible \cap sensitive

\* When set_visible(false) or set_sensitive(false) has run to its end, nothing in
\* that subtree is hovered, pressed or focused, even if a slot of on_unmap moved
\* the focus or dispatched into it.
UnusableTreesAreReleased ==
  Quiet /\ last.op = "release" /\ last.w \notin visible \cap sensitive =>
    \A w \in {hovered, pressed, focused} : ~Inside(w, last.w)

\* The widget a sheet takes the focus from, to give it back, is not one of the
\* sheet's own, which will leave with it: re-showing a sheet that has the focus
\* must not overwrite the target. (The application may move it into the sheet
\* later; it is then not in the window when the sheet has left.)
RestoreTargetsComeFromOutside ==
  [][ \A i \in DOMAIN overlays' :
        LET entry == overlays'[i]
            kept == \E j \in DOMAIN overlays :
                      /\ overlays[j].widget = entry.widget
                      /\ overlays[j].previous = entry.previous
        IN  kept \/ ~Inside(entry.previous, entry.widget) ]_vars

\* docs/how-to/validate-accessibility.md: "Closing the dialog returns focus to
\* the control that opened it". After a dismissal (or when the window is active
\* again) the restore target has the focus, if it is still in the window, can
\* have it and no other modal sheet is up.
FocusReturns ==
  LET w == last.w
  IN  Quiet /\ last.op = "return" /\ InWindow(w) /\ CanFocus(w)
        /\ (TopModal = None \/ Inside(w, TopModal)) => focused = w

\* ui_core/widget.h: "A Widget must be sensitive and mapped to acquire focus": no
\* ancestor of the widget that takes the focus is hidden or disabled.
FocusOwnerIsMapped ==
  [][ (focused' # focused /\ focused' # None)
        => Path[focused'] \subseteq visible \cap sensitive ]_vars
=============================================================================
