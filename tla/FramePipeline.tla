---------------------------- MODULE FramePipeline ----------------------------
(***************************************************************************)
(* How a change of a widget reaches the screen: the redraw requests of      *)
(* nk::Widget (src/ui_core/widget.cpp), the frame task of nk::Window        *)
(* (src/platform/window.cpp), the pixels of the software renderer           *)
(* (src/render/renderer.cpp) and the two buffers of a Wayland surface       *)
(* (src/platform/linux/wayland_surface.cpp) that the compositor shows.      *)
(*                                                                          *)
(* A widget covers a few parts of the window, the cells; what a cell should *)
(* look like is a version that grows when the widget changes it. The        *)
(* overlap of widgets, clipping and the merging of rectangles are left out, *)
(* and so is a window without a child or an application.                    *)
(***************************************************************************)
EXTENDS Integers, FiniteSets

CONSTANTS
  Widgets,
  Parts,       \* widget -> what queue_redraw(Rect) can tell apart within it
  Sizes,       \* the sizes of the framebuffer
  MaxChanges   \* bound on the changes of widgets

Cells    == UNION {{widget} \X Parts[widget] : widget \in Widgets}
Versions == 0..MaxChanges
Buffers  == {1, 2}
NoSize   == "none"
Never    == 0          \* last_presented_buffer_ = -1

ASSUME PipelineAssumption == Sizes # {} /\ NoSize \notin Sizes /\ MaxChanges \in Nat

VARIABLES
  visible, size, needsLayout,
  dirty,         \* Window's dirty_widgets
  queued,        \* widget -> queued_redraw_regions; none means all of it
  framePending,
  posted,        \* the frame tasks in the event loop
  content,       \* cell -> what the widget would draw now
  changes,       \* counts the changes
  frame,         \* the frame task in progress
  renderer,      \* SoftwareRenderer: size and pixels
  buffers,       \* the shared-memory buffers
  current, last, \* current_buffer_, last_presented_buffer_
  screen,        \* cell -> what the compositor was last given
  \* history
  lost,          \* cells of frames that were not presented
  overlooked     \* cells whose redraw the bookkeeping dropped

windowVars  == <<visible, size, needsLayout, dirty, queued, framePending, posted>>
surfaceVars == <<renderer, buffers, current, last, screen, lost>>
vars == <<windowVars, content, changes, frame, surfaceVars, overlooked>>

-----------------------------------------------------------------------------
CellsOf(widget) == {widget} \X Parts[widget]

NoFrame == [stage |-> "none"]

\* Widgets run code between frames, in the layout of a frame and in its snapshot.
InSnapshot == frame.stage = "snapped"

Blank == [cell \in Cells |-> 0]

NoBuffer == [size |-> NoSize, cells |-> Blank, busy |-> FALSE, initialized |-> FALSE]

\* A window that was presented: a first frame, with layout, is on its way.
Init ==
  /\ visible = TRUE
  /\ size \in Sizes
  /\ needsLayout = TRUE
  /\ dirty = {}
  /\ queued = [widget \in Widgets |-> {}]
  /\ framePending = TRUE
  /\ posted = 1
  /\ content = Blank
  /\ changes = 0
  /\ frame = NoFrame
  /\ renderer = [size |-> NoSize, pixels |-> Blank]
  /\ buffers = [buffer \in Buffers |-> NoBuffer]
  /\ current = 1
  /\ last = Never
  /\ screen = Blank
  /\ lost = {}
  /\ overlooked = {}

-----------------------------------------------------------------------------
\* Mutant: a task for every request.
RequestFrameAgain(shown) ==
  /\ framePending' = (framePending \/ shown)
  /\ posted' = IF shown THEN posted + 1 ELSE posted

\* Window::request_frame(): one task at a time, and none for a hidden window.
RequestFrame(shown) ==
  /\ framePending' = (framePending \/ shown)
  /\ posted' = IF shown /\ ~framePending THEN posted + 1 ELSE posted

\* The cells look different from now on.
Change(cells, missed) ==
  /\ changes < MaxChanges
  /\ changes' = changes + 1
  /\ content' = [cell \in Cells |-> IF cell \in cells THEN content[cell] + 1
                                                      ELSE content[cell]]
  /\ overlooked' = overlooked \cup missed

\* A redraw asked for after the snapshot was taken is overlooked: the frame in progress
\* forgets the request when it ends.
TooLate(cells) == IF InSnapshot THEN cells ELSE {}

\* Widget::queue_redraw(): the whole widget.
QueueRedraw(widget) ==
  /\ Change(CellsOf(widget), TooLate(CellsOf(widget)))
  /\ queued' = [queued EXCEPT ![widget] = {}]
  /\ dirty' = dirty \cup {widget}
  /\ RequestFrame(visible)
  /\ UNCHANGED <<visible, size, needsLayout, frame, surfaceVars>>

\* Widget::queue_redraw(Rect): after a request for the whole widget only the part
\* remains, because no region stands for all of it.
QueueRedrawPart(widget, part) ==
  /\ Change({<<widget, part>>},
            TooLate({<<widget, part>>}) \cup
              {cell \in CellsOf(widget) :
                 /\ widget \in dirty /\ queued[widget] = {}
                 /\ cell[2] # part /\ content[cell] # renderer.pixels[cell]})
  /\ queued' = [queued EXCEPT ![widget] = @ \cup {part}]
  /\ dirty' = dirty \cup {widget}
  /\ RequestFrame(visible)
  /\ UNCHANGED <<visible, size, needsLayout, frame, surfaceVars>>

\* Widget::queue_layout(): the frame in progress does not forget it.
QueueLayout(widget) ==
  /\ Change(CellsOf(widget), {})
  /\ needsLayout' = TRUE
  /\ dirty' = dirty \cup {widget}
  /\ RequestFrame(visible)
  /\ UNCHANGED <<visible, size, queued, frame, surfaceVars>>

\* Window::present()
Present ==
  /\ frame = NoFrame
  /\ ~visible
  /\ visible' = TRUE
  /\ needsLayout' = TRUE
  /\ RequestFrame(TRUE)
  /\ UNCHANGED <<size, dirty, queued, content, changes, frame, surfaceVars, overlooked>>

\* Window::hide(), which close() also comes to.
Hide ==
  /\ frame = NoFrame
  /\ visible
  /\ visible' = FALSE
  /\ UNCHANGED <<size, needsLayout, dirty, queued, framePending, posted, content, changes,
                 frame, surfaceVars, overlooked>>

\* The compositor resizes the surface, or changes its scale: only a new size needs
\* layout.
Reconfigure(newSize, layout) ==
  /\ frame = NoFrame
  /\ size # newSize
  /\ size' = newSize
  /\ needsLayout' = (needsLayout \/ layout)
  /\ RequestFrame(visible)
  /\ UNCHANGED <<visible, dirty, queued, content, changes, frame, surfaceVars, overlooked>>

\* buffer_handle_release()
Release(buffer) ==
  /\ frame = NoFrame
  /\ buffers[buffer].busy
  /\ buffers' = [buffers EXCEPT ![buffer].busy = FALSE]
  /\ UNCHANGED <<windowVars, content, changes, frame, renderer, current, last, screen, lost,
                 overlooked>>

-----------------------------------------------------------------------------
(***************************************************************************)
(* The frame task.                                                          *)
(***************************************************************************)
\* Mutant: a frame that finds the window hidden stays pending.
FrameBeginHidden ==
  /\ frame = NoFrame
  /\ posted > 0
  /\ posted' = posted - 1
  /\ framePending' = ~visible
  /\ frame' = IF visible THEN [stage |-> "layout", size |-> size, hadLayout |-> needsLayout]
                         ELSE NoFrame
  /\ UNCHANGED <<visible, size, needsLayout, dirty, queued, content, changes, surfaceVars,
                 overlooked>>

FrameBegin ==
  /\ frame = NoFrame
  /\ posted > 0
  /\ posted' = posted - 1
  /\ framePending' = FALSE
  /\ frame' = IF visible THEN [stage |-> "layout", size |-> size, hadLayout |-> needsLayout]
                         ELSE NoFrame
  /\ UNCHANGED <<visible, size, needsLayout, dirty, queued, content, changes, surfaceVars,
                 overlooked>>

\* perform_window_layout(), and the snapshot of the widgets.
FrameSnapshot ==
  /\ frame.stage = "layout"
  /\ needsLayout' = (needsLayout /\ ~frame.hadLayout)
  /\ frame' = [stage |-> "snapped", size |-> frame.size, hadLayout |-> frame.hadLayout,
               snapshot |-> content]
  /\ UNCHANGED <<visible, size, dirty, queued, framePending, posted, content, changes,
                 surfaceVars, overlooked>>

\* collect_frame_damage_regions() after a frame without layout.
Damage ==
  UNION {IF queued[widget] = {} THEN CellsOf(widget) ELSE {widget} \X queued[widget]
           : widget \in dirty}

\* A frame without damage, with layout or of another size is rendered as a whole.
RendersAll == frame.hadLayout \/ Damage = {} \/ frame.size # renderer.size

Rendered == IF RendersAll THEN Cells ELSE Damage

\* The buffer to write to, or Never when both are busy.
FreeBuffer ==
  LET other == 3 - current
  IN  IF ~buffers[current].busy THEN current
      ELSE IF ~buffers[other].busy THEN other ELSE Never

\* Mutant: a partial upload builds on whatever its buffer holds.
CopiesNothing(buffer) == FALSE

\* The last buffer presented holds the parts a partial upload leaves alone.
CopiesLast(buffer) ==
  last # Never /\ last # buffer /\ buffers[last].size = frame.size

\* WaylandSurface::present() of the new pixels; a new buffer may be refused.
Upload(pixels, allocated) ==
  LET buffer == FreeBuffer
      reallocates == buffers[buffer].size # frame.size
      all  == RendersAll \/ ~buffers[buffer].initialized \/ reallocates
      base == IF CopiesLast(buffer) THEN buffers[last].cells ELSE buffers[buffer].cells
      cells == [cell \in Cells |-> IF all \/ cell \in Rendered THEN pixels[cell]
                                                                ELSE base[cell]]
  IN
  IF buffer # Never /\ (reallocates => allocated)
  THEN /\ buffers' = [buffers EXCEPT ![buffer] =
            [size |-> frame.size, cells |-> cells, busy |-> TRUE, initialized |-> TRUE]]
       /\ current' = 3 - buffer
       /\ last' = buffer
       /\ screen' = cells
       /\ lost' = IF all THEN {} ELSE lost \ Rendered
  ELSE /\ buffers' = IF buffer = Never THEN buffers
                     ELSE [buffers EXCEPT ![buffer] = NoBuffer]
       /\ lost' = lost \cup Rendered
       /\ UNCHANGED <<current, last, screen>>

\* Render, present, and forget what was asked for.
FrameFinish(allocated) ==
  /\ InSnapshot
  /\ LET pixels == [cell \in Cells |-> IF cell \in Rendered THEN frame.snapshot[cell]
                                                            ELSE renderer.pixels[cell]]
     IN /\ renderer' = [size |-> frame.size, pixels |-> pixels]
        /\ Upload(pixels, allocated)
        /\ overlooked' = {cell \in overlooked : pixels[cell] # content[cell]}
  /\ queued' = [widget \in Widgets |-> IF widget \in dirty THEN {} ELSE queued[widget]]
  /\ dirty' = {}
  /\ frame' = NoFrame
  /\ UNCHANGED <<visible, size, needsLayout, framePending, posted, content, changes>>

-----------------------------------------------------------------------------
WidgetStep ==
  \E widget \in Widgets :
    \/ QueueRedraw(widget)
    \/ QueueLayout(widget)
    \/ \E part \in Parts[widget] : QueueRedrawPart(widget, part)

WindowStep ==
  \/ Present \/ Hide
  \/ \E newSize \in Sizes, layout \in BOOLEAN : Reconfigure(newSize, layout)

FrameStep ==
  \/ FrameBegin \/ FrameSnapshot
  \/ \E allocated \in BOOLEAN : FrameFinish(allocated)

Next ==
  \/ WidgetStep \/ WindowStep \/ FrameStep
  \/ \E buffer \in Buffers : Release(buffer)

\* The event loop runs the frame task; the compositor owes the client no release.
Spec == Init /\ [][Next]_vars /\ WF_vars(FrameStep)

-----------------------------------------------------------------------------
\* The shape of the state. A frame is pending exactly while its task is in the loop, and
\* there is one such task at most: requests are merged, none is lost, none is doubled.
TypeOK ==
  /\ {visible, needsLayout, framePending} \subseteq BOOLEAN
  /\ size \in Sizes
  /\ dirty \subseteq Widgets
  /\ \A widget \in Widgets : queued[widget] \subseteq Parts[widget]
  /\ posted = IF framePending THEN 1 ELSE 0
  /\ content \in [Cells -> Versions]
  /\ changes \in Versions
  /\ frame \in [stage : {"none"}]
       \cup [stage : {"layout"}, size : Sizes, hadLayout : BOOLEAN]
       \cup [stage : {"snapped"}, size : Sizes, hadLayout : BOOLEAN,
             snapshot : [Cells -> Versions]]
  /\ renderer \in [size : Sizes \cup {NoSize}, pixels : [Cells -> Versions]]
  /\ buffers \in [Buffers -> [size : Sizes \cup {NoSize}, cells : [Cells -> Versions],
                              busy : BOOLEAN, initialized : BOOLEAN]]
  /\ current \in Buffers
  /\ last \in Buffers \cup {Never}
  /\ screen \in [Cells -> Versions]
  /\ lost \subseteq Cells /\ overlooked \subseteq Cells

\* What the compositor was last given is what the renderer drew, in every cell but
\* those of a frame that found both buffers busy or no memory: partial uploads into
\* alternating buffers, resizes and reallocations leave nothing behind.
ScreenShowsPixels ==
  \A cell \in Cells \ lost : screen[cell] = renderer.pixels[cell]

Outdated == {cell \in Cells : renderer.pixels[cell] # content[cell]}

\* A visible window redraws what its widgets ask for, whatever mix of whole, partial
\* and layout requests comes before and during frames and while it was hidden, but for
\* what the bookkeeping is known to overlook.
RequestsAreDrawn ==
  (visible /\ Outdated \ overlooked # {}) ~> (~visible \/ Outdated \ overlooked = {})
=============================================================================
