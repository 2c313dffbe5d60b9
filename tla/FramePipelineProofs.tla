------------------------- MODULE FramePipelineProofs -------------------------
(***************************************************************************)
(* Theorems about FramePipeline, for every set of widgets, parts and sizes: *)
(* the type invariant and ScreenShowsPixels. What makes the second          *)
(* inductive is that the buffer presented last holds what the compositor    *)
(* shows, in the size the renderer drew in, unless every cell is lost.      *)
(***************************************************************************)
EXTENDS FramePipeline, TLAPS

Images == [Cells -> Versions]

Frames ==
  [stage : {"none"}]
    \cup [stage : {"layout"}, size : Sizes, hadLayout : BOOLEAN]
    \cup [stage : {"snapped"}, size : Sizes, hadLayout : BOOLEAN, snapshot : Images]

BufferStates ==
  [size : Sizes \cup {NoSize}, cells : Images, busy : BOOLEAN, initialized : BOOLEAN]

\* The parts of TypeOK: what the widgets and the window keep ...
WindowTypes ==
  /\ visible \in BOOLEAN /\ needsLayout \in BOOLEAN /\ framePending \in BOOLEAN
  /\ size \in Sizes
  /\ dirty \subseteq Widgets
  /\ \A widget \in Widgets : queued[widget] \subseteq Parts[widget]
  /\ posted = IF framePending THEN 1 ELSE 0
  /\ content \in Images
  /\ changes \in Versions
  /\ frame \in Frames
  /\ lost \subseteq Cells /\ overlooked \subseteq Cells

\* ... and the pixels.
SurfaceTypes ==
  /\ renderer \in [size : Sizes \cup {NoSize}, pixels : Images]
  /\ buffers \in [Buffers -> BufferStates]
  /\ current \in Buffers
  /\ last \in Buffers \cup {Never}
  /\ screen \in Images

\* A version counts changes; queued is a function.
Counted ==
  /\ queued = [widget \in Widgets |-> queued[widget]]
  /\ \A cell \in Cells : content[cell] <= changes

TypeInv == WindowTypes /\ SurfaceTypes /\ Counted

LEMMA TypeParts == TypeOK <=> WindowTypes /\ SurfaceTypes
  BY DEF TypeOK, WindowTypes, SurfaceTypes, Frames, Images, BufferStates

-----------------------------------------------------------------------------
LEMMA CellsOfWidget ==
  ASSUME NEW widget \in Widgets
  PROVE  CellsOf(widget) \subseteq Cells
  BY DEF CellsOf, Cells

LEMMA PartOfWidget ==
  ASSUME NEW widget \in Widgets, NEW part \in Parts[widget]
  PROVE  <<widget, part>> \in Cells
  BY DEF Cells

\* A change of some cells gives versions of them.
LEMMA ChangeTypes ==
  ASSUME WindowTypes, Counted,
         NEW cells, NEW missed \in SUBSET Cells, Change(cells, missed)
  PROVE  /\ content' \in Images /\ changes' \in Versions
         /\ overlooked' \subseteq Cells
         /\ \A cell \in Cells : content'[cell] <= changes'
<1> USE PipelineAssumption DEF PipelineAssumption, WindowTypes, Counted, Versions, Images
<1>1. changes \in Nat /\ changes < MaxChanges /\ changes' = changes + 1
  BY DEF Change
<1>2. ASSUME NEW cell \in Cells
      PROVE  content'[cell] \in 0..changes'
  <2>1. content[cell] \in 0..changes
    OBVIOUS
  <2>2. content'[cell] = IF cell \in cells THEN content[cell] + 1 ELSE content[cell]
    BY DEF Change
  <2> QED
    BY <1>1, <2>1, <2>2
<1>3. content' = [cell \in Cells |-> content'[cell]]
  BY DEF Change
<1>4. content' \in [Cells -> 0..MaxChanges]
  <2>1. \A cell \in Cells : content'[cell] \in 0..MaxChanges
    BY <1>1, <1>2
  <2> QED
    BY <1>3, <2>1
<1> QED
  BY <1>1, <1>2, <1>4 DEF Change

LEMMA RequestTypes ==
  ASSUME WindowTypes, NEW shown \in BOOLEAN, RequestFrame(shown)
  PROVE  framePending' \in BOOLEAN /\ posted' = IF framePending' THEN 1 ELSE 0
  BY DEF WindowTypes, RequestFrame

LEMMA TooLateCells ==
  ASSUME NEW cells \in SUBSET Cells
  PROVE  TooLate(cells) \subseteq Cells
  BY DEF TooLate

LEMMA RenderedCells ==
  ASSUME WindowTypes
  PROVE  Rendered \subseteq Cells
<1>1. Damage \subseteq Cells
  BY DEF WindowTypes, Damage, CellsOf, Cells
<1> QED
  BY <1>1 DEF Rendered

-----------------------------------------------------------------------------
LEMMA TypesInit == Init => TypeInv
<1> SUFFICES ASSUME Init PROVE TypeInv
  OBVIOUS
<1>1. Blank \in Images
  BY PipelineAssumption DEF PipelineAssumption, Blank, Images, Versions
<1>2. NoBuffer \in BufferStates
  BY <1>1 DEF NoBuffer, BufferStates
<1>3. WindowTypes
  BY <1>1, PipelineAssumption
  DEF Init, WindowTypes, PipelineAssumption, Versions, Frames, NoFrame
<1>4. SurfaceTypes
  BY <1>1, <1>2 DEF Init, SurfaceTypes, Buffers
<1>5. Counted
  BY DEF Init, Counted, Blank
<1> QED
  BY <1>3, <1>4, <1>5 DEF TypeInv

\* The widgets' requests.
LEMMA WidgetTypes == TypeInv /\ WidgetStep => TypeInv'
<1> SUFFICES ASSUME TypeInv, NEW widget \in Widgets,
                    \/ QueueRedraw(widget) \/ QueueLayout(widget)
                    \/ \E part \in Parts[widget] : QueueRedrawPart(widget, part)
             PROVE  TypeInv'
  BY DEF WidgetStep
<1>1. SurfaceTypes'
  BY DEF TypeInv, SurfaceTypes, QueueRedraw, QueueLayout, QueueRedrawPart, surfaceVars
<1>2. visible \in BOOLEAN
  BY DEF TypeInv, WindowTypes
<1>3. CASE QueueRedraw(widget)
  <2>1. /\ content' \in Images /\ changes' \in Versions
        /\ overlooked' \subseteq Cells
        /\ \A cell \in Cells : content'[cell] <= changes'
    BY <1>3, ChangeTypes, CellsOfWidget, TooLateCells DEF QueueRedraw, TypeInv
  <2>2. framePending' \in BOOLEAN /\ posted' = IF framePending' THEN 1 ELSE 0
    BY <1>2, <1>3, RequestTypes DEF QueueRedraw, TypeInv
  <2>3. /\ queued' = [w \in Widgets |-> queued'[w]]
        /\ \A w \in Widgets : queued'[w] \subseteq Parts[w]
    BY <1>3 DEF QueueRedraw, TypeInv, WindowTypes, Counted
  <2> QED
    BY <1>1, <1>3, <2>1, <2>2, <2>3
    DEF QueueRedraw, TypeInv, WindowTypes, Counted, surfaceVars
<1>4. CASE QueueLayout(widget)
  <2>1. /\ content' \in Images /\ changes' \in Versions
        /\ overlooked' \subseteq Cells
        /\ \A cell \in Cells : content'[cell] <= changes'
    BY <1>4, ChangeTypes DEF QueueLayout, TypeInv
  <2>2. framePending' \in BOOLEAN /\ posted' = IF framePending' THEN 1 ELSE 0
    BY <1>2, <1>4, RequestTypes DEF QueueLayout, TypeInv
  <2> QED
    BY <1>1, <1>4, <2>1, <2>2
    DEF QueueLayout, TypeInv, WindowTypes, Counted, surfaceVars
<1>5. ASSUME NEW part \in Parts[widget], QueueRedrawPart(widget, part)
      PROVE  TypeInv'
  <2> DEFINE missed ==
        TooLate({<<widget, part>>}) \cup
          {cell \in CellsOf(widget) :
             /\ widget \in dirty /\ queued[widget] = {}
             /\ cell[2] # part /\ content[cell] # renderer.pixels[cell]}
  <2>1. missed \in SUBSET Cells
    <3>1. TooLate({<<widget, part>>}) \subseteq Cells
      BY PartOfWidget, TooLateCells
    <3> QED
      BY <3>1, CellsOfWidget
  <2>2. Change({<<widget, part>>}, missed)
    BY <1>5 DEF QueueRedrawPart
  <2> HIDE DEF missed
  <2>3. /\ content' \in Images /\ changes' \in Versions
        /\ overlooked' \subseteq Cells
        /\ \A cell \in Cells : content'[cell] <= changes'
    BY <2>1, <2>2, ChangeTypes DEF TypeInv
  <2>4. framePending' \in BOOLEAN /\ posted' = IF framePending' THEN 1 ELSE 0
    BY <1>2, <1>5, RequestTypes DEF QueueRedrawPart, TypeInv
  <2>5. /\ queued' = [w \in Widgets |-> queued'[w]]
        /\ \A w \in Widgets : queued'[w] \subseteq Parts[w]
    BY <1>5 DEF QueueRedrawPart, TypeInv, WindowTypes, Counted
  <2> QED
    BY <1>1, <1>5, <2>3, <2>4, <2>5
    DEF QueueRedrawPart, TypeInv, WindowTypes, Counted, surfaceVars
<1> QED
  BY <1>3, <1>4, <1>5

\* What the window and the compositor do between frames.
LEMMA BetweenTypes ==
  TypeInv /\ (WindowStep \/ \E buffer \in Buffers : Release(buffer)) => TypeInv'
<1> SUFFICES ASSUME TypeInv, WindowStep \/ \E buffer \in Buffers : Release(buffer)
             PROVE  TypeInv'
  OBVIOUS
<1>1. CASE Present
  <2>1. framePending' \in BOOLEAN /\ posted' = IF framePending' THEN 1 ELSE 0
    BY <1>1, RequestTypes DEF Present, TypeInv
  <2> QED
    BY <1>1, <2>1 DEF Present, TypeInv, WindowTypes, SurfaceTypes, Counted, surfaceVars
<1>2. CASE Hide
  BY <1>2 DEF Hide, TypeInv, WindowTypes, SurfaceTypes, Counted, surfaceVars
<1>3. ASSUME NEW newSize \in Sizes, NEW layout \in BOOLEAN, Reconfigure(newSize, layout)
      PROVE  TypeInv'
  <2>1. framePending' \in BOOLEAN /\ posted' = IF framePending' THEN 1 ELSE 0
    BY <1>3, RequestTypes DEF Reconfigure, TypeInv, WindowTypes
  <2> QED
    BY <1>3, <2>1 DEF Reconfigure, TypeInv, WindowTypes, SurfaceTypes, Counted, surfaceVars
<1>4. ASSUME NEW buffer \in Buffers, Release(buffer)
      PROVE  TypeInv'
  <2>1. buffers' \in [Buffers -> BufferStates]
    <3>1. buffers \in [Buffers -> BufferStates]
      BY DEF TypeInv, SurfaceTypes
    <3>2. buffers' = [buffers EXCEPT ![buffer].busy = FALSE]
      BY <1>4 DEF Release
    <3>3. ASSUME NEW state \in BufferStates
          PROVE  [state EXCEPT !.busy = FALSE] \in BufferStates
      BY DEF BufferStates
    <3> QED
      BY <3>1, <3>2, <3>3
  <2> QED
    BY <1>4, <2>1 DEF Release, TypeInv, WindowTypes, SurfaceTypes, Counted, windowVars
<1> QED
  BY <1>1, <1>2, <1>3, <1>4 DEF WindowStep

\* The buffers and the screen after an upload.
LEMMA UploadTypes ==
  ASSUME TypeInv, frame.size \in Sizes,
         NEW pixels \in Images, NEW allocated \in BOOLEAN, Upload(pixels, allocated)
  PROVE  /\ buffers' \in [Buffers -> BufferStates]
         /\ current' \in Buffers
         /\ last' \in Buffers \cup {Never}
         /\ screen' \in Images
         /\ lost' \subseteq Cells
<1> DEFINE buffer == FreeBuffer
           reallocates == buffers[buffer].size # frame.size
           all  == RendersAll \/ ~buffers[buffer].initialized \/ reallocates
           base == IF CopiesLast(buffer) THEN buffers[last].cells ELSE buffers[buffer].cells
           cells == [cell \in Cells |-> IF all \/ cell \in Rendered THEN pixels[cell]
                                                                     ELSE base[cell]]
<1>1. /\ current \in Buffers /\ last \in Buffers \cup {Never}
      /\ buffers \in [Buffers -> BufferStates]
      /\ screen \in Images /\ lost \subseteq Cells
  BY DEF TypeInv, SurfaceTypes, WindowTypes
<1>2. buffer \in Buffers \cup {Never}
  BY <1>1 DEF FreeBuffer, Buffers
<1>3. Rendered \subseteq Cells
  BY RenderedCells DEF TypeInv
<1>4. CASE buffer # Never /\ (reallocates => allocated)
  <2>1. buffer \in Buffers
    BY <1>2, <1>4
  <2>2. base \in Images
    BY <1>1, <2>1 DEF CopiesLast, BufferStates
  <2>3. cells \in Images
    BY <2>2 DEF Images
  <2>4. /\ buffers' = [buffers EXCEPT ![buffer] =
             [size |-> frame.size, cells |-> cells, busy |-> TRUE, initialized |-> TRUE]]
        /\ current' = 3 - buffer
        /\ last' = buffer
        /\ screen' = cells
        /\ lost' = IF all THEN {} ELSE lost \ Rendered
    BY <1>4 DEF Upload
  <2>5. [size |-> frame.size, cells |-> cells, busy |-> TRUE, initialized |-> TRUE]
          \in BufferStates
    BY <2>3 DEF BufferStates
  <2> HIDE DEF cells, all, base, reallocates, buffer
  <2>6. buffers' \in [Buffers -> BufferStates]
    BY <1>1, <2>4, <2>5
  <2>7. current' \in Buffers
    BY <2>1, <2>4 DEF Buffers
  <2> QED
    BY <1>1, <2>1, <2>3, <2>4, <2>6, <2>7
<1>5. CASE ~(buffer # Never /\ (reallocates => allocated))
  <2>1. /\ buffers' = IF buffer = Never THEN buffers
                      ELSE [buffers EXCEPT ![buffer] = NoBuffer]
        /\ lost' = lost \cup Rendered
        /\ UNCHANGED <<current, last, screen>>
    BY <1>5 DEF Upload
  <2>2. NoBuffer \in BufferStates
    BY PipelineAssumption
    DEF PipelineAssumption, NoBuffer, BufferStates, Blank, Images, Versions
  <2> HIDE DEF buffer
  <2>3. buffers' \in [Buffers -> BufferStates]
    BY <1>1, <1>2, <2>1, <2>2
  <2> QED
    BY <1>1, <1>3, <2>1, <2>3
<1> QED
  BY <1>4, <1>5

\* The pixels a frame renders.
NewPixels == [cell \in Cells |-> IF cell \in Rendered THEN frame.snapshot[cell]
                                                     ELSE renderer.pixels[cell]]

LEMMA FrameTypes == TypeInv /\ FrameStep => TypeInv'
<1> SUFFICES ASSUME TypeInv, FrameStep PROVE TypeInv'
  OBVIOUS
<1>1. CASE FrameBegin
  <2>1. frame' \in Frames
    BY <1>1 DEF FrameBegin, Frames, NoFrame, TypeInv, WindowTypes
  <2>2. posted' = 0 /\ framePending' = FALSE
    BY <1>1 DEF FrameBegin, TypeInv, WindowTypes
  <2> QED
    BY <1>1, <2>1, <2>2 DEF FrameBegin, TypeInv, WindowTypes, SurfaceTypes, Counted, surfaceVars
<1>2. CASE FrameSnapshot
  <2>1. frame \in [stage : {"layout"}, size : Sizes, hadLayout : BOOLEAN]
    BY <1>2 DEF FrameSnapshot, Frames, TypeInv, WindowTypes
  <2>2. frame' \in [stage : {"snapped"}, size : Sizes, hadLayout : BOOLEAN, snapshot : Images]
    BY <1>2, <2>1 DEF FrameSnapshot, TypeInv, WindowTypes
  <2>3. frame' \in Frames
    BY <2>2 DEF Frames
  <2>4. needsLayout' \in BOOLEAN
    BY <1>2 DEF FrameSnapshot
  <2> QED
    BY <1>2, <2>3, <2>4
    DEF FrameSnapshot, TypeInv, WindowTypes, SurfaceTypes, Counted, surfaceVars
<1>3. ASSUME NEW allocated \in BOOLEAN, FrameFinish(allocated)
      PROVE  TypeInv'
  <2>1. frame \in [stage : {"snapped"}, size : Sizes, hadLayout : BOOLEAN, snapshot : Images]
    BY <1>3 DEF FrameFinish, InSnapshot, Frames, TypeInv, WindowTypes
  <2>2. renderer.pixels \in Images
    BY DEF TypeInv, SurfaceTypes
  <2>3. NewPixels \in Images
    BY <2>1, <2>2 DEF NewPixels, Images
  <2>4. renderer' = [size |-> frame.size, pixels |-> NewPixels]
    BY <1>3 DEF FrameFinish, NewPixels
  <2>5. Upload(NewPixels, allocated)
    BY <1>3 DEF FrameFinish, NewPixels
  <2>6. SurfaceTypes' /\ lost' \subseteq Cells
    BY <2>1, <2>3, <2>4, <2>5, UploadTypes DEF SurfaceTypes
  <2>7. /\ queued' = [widget \in Widgets |-> queued'[widget]]
        /\ \A widget \in Widgets : queued'[widget] \subseteq Parts[widget]
    BY <1>3 DEF FrameFinish, TypeInv, WindowTypes
  <2>8. overlooked' \subseteq Cells
    BY <1>3 DEF FrameFinish, TypeInv, WindowTypes
  <2>9. frame' \in Frames
    BY <1>3 DEF FrameFinish, Frames, NoFrame
  <2> QED
    BY <1>3, <2>6, <2>7, <2>8, <2>9 DEF FrameFinish, TypeInv, WindowTypes, Counted
<1> QED
  BY <1>1, <1>2, <1>3 DEF FrameStep

LEMMA TypesStep == TypeInv /\ [Next]_vars => TypeInv'
<1>1. TypeInv /\ UNCHANGED vars => TypeInv'
  BY DEF vars, windowVars, surfaceVars, TypeInv, WindowTypes, SurfaceTypes, Counted
<1> QED
  BY <1>1, WidgetTypes, BetweenTypes, FrameTypes DEF Next

\* Frame requests are merged, and everything has its type.
THEOREM TypeCorrect == Spec => []TypeOK
<1>1. Init => TypeInv
  BY TypesInit
<1>2. TypeInv /\ [Next]_vars => TypeInv'
  BY TypesStep
<1>3. TypeInv => TypeOK
  BY TypeParts DEF TypeInv
<1> QED
  BY <1>1, <1>2, <1>3, PTL DEF Spec

-----------------------------------------------------------------------------
\* Before a first upload no buffer has anything; after it, the buffer presented last holds
\* the screen in the renderer's size, unless every cell is lost.
LastIsShown ==
  /\ last = Never => \A buffer \in Buffers : ~buffers[buffer].initialized
  /\ last # Never /\ lost # Cells =>
       screen = buffers[last].cells /\ buffers[last].size = renderer.size

ShownInv == TypeInv /\ ScreenShowsPixels /\ LastIsShown

LEMMA ShownInit == Init => ScreenShowsPixels /\ LastIsShown
  BY DEF Init, ScreenShowsPixels, LastIsShown, NoBuffer, Blank

\* A partial frame is of the size the renderer has, and draws what is damaged.
LEMMA PartialFrame ==
  ASSUME ~RendersAll
  PROVE  frame.size = renderer.size
  BY DEF RendersAll

LEMMA WholeFrame ==
  ASSUME RendersAll
  PROVE  Rendered = Cells
  BY DEF Rendered

\* A frame that is uploaded: what a partial upload leaves alone is in its buffer, for the
\* last buffer was that one or is copied.
LEMMA UploadedIsShown ==
  ASSUME ShownInv, frame.size \in Sizes, NewPixels \in Images,
         renderer' = [size |-> frame.size, pixels |-> NewPixels],
         NEW allocated \in BOOLEAN, Upload(NewPixels, allocated),
         FreeBuffer # Never,
         buffers[FreeBuffer].size # frame.size => allocated
  PROVE  ScreenShowsPixels' /\ LastIsShown'
<1> DEFINE buffer == FreeBuffer
           reallocates == buffers[buffer].size # frame.size
           all  == RendersAll \/ ~buffers[buffer].initialized \/ reallocates
           base == IF CopiesLast(buffer) THEN buffers[last].cells ELSE buffers[buffer].cells
           cells == [cell \in Cells |-> IF all \/ cell \in Rendered THEN NewPixels[cell]
                                                                     ELSE base[cell]]
<1>1. /\ current \in Buffers /\ last \in Buffers \cup {Never}
      /\ buffers \in [Buffers -> BufferStates]
      /\ lost \subseteq Cells
  BY DEF ShownInv, TypeInv, SurfaceTypes, WindowTypes
<1>2. buffer \in Buffers
  BY <1>1 DEF FreeBuffer, Buffers
<1>3. /\ buffers' = [buffers EXCEPT ![buffer] =
             [size |-> frame.size, cells |-> cells, busy |-> TRUE, initialized |-> TRUE]]
      /\ last' = buffer
      /\ screen' = cells
      /\ lost' = IF all THEN {} ELSE lost \ Rendered
  BY DEF Upload
<1>4. ASSUME ~all, NEW cell \in Cells, cell \notin lost
      PROVE  base[cell] = renderer.pixels[cell]
  <2>1. frame.size = renderer.size
    BY <1>4, PartialFrame
  <2>2. last # Never
    BY <1>2, <1>4 DEF ShownInv, LastIsShown
  <2>3. screen = buffers[last].cells /\ buffers[last].size = renderer.size
    BY <1>4, <2>2 DEF ShownInv, LastIsShown
  <2>4. base = buffers[last].cells
    BY <2>1, <2>2, <2>3 DEF CopiesLast
  <2> QED
    BY <1>4, <2>3, <2>4 DEF ShownInv, ScreenShowsPixels
<1>5. buffer # Never
  BY <1>2 DEF Buffers, Never
<1> HIDE DEF buffer, reallocates, all, base
<1>6. ScreenShowsPixels'
  <2> SUFFICES ASSUME NEW cell \in Cells, cell \notin lost'
               PROVE  screen'[cell] = renderer'.pixels[cell]
    BY DEF ScreenShowsPixels
  <2>1. CASE all \/ cell \in Rendered
    BY <1>3, <2>1
  <2>2. CASE ~all /\ cell \notin Rendered
    <3>1. cell \notin lost
      BY <1>3, <2>2
    <3>2. NewPixels[cell] = renderer.pixels[cell]
      BY <2>2 DEF NewPixels
    <3> QED
      BY <1>3, <1>4, <2>2, <3>1, <3>2
  <2> QED
    BY <2>1, <2>2
<1>7. LastIsShown'
  BY <1>1, <1>2, <1>3, <1>5 DEF LastIsShown
<1> QED
  BY <1>6, <1>7

\* A frame that is skipped: the cells it drew are lost, all of them when the size is new.
LEMMA SkippedIsLost ==
  ASSUME ShownInv, frame.size \in Sizes, NewPixels \in Images,
         renderer' = [size |-> frame.size, pixels |-> NewPixels],
         NEW allocated \in BOOLEAN, Upload(NewPixels, allocated),
         ~(FreeBuffer # Never /\ (buffers[FreeBuffer].size # frame.size => allocated))
  PROVE  ScreenShowsPixels' /\ LastIsShown'
<1> DEFINE buffer == FreeBuffer
<1>1. /\ current \in Buffers /\ last \in Buffers \cup {Never}
      /\ buffers \in [Buffers -> BufferStates]
      /\ lost \subseteq Cells
  BY DEF ShownInv, TypeInv, SurfaceTypes, WindowTypes
<1>2. buffer \in Buffers \cup {Never}
  BY <1>1 DEF FreeBuffer, Buffers
<1>3. /\ buffers' = IF buffer = Never THEN buffers
                    ELSE [buffers EXCEPT ![buffer] = NoBuffer]
      /\ lost' = lost \cup Rendered
      /\ last' = last /\ screen' = screen
  BY DEF Upload
<1>4. Rendered \subseteq Cells
  BY RenderedCells DEF ShownInv, TypeInv
<1>5. ScreenShowsPixels'
  <2> SUFFICES ASSUME NEW cell \in Cells, cell \notin lost'
               PROVE  screen'[cell] = renderer'.pixels[cell]
    BY DEF ScreenShowsPixels
  <2>1. NewPixels[cell] = renderer.pixels[cell]
    BY <1>3 DEF NewPixels
  <2> QED
    BY <1>3, <2>1 DEF ShownInv, ScreenShowsPixels
<1>6. ASSUME last # Never, lost' # Cells
      PROVE  screen' = buffers'[last].cells /\ buffers'[last].size = renderer'.size
  <2>1. lost # Cells /\ frame.size = renderer.size
    BY <1>1, <1>3, <1>4, <1>6, PartialFrame, WholeFrame
  <2>2. screen = buffers[last].cells /\ buffers[last].size = renderer.size
    BY <1>6, <2>1 DEF ShownInv, LastIsShown
  <2>3. buffer # last
    BY <1>6, <2>1, <2>2
  <2> QED
    BY <1>1, <1>2, <1>3, <1>6, <2>1, <2>2, <2>3
<1>7. ASSUME last = Never, NEW b \in Buffers
      PROVE  ~buffers'[b].initialized
  <2>1. ~buffers[b].initialized /\ ~NoBuffer.initialized
    BY <1>7 DEF ShownInv, LastIsShown, NoBuffer
  <2> QED
    BY <1>1, <1>2, <1>3, <2>1
<1> QED
  BY <1>3, <1>5, <1>6, <1>7 DEF LastIsShown

LEMMA ShownStep == ShownInv /\ [Next]_vars => ScreenShowsPixels' /\ LastIsShown'
<1> SUFFICES ASSUME ShownInv, [Next]_vars PROVE ScreenShowsPixels' /\ LastIsShown'
  OBVIOUS
<1>1. ASSUME UNCHANGED surfaceVars
      PROVE  ScreenShowsPixels' /\ LastIsShown'
  BY <1>1 DEF surfaceVars, ShownInv, ScreenShowsPixels, LastIsShown
<1>2. CASE WidgetStep
  BY <1>1, <1>2 DEF WidgetStep, QueueRedraw, QueueLayout, QueueRedrawPart
<1>3. CASE WindowStep
  BY <1>1, <1>3 DEF WindowStep, Present, Hide, Reconfigure
<1>4. CASE FrameBegin \/ FrameSnapshot
  BY <1>1, <1>4 DEF FrameBegin, FrameSnapshot
<1>5. ASSUME NEW allocated \in BOOLEAN, FrameFinish(allocated)
      PROVE  ScreenShowsPixels' /\ LastIsShown'
  <2>1. frame \in [stage : {"snapped"}, size : Sizes, hadLayout : BOOLEAN, snapshot : Images]
    BY <1>5 DEF FrameFinish, InSnapshot, Frames, ShownInv, TypeInv, WindowTypes
  <2>2. renderer.pixels \in Images
    BY DEF ShownInv, TypeInv, SurfaceTypes
  <2>3. NewPixels \in Images
    BY <2>1, <2>2 DEF NewPixels, Images
  <2>4. renderer' = [size |-> frame.size, pixels |-> NewPixels]
    BY <1>5 DEF FrameFinish, NewPixels
  <2>5. Upload(NewPixels, allocated)
    BY <1>5 DEF FrameFinish, NewPixels
  <2> QED
    BY <2>1, <2>3, <2>4, <2>5, UploadedIsShown, SkippedIsLost
<1>6. ASSUME NEW buffer \in Buffers, Release(buffer)
      PROVE  ScreenShowsPixels' /\ LastIsShown'
  <2>1. buffers \in [Buffers -> BufferStates] /\ last \in Buffers \cup {Never}
    BY DEF ShownInv, TypeInv, SurfaceTypes
  <2>2. buffers' = [buffers EXCEPT ![buffer].busy = FALSE]
    BY <1>6 DEF Release
  <2>3. ASSUME NEW b \in Buffers
        PROVE  /\ buffers'[b].cells = buffers[b].cells
               /\ buffers'[b].size = buffers[b].size
               /\ buffers'[b].initialized = buffers[b].initialized
    BY <2>1, <2>2 DEF BufferStates
  <2>4. UNCHANGED <<renderer, last, screen, lost>>
    BY <1>6 DEF Release
  <2>5. ScreenShowsPixels'
    BY <2>4 DEF ShownInv, ScreenShowsPixels
  <2>6. LastIsShown'
    BY <2>1, <2>3, <2>4 DEF ShownInv, LastIsShown
  <2> QED
    BY <2>5, <2>6
<1>7. CASE UNCHANGED vars
  BY <1>1, <1>7 DEF vars
<1> QED
  BY <1>2, <1>3, <1>4, <1>5, <1>6, <1>7 DEF Next, FrameStep

\* Whatever frames are partial, skipped or resized, and whichever buffer is free: the
\* screen shows the renderer's pixels in every cell that no skipped frame drew.
THEOREM ScreenIsRight == Spec => []ScreenShowsPixels
<1>1. Init => ShownInv
  BY TypesInit, ShownInit DEF ShownInv
<1>2. ShownInv /\ [Next]_vars => ShownInv'
  BY TypesStep, ShownStep DEF ShownInv
<1>3. ShownInv => ScreenShowsPixels
  BY DEF ShownInv
<1> QED
  BY <1>1, <1>2, <1>3, PTL DEF Spec
=============================================================================
