----------------------------- MODULE WindowFocusMC -----------------------------
(***************************************************************************)
(* A window with a content tree  root - box - a,  root - b  and two sheets: *)
(* dialog, with a button c, and alert, which holds nothing focusable. The   *)
(* box can be moved, with a in it, from the content to the dialog and back. *)
(***************************************************************************)
EXTENDS WindowFocus, TLC

CONSTANTS root, box, a, b, dialog, c, alert

MCWidgets == {root, box, a, b, dialog, c, alert}

MCParent == [w \in MCWidgets |->
  CASE w = a -> box
    [] w \in {box, b} -> root
    [] w = c -> dialog
    [] OTHER -> None]

\* Event handlers call every operation, focus controllers grab the focus, pointer
\* controllers call none.
HandlersCall == [kind \in {"event", "focus", "hover"} |->
  CASE kind = "event" -> Ops
    [] kind = "focus" -> {"focus"}
    [] OTHER -> {}]
=============================================================================
