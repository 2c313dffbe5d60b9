--------------------------- MODULE FramePipelineMC ---------------------------
(***************************************************************************)
(* FramePipeline for TLC: a widget of two parts beside one that is always   *)
(* drawn as a whole.                                                        *)
(***************************************************************************)
EXTENDS FramePipeline

CONSTANTS divided, plain

MCWidgets == {divided, plain}
MCParts   == [widget \in MCWidgets |-> IF widget = divided THEN {1, 2} ELSE {1}]
=============================================================================
