---------------------------- MODULE MCTextRender ----------------------------
(* A box that is four or five wide and characters one, two or three wide,   *)
(* of which the smallest are in a font of size zero.                        *)
EXTENDS TextRender

MCBoxWidths == {4, 5}
MCBuiltIn  == [size |-> 2, pitch |-> 0]
MCPitches  == {-1, 1}
MCDefaults == {[size |-> 2, pitch |-> 1]}

MCExtent(size) == size + 1

ASSUME PitchesAreMild
=============================================================================
