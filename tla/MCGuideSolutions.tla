--------------------------- MODULE MCGuideSolutions ---------------------------
(* Three edits over two questions: two edits can collide on one question while *)
(* the third one works on the other, or all three collide.                     *)
EXTENDS GuideSolutions
=============================================================================
