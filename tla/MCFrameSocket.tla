--------------------------- MODULE MCFrameSocket ----------------------------
(* An instance of FrameSocket for TLC. *)
EXTENDS FrameSocket

\* A frame longer than its own header, an empty one and a short one.
MCData == <<<<11, 12, 13, 14, 15>>, <<>>, <<16>>>>
=============================================================================
