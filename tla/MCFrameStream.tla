--------------------------- MODULE MCFrameStream ---------------------------
(* FrameStream with frames of four bytes, a buffer of three frames and     *)
(* reservations smaller than a frame, as in the program.                   *)
EXTENDS FrameStream
=============================================================================
