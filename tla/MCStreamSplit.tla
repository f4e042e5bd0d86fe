----------------------------- MODULE MCStreamSplit -----------------------------
(* RapidStream with five frames, one of them only a header. *)
EXTENDS RapidStream

FrameSizes == <<3, 2, 4, 2, 3>>
=============================================================================
