--------------------------- MODULE MCAsyncRequest ---------------------------
(***************************************************************************)
(* AsyncRequest with two clients of one IO thread: r1's has the shortest   *)
(* timeout, the others time out later.                                     *)
(***************************************************************************)
EXTENDS AsyncRequest

CONSTANTS r1, r2, r3, w1

MCTimeout == [m \in Request |-> IF m = r1 THEN 1 ELSE 2]
=============================================================================
