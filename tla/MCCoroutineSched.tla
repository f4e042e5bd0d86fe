--------------------------- MODULE MCCoroutineSched ---------------------------
(***************************************************************************)
(* CoroutineKept for TLC.  Every call blocks at most one coroutine, so     *)
(* that no more than MCMaxCoros are ever needed.                           *)
(***************************************************************************)
EXTENDS CoroutineKept

MCMaxCoros == InitSize + MaxCalls
===============================================================================
