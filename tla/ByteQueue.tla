------------------------------ MODULE ByteQueue -------------------------------
(***************************************************************************)
(* What common/buffer promises to the code that reads from, writes to and  *)
(* parses connections: a queue of bytes.                                   *)
(***************************************************************************)
EXTENDS Integers, Sequences

CONSTANTS Data, Count       \* what may be written; how many bytes may be taken off

VARIABLES content, called   \* the bytes; the last call and its argument

QueueInit == content = <<>> /\ called = <<"none", 0>>

(* Bytes are added at the end, ... *)
Append_(data) == called' = <<"Write", Len(data)>> /\ content' = content \o data

(* ... taken off at the front (all, if there are fewer), ... *)
DrainFront(n) ==
    /\ called' = <<"DrainReading", n>>
    /\ content' = IF n < Len(content) THEN SubSeq(content, n + 1, Len(content)) ELSE <<>>

(* ... or at the end (if there are so many). *)
StripEnd(n) ==
    /\ called' = <<"StripWriting", n>>
    /\ content' = IF n <= Len(content) THEN SubSeq(content, 1, Len(content) - n) ELSE content

Clear == called' = <<"Clear", 0>> /\ content' = <<>>

(* Calls about memory leave the bytes as they are. *)
Keep(n) == called' = <<"ShrinkSpace", n>> /\ content' = content

QueueNext ==
    \/ \E data \in Data : Append_(data)
    \/ \E n \in Count : DrainFront(n) \/ StripEnd(n) \/ Keep(n)
    \/ Clear

QueueSpec == QueueInit /\ [][QueueNext]_<<content, called>>
=============================================================================
