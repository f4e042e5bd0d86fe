------------------------------ MODULE HeapOps ------------------------------
(***************************************************************************)
(* The calls of common/heap.h as functions on a heap, for the modules in   *)
(* which a call is one step.  A heap is a record of HeapBase's arrays:     *)
(*   items: slot -> node     num: live slots      size: the container's    *)
(*   index: node -> slot     val: node -> key                              *)
(* HeapLoops states that HeapBase's loops compute these functions.         *)
(*                                                                         *)
(* The handle is whatever the caller passes, live or not, as in the code:  *)
(* Erase trusts the slot number it finds in the node.                      *)
(***************************************************************************)
EXTENDS Integers, Sequences

PutNode(H, at, n) == [H EXCEPT !.items[at] = n, !.index[n] = at]

KeyAt(H, i) == H.val[H.items[i]]

(* Each node along the path moves one slot towards its start, in that      *)
(* order, and node n is put down at its end.                               *)
ShiftAlong(H, path, n) ==
    LET last == Len(path)
        moved[k \in 1 .. last] ==
            IF k = 1 THEN H ELSE PutNode(moved[k - 1], path[k - 1], H.items[path[k]])
    IN  PutNode(moved[last], path[last], n)

(* The slots node n passes when it is raised from slot i. *)
UpPath(H, n, i) ==
    LET from[j \in 1 .. i] ==
            <<j>> \o IF j > 1 /\ H.val[n] < KeyAt(H, j \div 2) THEN from[j \div 2] ELSE <<>>
    IN  from[i]

MinChildOf(H, i) ==
    IF 2 * i = H.num \/ KeyAt(H, 2 * i) < KeyAt(H, 2 * i + 1) THEN 2 * i ELSE 2 * i + 1

(* The slots node n passes when it is lowered from slot i. *)
DownPath(H, n, i) ==
    LET from[j \in 1 .. H.num] ==
            <<j>> \o IF 2 * j <= H.num /\ ~ (H.val[n] < KeyAt(H, MinChildOf(H, j)))
                     THEN from[MinChildOf(H, j)] ELSE <<>>
    IN  from[i]

RaiseFrom(H, n, i) == ShiftAlong(H, UpPath(H, n, i), n)
LowerFrom(H, n, i) == ShiftAlong(H, DownPath(H, n, i), n)

AdjustNode(H, i) ==
    IF i > H.num THEN H
    ELSE IF i > 1 /\ KeyAt(H, i) < KeyAt(H, i \div 2)
         THEN RaiseFrom(H, H.items[i], i)
         ELSE LowerFrom(H, H.items[i], i)

Full(H) == H.num + 1 = H.size

NewHeap(size, slots, k) ==
    [items |-> [i \in slots |-> i], num |-> 0, size |-> size,
     index |-> [i \in slots |-> 0], val |-> [i \in slots |-> k]]

(* The node that the next Insert takes from the pool: the sign it returns. *)
NextNode(H) == H.items[H.num + 1]

InsertKey(H, k) ==
    LET n == NextNode(H)
    IN  RaiseFrom([H EXCEPT !.num = @ + 1, !.val[n] = k,
                            !.size = IF Full(H) THEN 2 * @ ELSE @], n, H.num + 1)

EraseNode(H, n) ==
    IF H.num = 0 THEN H
    ELSE LET at == H.index[n]
             h  == [H.items EXCEPT ![at] = H.items[H.num], ![H.num] = n]
             G  == [H EXCEPT !.items = h, !.num = @ - 1, !.index[h[at]] = at]
         IN  AdjustNode(G, G.index[n])

UpdateNode(H, n, k) == AdjustNode([H EXCEPT !.val[n] = k], H.index[n])

TopNode(H) == H.items[1]

PopTop(H) == EraseNode(H, TopNode(H))
=============================================================================
