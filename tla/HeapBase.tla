------------------------------ MODULE HeapBase ------------------------------
(***************************************************************************)
(* The array heap of common/heap.h (class HeapBase, min-heap order), one   *)
(* step per loop iteration of Insert and AdjustNode.                       *)
(*                                                                         *)
(* heap_items_ is the array of node pointers.  Slots 1..num_items_ are the *)
(* heap, the slots above it are the pool of nodes waiting to be used, and  *)
(* slot 0 is not in use.  The node that InitInner or Resize creates for    *)
(* slot i is called i, so a node pointer (the `sign` a caller keeps) is a  *)
(* number too, and a slot at or above size_container_ is memory that has   *)
(* not been allocated yet.                                                 *)
(*                                                                         *)
(* While a node is being sifted its place is the `hole`: the array there   *)
(* holds a pointer that is stale until the loop ends and the node is put   *)
(* down.  The callers of one heap are assumed to call it one at a time and *)
(* to name only live entries; AsyncRequest.tla is where the timer's caller *)
(* is held to that.  A definition after the words `A slip` is a wrong      *)
(* variant of the next one, there to see a property fail.                  *)
(***************************************************************************)
EXTENDS Integers

CONSTANTS
    InitSize,   \* init_size_heap_
    MaxSize,    \* bound: the container is never grown beyond this
    Key         \* the values of feature_(val)

ASSUME SizeAssumption ==
    /\ InitSize \in Nat \ {0, 1}
    /\ MaxSize \in Nat
    /\ InitSize <= MaxSize

ASSUME KeyAssumption == Key \subseteq Int

VARIABLES
    heap_items_,        \* slot -> node
    num_items_,
    size_container_,
    index,              \* Node::index of every node
    val,                \* the key of Node::val of every node
    pc,                 \* "idle" between calls, "up" or "down" in a sift loop
    hole,               \* the loop's position: iter / index / pos
    node,               \* the node being sifted
    returned            \* the sign the last call returned

arrays == <<heap_items_, num_items_, size_container_, index, val>>
vars == <<arrays, pc, hole, node, returned>>

NoHandle == -1
Slots == 0 .. MaxSize - 1

Compare(n, m) == val[n] < val[m]

Live == {heap_items_[i] : i \in 1 .. num_items_}

Init ==
    /\ heap_items_ = [i \in Slots |-> i]
    /\ num_items_ = 0
    /\ size_container_ = InitSize
    /\ index = [n \in Slots |-> 0]
    /\ val = [n \in Slots |-> 0]
    /\ pc = "idle"
    /\ hole = 0
    /\ node = 0
    /\ returned = NoHandle

----------------------------------------------------------------------------
(* Insert(val, sign): the node is taken from the pool at slot num_items_+1 *)
(* and raised from there.  The container doubles first if it is full.      *)
Insert(k) ==
    LET full == num_items_ + 1 = size_container_ IN
    /\ pc = "idle"
    /\ full => 2 * size_container_ <= MaxSize
    /\ size_container_' = IF full THEN 2 * size_container_ ELSE size_container_
    /\ num_items_' = num_items_ + 1
    /\ node' = heap_items_[num_items_ + 1]
    /\ val' = [val EXCEPT ![node'] = k]
    /\ hole' = num_items_ + 1
    /\ pc' = "up"
    /\ returned' = node'
    /\ UNCHANGED <<heap_items_, index>>

(* A slip: the replacement of an erased node is only ever lowered. *)
EnterAdjustDown(h, n, v, i) ==
    /\ pc' = IF i > n THEN "idle" ELSE "down"
    /\ hole' = i
    /\ node' = h[i]

(* AdjustNode(i) is entered with the array h, n live slots and the keys v. *)
EnterAdjust(h, n, v, i) ==
    /\ pc' = IF i > n THEN "idle"
             ELSE IF i > 1 /\ v[h[i]] < v[h[i \div 2]] THEN "up" ELSE "down"
    /\ hole' = i
    /\ node' = h[i]

(* Erase(sign): the last node moves into the erased slot, the erased node  *)
(* goes to the pool, and the moved node is sifted either way.              *)
RemoveNode(n) ==
    LET at == index[n]
        h  == [heap_items_ EXCEPT ![at] = heap_items_[num_items_], ![num_items_] = n]
    IN  /\ heap_items_' = h
        /\ num_items_' = num_items_ - 1
        /\ index' = [index EXCEPT ![h[at]] = at]
        /\ EnterAdjust(h, num_items_ - 1, val, at)
        /\ UNCHANGED <<size_container_, val>>

Erase(n) ==
    /\ pc = "idle"
    /\ n \in Live
    /\ RemoveNode(n)
    /\ returned' = NoHandle

(* A slip: the wrong end is removed. *)
PopLast ==
    /\ pc = "idle"
    /\ num_items_ > 0
    /\ RemoveNode(heap_items_[num_items_])
    /\ returned' = heap_items_[num_items_]

Pop ==
    /\ pc = "idle"
    /\ num_items_ > 0
    /\ RemoveNode(heap_items_[1])
    /\ returned' = heap_items_[1]

(* Update(sign, val), and UpdateTop(val) with n the top's node. *)
Update(n, k) ==
    /\ pc = "idle"
    /\ n \in Live
    /\ val' = [val EXCEPT ![n] = k]
    /\ EnterAdjust(heap_items_, num_items_, val', index[n])
    /\ returned' = NoHandle
    /\ UNCHANGED <<heap_items_, num_items_, size_container_, index>>

(* Refresh(sign), and RefreshTop() with n the top's node. *)
Refresh(n) ==
    /\ pc = "idle"
    /\ n \in Live
    /\ EnterAdjust(heap_items_, num_items_, val, index[n])
    /\ returned' = NoHandle
    /\ UNCHANGED arrays

Clear ==
    /\ pc = "idle"
    /\ num_items_' = 0
    /\ returned' = NoHandle
    /\ UNCHANGED <<heap_items_, size_container_, index, val, pc, hole, node>>

----------------------------------------------------------------------------
(* A slip: the hole does not move. *)
MoveIntoStuck(from) ==
    /\ heap_items_' = [heap_items_ EXCEPT ![hole] = heap_items_[from]]
    /\ index' = [index EXCEPT ![heap_items_[from]] = hole]
    /\ UNCHANGED <<hole, num_items_, size_container_, val, pc, node, returned>>

(* One iteration: the node at slot `from` moves into the hole, and the     *)
(* hole moves to `from`.                                                   *)
MoveInto(from) ==
    /\ heap_items_' = [heap_items_ EXCEPT ![hole] = heap_items_[from]]
    /\ index' = [index EXCEPT ![heap_items_[from]] = hole]
    /\ hole' = from
    /\ UNCHANGED <<num_items_, size_container_, val, pc, node, returned>>

PutDown ==
    /\ heap_items_' = [heap_items_ EXCEPT ![hole] = node]
    /\ index' = [index EXCEPT ![node] = hole]
    /\ pc' = "idle"
    /\ UNCHANGED <<num_items_, size_container_, val, hole, node, returned>>

MayRise == hole > 1 /\ Compare(node, heap_items_[hole \div 2])

SiftUp ==
    /\ pc = "up"
    /\ IF MayRise THEN MoveInto(hole \div 2) ELSE PutDown

(* A slip: the left child on a tie. *)
MinChildLeft ==
    LET iter == 2 * hole IN
    IF iter = num_items_ \/ ~ Compare(heap_items_[iter + 1], heap_items_[iter])
    THEN iter ELSE iter + 1

(* The child the loop looks at: the right one on a tie. *)
MinChild ==
    LET iter == 2 * hole IN
    IF iter = num_items_ \/ Compare(heap_items_[iter], heap_items_[iter + 1])
    THEN iter ELSE iter + 1

(* The loop stops only at a strictly larger child. *)
MaySink == 2 * hole <= num_items_ /\ ~ Compare(node, heap_items_[MinChild])

SiftDown ==
    /\ pc = "down"
    /\ IF MaySink THEN MoveInto(MinChild) ELSE PutDown

----------------------------------------------------------------------------
Call ==
    \/ \E k \in Key : Insert(k)
    \/ \E n \in Slots : Erase(n) \/ Refresh(n)
    \/ \E n \in Slots, k \in Key : Update(n, k)
    \/ Pop
    \/ Clear

Sift == SiftUp \/ SiftDown

Next == Call \/ Sift

Spec == Init /\ [][Next]_vars

(* A call that has started runs to its end. *)
FairSpec == Spec /\ WF_vars(Sift)

----------------------------------------------------------------------------
(* The node a slot stands for, the hole standing for the node in hand. *)
Slot(i) == IF pc # "idle" /\ i = hole THEN node ELSE heap_items_[i]

(* The values the variables range over. *)
TypeOK ==
    /\ heap_items_ \in [Slots -> Slots]
    /\ num_items_ \in Nat
    /\ size_container_ \in InitSize .. MaxSize
    /\ index \in [Slots -> Slots]
    /\ val \in [Slots -> Int]
    /\ pc \in {"idle", "up", "down"}
    /\ hole \in Slots
    /\ node \in Slots
    /\ returned \in Slots \cup {NoHandle}

(* The array accesses stay inside the allocation: one slot is always spare, *)
(* and a loop's position is a heap slot.                                    *)
InBounds ==
    /\ num_items_ < size_container_
    /\ pc # "idle" => hole \in 1 .. num_items_

(* No node is lost or held twice: heap and pool together are all of them. *)
NodesConserved == \A i, j \in Slots : Slot(i) = Slot(j) => i = j

(* Every live node knows its slot, which is what Erase(sign) relies on. *)
IndexConsistent ==
    \A i \in 1 .. num_items_ :
        (pc # "idle" /\ i = hole) \/ index[heap_items_[i]] = i

InOrder(i, j) == val[Slot(i)] <= val[Slot(j)]

(* Between calls no node is smaller than its parent; in a loop the only    *)
(* pair out of order is the hole and its parent (up) or its children       *)
(* (down), and the hole's parent is no larger than the hole's children.    *)
HeapOrder ==
    /\ pc = "idle" => \A i \in 2 .. num_items_ : InOrder(i \div 2, i)
    /\ pc = "up" => \A i \in 2 .. num_items_ : i = hole \/ InOrder(i \div 2, i)
    /\ pc = "down" => \A i \in 2 .. num_items_ : i \div 2 = hole \/ InOrder(i \div 2, i)
    /\ pc # "idle" => \A i \in 2 .. num_items_ :
            (i \div 2 = hole /\ hole > 1) => InOrder(hole \div 2, i)

(* The heap is one: all of the above, at every step of its loops.          *)
WellFormed == TypeOK /\ InBounds /\ NodesConserved /\ IndexConsistent /\ HeapOrder

(* Every sift loop ends. *)
LoopsTerminate == pc # "idle" ~> pc = "idle"

(* The heap implements the priority queue: a call takes effect at its      *)
(* first step, and the loop that follows does not change the entries.      *)
PQ == INSTANCE PriorityQueue WITH
        Handle <- Slots,
        queue <- [n \in {Slot(i) : i \in 1 .. num_items_} |-> val[n]]

PriorityQueueSpec == PQ!ASpec
=============================================================================
