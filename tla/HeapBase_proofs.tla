-------------------------- MODULE HeapBase_proofs --------------------------
(***************************************************************************)
(* Proofs about HeapBase for every container size and every set of keys.   *)
(***************************************************************************)
EXTENDS HeapLoops, HeapOps_proofs

(* The arithmetic of `iter >> 1`. *)
LEMMA Half ==
    ASSUME NEW i \in Nat
    PROVE  /\ i \div 2 \in Nat
           /\ 2 * (i \div 2) <= i
           /\ i <= 2 * (i \div 2) + 1
OBVIOUS

(* The inductive invariant. *)
IInv == TypeOK /\ InBounds /\ NodesConserved /\ IndexConsistent /\ HeapOrder

(* The heap InitInner builds satisfies it. *)
LEMMA InitIInv == Init => IInv
<1> SUFFICES ASSUME Init PROVE IInv
    OBVIOUS
<1> USE SizeAssumption DEF Init, Slots
<1>1. TypeOK
    BY DEF TypeOK
<1>2. InBounds /\ NodesConserved
    BY DEF InBounds, NodesConserved, Slot
<1>3. IndexConsistent /\ HeapOrder
    BY DEF IndexConsistent, HeapOrder
<1> QED
    BY <1>1, <1>2, <1>3 DEF IInv

(* What the invariant says of the sizes, in one place. *)
LEMMA Sizes ==
    ASSUME IInv
    PROVE  /\ num_items_ \in Nat /\ MaxSize \in Nat
           /\ size_container_ \in Nat \ {0, 1} /\ size_container_ \in InitSize .. MaxSize
           /\ num_items_ < size_container_ /\ size_container_ <= MaxSize
           /\ \A i \in 1 .. num_items_ : i \in Slots /\ heap_items_[i] \in Slots
           /\ \A i \in 2 .. num_items_ : i \div 2 \in 1 .. num_items_ /\ i \div 2 < i
<1>1. /\ num_items_ \in Nat /\ MaxSize \in Nat
      /\ size_container_ \in Nat \ {0, 1} /\ size_container_ \in InitSize .. MaxSize
      /\ num_items_ < size_container_ /\ size_container_ <= MaxSize
    <2>1. TypeOK /\ InBounds
        BY DEF IInv
    <2> QED
        BY <2>1, SizeAssumption DEF TypeOK, InBounds
<1>2. \A i \in 1 .. num_items_ : i \in Slots
    BY <1>1 DEF Slots
<1>3. \A i \in 1 .. num_items_ : heap_items_[i] \in Slots
    BY <1>2 DEF IInv, TypeOK
<1>4. \A i \in 2 .. num_items_ : i \div 2 \in 1 .. num_items_ /\ i \div 2 < i
    BY <1>1, Half
<1> QED
    BY <1>1, <1>2, <1>3, <1>4

(* Between calls a live node's index is a heap slot that holds the node. *)
LEMMA LiveIndex ==
    ASSUME IInv, pc = "idle", NEW n \in Live
    PROVE  n \in Slots /\ index[n] \in 1 .. num_items_ /\ heap_items_[index[n]] = n
BY Sizes DEF IInv, IndexConsistent, Live

(* Insert starts its loop with the new node at the end of the heap. *)
LEMMA InsertStep ==
    ASSUME IInv, NEW k \in Key, Insert(k)
    PROVE  IInv'
<1> DEFINE m == num_items_ + 1
<1>0. TypeOK /\ m \in Nat /\ m <= size_container_
    BY Sizes DEF IInv
<1>2. /\ m < size_container_' /\ size_container_' \in InitSize .. MaxSize /\ m \in Slots
    <2>1. CASE m = size_container_
        BY <2>1, <1>0, Sizes, SizeAssumption DEF Insert, Slots
    <2>2. CASE m # size_container_
        BY <2>2, <1>0, Sizes, SizeAssumption DEF Insert, Slots
    <2> QED
        BY <2>1, <2>2
<1>1. /\ pc = "idle" /\ pc' = "up" /\ hole' = m /\ num_items_' = m
      /\ node' = heap_items_[m] /\ node' \in Slots /\ heap_items_' = heap_items_
      /\ index' = index /\ returned' = node'
    BY <1>0, <1>2 DEF Insert, TypeOK
<1>3. /\ val' \in [Slots -> Int] /\ val'[node'] = k
      /\ \A x \in Slots : x # node' => val'[x] = val[x]
    BY <1>0, <1>1, KeyAssumption DEF TypeOK, Insert
<1>3a. TypeOK'
    BY <1>0, <1>1, <1>2, <1>3 DEF TypeOK
<1>4. InBounds'
    BY <1>0, <1>1, <1>2, Sizes DEF InBounds
<1>5. \A i \in Slots : Slot(i)' = heap_items_[i] /\ Slot(i) = heap_items_[i]
    <2> TAKE i \in Slots
    <2>1. CASE i = m
        BY <2>1, <1>1 DEF Slot
    <2>2. CASE i # m
        BY <2>2, <1>1 DEF Slot
    <2> QED
        BY <2>1, <2>2
<1>6. NodesConserved'
    BY <1>5 DEF IInv, NodesConserved
<1>7. IndexConsistent'
    <2>1. \A i \in 1 .. m : i = m \/ i \in 1 .. num_items_
        BY <1>0, Sizes
    <2> QED
        BY <2>1, <1>1 DEF IInv, IndexConsistent
<1>8. \A i \in 1 .. num_items_ : heap_items_[i] \in Slots /\ heap_items_[i] # node'
    <2>1. \A i \in 1 .. num_items_ : i \in Slots /\ i # m
        BY <1>0, Sizes
    <2> QED
        BY <2>1, Sizes, <1>2, <1>0, <1>1, <1>5 DEF IInv, NodesConserved, TypeOK
<1>9. ASSUME NEW i \in 2 .. m, i # m
      PROVE  InOrder(i \div 2, i)'
    <2>0. i \in 2 .. num_items_ /\ i \in 1 .. num_items_
        BY <1>9, <1>0, Sizes
    <2>1. i \div 2 \in 1 .. num_items_ /\ i \in Slots /\ i \div 2 \in Slots
        BY <2>0, Sizes
    <2>2. InOrder(i \div 2, i)
        BY <2>0, <1>1 DEF IInv, HeapOrder
    <2> QED
        BY <2>0, <2>1, <2>2, <1>5, <1>8, <1>3 DEF InOrder
<1>10. HeapOrder'
    <2>1. \A i \in 2 .. m : i \div 2 # m
        BY <1>0, Half, Sizes
    <2> QED
        BY <1>1, <1>9, <2>1 DEF HeapOrder
<1> QED
    BY <1>3a, <1>4, <1>6, <1>7, <1>10 DEF IInv

----------------------------------------------------------------------------
(* AdjustNode picks the right loop: entered on an array in which only slot *)
(* i may be out of order with its neighbours, it leaves HeapOrder true     *)
(* with the hole at i.                                                     *)
LEMMA AdjustEntry ==
    ASSUME NEW i \in Slots, i >= 1, MaxSize \in Nat,
           heap_items_' \in [Slots -> Slots], val' \in [Slots -> Int],
           num_items_' \in Nat, num_items_' < MaxSize,
           EnterAdjust(heap_items_', num_items_', val', i),
           \A j \in 2 .. num_items_' : j # i /\ j \div 2 # i =>
                val'[heap_items_'[j \div 2]] <= val'[heap_items_'[j]],
           \A j \in 2 .. num_items_' : j \div 2 = i /\ i > 1 =>
                val'[heap_items_'[i \div 2]] <= val'[heap_items_'[j]]
    PROVE  /\ HeapOrder'
           /\ pc' \in {"idle", "up", "down"} /\ hole' = i /\ node' = heap_items_'[i]
           /\ pc' # "idle" => i \in 1 .. num_items_'
           /\ \A j \in Slots : Slot(j)' = heap_items_'[j]
<1>1. /\ pc' \in {"idle", "up", "down"} /\ hole' = i /\ node' = heap_items_'[i]
      /\ pc' = "idle" <=> i > num_items_'
      /\ pc' = "up" <=> /\ i <= num_items_' /\ i > 1
                         /\ val'[heap_items_'[i]] < val'[heap_items_'[i \div 2]]
      /\ i \in Nat
    BY DEF EnterAdjust, Slots
<1>2. pc' # "idle" => i \in 1 .. num_items_'
    BY <1>1
<1>3. \A j \in Slots : Slot(j)' = heap_items_'[j]
    BY <1>1 DEF Slot
<1>4. ASSUME NEW j \in 2 .. num_items_'
      PROVE  /\ j \in Slots /\ j \div 2 \in Slots /\ j \div 2 \in Nat /\ j \div 2 < j
             /\ val'[heap_items_'[j]] \in Int /\ val'[heap_items_'[j \div 2]] \in Int
    <2>1. j \in Slots /\ j \div 2 \in Slots /\ j \div 2 \in Nat /\ j \div 2 < j
        <3>1. j \in Nat /\ j >= 2 /\ j < MaxSize
            OBVIOUS
        <3>2. j \div 2 \in Nat /\ j \div 2 < j
            BY <3>1, Half
        <3> QED
            BY <3>1, <3>2 DEF Slots
    <2> QED
        BY <2>1
<1>5. ASSUME NEW j \in 2 .. num_items_', pc' = "idle"
      PROVE  InOrder(j \div 2, j)'
    BY <1>1, <1>3, <1>4, <1>5 DEF InOrder
<1>6. ASSUME NEW j \in 2 .. num_items_', pc' = "up", j # i
      PROVE  InOrder(j \div 2, j)'
    <2>0. i \in 2 .. num_items_'
        BY <1>1, <1>6
    <2>1. CASE j \div 2 = i
        <3>1. val'[heap_items_'[i]] < val'[heap_items_'[i \div 2]]
            BY <1>1, <1>6
        <3>2. val'[heap_items_'[i \div 2]] <= val'[heap_items_'[j]]
            BY <2>0, <2>1
        <3> QED
            BY <3>1, <3>2, <2>0, <2>1, <1>3, <1>4 DEF InOrder
    <2>2. CASE j \div 2 # i
        BY <2>2, <1>3, <1>4, <1>6 DEF InOrder
    <2> QED
        BY <2>1, <2>2
<1>7. ASSUME NEW j \in 2 .. num_items_', pc' = "down", j \div 2 # i
      PROVE  InOrder(j \div 2, j)'
    <2>1. CASE j = i
        BY <2>1, <1>1, <1>3, <1>4, <1>7 DEF InOrder
    <2>2. CASE j # i
        BY <2>2, <1>3, <1>4, <1>7 DEF InOrder
    <2> QED
        BY <2>1, <2>2
<1>8. ASSUME NEW j \in 2 .. num_items_', pc' # "idle", j \div 2 = i, i > 1
      PROVE  InOrder(i \div 2, j)'
    <2>1. i \in 2 .. num_items_'
        BY <1>2, <1>8
    <2> QED
        BY <2>1, <1>3, <1>4, <1>8 DEF InOrder
<1>9. HeapOrder'
    BY <1>1, <1>5, <1>6, <1>7, <1>8 DEF HeapOrder
<1> QED
    BY <1>1, <1>2, <1>3, <1>9

(* Erase and Pop: the last node takes the place of the erased one. *)
LEMMA RemoveStep ==
    ASSUME IInv, pc = "idle", NEW n \in Live, RemoveNode(n),
           returned' \in Slots \cup {NoHandle}
    PROVE  IInv'
<1> DEFINE at == index[n]
           last == num_items_
<1>1. n \in Slots /\ at \in 1 .. last /\ heap_items_[at] = n
    BY LiveIndex
<1>2. /\ at \in Slots /\ last \in Slots /\ at \in Nat /\ last \in Nat \ {0} /\ at <= last
      /\ MaxSize \in Nat /\ last < MaxSize
    BY <1>1, Sizes DEF Slots
<1>3. TypeOK /\ NodesConserved /\ IndexConsistent /\ HeapOrder
    BY DEF IInv
<1>4. /\ heap_items_' \in [Slots -> Slots]
      /\ heap_items_'[last] = n /\ heap_items_'[at] = heap_items_[last]
      /\ \A j \in Slots : j # at /\ j # last => heap_items_'[j] = heap_items_[j]
      /\ num_items_' = last - 1 /\ size_container_' = size_container_ /\ val' = val
      /\ index' = [index EXCEPT ![heap_items_'[at]] = at]
      /\ EnterAdjust(heap_items_', num_items_', val', at)
    BY <1>1, <1>2, <1>3 DEF RemoveNode, TypeOK
<1>5. index' \in [Slots -> Slots] /\ val' \in [Slots -> Int]
    BY <1>2, <1>3, <1>4 DEF TypeOK
<1>6. \A j \in Slots : Slot(j) = heap_items_[j]
    BY DEF Slot
<1>7. \A j \in 2 .. num_items_' :
        /\ j \in Slots /\ j # last /\ j \in 2 .. last
        /\ j \div 2 \in Slots /\ j \div 2 # last
    BY <1>2, <1>4, Half DEF Slots
<1>8. \A j \in 2 .. last : val[heap_items_[j \div 2]] <= val[heap_items_[j]]
    <2>1. \A j \in 2 .. last : j \in Slots /\ j \div 2 \in Slots
        BY <1>2, Half DEF Slots
    <2> QED
        BY <2>1, <1>3, <1>6 DEF HeapOrder, InOrder
<1>9. \A j \in 2 .. num_items_' : j # at /\ j \div 2 # at =>
        val'[heap_items_'[j \div 2]] <= val'[heap_items_'[j]]
    BY <1>4, <1>7, <1>8
<1>10. ASSUME NEW j \in 2 .. num_items_', j \div 2 = at, at > 1
       PROVE  val'[heap_items_'[at \div 2]] <= val'[heap_items_'[j]]
    <2>1. at \in 2 .. last /\ at \div 2 \in Slots /\ at \div 2 # at /\ at \div 2 # last /\ j # at
        BY <1>2, <1>10, Half DEF Slots
    <2>2. heap_items_'[at \div 2] = heap_items_[at \div 2] /\ heap_items_'[j] = heap_items_[j]
        BY <2>1, <1>4, <1>7
    <2>3. val[heap_items_[at \div 2]] <= val[heap_items_[at]]
        BY <2>1, <1>8
    <2>4. val[heap_items_[at]] <= val[heap_items_[j]]
        BY <1>7, <1>8, <1>10
    <2>5. val[heap_items_[at \div 2]] \in Int /\ val[heap_items_[at]] \in Int /\ val[heap_items_[j]] \in Int
        BY <2>1, <1>2, <1>3, <1>7 DEF TypeOK
    <2> QED
        BY <2>2, <2>3, <2>4, <2>5, <1>4
<1>11. /\ HeapOrder'
       /\ pc' \in {"idle", "up", "down"} /\ hole' = at /\ node' = heap_items_'[at]
       /\ pc' # "idle" => at \in 1 .. num_items_'
       /\ \A j \in Slots : Slot(j)' = heap_items_'[j]
    <2>1. num_items_' \in Nat /\ num_items_' < MaxSize /\ at >= 1
        BY <1>2, <1>4, <1>1
    <2> HIDE DEF at
    <2> QED
        BY <2>1, <1>2, <1>4, <1>5, <1>9, <1>10, AdjustEntry
<1>12. TypeOK'
    BY <1>2, <1>3, <1>4, <1>5, <1>11 DEF TypeOK
<1>13. InBounds'
    BY <1>2, <1>4, <1>11, Sizes DEF InBounds
<1>14. NodesConserved'
    BY <1>1, <1>2, <1>3, <1>4, <1>6, <1>11 DEF NodesConserved
<1>15. IndexConsistent'
    <2> SUFFICES ASSUME NEW j \in 1 .. num_items_'
                 PROVE  index'[heap_items_'[j]] = j
        BY DEF IndexConsistent
    <2>1. j \in Slots /\ j # last /\ j \in 1 .. last
        BY <1>2, <1>4 DEF Slots
    <2>2. CASE j = at
        BY <2>2, <1>3, <1>4, <1>2 DEF TypeOK
    <2>3. CASE j # at
        <3>1. heap_items_'[j] = heap_items_[j] /\ heap_items_[j] # heap_items_[last]
            BY <2>1, <2>3, <1>2, <1>3, <1>4, <1>6 DEF NodesConserved
        <3>2. index[heap_items_[j]] = j
            BY <2>1, <1>3 DEF IndexConsistent
        <3> QED
            BY <3>1, <3>2, <2>1, <1>2, <1>3, <1>4 DEF TypeOK
    <2> QED
        BY <2>2, <2>3
<1> QED
    BY <1>11, <1>12, <1>13, <1>14, <1>15 DEF IInv

(* Update and Refresh: only the key of one live node may have changed. *)
LEMMA AdjustStep ==
    ASSUME IInv, pc = "idle", NEW n \in Live,
           val' \in [Slots -> Int], \A x \in Slots : x # n => val'[x] = val[x],
           EnterAdjust(heap_items_, num_items_, val', index[n]),
           returned' = NoHandle,
           UNCHANGED <<heap_items_, num_items_, size_container_, index>>
    PROVE  IInv'
<1> DEFINE at == index[n]
<1>1. n \in Slots /\ at \in 1 .. num_items_ /\ heap_items_[at] = n
    BY LiveIndex
<1>2. /\ at \in Slots /\ at \in Nat /\ at >= 1 /\ at <= num_items_
      /\ MaxSize \in Nat /\ num_items_ \in Nat /\ num_items_ < MaxSize
    BY <1>1, Sizes
<1>3. TypeOK /\ NodesConserved /\ IndexConsistent /\ HeapOrder
    BY DEF IInv
<1>4. \A j \in Slots : Slot(j) = heap_items_[j]
    BY DEF Slot
<1>5. \A j \in Slots : j # at => val'[heap_items_[j]] = val[heap_items_[j]]
    BY <1>1, <1>2, <1>3, <1>4 DEF NodesConserved, TypeOK
<1>6. \A j \in 2 .. num_items_ :
        /\ j \in Slots /\ j \div 2 \in Slots /\ j \div 2 \in Nat /\ j \div 2 < j
        /\ val[heap_items_[j \div 2]] <= val[heap_items_[j]]
    <2>1. \A j \in 2 .. num_items_ : j \in Slots /\ j \div 2 \in Slots /\ j \div 2 \in Nat /\ j \div 2 < j
        BY <1>2, Half DEF Slots
    <2> QED
        BY <2>1, <1>3, <1>4 DEF HeapOrder, InOrder
<1>7. \A j \in 2 .. num_items_ : j # at /\ j \div 2 # at =>
        val'[heap_items_[j \div 2]] <= val'[heap_items_[j]]
    BY <1>5, <1>6
<1>8. ASSUME NEW j \in 2 .. num_items_, j \div 2 = at, at > 1
      PROVE  val'[heap_items_[at \div 2]] <= val'[heap_items_[j]]
    <2>1. at \in 2 .. num_items_ /\ j # at
        BY <1>2, <1>6, <1>8
    <2>2. at \div 2 \in Slots /\ at \div 2 # at /\ val[heap_items_[at \div 2]] <= val[heap_items_[at]]
        BY <2>1, <1>6
    <2>3. val[heap_items_[at]] <= val[heap_items_[j]]
        BY <1>6, <1>8
    <2>4. val[heap_items_[at \div 2]] \in Int /\ val[heap_items_[at]] \in Int /\ val[heap_items_[j]] \in Int
        BY <2>2, <1>2, <1>3, <1>6 DEF TypeOK
    <2> QED
        BY <2>1, <2>2, <2>3, <2>4, <1>5, <1>6
<1>9. /\ HeapOrder'
      /\ pc' \in {"idle", "up", "down"} /\ hole' = at /\ node' = heap_items_[at]
      /\ pc' # "idle" => at \in 1 .. num_items_
      /\ \A j \in Slots : Slot(j)' = heap_items_[j]
    <2>1. heap_items_' \in [Slots -> Slots]
        BY <1>3 DEF TypeOK
    <2> HIDE DEF at
    <2>2. EnterAdjust(heap_items_', num_items_', val', at)
        BY DEF at
    <2>3. \A j \in 2 .. num_items_' : j # at /\ j \div 2 # at =>
            val'[heap_items_'[j \div 2]] <= val'[heap_items_'[j]]
        BY <1>7
    <2>4. \A j \in 2 .. num_items_' : j \div 2 = at /\ at > 1 =>
            val'[heap_items_'[at \div 2]] <= val'[heap_items_'[j]]
        BY <1>8
    <2>5. num_items_' \in Nat /\ num_items_' < MaxSize
        BY <1>2
    <2>6. /\ HeapOrder'
          /\ pc' \in {"idle", "up", "down"} /\ hole' = at /\ node' = heap_items_'[at]
          /\ pc' # "idle" => at \in 1 .. num_items_'
          /\ \A j \in Slots : Slot(j)' = heap_items_'[j]
        BY <2>1, <2>2, <2>3, <2>4, <2>5, <1>2, AdjustEntry
    <2> QED
        BY <2>6
<1>10. TypeOK'
    BY <1>2, <1>3, <1>9 DEF TypeOK
<1>11. InBounds'
    BY <1>9, Sizes DEF InBounds
<1>12. NodesConserved'
    BY <1>3, <1>4, <1>9 DEF NodesConserved
<1>13. IndexConsistent'
    BY <1>3 DEF IndexConsistent
<1> QED
    BY <1>9, <1>10, <1>11, <1>12, <1>13 DEF IInv

----------------------------------------------------------------------------
(* Inside a loop, by slot: every slot's node and key, and where the hole is. *)
LEMMA InLoop ==
    ASSUME IInv, pc # "idle"
    PROVE  /\ hole \in 1 .. num_items_ /\ hole \in Slots /\ hole \in Nat /\ node \in Slots
           /\ Slot(hole) = node
           /\ \A j \in Slots : j # hole => Slot(j) = heap_items_[j]
           /\ \A j \in Slots : Slot(j) \in Slots /\ val[Slot(j)] \in Int
           /\ \A j \in 1 .. num_items_ : j \in Slots /\ j \in Nat
           /\ \A j \in 2 .. num_items_ :
                j \div 2 \in Slots /\ j \div 2 \in 1 .. num_items_ /\ j \div 2 \in Nat /\ j \div 2 < j
<1>1. TypeOK /\ hole \in 1 .. num_items_
    BY DEF IInv, InBounds
<1>2. /\ \A j \in 1 .. num_items_ : j \in Slots /\ j \in Nat
      /\ \A j \in 2 .. num_items_ : j \div 2 \in 1 .. num_items_ /\ j \div 2 < j
    BY Sizes
<1>3. /\ Slot(hole) = node /\ node \in Slots
      /\ \A j \in Slots : j # hole => Slot(j) = heap_items_[j]
    BY <1>1 DEF Slot, TypeOK
<1>4. \A j \in Slots : Slot(j) \in Slots
    BY <1>1, <1>3 DEF TypeOK
<1>5. \A j \in Slots : val[Slot(j)] \in Int
    BY <1>1, <1>4 DEF TypeOK
<1> QED
    BY <1>1, <1>2, <1>3, <1>4, <1>5

(* One iteration swaps what the hole and `from` stand for. *)
LEMMA MoveStep ==
    ASSUME IInv, pc # "idle", NEW from \in 1 .. num_items_, from # hole, MoveInto(from)
    PROVE  /\ TypeOK' /\ InBounds' /\ NodesConserved' /\ IndexConsistent'
           /\ hole' = from /\ pc' = pc /\ num_items_' = num_items_ /\ val' = val
           /\ \A j \in Slots : Slot(j)' = IF j = from THEN node
                                        ELSE IF j = hole THEN Slot(from) ELSE Slot(j)
<1>1. TypeOK /\ NodesConserved /\ IndexConsistent
    BY DEF IInv
<1>2. from \in Slots /\ Slot(from) = heap_items_[from]
    BY InLoop
<1>3. /\ hole' = from /\ pc' = pc /\ num_items_' = num_items_ /\ val' = val /\ node' = node
      /\ heap_items_' \in [Slots -> Slots]
      /\ heap_items_'[hole] = heap_items_[from]
      /\ \A j \in Slots : j # hole => heap_items_'[j] = heap_items_[j]
      /\ index' = [index EXCEPT ![heap_items_[from]] = hole]
      /\ size_container_' = size_container_ /\ returned' = returned
    BY <1>1, <1>2, InLoop DEF MoveInto, TypeOK
<1>3a. index' \in [Slots -> Slots]
    BY <1>1, <1>3, InLoop DEF TypeOK
<1>4. TypeOK'
    BY <1>1, <1>2, <1>3, <1>3a DEF TypeOK
<1>5. InBounds'
    <2>1. num_items_ < size_container_
        BY Sizes
    <2> QED
        BY <1>3, <2>1 DEF InBounds
<1>6. \A j \in Slots : Slot(j)' = IF j = from THEN node
                                ELSE IF j = hole THEN Slot(from) ELSE Slot(j)
    BY <1>2, <1>3, InLoop DEF Slot
<1>7. NodesConserved'
    BY <1>1, <1>2, <1>6, InLoop DEF NodesConserved
<1>8. IndexConsistent'
    <2> SUFFICES ASSUME NEW j \in 1 .. num_items_, j # from
                 PROVE  index'[heap_items_'[j]] = j
        BY <1>3 DEF IndexConsistent
    <2>1. j \in Slots
        BY InLoop
    <2>2. CASE j = hole
        BY <2>2, <1>1, <1>2, <1>3, InLoop DEF TypeOK
    <2>3. CASE j # hole
        <3>1. heap_items_'[j] = heap_items_[j] /\ heap_items_[j] # heap_items_[from]
            BY <2>1, <2>3, <1>1, <1>2, <1>3, InLoop DEF NodesConserved
        <3>2. index[heap_items_[j]] = j
            BY <2>3, <1>1 DEF IndexConsistent
        <3> QED
            BY <3>1, <3>2, <2>1, <1>1, <1>3 DEF TypeOK
    <2> QED
        BY <2>2, <2>3
<1> QED
    BY <1>3, <1>4, <1>5, <1>6, <1>7, <1>8

(* The loop ends on a heap in order. *)
LEMMA PutDownStep ==
    ASSUME IInv, pc # "idle", PutDown,
           \A i \in 2 .. num_items_ : InOrder(i \div 2, i)
    PROVE  IInv'
<1>1. TypeOK /\ NodesConserved /\ IndexConsistent
    BY DEF IInv
<1>2. /\ pc' = "idle" /\ num_items_' = num_items_ /\ val' = val
      /\ heap_items_' \in [Slots -> Slots]
      /\ heap_items_'[hole] = node
      /\ \A j \in Slots : j # hole => heap_items_'[j] = heap_items_[j]
      /\ index' = [index EXCEPT ![node] = hole]
    BY <1>1, InLoop DEF PutDown, TypeOK
<1>3. TypeOK'
    BY <1>1, <1>2, InLoop DEF PutDown, TypeOK
<1>4. InBounds'
    BY <1>2, Sizes DEF InBounds, PutDown
<1>5. \A j \in Slots : Slot(j)' = Slot(j) /\ heap_items_'[j] = Slot(j)
    BY <1>2, InLoop DEF Slot
<1>6. NodesConserved'
    BY <1>1, <1>5 DEF NodesConserved
<1>7. IndexConsistent'
    <2> SUFFICES ASSUME NEW j \in 1 .. num_items_
                 PROVE  index'[heap_items_'[j]] = j
        BY <1>2 DEF IndexConsistent
    <2>1. j \in Slots
        BY InLoop
    <2>2. CASE j = hole
        BY <2>2, <1>1, <1>2, InLoop DEF TypeOK
    <2>3. CASE j # hole
        <3>1. heap_items_'[j] = heap_items_[j] /\ heap_items_[j] # node
            BY <2>1, <2>3, <1>1, <1>2, InLoop DEF NodesConserved
        <3>2. index[heap_items_[j]] = j
            BY <2>3, <1>1 DEF IndexConsistent
        <3> QED
            BY <3>1, <3>2, <2>1, <1>1, <1>2 DEF TypeOK
    <2> QED
        BY <2>2, <2>3
<1>8. HeapOrder'
    <2>1. \A i \in 2 .. num_items_ : i \in Slots /\ i \div 2 \in Slots
        BY InLoop
    <2> QED
        BY <2>1, <1>2, <1>5 DEF HeapOrder, InOrder
<1> QED
    BY <1>3, <1>4, <1>6, <1>7, <1>8 DEF IInv

(* Raising a node one level, or putting it down. *)
LEMMA SiftUpStep ==
    ASSUME IInv, SiftUp
    PROVE  IInv'
<1>1. pc = "up" /\ HeapOrder
    BY DEF SiftUp, IInv
<1>2. CASE MayRise
    <2>0. PICK p \in Nat : p = hole \div 2
        BY <1>1, Half, InLoop
    <2>1. p \in 1 .. num_items_ /\ p # hole /\ p \in Slots /\ hole \in 2 .. num_items_ /\ hole \in Slots
        BY <2>0, <1>1, <1>2, InLoop DEF MayRise
    <2>2. val[node] < val[Slot(p)] /\ MoveInto(p) /\ Slot(p) = heap_items_[p]
        BY <2>0, <1>1, <1>2, <2>1, InLoop DEF SiftUp, MayRise, Compare
    <2>3. /\ TypeOK' /\ InBounds' /\ NodesConserved' /\ IndexConsistent'
          /\ hole' = p /\ pc' = pc /\ num_items_' = num_items_ /\ val' = val
          /\ \A j \in Slots : Slot(j)' = IF j = p THEN node
                                       ELSE IF j = hole THEN Slot(p) ELSE Slot(j)
        BY <1>1, <2>1, <2>2, MoveStep
    <2>4. ASSUME NEW i \in 2 .. num_items_, i # p
          PROVE  InOrder(i \div 2, i)'
        <3>1. /\ i \in Slots /\ i \div 2 \in Slots /\ i \div 2 # i
              /\ val[Slot(i)] \in Int /\ val[Slot(i \div 2)] \in Int
              /\ val[Slot(p)] \in Int /\ val[node] \in Int
            BY <1>1, <2>1, InLoop
        <3>2. CASE i = hole
            BY <3>1, <3>2, <2>0, <2>1, <2>2, <2>3 DEF InOrder
        <3>3. CASE i # hole /\ i \div 2 = p
            <4>1. val[Slot(p)] <= val[Slot(i)]
                BY <3>3, <1>1 DEF HeapOrder, InOrder
            <4> QED
                BY <3>1, <3>3, <4>1, <2>1, <2>2, <2>3, <2>4 DEF InOrder
        <3>4. CASE i # hole /\ i \div 2 = hole
            <4>1. val[Slot(p)] <= val[Slot(i)]
                BY <3>4, <2>0, <2>1, <1>1 DEF HeapOrder, InOrder
            <4> QED
                BY <3>1, <3>4, <4>1, <2>1, <2>3, <2>4 DEF InOrder
        <3>5. CASE i # hole /\ i \div 2 # p /\ i \div 2 # hole
            <4>1. val[Slot(i \div 2)] <= val[Slot(i)]
                BY <3>5, <1>1 DEF HeapOrder, InOrder
            <4> QED
                BY <3>1, <3>5, <4>1, <2>3, <2>4 DEF InOrder
        <3> QED
            BY <3>2, <3>3, <3>4, <3>5
    <2>5. ASSUME NEW i \in 2 .. num_items_, i \div 2 = p, p > 1
          PROVE  InOrder(p \div 2, i)'
        <3>1. /\ p \in 2 .. num_items_ /\ i \in Slots /\ i # p
              /\ p \div 2 \in Slots /\ p \div 2 # p /\ p \div 2 # hole
              /\ val[Slot(i)] \in Int /\ val[Slot(p)] \in Int /\ val[Slot(p \div 2)] \in Int
            <4>1. p \in 2 .. num_items_ /\ p \div 2 < p /\ p < hole /\ p \in Nat /\ hole \in Nat
                BY <1>1, <2>0, <2>1, <2>5, InLoop
            <4> QED
                BY <4>1, <1>1, <2>5, InLoop
        <3>2. val[Slot(p \div 2)] <= val[Slot(p)]
            BY <3>1, <2>1, <1>1 DEF HeapOrder, InOrder
        <3>3. CASE i = hole
            BY <3>1, <3>2, <3>3, <2>1, <2>3 DEF InOrder
        <3>4. CASE i # hole
            <4>1. val[Slot(p)] <= val[Slot(i)]
                BY <3>4, <2>5, <1>1 DEF HeapOrder, InOrder
            <4> QED
                BY <3>1, <3>2, <3>4, <4>1, <2>3 DEF InOrder
        <3> QED
            BY <3>3, <3>4
    <2>6. HeapOrder'
        BY <1>1, <2>3, <2>4, <2>5 DEF HeapOrder
    <2> QED
        BY <2>3, <2>6 DEF IInv
<1>3. CASE ~ MayRise
    <2>1. \A i \in 2 .. num_items_ : InOrder(i \div 2, i)
        <3> SUFFICES ASSUME NEW i \in 2 .. num_items_
                     PROVE  InOrder(i \div 2, i)
            OBVIOUS
        <3>1. CASE i = hole
            BY <3>1, <1>1, <1>3, InLoop DEF MayRise, Compare, InOrder
        <3>2. CASE i # hole
            BY <3>2, <1>1 DEF HeapOrder
        <3> QED
            BY <3>1, <3>2
    <2> QED
        BY <1>1, <1>3, <2>1, PutDownStep DEF SiftUp
<1> QED
    BY <1>2, <1>3

(* Lowering a node one level, or putting it down. *)
LEMMA SiftDownStep ==
    ASSUME IInv, SiftDown
    PROVE  IInv'
<1>1. pc = "down" /\ HeapOrder
    BY DEF SiftDown, IInv
<1>2. \A i \in 2 .. num_items_ : i \div 2 = hole => i = 2 * hole \/ i = 2 * hole + 1
    BY Half, Sizes, <1>1, InLoop
(* MinChild is a child of the hole, and no child is smaller. *)
<1>3. ASSUME 2 * hole <= num_items_
      PROVE  /\ MinChild \in 2 .. num_items_ /\ MinChild \div 2 = hole
             /\ \A i \in 2 .. num_items_ :
                    i \div 2 = hole => val[heap_items_[MinChild]] <= val[heap_items_[i]]
    <2> DEFINE l == 2 * hole
    <2>1. /\ hole \in Nat /\ num_items_ \in Nat /\ l \in 2 .. num_items_ /\ l \div 2 = hole
          /\ (l + 1) \div 2 = hole /\ l # hole /\ l + 1 # hole
          /\ l # num_items_ => l + 1 \in 2 .. num_items_
        BY <1>1, <1>3, InLoop, Sizes
    <2>2. /\ val[heap_items_[l]] \in Int
          /\ l # num_items_ => val[heap_items_[l + 1]] \in Int
        <3>1. \A j \in 2 .. num_items_ : j # hole => val[heap_items_[j]] \in Int
            BY <1>1, InLoop, Sizes DEF IInv, TypeOK
        <3> QED
            BY <2>1, <3>1
    <2>3. CASE l = num_items_
        <3>1. MinChild = l
            BY <2>3 DEF MinChild
        <3>2. \A i \in 2 .. num_items_ : i \div 2 = hole => i = l
            BY <1>2, <2>1, <2>3
        <3> QED
            BY <3>1, <3>2, <2>1, <2>2
    <2>4. CASE l # num_items_
        <3>1. MinChild = IF val[heap_items_[l]] < val[heap_items_[l + 1]] THEN l ELSE l + 1
            BY <2>4 DEF MinChild, Compare
        <3> QED
            BY <3>1, <1>2, <2>1, <2>2, <2>4
    <2> QED
        BY <2>3, <2>4
<1>4. CASE MaySink
    <2>0. PICK c \in 2 .. num_items_ : c = MinChild
        BY <1>3, <1>4 DEF MaySink
    <2>1. /\ c \in 2 .. num_items_ /\ c \div 2 = hole /\ c # hole /\ c \in Slots
          /\ hole \in Slots /\ hole \in Nat
        BY <2>0, <1>1, <1>3, <1>4, InLoop DEF MaySink
    <2>2. val[Slot(c)] <= val[node] /\ MoveInto(c) /\ Slot(c) = heap_items_[c]
        BY <2>0, <1>1, <1>4, <2>1, InLoop DEF MaySink, SiftDown, Compare
    <2>3. \A i \in 2 .. num_items_ : i \div 2 = hole => val[Slot(c)] <= val[Slot(i)]
        BY <2>0, <1>1, <1>3, <1>4, <2>1, InLoop DEF MaySink
    <2>4. /\ TypeOK' /\ InBounds' /\ NodesConserved' /\ IndexConsistent'
          /\ hole' = c /\ pc' = pc /\ num_items_' = num_items_ /\ val' = val
          /\ \A j \in Slots : Slot(j)' = IF j = c THEN node
                                       ELSE IF j = hole THEN Slot(c) ELSE Slot(j)
        <3>1. c \in 1 .. num_items_
            BY <2>1
        <3> QED
            BY <1>1, <2>1, <2>2, <3>1, MoveStep
    <2>5. ASSUME NEW i \in 2 .. num_items_, i \div 2 # c
          PROVE  InOrder(i \div 2, i)'
        <3>1. /\ i \in Slots /\ i \div 2 \in Slots /\ i \div 2 # i
              /\ val[Slot(i)] \in Int /\ val[Slot(i \div 2)] \in Int
              /\ val[Slot(c)] \in Int /\ val[node] \in Int
            BY <1>1, <2>1, InLoop
        <3>2. CASE i = c
            BY <3>1, <3>2, <2>1, <2>2, <2>4 DEF InOrder
        <3>3. CASE i # c /\ i \div 2 = hole
            BY <3>1, <3>3, <2>1, <2>3, <2>4 DEF InOrder
        <3>4. CASE i = hole
            <4>1. val[Slot(i \div 2)] <= val[Slot(c)]
                BY <3>4, <2>1, <1>1 DEF HeapOrder, InOrder
            <4> QED
                BY <3>1, <3>4, <4>1, <2>1, <2>4, <2>5 DEF InOrder
        <3>5. CASE i # c /\ i # hole /\ i \div 2 # hole
            <4>1. val[Slot(i \div 2)] <= val[Slot(i)]
                BY <3>5, <1>1 DEF HeapOrder, InOrder
            <4> QED
                BY <3>1, <3>5, <4>1, <2>4, <2>5 DEF InOrder
        <3> QED
            BY <3>2, <3>3, <3>4, <3>5
    <2>6. ASSUME NEW i \in 2 .. num_items_, i \div 2 = c
          PROVE  InOrder(c \div 2, i)'
        <3>1. /\ i \in Slots /\ i # c /\ i # hole
              /\ val[Slot(i)] \in Int /\ val[Slot(c)] \in Int
            <4>1. c < i /\ hole < c /\ i \in Slots /\ i \in Nat /\ c \in Nat
                BY <1>1, <2>1, <2>6, InLoop
            <4> QED
                BY <4>1, <1>1, <2>1, InLoop
        <3>2. val[Slot(c)] <= val[Slot(i)]
            BY <2>1, <2>6, <1>1 DEF HeapOrder, InOrder
        <3> QED
            BY <3>1, <3>2, <2>1, <2>4 DEF InOrder
    <2>7. HeapOrder'
        BY <1>1, <2>4, <2>5, <2>6 DEF HeapOrder
    <2> QED
        BY <2>4, <2>7 DEF IInv
<1>5. CASE ~ MaySink
    <2>1. \A i \in 2 .. num_items_ : InOrder(i \div 2, i)
        <3> SUFFICES ASSUME NEW i \in 2 .. num_items_
                     PROVE  InOrder(i \div 2, i)
            OBVIOUS
        <3>1. CASE i \div 2 = hole
            <4>1. 2 * hole <= num_items_ /\ i # hole /\ i \in Slots /\ MinChild \in Slots
                BY <3>1, <1>1, <1>2, <1>3, InLoop, Sizes
            <4>2. val[node] < val[heap_items_[MinChild]]
                BY <4>1, <1>5 DEF MaySink, Compare
            <4>3. val[heap_items_[MinChild]] <= val[heap_items_[i]]
                BY <4>1, <3>1, <1>3
            <4>4. val[heap_items_[MinChild]] \in Int
                BY <4>1 DEF IInv, TypeOK
            <4> QED
                BY <4>1, <4>2, <4>3, <4>4, <3>1, <1>1, InLoop DEF InOrder
        <3>2. CASE i \div 2 # hole
            BY <3>2, <1>1 DEF HeapOrder
        <3> QED
            BY <3>1, <3>2
    <2> QED
        BY <1>1, <1>5, <2>1, PutDownStep DEF SiftDown
<1> QED
    BY <1>4, <1>5

----------------------------------------------------------------------------
(* Clear drops every entry and leaves the nodes in the pool. *)
LEMMA ClearStep ==
    ASSUME IInv, Clear
    PROVE  IInv'
<1>1. TypeOK /\ NodesConserved /\ pc = "idle"
    BY DEF IInv, Clear
<1>2. TypeOK' /\ IndexConsistent' /\ HeapOrder'
    BY <1>1 DEF Clear, TypeOK, IndexConsistent, HeapOrder
<1>3. InBounds'
    <2>1. 0 < size_container_
        BY Sizes
    <2> QED
        BY <1>1, <2>1 DEF Clear, InBounds
<1>4. NodesConserved'
    BY <1>1 DEF Clear, NodesConserved, Slot
<1> QED
    BY <1>2, <1>3, <1>4 DEF IInv

(* Update changes the key of one live node. *)
LEMMA UpdateStep ==
    ASSUME IInv, NEW n \in Slots, NEW k \in Key, Update(n, k)
    PROVE  IInv'
<1>1. val \in [Slots -> Int] /\ k \in Int
    BY KeyAssumption DEF IInv, TypeOK
<1>2. val' \in [Slots -> Int] /\ \A x \in Slots : x # n => val'[x] = val[x]
    BY <1>1 DEF Update
<1> QED
    BY <1>2, AdjustStep DEF Update

(* Refresh changes no key. *)
LEMMA RefreshStep ==
    ASSUME IInv, NEW n \in Slots, Refresh(n)
    PROVE  IInv'
<1>1. val' = val /\ val \in [Slots -> Int]
    BY DEF Refresh, arrays, IInv, TypeOK
<1> QED
    BY <1>1, AdjustStep DEF Refresh, arrays

(* Every step keeps the invariant. *)
LEMMA NextIInv == IInv /\ [Next]_vars => IInv'
<1> SUFFICES ASSUME IInv, [Next]_vars PROVE IInv'
    OBVIOUS
<1>1. ASSUME NEW k \in Key, Insert(k) PROVE IInv'
    BY <1>1, InsertStep
<1>2. ASSUME NEW n \in Slots, Erase(n) PROVE IInv'
    BY <1>2, RemoveStep DEF Erase
<1>3. ASSUME NEW n \in Slots, Refresh(n) PROVE IInv'
    BY <1>3, RefreshStep
<1>4. ASSUME NEW n \in Slots, NEW k \in Key, Update(n, k) PROVE IInv'
    BY <1>4, UpdateStep
<1>5. CASE Pop
    <2>1. heap_items_[1] \in Live /\ heap_items_[1] \in Slots
        BY <1>5, Sizes DEF Pop, Live
    <2> QED
        BY <1>5, <2>1, RemoveStep DEF Pop
<1>6. CASE Clear
    BY <1>6, ClearStep
<1>7. CASE SiftUp
    BY <1>7, SiftUpStep
<1>8. CASE SiftDown
    BY <1>8, SiftDownStep
<1>9. CASE UNCHANGED vars
    BY <1>9 DEF vars, arrays, IInv, TypeOK, InBounds, NodesConserved, IndexConsistent,
                HeapOrder, InOrder, Slot
<1> QED
    BY <1>1, <1>2, <1>3, <1>4, <1>5, <1>6, <1>7, <1>8, <1>9 DEF Next, Call, Sift

(* The array heap keeps its invariant through every call and every loop    *)
(* iteration, for every container size and every set of keys.              *)
THEOREM HeapInvariant == Spec => []IInv
BY InitIInv, NextIInv, PTL DEF Spec

(* The variables of the heap have their types at every step. *)
THEOREM HeapTypeOK == Spec => []TypeOK
<1>1. IInv => TypeOK
    BY DEF IInv
<1> QED
    BY <1>1, HeapInvariant, PTL

(* Insert, Erase, Pop, Update and their loops never touch a slot outside    *)
(* the allocation, never lose or duplicate a node, keep every live node's  *)
(* index right, and leave no node smaller than its parent.                 *)
THEOREM HeapCorrect == Spec => []WellFormed
<1>1. IInv => WellFormed
    BY DEF IInv, WellFormed
<1> QED
    BY <1>1, HeapInvariant, PTL

----------------------------------------------------------------------------
(* Between calls the first slot holds a least key. *)
LEMMA TopIsMinimal ==
    ASSUME IInv, pc = "idle", NEW i \in 1 .. num_items_
    PROVE  val[heap_items_[1]] <= val[heap_items_[i]]
<1> DEFINE T == {j \in 1 .. num_items_ : val[heap_items_[j]] < val[heap_items_[1]]}
<1>1. /\ num_items_ \in Nat
      /\ \A j \in 1 .. num_items_ : heap_items_[j] \in Slots /\ val[heap_items_[j]] \in Int
    BY Sizes DEF IInv, TypeOK
<1>2. SUFFICES ASSUME T # {} PROVE FALSE
    BY <1>1
<1>2a. T \subseteq Nat
    BY <1>1
<1> HIDE DEF T
<1>3. PICK m \in T : \A x \in T : m <= x
    BY <1>2, <1>2a, LeastNatural
<1> USE DEF T
<1>4. m \in 2 .. num_items_
    BY <1>1, <1>3
<1>5. m \div 2 \in 1 .. num_items_ /\ m \div 2 < m
    BY <1>4, Sizes
<1>6. val[heap_items_[m \div 2]] <= val[heap_items_[m]]
    BY <1>4 DEF IInv, HeapOrder, InOrder, Slot
<1>7. m \div 2 \in T
    BY <1>1, <1>3, <1>4, <1>5, <1>6
<1> QED
    BY <1>1, <1>3, <1>4, <1>5, <1>7

----------------------------------------------------------------------------
(* The entries the heap stands for, as the refinement mapping sees them. *)
Entries == {Slot(i) : i \in 1 .. num_items_}
Abstract == [n \in Entries |-> val[n]]

(* Between calls the entries are the live nodes. *)
LEMMA EntriesIdle ==
    ASSUME pc = "idle"
    PROVE  Entries = Live
BY DEF Entries, Live, Slot

(* Insert hands out a node that no live entry has, and adds it. *)
LEMMA InsertRefines ==
    ASSUME IInv, NEW k \in Key, Insert(k)
    PROVE  \E h \in Slots : PQ!AInsert(h, k)
<1> DEFINE m == num_items_ + 1
<1>1. /\ TypeOK /\ NodesConserved /\ InBounds /\ pc = "idle" /\ pc' = "up" /\ hole' = m
      /\ heap_items_' = heap_items_ /\ num_items_' = m /\ num_items_ \in Nat
      /\ node' = heap_items_[m] /\ returned' = node'
    BY Sizes DEF Insert, IInv
<1>2. m \in Slots /\ node' \in Slots /\ \A i \in 1 .. num_items_ : i \in Slots /\ i # m
    BY <1>1, Sizes, InsertStep DEF IInv, InBounds, TypeOK, Slots
<1>3. val' = [val EXCEPT ![node'] = k] /\ val \in [Slots -> Int]
    BY <1>1 DEF Insert, TypeOK
<1>4. Entries = {heap_items_[i] : i \in 1 .. num_items_}
    BY <1>1 DEF Entries, Slot
<1>5. Entries' = {heap_items_[i] : i \in 1 .. m}
    BY <1>1 DEF Entries, Slot
<1>6. Entries' = Entries \cup {node'}
    <2>1. \A i : i \in 1 .. m <=> i = m \/ i \in 1 .. num_items_
        BY <1>1
    <2> QED
        BY <1>1, <1>4, <1>5, <2>1
<1>7. node' \notin Entries
    BY <1>1, <1>2, <1>4 DEF NodesConserved, Slot
<1>8. \A g \in Entries : g \in Slots
    BY <1>1, <1>2, <1>4 DEF TypeOK
<1>9. Abstract' = [g \in Entries \cup {node'} |-> IF g = node' THEN k ELSE Abstract[g]]
    BY <1>2, <1>3, <1>6, <1>7, <1>8 DEF Abstract
<1>10. PQ!AInsert(node', k)
    BY <1>1, <1>7, <1>9 DEF PQ!AInsert, Abstract, Entries
<1> QED
    BY <1>2, <1>10

(* RemoveNode takes exactly the named entry away. *)
LEMMA RemoveRefines ==
    ASSUME IInv, pc = "idle", NEW n \in Live, RemoveNode(n)
    PROVE  /\ n \in Slots /\ n \in DOMAIN Abstract
           /\ Abstract' = [g \in DOMAIN Abstract \ {n} |-> Abstract[g]]
<1> DEFINE at == index[n]
           last == num_items_
<1>1. n \in Slots /\ at \in 1 .. last /\ heap_items_[at] = n
    BY LiveIndex
<1>2. /\ at \in Slots /\ last \in Slots /\ at \in Nat /\ last \in Nat \ {0}
      /\ TypeOK /\ NodesConserved /\ \A i \in 1 .. last : i \in Slots
    BY <1>1, Sizes DEF Slots, IInv
<1>3. /\ heap_items_'[at] = heap_items_[last]
      /\ \A j \in Slots : j # at /\ j # last => heap_items_'[j] = heap_items_[j]
      /\ num_items_' = last - 1 /\ val' = val
      /\ hole' = at /\ node' = heap_items_'[at]
    BY <1>1, <1>2 DEF RemoveNode, TypeOK, EnterAdjust
<1>4. \A j \in Slots : Slot(j)' = heap_items_'[j] /\ Slot(j) = heap_items_[j]
    BY <1>3 DEF Slot
<1>5. /\ Entries = {heap_items_[i] : i \in 1 .. last}
      /\ Entries' = {heap_items_'[i] : i \in 1 .. last - 1}
    <2>1. \A i \in 1 .. last - 1 : i \in Slots
        BY <1>2
    <2> QED
        BY <1>2, <1>3, <1>4, <2>1 DEF Entries
<1>6. ASSUME NEW i \in 1 .. last - 1
      PROVE  heap_items_'[i] \in Entries \ {n}
    <2>1. i \in Slots /\ i \in 1 .. last /\ i # last
        BY <1>2
    <2>2. CASE i = at
        BY <2>1, <2>2, <1>1, <1>2, <1>3, <1>4, <1>5 DEF NodesConserved
    <2>3. CASE i # at
        BY <2>1, <2>3, <1>1, <1>2, <1>3, <1>4, <1>5 DEF NodesConserved
    <2> QED
        BY <2>2, <2>3
<1>7. ASSUME NEW i \in 1 .. last, heap_items_[i] # n
      PROVE  heap_items_[i] \in Entries'
    <2>1. i \in Slots /\ i # at
        BY <1>1, <1>2, <1>7
    <2>2. CASE i = last
        <3>1. at \in 1 .. last - 1
            BY <2>1, <2>2, <1>1, <1>2
        <3> QED
            BY <3>1, <2>2, <1>3, <1>5
    <2>3. CASE i # last
        <3>1. i \in 1 .. last - 1
            BY <2>3, <1>2
        <3> QED
            BY <3>1, <2>1, <2>3, <1>3, <1>5
    <2> QED
        BY <2>2, <2>3
<1>8. Entries' = Entries \ {n}
    BY <1>5, <1>6, <1>7
<1>9. n \in Entries
    BY <1>1, <1>5
<1> QED
    BY <1>1, <1>3, <1>8, <1>9 DEF Abstract

(* Pop takes an entry with the least key. *)
LEMMA PopRefines ==
    ASSUME IInv, Pop
    PROVE  \E h \in Slots : PQ!APop(h)
<1>1. pc = "idle" /\ 1 \in 1 .. num_items_ /\ returned' = heap_items_[1] /\ RemoveNode(heap_items_[1])
    BY Sizes DEF Pop
<1>2. PICK t : t = heap_items_[1]
    OBVIOUS
<1>3. t \in Live /\ RemoveNode(t) /\ returned' = t
    BY <1>1, <1>2 DEF Live
<1>4. /\ t \in Slots /\ t \in DOMAIN Abstract
      /\ Abstract' = [g \in DOMAIN Abstract \ {t} |-> Abstract[g]]
    BY <1>1, <1>3, RemoveRefines
<1>5. \A g \in DOMAIN Abstract : Abstract[t] <= Abstract[g]
    <2>1. \A g \in Entries : val[t] <= val[g]
        BY <1>1, <1>2, EntriesIdle, TopIsMinimal DEF Live
    <2> QED
        BY <2>1, <1>4 DEF Abstract
<1>6. PQ!APop(t)
    BY <1>3, <1>4, <1>5 DEF PQ!APop, PQ!IsMinimal, PQ!Without, Abstract, Entries
<1> QED
    BY <1>4, <1>6

(* Update gives exactly the named entry its new key. *)
LEMMA UpdateRefines ==
    ASSUME IInv, NEW n \in Slots, NEW k \in Key, Update(n, k)
    PROVE  PQ!AUpdate(n, k)
<1>1. /\ pc = "idle" /\ n \in Live /\ val' = [val EXCEPT ![n] = k] /\ val \in [Slots -> Int]
      /\ heap_items_' = heap_items_ /\ num_items_' = num_items_ /\ returned' = NoHandle
      /\ hole' = index[n] /\ node' = heap_items_[hole']
    BY DEF Update, IInv, TypeOK, EnterAdjust
<1>2. Entries' = Entries /\ Entries = Live
    BY <1>1, EntriesIdle DEF Entries, Slot, Live
<1>3. \A g \in Entries : g \in Slots
    BY <1>1, <1>2, LiveIndex
<1>4. Abstract' = [Abstract EXCEPT ![n] = k]
    BY <1>1, <1>2, <1>3 DEF Abstract
<1> QED
    BY <1>1, <1>2, <1>4 DEF PQ!AUpdate, PQ!NoHandle, NoHandle, Abstract, Entries

(* A loop iteration leaves the entries alone. *)
LEMMA SiftRefines ==
    ASSUME IInv, Sift
    PROVE  UNCHANGED <<Abstract, returned>>
<1>1. pc # "idle"
    BY DEF Sift, SiftUp, SiftDown
<1>2. ASSUME NEW p \in 1 .. num_items_, p # hole, MoveInto(p)
      PROVE  Entries' = Entries /\ val' = val /\ returned' = returned
    <2>1. /\ num_items_' = num_items_ /\ val' = val /\ returned' = returned
          /\ \A j \in Slots : Slot(j)' = IF j = p THEN node
                                       ELSE IF j = hole THEN Slot(p) ELSE Slot(j)
        BY <1>1, <1>2, MoveStep DEF MoveInto
    <2>2. /\ hole \in 1 .. num_items_ /\ Slot(hole) = node
          /\ \A j \in 1 .. num_items_ : j \in Slots
        BY <1>1, InLoop
    <2> DEFINE D == 1 .. num_items_
    <2>3. Entries' = {Slot(j)' : j \in D} /\ Entries = {Slot(j) : j \in D}
        BY <2>1 DEF Entries
    <2>4. \A j \in D : Slot(j)' \in Entries
        BY <2>1, <2>2, <2>3, <1>2
    <2>5. ASSUME NEW j \in D PROVE Slot(j) \in Entries'
        <3>1. CASE j = hole
            <4>1. PICK q \in D : q = p
                BY <1>2
            <4>2. Slot(q)' = Slot(j)
                BY <4>1, <3>1, <2>1, <2>2
            <4> QED
                BY <4>2, <2>3
        <3>2. CASE j = p
            <4>1. PICK q \in D : q = hole
                BY <2>2
            <4>2. Slot(q)' = Slot(j)
                BY <4>1, <3>2, <2>1, <2>2, <1>2
            <4> QED
                BY <4>2, <2>3
        <3>3. CASE j # hole /\ j # p
            <4>1. Slot(j)' = Slot(j)
                BY <3>3, <2>1, <2>2
            <4> QED
                BY <4>1, <2>3
        <3> QED
            BY <3>1, <3>2, <3>3
    <2> QED
        BY <2>1, <2>3, <2>4, <2>5
<1>3. ASSUME PutDown
      PROVE  Entries' = Entries /\ val' = val /\ returned' = returned
    <2>1. num_items_' = num_items_ /\ val' = val /\ returned' = returned
        BY <1>3 DEF PutDown
    <2>2. \A j \in 1 .. num_items_ : Slot(j)' = Slot(j)
        BY <1>1, <1>3, InLoop DEF PutDown, Slot, IInv, TypeOK
    <2> QED
        BY <2>1, <2>2 DEF Entries
<1>4. CASE SiftUp /\ MayRise
    <2>1. PICK p \in 1 .. num_items_ : p = hole \div 2 /\ p # hole
        BY <1>1, <1>4, InLoop, Sizes DEF MayRise
    <2> QED
        BY <2>1, <1>2, <1>4 DEF SiftUp, Abstract
<1>5. CASE SiftDown /\ MaySink
    <2>1. /\ hole \in Nat /\ num_items_ \in Nat /\ hole >= 1
          /\ 2 * hole <= num_items_
        BY <1>1, <1>5, InLoop, Sizes DEF MaySink
    <2>2. PICK p \in 1 .. num_items_ : p = MinChild /\ p # hole
        BY <2>1 DEF MinChild
    <2> QED
        BY <2>2, <1>2, <1>5 DEF SiftDown, Abstract
<1>6. CASE PutDown
    BY <1>3, <1>6 DEF Abstract
<1> QED
    BY <1>4, <1>5, <1>6 DEF Sift, SiftUp, SiftDown

(* Every step of the heap is a step of the priority queue, or none. *)
LEMMA StepRefines == IInv /\ [Next]_vars => [PQ!ANext]_(PQ!qvars)
<1> SUFFICES ASSUME IInv, [Next]_vars PROVE [PQ!ANext]_(PQ!qvars)
    OBVIOUS
<1>1. ASSUME NEW k \in Key, Insert(k) PROVE PQ!ANext
    BY <1>1, InsertRefines DEF PQ!ANext
<1>2. ASSUME NEW n \in Slots, Erase(n) PROVE PQ!ANext
    <2>1. PQ!AErase(n)
        BY <1>2, RemoveRefines DEF Erase, PQ!AErase, PQ!Without, PQ!NoHandle, NoHandle,
                                   Abstract, Entries
    <2> QED
        BY <2>1 DEF PQ!ANext
<1>3. ASSUME NEW n \in Slots, Refresh(n) PROVE PQ!ANext
    <2>1. /\ pc = "idle" /\ UNCHANGED arrays /\ returned' = NoHandle
          /\ hole' = index[n] /\ node' = heap_items_[hole']
        BY <1>3 DEF Refresh, EnterAdjust
    <2>2. UNCHANGED Abstract
        BY <2>1 DEF Abstract, Entries, Slot, arrays
    <2>3. PQ!ANothing
        BY <2>1, <2>2 DEF PQ!ANothing, PQ!NoHandle, NoHandle, Abstract, Entries
    <2> QED
        BY <2>3 DEF PQ!ANext
<1>4. ASSUME NEW n \in Slots, NEW k \in Key, Update(n, k) PROVE PQ!ANext
    BY <1>4, UpdateRefines DEF PQ!ANext
<1>5. CASE Pop
    BY <1>5, PopRefines DEF PQ!ANext
<1>6. CASE Clear
    <2>1. num_items_' = 0 /\ returned' = NoHandle
        BY <1>6 DEF Clear
    <2>2. Entries' = {}
        BY <2>1 DEF Entries
    <2>3. Abstract' = [h \in {} |-> 0]
        BY <2>2 DEF Abstract
    <2>4. PQ!AClear
        BY <2>1, <2>3 DEF PQ!AClear, PQ!NoHandle, NoHandle, Abstract, Entries
    <2> QED
        BY <2>4 DEF PQ!ANext
<1>7. CASE Sift
    BY <1>7, SiftRefines DEF PQ!qvars, Abstract, Entries
<1>8. CASE UNCHANGED vars
    BY <1>8 DEF vars, arrays, PQ!qvars, Slot
<1> QED
    BY <1>1, <1>2, <1>3, <1>4, <1>5, <1>6, <1>7, <1>8 DEF Next, Call

(* The heap of common/heap.h implements the priority queue its callers are *)
(* promised: Insert hands out a handle no live entry has, Erase(sign) takes *)
(* exactly that entry away, Pop a least one, Update(sign) changes exactly  *)
(* that entry's key, and a sift loop changes nothing a caller can see.     *)
THEOREM HeapImplementsPriorityQueue == Spec => PriorityQueueSpec
<1>1. Init => PQ!AInit
    <2> SUFFICES ASSUME Init PROVE PQ!AInit
        OBVIOUS
    <2>1. 1 .. num_items_ = {} /\ returned = NoHandle
        BY DEF Init
    <2> QED
        BY <2>1 DEF PQ!AInit, PQ!NoHandle, NoHandle
<1> QED
    BY <1>1, HeapInvariant, StepRefines, PTL DEF Spec, PriorityQueueSpec, PQ!ASpec

----------------------------------------------------------------------------
(* The loops and HeapOps.  Each iteration takes the first slot of the path *)
(* that is left, so what the loop is going to leave behind stays the same. *)
LEMMA CurrentIs ==
    ASSUME IInv
    PROVE  /\ MaxSize - 1 \in Nat /\ Slots = 0 .. MaxSize - 1
           /\ HeapRecord(Current, MaxSize - 1)
           /\ \A i \in 1 .. num_items_ : i \in 1 .. MaxSize - 1
<1>1. /\ num_items_ \in Nat /\ MaxSize - 1 \in Nat /\ num_items_ \in 0 .. MaxSize - 1
      /\ size_container_ \in Int
    BY Sizes
<1>2. Slots = 0 .. MaxSize - 1
    BY DEF Slots
<1>3. /\ heap_items_ \in [Slots -> Slots] /\ index \in [Slots -> Slots]
      /\ val \in [Slots -> Int]
    BY DEF IInv, TypeOK
<1>4. HeapRecord(Current, MaxSize - 1)
    BY <1>1, <1>2, <1>3 DEF HeapRecord, Current
<1>5. \A i \in 1 .. num_items_ : i \in 1 .. MaxSize - 1
    BY <1>1
<1> QED
    BY <1>1, <1>2, <1>4, <1>5

LEMMA CurrentFields ==
    /\ Current.items = heap_items_ /\ Current.num = num_items_
    /\ Current.size = size_container_ /\ Current.index = index /\ Current.val = val
    /\ \A i : KeyAt(Current, i) = val[heap_items_[i]]
BY DEF Current, KeyAt

(* A record with some of its fields changed, field by field. *)
HeapOf(a, b, c, d, e) == [items |-> a, num |-> b, size |-> c, index |-> d, val |-> e]
Only(a, b, c, d, e) == [items : {a}, num : {b}, size : {c}, index : {d}, val : {e}]

LEMMA HeapOfIs ==
    ASSUME NEW a, NEW b, NEW c, NEW d, NEW e, NEW H \in Only(a, b, c, d, e)
    PROVE  H = HeapOf(a, b, c, d, e)
BY DEF HeapOf, Only

LEMMA PutIs ==
    ASSUME NEW a, NEW b, NEW c, NEW d, NEW e, NEW i, NEW n
    PROVE  PutNode(HeapOf(a, b, c, d, e), i, n) =
               HeapOf([a EXCEPT ![i] = n], b, c, [d EXCEPT ![n] = i], e)
<1>1. PutNode(HeapOf(a, b, c, d, e), i, n) \in
          Only([a EXCEPT ![i] = n], b, c, [d EXCEPT ![n] = i], e)
    BY DEF PutNode, HeapOf, Only
<1> QED
    BY <1>1, HeapOfIs

Inserted(H, n, k, full) ==
    [H EXCEPT !.num = @ + 1, !.val[n] = k, !.size = IF full THEN 2 * @ ELSE @]

LEMMA InsertedIs ==
    ASSUME NEW a, NEW b, NEW c, NEW d, NEW e, NEW k, NEW n, NEW full
    PROVE  Inserted(HeapOf(a, b, c, d, e), n, k, full) =
               HeapOf(a, b + 1, IF full THEN 2 * c ELSE c, d, [e EXCEPT ![n] = k])
<1>1. Inserted(HeapOf(a, b, c, d, e), n, k, full) \in
          Only(a, b + 1, IF full THEN 2 * c ELSE c, d, [e EXCEPT ![n] = k])
    BY DEF HeapOf, Only, Inserted
<1> QED
    BY <1>1, HeapOfIs

Erased(H, h, at) == [H EXCEPT !.items = h, !.num = @ - 1, !.index[h[at]] = at]

LEMMA ErasedIs ==
    ASSUME NEW a, NEW b, NEW c, NEW d, NEW e, NEW h, NEW at
    PROVE  Erased(HeapOf(a, b, c, d, e), h, at) =
               HeapOf(h, b - 1, c, [d EXCEPT ![h[at]] = at], e)
<1>1. Erased(HeapOf(a, b, c, d, e), h, at) \in
          Only(h, b - 1, c, [d EXCEPT ![h[at]] = at], e)
    BY DEF HeapOf, Only, Erased
<1> QED
    BY <1>1, HeapOfIs

LEMMA CurrentIsHeapOf ==
    /\ Current = HeapOf(heap_items_, num_items_, size_container_, index, val)
    /\ Current' = HeapOf(heap_items_', num_items_', size_container_', index', val')
BY DEF Current, HeapOf

LEMMA MoveIsPut ==
    ASSUME NEW from, MoveInto(from)
    PROVE  /\ Current' = PutNode(Current, hole, Current.items[from])
           /\ pc' = pc /\ hole' = from /\ node' = node
<1>1. Current.items[from] = heap_items_[from]
    BY CurrentFields
<1> DEFINE a == [heap_items_ EXCEPT ![hole] = heap_items_[from]]
           d == [index EXCEPT ![heap_items_[from]] = hole]
<1>2. /\ heap_items_' = a /\ index' = d /\ num_items_' = num_items_ /\ val' = val
      /\ size_container_' = size_container_ /\ pc' = pc /\ hole' = from /\ node' = node
    BY DEF MoveInto
<1>3. PutNode(HeapOf(heap_items_, num_items_, size_container_, index, val), hole,
              heap_items_[from]) = HeapOf(a, num_items_, size_container_, d, val)
    BY PutIs
<1> HIDE DEF a, d
<1>4. Current' = HeapOf(a, num_items_, size_container_, d, val)
    BY <1>2, CurrentIsHeapOf
<1> QED
    BY <1>1, <1>2, <1>3, <1>4, CurrentIsHeapOf

LEMMA PutDownIsPut ==
    ASSUME PutDown
    PROVE  Current' = PutNode(Current, hole, node) /\ pc' = "idle"
<1> DEFINE a == [heap_items_ EXCEPT ![hole] = node]
           d == [index EXCEPT ![node] = hole]
<1>1. /\ heap_items_' = a /\ index' = d /\ num_items_' = num_items_ /\ val' = val
      /\ size_container_' = size_container_ /\ pc' = "idle"
    BY DEF PutDown
<1>2. PutNode(HeapOf(heap_items_, num_items_, size_container_, index, val), hole, node) =
          HeapOf(a, num_items_, size_container_, d, val)
    BY PutIs
<1> HIDE DEF a, d
<1>3. Current' = HeapOf(a, num_items_, size_container_, d, val)
    BY <1>1, CurrentIsHeapOf
<1> QED
    BY <1>1, <1>2, <1>3, CurrentIsHeapOf

LEMMA UpIteration ==
    ASSUME IInv, SiftUp
    PROVE  Finished' = Finished
<1>1. pc = "up" /\ Finished = RaiseFrom(Current, node, hole)
    BY DEF SiftUp, Finished
<1>2. hole \in 1 .. num_items_ /\ hole \in Nat \ {0}
    BY <1>1, InLoop
<1>3. MayRise <=> MayRiseFrom(Current, node, hole)
    BY CurrentFields DEF MayRise, MayRiseFrom, Compare
<1>4. CASE MayRise
  <2> DEFINE N == MaxSize - 1
             m == hole \div 2
  <2>1. MoveInto(m)
      BY <1>4 DEF SiftUp
  <2>2. /\ Current' = PutNode(Current, hole, Current.items[m])
        /\ pc' = "up" /\ hole' = m /\ node' = node
      BY <1>1, <2>1, MoveIsPut
  <2>3. N \in Nat /\ HeapRecord(Current, N) /\ hole \in 1 .. N
      BY <1>2, CurrentIs
  <2> HIDE DEF N
  <2>4. RaiseFrom(Current, node, hole) =
            RaiseFrom(PutNode(Current, hole, Current.items[m]), node, m)
      BY <1>3, <1>4, <2>3, RaiseMoves
  <2>5. Finished' = RaiseFrom(Current', node', hole')
      BY <2>2 DEF Finished
  <2> QED
      BY <1>1, <2>2, <2>4, <2>5
<1>5. CASE ~ MayRise
  <2>1. Current' = PutNode(Current, hole, node) /\ pc' = "idle"
      BY <1>5, PutDownIsPut DEF SiftUp
  <2>2. RaiseFrom(Current, node, hole) = PutNode(Current, hole, node)
      BY <1>2, <1>3, <1>5, RaiseStops
  <2>3. Finished' = Current'
      BY <2>1 DEF Finished
  <2> QED
      BY <1>1, <2>1, <2>2, <2>3
<1> QED
    BY <1>4, <1>5

LEMMA DownIteration ==
    ASSUME IInv, SiftDown
    PROVE  Finished' = Finished
<1>1. pc = "down" /\ Finished = LowerFrom(Current, node, hole)
    BY DEF SiftDown, Finished
<1>2. hole \in 1 .. Current.num /\ Current.num \in Nat
    BY <1>1, InLoop, Sizes, CurrentFields
<1>3. /\ MinChild = MinChildOf(Current, hole)
      /\ MaySink <=> MaySinkFrom(Current, node, hole)
  <2>1. MinChild = MinChildOf(Current, hole)
      BY CurrentFields DEF MinChild, MinChildOf, Compare
  <2> QED
      BY <2>1, CurrentFields DEF MaySink, MaySinkFrom, Compare
<1>4. CASE MaySink
  <2> DEFINE N == MaxSize - 1
             m == MinChildOf(Current, hole)
  <2>1. MoveInto(m)
      BY <1>3, <1>4 DEF SiftDown
  <2>2. /\ Current' = PutNode(Current, hole, Current.items[m])
        /\ pc' = "down" /\ hole' = m /\ node' = node
      BY <1>1, <2>1, MoveIsPut
  <2>3. N \in Nat /\ HeapRecord(Current, N)
      BY CurrentIs
  <2> HIDE DEF N
  <2>4. LowerFrom(Current, node, hole) =
            LowerFrom(PutNode(Current, hole, Current.items[m]), node, m)
      BY <1>2, <1>3, <1>4, <2>3, LowerMoves
  <2>5. Finished' = LowerFrom(Current', node', hole')
      BY <2>2 DEF Finished
  <2> QED
      BY <1>1, <2>2, <2>4, <2>5
<1>5. CASE ~ MaySink
  <2>1. Current' = PutNode(Current, hole, node) /\ pc' = "idle"
      BY <1>5, PutDownIsPut DEF SiftDown
  <2>2. LowerFrom(Current, node, hole) = PutNode(Current, hole, node)
      BY <1>2, <1>3, <1>5, LowerStops
  <2>3. Finished' = Current'
      BY <2>1 DEF Finished
  <2> QED
      BY <1>1, <2>1, <2>2, <2>3
<1> QED
    BY <1>4, <1>5

(* Where AdjustNode is entered. *)
LEMMA EnterIs ==
    ASSUME NEW i, EnterAdjust(heap_items_', num_items_', val', i)
    PROVE  Finished' = AdjustNode(Current', i)
<1> DEFINE H == Current'
<1>1. /\ H.items = heap_items_' /\ H.num = num_items_' /\ H.val = val'
      /\ KeyAt(H, i) = val'[heap_items_'[i]]
      /\ KeyAt(H, i \div 2) = val'[heap_items_'[i \div 2]]
    BY DEF Current, KeyAt
<1>2. /\ pc' = IF i > num_items_' THEN "idle"
               ELSE IF i > 1 /\ val'[heap_items_'[i]] < val'[heap_items_'[i \div 2]]
                    THEN "up" ELSE "down"
      /\ hole' = i /\ node' = heap_items_'[i]
    BY DEF EnterAdjust
<1>3. Finished' = CASE pc' = "up"   -> RaiseFrom(H, node', hole')
                    [] pc' = "down" -> LowerFrom(H, node', hole')
                    [] OTHER        -> H
    BY DEF Finished
<1> HIDE DEF H
<1>4. CASE i > num_items_'
  <2>1. pc' = "idle"
      BY <1>2, <1>4
  <2> QED
      BY <1>1, <1>3, <1>4, <2>1 DEF AdjustNode, H
<1>5. CASE ~ (i > num_items_') /\ i > 1 /\ val'[heap_items_'[i]] < val'[heap_items_'[i \div 2]]
  <2>1. pc' = "up"
      BY <1>2, <1>5
  <2>2. AdjustNode(H, i) = RaiseFrom(H, H.items[i], i)
      BY <1>1, <1>5 DEF AdjustNode
  <2> QED
      BY <1>1, <1>2, <1>3, <2>1, <2>2 DEF H
<1>6. CASE ~ (i > num_items_') /\ ~ (i > 1 /\ val'[heap_items_'[i]] < val'[heap_items_'[i \div 2]])
  <2>1. pc' = "down"
      BY <1>2, <1>6
  <2>2. AdjustNode(H, i) = LowerFrom(H, H.items[i], i)
      BY <1>1, <1>6 DEF AdjustNode
  <2> QED
      BY <1>1, <1>2, <1>3, <2>1, <2>2 DEF H
<1> QED
    BY <1>4, <1>5, <1>6

LEMMA InsertComputes ==
    ASSUME IInv, NEW k \in Key, Insert(k)
    PROVE  Finished' = InsertKey(Current, k)
<1> DEFINE n == NextNode(Current)
           G == [Current EXCEPT !.num = @ + 1, !.val[n] = k,
                                !.size = IF Full(Current) THEN 2 * @ ELSE @]
<1>1. /\ n = heap_items_[num_items_ + 1]
      /\ Full(Current) <=> num_items_ + 1 = size_container_
    BY CurrentFields DEF NextNode, Full
<1>2. Current' = G
  <2> HIDE DEF n
  <2>1. /\ heap_items_' = heap_items_ /\ index' = index /\ num_items_' = num_items_ + 1
        /\ val' = [val EXCEPT ![n] = k]
        /\ size_container_' = IF Full(Current) THEN 2 * size_container_ ELSE size_container_
      BY <1>1 DEF Insert
  <2> DEFINE e == [val EXCEPT ![n] = k]
             size == IF Full(Current) THEN 2 * size_container_ ELSE size_container_
  <2>2. G = HeapOf(heap_items_, num_items_ + 1, size, index, e)
    <3> DEFINE H == HeapOf(heap_items_, num_items_, size_container_, index, val)
    <3>1. Inserted(H, n, k, Full(Current)) = HeapOf(heap_items_, num_items_ + 1, size, index, e)
        BY InsertedIs
    <3>2. Current = H
        BY CurrentIsHeapOf
    <3> HIDE DEF H, e, size
    <3>3. G = Inserted(Current, n, k, Full(Current))
        BY DEF Inserted
    <3> QED
        BY <3>1, <3>2, <3>3
  <2> HIDE DEF e, size, G
  <2>3. Current' = HeapOf(heap_items_, num_items_ + 1, size, index, e)
      BY <2>1, CurrentIsHeapOf DEF e, size
  <2> QED
      BY <2>2, <2>3
<1>3. pc' = "up" /\ node' = n /\ hole' = Current.num + 1
    BY <1>1, CurrentFields DEF Insert
<1>4. InsertKey(Current, k) = RaiseFrom(G, n, Current.num + 1)
    BY DEF InsertKey
<1> HIDE DEF n, G
<1>5. Finished' = RaiseFrom(Current', node', hole')
    BY <1>3 DEF Finished
<1> QED
    BY <1>2, <1>3, <1>4, <1>5

LEMMA RemoveComputes ==
    ASSUME IInv, pc = "idle", NEW n \in Live, RemoveNode(n)
    PROVE  Finished' = EraseNode(Current, n)
<1> DEFINE at == index[n]
           h == [heap_items_ EXCEPT ![at] = heap_items_[num_items_], ![num_items_] = n]
           G == [Current EXCEPT !.items = h, !.num = @ - 1, !.index[h[at]] = at]
<1>1. /\ n \in Slots /\ at \in 1 .. num_items_ /\ num_items_ \in Nat /\ at \in Slots
      /\ index \in [Slots -> Slots]
    BY LiveIndex, Sizes DEF IInv, TypeOK
<1>2. /\ heap_items_' = h /\ num_items_' = num_items_ - 1
      /\ index' = [index EXCEPT ![h[at]] = at]
      /\ size_container_' = size_container_ /\ val' = val
      /\ EnterAdjust(h, num_items_ - 1, val, at)
    BY DEF RemoveNode
<1>3. Current' = G
  <2> HIDE DEF h, at
  <2> DEFINE H == HeapOf(heap_items_, num_items_, size_container_, index, val)
             d == [index EXCEPT ![h[at]] = at]
  <2>1. Erased(H, h, at) = HeapOf(h, num_items_ - 1, size_container_, d, val)
      BY ErasedIs
  <2>2. Current = H
      BY CurrentIsHeapOf
  <2>3. Current' = HeapOf(h, num_items_ - 1, size_container_, d, val)
      BY <1>2, CurrentIsHeapOf
  <2> HIDE DEF H, d
  <2>4. G = Erased(Current, h, at)
      BY DEF Erased
  <2> QED
      BY <2>1, <2>2, <2>3, <2>4
<1>4. EraseNode(Current, n) = AdjustNode(G, G.index[n])
  <2>1. Current.num # 0
      BY <1>1, CurrentFields
  <2> QED
      BY <2>1, CurrentFields DEF EraseNode
<1> HIDE DEF G, h
<1>5. G.index[n] = at
  <2>1. G.index = [index EXCEPT ![h[at]] = at]
      BY <1>2, <1>3 DEF Current
  <2> HIDE DEF at
  <2>2. index[n] = at
      BY DEF at
  <2> QED
      BY <1>1, <2>1, <2>2
<1> HIDE DEF at
<1>6. EnterAdjust(heap_items_', num_items_', val', at)
    BY <1>2
<1>7. Finished' = AdjustNode(Current', at)
    BY <1>6, EnterIs
<1> QED
    BY <1>3, <1>4, <1>5, <1>7

LEMMA AdjustComputes ==
    ASSUME NEW n, NEW k, val' = [val EXCEPT ![n] = k],
           EnterAdjust(heap_items_, num_items_, val', index[n]),
           UNCHANGED <<heap_items_, num_items_, size_container_, index>>
    PROVE  Finished' = UpdateNode(Current, n, k)
<1>1. Current' = [Current EXCEPT !.val[n] = k]
    BY DEF Current
<1>2. EnterAdjust(heap_items_', num_items_', val', index[n])
    OBVIOUS
<1>3. Finished' = AdjustNode(Current', index[n])
    BY <1>2, EnterIs
<1> QED
    BY <1>1, <1>3, CurrentFields DEF UpdateNode

LEMMA RefreshComputes ==
    ASSUME NEW n, Refresh(n)
    PROVE  Finished' = AdjustNode(Current, index[n])
<1>1. /\ heap_items_' = heap_items_ /\ num_items_' = num_items_ /\ val' = val
      /\ size_container_' = size_container_ /\ index' = index
      /\ EnterAdjust(heap_items_, num_items_, val, index[n])
    BY DEF Refresh, arrays
<1>2. Current' = Current
    BY <1>1 DEF Current
<1>3. EnterAdjust(heap_items_', num_items_', val', index[n])
    BY <1>1
<1>4. Finished' = AdjustNode(Current', index[n])
    BY <1>3, EnterIs
<1> QED
    BY <1>2, <1>4

(* Every call of heap.h, run through its sift loop, does what HeapOps says *)
(* it does, for every container size and every set of keys.                *)
THEOREM HeapComputesOps == Spec => LoopsComputeOps
<1> DEFINE Computes ==
        /\ \A k \in Key : Insert(k) => Finished' = InsertKey(Current, k)
        /\ \A n \in Slots : Erase(n) => Finished' = EraseNode(Current, n)
        /\ Pop => Finished' = PopTop(Current)
        /\ \A n \in Slots, k \in Key : Update(n, k) => Finished' = UpdateNode(Current, n, k)
        /\ \A n \in Slots : Refresh(n) => Finished' = AdjustNode(Current, index[n])
        /\ pc # "idle" => Finished' = Finished
<1>1. ASSUME IInv, Next
      PROVE  Computes
  <2>1. ASSUME NEW k \in Key, Insert(k)
        PROVE  Finished' = InsertKey(Current, k)
      BY <1>1, <2>1, InsertComputes
  <2>2. ASSUME NEW n \in Slots, Erase(n)
        PROVE  Finished' = EraseNode(Current, n)
      BY <1>1, <2>2, RemoveComputes DEF Erase
  <2>3. ASSUME Pop
        PROVE  Finished' = PopTop(Current)
    <3>1. heap_items_[1] \in Live /\ TopNode(Current) = heap_items_[1]
        BY <1>1, <2>3, Sizes, CurrentFields DEF Pop, Live, TopNode
    <3> QED
        BY <1>1, <2>3, <3>1, RemoveComputes DEF Pop, PopTop
  <2>4. ASSUME NEW n \in Slots, NEW k \in Key, Update(n, k)
        PROVE  Finished' = UpdateNode(Current, n, k)
      BY <2>4, AdjustComputes DEF Update
  <2>5. ASSUME NEW n \in Slots, Refresh(n)
        PROVE  Finished' = AdjustNode(Current, index[n])
      BY <2>5, RefreshComputes
  <2>6. ASSUME pc # "idle"
        PROVE  Finished' = Finished
    <3>1. SiftUp \/ SiftDown
        BY <1>1, <2>6 DEF Next, Call, Sift, Insert, Erase, Refresh, Update, Pop, Clear
    <3> QED
        BY <1>1, <3>1, UpIteration, DownIteration
  <2> QED
      BY <2>1, <2>2, <2>3, <2>4, <2>5, <2>6
<1>2. IInv /\ [Next]_vars => [Computes]_vars
    BY <1>1
<1> HIDE DEF Computes
<1>3. Spec => [][Computes]_vars
    BY <1>2, HeapInvariant, PTL DEF Spec
<1> QED
    BY <1>3 DEF LoopsComputeOps, Computes
=============================================================================
