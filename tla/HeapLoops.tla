------------------------------ MODULE HeapLoops ------------------------------
(***************************************************************************)
(* The loops of HeapBase next to the functions of HeapOps: the modules     *)
(* that take a call of the heap as one step rely on their agreeing.        *)
(***************************************************************************)
EXTENDS HeapBase, HeapOps

Current == [items |-> heap_items_, num |-> num_items_, size |-> size_container_,
            index |-> index, val |-> val]

(* The heap that the loop in progress is going to leave behind. *)
Finished ==
    CASE pc = "up"   -> RaiseFrom(Current, node, hole)
      [] pc = "down" -> LowerFrom(Current, node, hole)
      [] OTHER       -> Current

(* Every call of heap.h, run iteration by iteration through its sift loop, *)
(* leaves the arrays as the function of HeapOps says (including which node *)
(* goes to which slot on equal keys), so a module that takes the call as   *)
(* one step sees the same heap.                                            *)
LoopsComputeOps ==
    [][ /\ \A k \in Key : Insert(k) => Finished' = InsertKey(Current, k)
        /\ \A n \in Slots : Erase(n) => Finished' = EraseNode(Current, n)
        /\ Pop => Finished' = PopTop(Current)
        /\ \A n \in Slots, k \in Key : Update(n, k) => Finished' = UpdateNode(Current, n, k)
        /\ \A n \in Slots : Refresh(n) => Finished' = AdjustNode(Current, index[n])
        /\ pc # "idle" => Finished' = Finished ]_vars
==============================================================================
