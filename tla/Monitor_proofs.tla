--------------------------- MODULE Monitor_proofs ---------------------------
(***************************************************************************)
(* Proofs about the monitor for any number of threads and any size: first  *)
(* its ring buffers, then the items that go through them, then what the    *)
(* collector makes of the items.                                           *)
(***************************************************************************)
EXTENDS RingBuffer, Matrix, FiniteSetTheorems, SequenceTheorems, WellFoundedInduction, TLAPS

(* Division with remainder. *)
LEMMA DivMod ==
    ASSUME NEW a \in Nat, NEW N \in Nat, N > 0
    PROVE  /\ a = N * (a \div N) + (a % N)
           /\ a % N \in 0 .. N - 1
           /\ a \div N \in Int
OBVIOUS

(* The arithmetic of `& real_queue_size_`: an index is a slot. *)
LEMMA MaskInRange ==
    ASSUME NEW n \in Nat
    PROVE  Mask(n) \in Index
<1> DEFINE N == real_queue_size_ + 1
<1>1. N \in Nat /\ N > 0 /\ N - 1 = real_queue_size_
    BY RingAssumption
<1> HIDE DEF N
<1>2. n % N \in 0 .. N - 1
    BY <1>1, DivMod
<1> QED
    BY <1>1, <1>2 DEF Mask, Index, N

(* Two positions less than the number of slots apart share no slot. *)
LEMMA MaskInjective ==
    ASSUME NEW a \in Nat, NEW b \in Nat, a < b, b - a <= real_queue_size_
    PROVE  Mask(a) # Mask(b)
<1> DEFINE N == real_queue_size_ + 1
<1>1. N \in Nat /\ N > 0 /\ b - a < N
    BY RingAssumption
<1> HIDE DEF N
<1>2. PICK p \in Int : a = N * p + (a % N)
    BY <1>1, DivMod
<1>3. PICK q \in Int : b = N * q + (b % N)
    BY <1>1, DivMod
<1>4. SUFFICES ASSUME a % N = b % N PROVE FALSE
    BY DEF Mask, N
<1>5. a % N \in Int /\ N * q \in Int /\ N * p \in Int
    BY <1>1, DivMod
<1>6. b - a = N * q - N * p
    BY <1>2, <1>3, <1>4, <1>5
<1>7. N * q - N * p = N * (q - p)
    BY <1>1
<1>9. CASE q - p <= 0
    <2>1. N * (q - p) <= 0
        BY <1>1, <1>9
    <2> QED
        BY <2>1, <1>6, <1>7
<1>10. CASE q - p >= 1
    <2>1. N * (q - p) >= N
        BY <1>1, <1>10
    <2> QED
        BY <2>1, <1>1, <1>6, <1>7
<1> QED
    BY <1>9, <1>10

----------------------------------------------------------------------------
(* The inductive invariant. *)
RInv == TypeOK /\ MutualExclusion /\ SizeInRange /\ ViewIsCurrent

(* The empty queue satisfies it. *)
LEMMA InitRInv == Init => RInv
BY RingAssumption
   DEF Init, RInv, TypeOK, MutualExclusion, SizeInRange, ViewIsCurrent, Holding, Index, Thread

(* A step of a thread that moves only its own pc inside or outside the     *)
(* lock, and leaves the shared memory alone.                               *)
LEMMA LocalStep ==
    ASSUME RInv, NEW t \in Thread, NEW to \in {"idle", "spin", "look", "decide", "publish", "unlock"},
           UNCHANGED shared, pc' = [pc EXCEPT ![t] = to],
           Holding(t) <=> to \notin {"idle", "spin"}
    PROVE  MutualExclusion' /\ SizeInRange'
<1>1. pc \in [Thread -> {"idle", "spin", "look", "decide", "publish", "unlock"}]
    BY DEF RInv, TypeOK
<1>2. \A x \in Thread : Holding(x)' <=> Holding(x)
    BY <1>1 DEF Holding
<1> QED
    BY <1>2 DEF RInv, MutualExclusion, SizeInRange, shared

(* push and pop begin outside the lock. *)
LEMMA StartStep ==
    ASSUME RInv, NEW t \in Thread, Start(t)
    PROVE  RInv'
<1>1. /\ UNCHANGED shared /\ pc[t] = "idle" /\ pc' = [pc EXCEPT ![t] = "spin"] /\ seen' = seen
      /\ \E d \in Data \cup {NoData} : data' = [data EXCEPT ![t] = d]
    BY DEF Start, Push, Pop, Goto
<1>2. TypeOK
    BY DEF RInv
<1>3. TypeOK'
    BY <1>1, <1>2 DEF TypeOK, shared
<1>4. MutualExclusion' /\ SizeInRange'
    BY <1>1, LocalStep DEF Holding
<1>5. ViewIsCurrent'
    BY <1>1, <1>2 DEF RInv, ViewIsCurrent, TypeOK, shared
<1> QED
    BY <1>3, <1>4, <1>5 DEF RInv

(* The exchange lets one thread in, and only when no other is inside. *)
LEMMA AcquireStep ==
    ASSUME RInv, NEW t \in Thread, Acquire(t)
    PROVE  RInv'
<1>1. TypeOK /\ MutualExclusion /\ lock = 0
    BY DEF RInv, Acquire
<1>2. TypeOK'
    BY <1>1 DEF TypeOK, Acquire, Goto
<1>3. \A x \in Thread : ~ Holding(x) /\ (Holding(x)' <=> x = t)
    BY <1>1 DEF MutualExclusion, TypeOK, Holding, Acquire, Goto
<1>4. MutualExclusion' /\ SizeInRange'
    BY <1>3 DEF RInv, MutualExclusion, SizeInRange, Acquire
<1>5. ViewIsCurrent'
    BY <1>1, <1>3 DEF RInv, ViewIsCurrent, TypeOK, Acquire, Goto, Holding
<1> QED
    BY <1>2, <1>4, <1>5 DEF RInv

(* A thread in the lock is the only one there. *)
LEMMA AloneInLock ==
    ASSUME RInv, NEW t \in Thread, Holding(t)
    PROVE  lock = 1 /\ \A x \in Thread : Holding(x) => x = t
BY DEF RInv, TypeOK, MutualExclusion

(* The early returns and the normal one give the lock back. *)
LEMMA ReleaseStep ==
    ASSUME RInv, NEW t \in Thread, Refuse(t) \/ Unlock(t)
    PROVE  RInv'
<1>1. /\ TypeOK /\ Holding(t) /\ lock' = 0 /\ pc' = [pc EXCEPT ![t] = "idle"]
      /\ seen' = [seen EXCEPT ![t] = [head |-> 0, tail |-> 0]]
      /\ UNCHANGED <<head, tail, queue_vec, data>>
    BY DEF RInv, Refuse, Unlock, Returns, Goto, Holding
<1>2. TypeOK'
    BY <1>1 DEF TypeOK
<1>3. \A x \in Thread : ~ Holding(x)'
    BY <1>1, AloneInLock DEF TypeOK, Holding
<1>4. MutualExclusion' /\ SizeInRange' /\ ViewIsCurrent'
    BY <1>1, <1>3 DEF RInv, MutualExclusion, SizeInRange, ViewIsCurrent, Holding
<1> QED
    BY <1>2, <1>4 DEF RInv

(* The thread copies head and tail. *)
LEMMA LookStep ==
    ASSUME RInv, NEW t \in Thread, Look(t)
    PROVE  RInv'
<1>1. /\ TypeOK /\ Holding(t) /\ UNCHANGED <<shared, data>> /\ pc' = [pc EXCEPT ![t] = "decide"]
      /\ seen' = [seen EXCEPT ![t] = [head |-> head, tail |-> tail]]
    BY DEF RInv, Look, Goto, Holding
<1>2. TypeOK'
    BY <1>1 DEF TypeOK, shared
<1>3. MutualExclusion' /\ SizeInRange'
    BY <1>1, LocalStep
<1>4. ViewIsCurrent'
    BY <1>1 DEF RInv, ViewIsCurrent, TypeOK, shared
<1> QED
    BY <1>2, <1>3, <1>4 DEF RInv

(* The producer fills its slot. *)
LEMMA WriteStep ==
    ASSUME RInv, NEW t \in Thread, Write(t)
    PROVE  RInv'
<1>1. /\ TypeOK /\ Holding(t) /\ pc[t] = "decide" /\ pc' = [pc EXCEPT ![t] = "publish"]
      /\ UNCHANGED <<head, tail, lock, seen, data>> /\ t \in Producer /\ ~ IsFull(seen[t])
      /\ queue_vec' = [queue_vec EXCEPT ![Mask(seen[t].head)] = data[t]]
      /\ seen[t].head = head /\ Mask(head) \in Index
    BY MaskInRange DEF RInv, TypeOK, Write, Goto, Holding, ViewIsCurrent
<1>2. TypeOK'
    BY <1>1 DEF TypeOK
<1>3. \A x \in Thread : (Holding(x)' <=> Holding(x)) /\ (Holding(x) => x = t)
    BY <1>1, AloneInLock DEF TypeOK, Holding
<1>4. MutualExclusion' /\ SizeInRange'
    BY <1>1, <1>3 DEF RInv, MutualExclusion, SizeInRange
<1>5. t \notin Consumer
    BY <1>1, RingAssumption
<1>6. ASSUME NEW x \in Thread, pc'[x] \in {"decide", "publish"}
      PROVE  x = t
    BY <1>1, <1>3, <1>6 DEF Holding, TypeOK
<1>7. queue_vec'[Mask(head)] = data[t]
    BY <1>1 DEF TypeOK
<1>8. seen[t].tail = tail
    BY <1>1 DEF RInv, ViewIsCurrent
<1>9. ViewIsCurrent'
    BY <1>1, <1>5, <1>6, <1>7, <1>8 DEF ViewIsCurrent
<1> QED
    BY <1>2, <1>4, <1>9 DEF RInv

(* The consumer takes the element. *)
LEMMA TakeStep ==
    ASSUME RInv, NEW t \in Thread, Take(t)
    PROVE  RInv'
<1>1. /\ TypeOK /\ Holding(t) /\ pc[t] = "decide" /\ pc' = [pc EXCEPT ![t] = "publish"]
      /\ UNCHANGED <<shared, seen>> /\ t \in Consumer /\ ~ IsEmpty(seen[t])
      /\ seen[t].tail = tail /\ seen[t].head = head /\ Mask(tail) \in Index
    BY MaskInRange DEF RInv, TypeOK, Take, Goto, Holding, ViewIsCurrent
<1>2. \E d \in Data \cup {NoData} : data' = [data EXCEPT ![t] = d]
    BY <1>1 DEF Take, Read, TypeOK
<1>3. TypeOK'
    BY <1>1, <1>2 DEF TypeOK, shared
<1>4. MutualExclusion' /\ SizeInRange'
    BY <1>1, LocalStep
<1>5. t \notin Producer
    BY <1>1, RingAssumption
<1>6. ASSUME NEW x \in Thread, pc'[x] \in {"decide", "publish"}
      PROVE  x = t
    BY <1>1, <1>6, AloneInLock DEF Holding, TypeOK
<1>7. ViewIsCurrent'
    BY <1>1, <1>5, <1>6 DEF ViewIsCurrent, shared, TypeOK
<1> QED
    BY <1>3, <1>4, <1>7 DEF RInv

(* head or tail moves by one, into room that is there. *)
LEMMA PublishStep ==
    ASSUME RInv, NEW t \in Thread, Publish(t)
    PROVE  RInv'
<1>1. /\ TypeOK /\ SizeInRange /\ Holding(t) /\ pc[t] = "publish"
      /\ pc' = [pc EXCEPT ![t] = "unlock"] /\ UNCHANGED <<lock, queue_vec, seen, data>>
      /\ seen[t].head = head /\ seen[t].tail = tail
    BY DEF RInv, Publish, Goto, Holding, ViewIsCurrent
<1>4. head' \in Nat /\ tail' \in Nat /\ SizeInRange'
    <2>1. CASE t \in Producer
        <3>1. head' = head + 1 /\ tail' = tail /\ head - tail < real_queue_size_
            BY <1>1, <2>1, RingAssumption DEF Publish, RInv, ViewIsCurrent, IsFull, TypeOK
        <3> QED
            BY <1>1, <3>1, RingAssumption DEF TypeOK, SizeInRange
    <2>2. CASE t \notin Producer
        <3>1. tail' = tail + 1 /\ head' = head /\ tail < head
            BY <1>1, <2>2 DEF Publish, RInv, ViewIsCurrent, IsEmpty, TypeOK, Thread
        <3> QED
            BY <1>1, <3>1, RingAssumption DEF TypeOK, SizeInRange
    <2> QED
        BY <2>1, <2>2
<1>5. TypeOK'
    BY <1>1, <1>4 DEF TypeOK
<1>6. \A x \in Thread : (Holding(x)' <=> Holding(x)) /\ (Holding(x) => x = t)
    BY <1>1, AloneInLock DEF TypeOK, Holding
<1>7. MutualExclusion'
    BY <1>1, <1>6 DEF RInv, MutualExclusion
<1>8. \A x \in Thread : pc'[x] \notin {"decide", "publish"}
    BY <1>1, <1>6 DEF Holding, TypeOK
<1>9. ViewIsCurrent'
    BY <1>8 DEF ViewIsCurrent
<1> QED
    BY <1>4, <1>5, <1>7, <1>9 DEF RInv

(* Every step keeps the invariant. *)
LEMMA NextRInv == RInv /\ [Next]_vars => RInv'
<1> SUFFICES ASSUME RInv, [Next]_vars PROVE RInv'
    OBVIOUS
<1>1. CASE UNCHANGED vars
    BY <1>1 DEF vars, shared, RInv, TypeOK, MutualExclusion, SizeInRange, ViewIsCurrent, Holding
<1>2. ASSUME NEW t \in Thread, Start(t) \/ Acquire(t) \/ InLock(t)
      PROVE  RInv'
    BY <1>2, StartStep, AcquireStep, ReleaseStep, LookStep, WriteStep, TakeStep, PublishStep
       DEF InLock
<1> QED
    BY <1>1, <1>2 DEF Next

(* The ring buffer keeps its invariant through any interleaving of any     *)
(* number of pushes and pops.                                              *)
THEOREM RingInvariant == Spec => []RInv
BY InitRInv, NextRInv, PTL DEF Spec

(* The variables have their types at every step. *)
THEOREM RingTypeOK == Spec => []TypeOK
<1>1. RInv => TypeOK
    BY DEF RInv
<1> QED
    BY <1>1, RingInvariant, PTL

(* The spin lock keeps the calls apart and every return path of push and   *)
(* pop gives it back; the length that size() computes from unsigned        *)
(* numbers is the number of elements, never more than the capacity.        *)
THEOREM RingCorrect == Spec => []RingOK
<1>1. RInv => RingOK
    BY DEF RInv, RingOK
<1> QED
    BY <1>1, RingInvariant, PTL

----------------------------------------------------------------------------
(* Functions on 1 .. n are sequences. *)
LEMMA FunctionIsSeq ==
    ASSUME NEW S, NEW n \in Nat, NEW f \in [1 .. n -> S]
    PROVE  /\ f \in Seq(S) /\ Len(f) = n
           /\ n = 0 <=> f = <<>>
<1>1. f \in Seq(S) /\ Len(f) = n
    OBVIOUS
<1> QED
    BY <1>1, EmptySeq

(* The first element and the rest of such a sequence. *)
LEMMA FunctionTail ==
    ASSUME NEW S, NEW n \in Nat, n > 0, NEW f \in [1 .. n -> S], NEW g \in [1 .. n - 1 -> S],
           \A i \in 1 .. n - 1 : g[i] = f[i + 1]
    PROVE  f # <<>> /\ Head(f) = f[1] /\ Tail(f) = g
<1>1. f \in Seq(S) /\ Len(f) = n /\ f # <<>>
    BY FunctionIsSeq
<1>2. n - 1 \in Nat
    OBVIOUS
<1>3. g \in Seq(S) /\ Len(g) = n - 1
    BY <1>2, FunctionIsSeq
<1>4. /\ Tail(f) \in Seq(S) /\ Len(Tail(f)) = n - 1
      /\ \A i \in 1 .. n - 1 : Tail(f)[i] = f[i + 1]
    BY <1>1, HeadTailProperties
<1>5. Tail(f) = g
    BY <1>3, <1>4, SeqEqual
<1> QED
    BY <1>1, <1>5

(* Such a sequence with one element more. *)
LEMMA FunctionAppend ==
    ASSUME NEW S, NEW n \in Nat, NEW f \in [1 .. n -> S], NEW e \in S, NEW g \in [1 .. n + 1 -> S],
           \A i \in 1 .. n : g[i] = f[i], g[n + 1] = e
    PROVE  Append(f, e) = g
<1>1. f \in Seq(S) /\ Len(f) = n
    BY FunctionIsSeq
<1>2. n + 1 \in Nat
    OBVIOUS
<1>3. g \in Seq(S) /\ Len(g) = n + 1
    BY <1>2, FunctionIsSeq
<1>4. /\ Append(f, e) \in Seq(S) /\ Len(Append(f, e)) = n + 1
      /\ \A i \in 1 .. n + 1 : Append(f, e)[i] = IF i = n + 1 THEN e ELSE f[i]
    BY <1>1
<1>5. \A i \in 1 .. n + 1 : Append(f, e)[i] = g[i]
    BY <1>4
<1> QED
    BY <1>3, <1>4, <1>5, SeqEqual

----------------------------------------------------------------------------
(* The refinement mapping, by name. *)
Item == Data \cup {NoData}
Base == tail + Taken
Contents == [i \in 1 .. head - Base |-> queue_vec[Mask(Base + i - 1)]]
CallOf(t) ==
    CASE pc[t] = "idle" -> "none"
      [] pc[t] = "unlock" \/ (pc[t] = "publish" /\ t \in Consumer) -> "returning"
      [] OTHER -> IF t \in Producer THEN "push" ELSE "pop"
Calls == [t \in Thread |-> CallOf(t)]

(* The positions from Base to head hold the elements of the queue. *)
LEMMA ContentsIs ==
    ASSUME RInv
    PROVE  /\ Taken \in {0, 1} /\ Base \in Nat /\ head \in Nat /\ tail \in Nat
           /\ head - Base \in Nat /\ head - Base <= real_queue_size_
           /\ Contents \in [1 .. head - Base -> Item]
<1>1. /\ TypeOK /\ head \in Nat /\ tail \in Nat /\ tail <= head
      /\ head - tail <= real_queue_size_ /\ Taken \in {0, 1} /\ real_queue_size_ \in Nat
    BY RingAssumption DEF RInv, TypeOK, SizeInRange, Taken
<1>2. Taken = 1 => tail < head
    <2>1. ASSUME NEW t \in Consumer, pc[t] = "publish" PROVE tail < head
        BY <1>1, <2>1 DEF RInv, ViewIsCurrent, IsEmpty, Thread
    <2> QED
        BY <2>1 DEF Taken
<1>3. Base \in Nat /\ head - Base \in Nat /\ head - Base <= real_queue_size_
    BY <1>1, <1>2 DEF Base
<1>4. ASSUME NEW i \in 1 .. head - Base
      PROVE  queue_vec[Mask(Base + i - 1)] \in Item
    <2>1. Base + i - 1 \in Nat
        BY <1>3
    <2>2. Mask(Base + i - 1) \in Index
        BY <2>1, MaskInRange
    <2> QED
        BY <2>2, <1>1 DEF TypeOK, Item
<1> QED
    BY <1>1, <1>3, <1>4 DEF Contents

(* In the lock, only the thread itself can have an element in hand. *)
LEMMA TakenInLock ==
    ASSUME RInv, NEW t \in Thread, Holding(t)
    PROVE  Taken = IF t \in Consumer /\ pc[t] = "publish" THEN 1 ELSE 0
BY AloneInLock DEF Taken, Holding, Thread

(* A step that changes the place of one thread only. *)
LEMMA CallsAfter ==
    ASSUME RInv, NEW t \in Thread, NEW to, pc' = [pc EXCEPT ![t] = to]
    PROVE  Calls' = [Calls EXCEPT ![t] = CallOf(t)']
<1>1. \A x \in Thread : x # t => CallOf(x)' = CallOf(x)
    BY DEF RInv, TypeOK, CallOf
<1> QED
    BY <1>1 DEF Calls

(* The start of a call. *)
LEMMA StartRefines ==
    ASSUME RInv, NEW t \in Thread, Start(t)
    PROVE  FIFO!ANext
<1>1. PICK d : /\ data' = [data EXCEPT ![t] = d]
               /\ \/ t \in Producer /\ d \in Data
                  \/ t \in Consumer /\ d = NoData
    <2>1. CASE t \in Producer /\ \E d \in Data : Push(t, d)
        BY <2>1 DEF Push
    <2>2. CASE t \in Consumer /\ Pop(t)
        BY <2>2 DEF Pop
    <2> QED
        BY <2>1, <2>2 DEF Start
<1>2. UNCHANGED shared /\ pc[t] = "idle" /\ pc' = [pc EXCEPT ![t] = "spin"]
    BY DEF Start, Push, Pop, Goto
<1>3. pc \in [Thread -> {"idle", "spin", "look", "decide", "publish", "unlock"}]
    BY DEF RInv, TypeOK
<1>4. CallOf(t) = "none" /\ CallOf(t)' = IF t \in Producer THEN "push" ELSE "pop"
    BY <1>2, <1>3 DEF CallOf
<1>5. Calls' = [Calls EXCEPT ![t] = CallOf(t)'] /\ Calls[t] = "none"
    BY <1>2, <1>4, CallsAfter DEF Calls
<1>6. Contents' = Contents
    <2>1. \A x \in Thread : pc'[x] = "publish" <=> pc[x] = "publish"
        BY <1>2, <1>3
    <2>2. Taken' = Taken
        BY <2>1 DEF Taken, Thread
    <2> QED
        BY <1>2, <2>2 DEF Contents, Base, shared
<1>7. CASE t \in Producer /\ d \in Data
    <2>1. FIFO!ACall(t, "push", d)
        BY <1>1, <1>4, <1>5, <1>6, <1>7 DEF FIFO!ACall, Calls, CallOf, Contents, Base
    <2> QED
        BY <2>1, <1>7 DEF FIFO!ANext, Thread
<1>8. CASE t \notin Producer /\ d = NoData
    <2>1. FIFO!ACall(t, "pop", NoData)
        BY <1>1, <1>4, <1>5, <1>6, <1>8 DEF FIFO!ACall, Calls, CallOf, Contents, Base
    <2> QED
        BY <2>1, <1>8 DEF FIFO!ANext, Thread
<1>9. ~ (t \in Producer /\ t \in Consumer)
    BY RingAssumption
<1> QED
    BY <1>1, <1>7, <1>8, <1>9

(* Taking the lock and copying the indices are not seen. *)
LEMMA QuietRefines ==
    ASSUME RInv, NEW t \in Thread, Acquire(t) \/ Look(t)
    PROVE  UNCHANGED <<Contents, Calls, data>>
<1>1. PICK to \in {"look", "decide"} :
        /\ pc' = [pc EXCEPT ![t] = to] /\ pc[t] \in {"spin", "look"}
        /\ UNCHANGED <<head, tail, queue_vec, data>>
    BY DEF Acquire, Look, Goto, shared
<1>2. pc \in [Thread -> {"idle", "spin", "look", "decide", "publish", "unlock"}]
    BY DEF RInv, TypeOK
<1>3. CallOf(t)' = CallOf(t)
    BY <1>1, <1>2 DEF CallOf
<1>4. Calls' = Calls
    BY <1>1, <1>3, CallsAfter DEF Calls
<1>5. \A x \in Thread : pc'[x] = "publish" <=> pc[x] = "publish"
    BY <1>1, <1>2
<1>6. Taken' = Taken
    BY <1>5 DEF Taken, Thread
<1> QED
    BY <1>1, <1>4, <1>6 DEF Contents, Base

(* push is refused on a full queue only, and pop on an empty one only. *)
LEMMA RefuseRefines ==
    ASSUME RInv, NEW t \in Thread, Refuse(t)
    PROVE  FIFO!ARefuse(t)
<1>1. /\ pc[t] = "decide" /\ Holding(t) /\ pc' = [pc EXCEPT ![t] = "idle"]
      /\ UNCHANGED <<head, tail, queue_vec, data>> /\ seen[t].head = head /\ seen[t].tail = tail
      /\ pc \in [Thread -> {"idle", "spin", "look", "decide", "publish", "unlock"}]
    BY DEF Refuse, Goto, Holding, RInv, ViewIsCurrent, TypeOK
<1>2. CallOf(t) = (IF t \in Producer THEN "push" ELSE "pop") /\ CallOf(t)' = "none"
    BY <1>1 DEF CallOf
<1>3. Calls' = [Calls EXCEPT ![t] = "none"] /\ Calls[t] = IF t \in Producer THEN "push" ELSE "pop"
    BY <1>1, <1>2, CallsAfter DEF Calls
<1>4. Taken = 0
    BY <1>1, TakenInLock
<1>5. \A x \in Thread : pc'[x] = "publish" => pc[x] = "publish"
    BY <1>1
<1>6. Taken' = 0
    BY <1>4, <1>5 DEF Taken, Thread
<1>7. Contents' = Contents
    BY <1>1, <1>4, <1>6 DEF Contents, Base
<1>8. Contents \in [1 .. head - tail -> Item] /\ head - tail \in Nat /\ head - tail <= real_queue_size_
    BY <1>4, ContentsIs DEF Base
<1>9. /\ t \in Producer => Len(Contents) = real_queue_size_
      /\ t \in Consumer => Contents = <<>>
    <2>1. /\ t \in Producer => head - tail = real_queue_size_
          /\ t \in Consumer => head - tail = 0
        BY <1>1, <1>8, RingAssumption, ContentsIs DEF Refuse, IsFull, IsEmpty
    <2> QED
        BY <2>1, <1>8, FunctionIsSeq
<1> QED
    BY <1>1, <1>3, <1>7, <1>9 DEF FIFO!ARefuse, Calls, CallOf, Contents, Base, Thread

(* Filling the slot at head changes no element of the queue. *)
LEMMA WriteRefines ==
    ASSUME RInv, NEW t \in Thread, Write(t)
    PROVE  UNCHANGED <<Contents, Calls, data>>
<1>1. /\ pc[t] = "decide" /\ Holding(t) /\ pc' = [pc EXCEPT ![t] = "publish"] /\ t \in Producer
      /\ UNCHANGED <<head, tail, data>> /\ seen[t].head = head /\ seen[t].tail = tail
      /\ queue_vec' = [queue_vec EXCEPT ![Mask(head)] = data[t]]
      /\ ~ IsFull(seen[t])
      /\ pc \in [Thread -> {"idle", "spin", "look", "decide", "publish", "unlock"}]
      /\ t \notin Consumer
    BY RingAssumption DEF Write, Goto, Holding, RInv, ViewIsCurrent, TypeOK
<1>2. CallOf(t)' = CallOf(t)
    BY <1>1 DEF CallOf
<1>3. Calls' = Calls
    BY <1>1, <1>2, CallsAfter DEF Calls
<1>4. Taken = 0
    BY <1>1, TakenInLock
<1>5. \A x \in Consumer : pc'[x] = "publish" => pc[x] = "publish"
    BY <1>1 DEF Thread
<1>6. Taken' = 0
    BY <1>4, <1>5 DEF Taken
<1>7. head \in Nat /\ tail \in Nat /\ head - tail \in Nat /\ head - tail <= real_queue_size_
    BY <1>4, ContentsIs DEF Base
<1>8. ASSUME NEW i \in 1 .. head - tail
      PROVE  queue_vec'[Mask(tail + i - 1)] = queue_vec[Mask(tail + i - 1)]
    <2>1. tail + i - 1 \in Nat /\ tail + i - 1 < head /\ head - (tail + i - 1) <= real_queue_size_
        BY <1>7, RingAssumption
    <2>2. Mask(tail + i - 1) # Mask(head) /\ Mask(tail + i - 1) \in Index
        BY <2>1, <1>7, MaskInjective, MaskInRange
    <2> QED
        BY <2>2, <1>1 DEF RInv, TypeOK
<1>9. Contents' = Contents
    BY <1>1, <1>4, <1>6, <1>7, <1>8 DEF Contents, Base
<1> QED
    BY <1>1, <1>3, <1>9

(* Taking the element at tail is where pop happens. *)
LEMMA TakeRefines ==
    ASSUME Padded, RInv, NEW t \in Thread, Take(t)
    PROVE  FIFO!APop(t)
<1>1. /\ pc[t] = "decide" /\ Holding(t) /\ pc' = [pc EXCEPT ![t] = "publish"] /\ t \in Consumer
      /\ UNCHANGED <<head, tail, queue_vec>> /\ seen[t].head = head /\ seen[t].tail = tail
      /\ data' = [data EXCEPT ![t] = queue_vec[Mask(tail)]]
      /\ ~ IsEmpty(seen[t])
      /\ pc \in [Thread -> {"idle", "spin", "look", "decide", "publish", "unlock"}]
      /\ t \notin Producer
    BY RingAssumption DEF Take, Read, Goto, Holding, RInv, ViewIsCurrent, TypeOK, shared
<1>2. CallOf(t) = "pop" /\ CallOf(t)' = "returning"
    BY <1>1 DEF CallOf
<1>3. Calls' = [Calls EXCEPT ![t] = "returning"] /\ Calls[t] = "pop"
    BY <1>1, <1>2, CallsAfter DEF Calls
<1>4. Taken = 0
    BY <1>1, TakenInLock
<1>5. Taken' = 1
    BY <1>1 DEF Taken
<1>6. PICK n \in Nat : n = head - tail /\ n > 0
    BY <1>1, <1>4, ContentsIs DEF IsEmpty, Base
<1>6a. head \in Nat /\ tail \in Nat /\ Contents \in [1 .. n -> Item]
    BY <1>4, <1>6, ContentsIs DEF Base
<1>7. Contents = [i \in 1 .. n |-> queue_vec[Mask(tail + i - 1)]]
    BY <1>4, <1>6, <1>6a DEF Contents, Base
<1>8. Contents' = [i \in 1 .. n - 1 |-> queue_vec[Mask(tail + (i + 1) - 1)]]
    <2>1. head - (tail + 1) = n - 1 /\ \A i \in 1 .. n - 1 : tail + 1 + i - 1 = tail + (i + 1) - 1
        BY <1>6, <1>6a
    <2> QED
        BY <2>1, <1>1, <1>5 DEF Contents, Base
<1>9. \A i \in 1 .. n - 1 : i + 1 \in 1 .. n
    BY <1>6
<1>10. Contents' \in [1 .. n - 1 -> Item] /\ \A i \in 1 .. n - 1 : Contents'[i] = Contents[i + 1]
    <2>1. \A i \in 1 .. n - 1 : Contents'[i] = Contents[i + 1]
        BY <1>7, <1>8, <1>9
    <2>2. \A i \in 1 .. n - 1 : Contents'[i] \in Item
        BY <2>1, <1>6a, <1>9
    <2> QED
        BY <2>1, <2>2, <1>8
<1>11. Contents # <<>> /\ Head(Contents) = Contents[1] /\ Tail(Contents) = Contents'
    BY <1>6, <1>6a, <1>10, FunctionTail
<1>12. Contents[1] = queue_vec[Mask(tail)]
    <2>1. tail + 1 - 1 = tail /\ 1 \in 1 .. n
        BY <1>6, <1>6a
    <2> QED
        BY <2>1, <1>7
<1> QED
    BY <1>1, <1>3, <1>11, <1>12 DEF FIFO!APop, Calls, CallOf, Contents, Base

(* Moving head is where push happens; moving tail is not seen. *)
LEMMA PublishRefines ==
    ASSUME RInv, NEW t \in Thread, Publish(t)
    PROVE  FIFO!APush(t) \/ UNCHANGED <<Contents, Calls, data>>
<1>1. /\ pc[t] = "publish" /\ Holding(t) /\ pc' = [pc EXCEPT ![t] = "unlock"]
      /\ UNCHANGED <<queue_vec, data>> /\ seen[t].head = head /\ seen[t].tail = tail
      /\ pc \in [Thread -> {"idle", "spin", "look", "decide", "publish", "unlock"}]
    BY DEF Publish, Goto, Holding, RInv, ViewIsCurrent, TypeOK
<1>2. CallOf(t)' = "returning" /\ Calls' = [Calls EXCEPT ![t] = CallOf(t)']
    BY <1>1, CallsAfter DEF CallOf
<1>3. Taken' = 0
    <2>1. \A x \in Thread : pc'[x] # "publish"
        BY <1>1, AloneInLock DEF Holding
    <2> QED
        BY <2>1 DEF Taken, Thread
<1>4. CASE t \in Producer
    <2>1. /\ t \notin Consumer /\ head' = head + 1 /\ tail' = tail
          /\ ~ IsFull(seen[t]) /\ queue_vec[Mask(head)] = data[t]
        BY <1>1, <1>4, RingAssumption DEF Publish, RInv, ViewIsCurrent
    <2>2. Taken = 0
        BY <1>1, <2>1, TakenInLock
    <2>3. PICK n \in Nat : n = head - tail
        BY <2>2, ContentsIs DEF Base
    <2>4. head \in Nat /\ tail \in Nat /\ Contents \in [1 .. n -> Item] /\ data[t] \in Item
        BY <2>2, <2>3, ContentsIs DEF Base, RInv, TypeOK, Item
    <2>5. n < real_queue_size_
        BY <1>1, <2>1, <2>3, <2>4, RingAssumption DEF IsFull
    <2>6. Contents = [i \in 1 .. n |-> queue_vec[Mask(tail + i - 1)]]
        BY <2>2, <2>3, <2>4 DEF Contents, Base
    <2>7. Contents' = [i \in 1 .. n + 1 |-> queue_vec[Mask(tail + i - 1)]]
        <3>1. head + 1 - tail = n + 1 /\ tail + 0 = tail
            BY <2>3, <2>4
        <3>2. Base' = tail /\ head' - Base' = n + 1
            BY <3>1, <1>3, <2>1, <2>4 DEF Base
        <3> QED
            BY <3>2, <1>1 DEF Contents, Mask
    <2>8. tail + (n + 1) - 1 = head /\ n + 1 \in 1 .. n + 1 /\ \A i \in 1 .. n : i \in 1 .. n + 1
        BY <2>3, <2>4
    <2>9. Contents'[n + 1] = data[t] /\ \A i \in 1 .. n : Contents'[i] = Contents[i]
        BY <2>1, <2>6, <2>7, <2>8
    <2>10. Contents' \in [1 .. n + 1 -> Item]
        <3>1. \A i \in 1 .. n + 1 : i = n + 1 \/ i \in 1 .. n
            OBVIOUS
        <3>2. \A i \in 1 .. n + 1 : Contents'[i] \in Item
            BY <3>1, <2>4, <2>9
        <3> QED
            BY <3>2, <2>7
    <2>11. Append(Contents, data[t]) = Contents'
        BY <2>4, <2>9, <2>10, FunctionAppend
    <2>12. Len(Contents) = n
        BY <2>4, FunctionIsSeq
    <2>13. CallOf(t) = "push" /\ Calls[t] = "push"
        BY <1>1, <1>4, <2>1 DEF CallOf, Calls
    <2>14. FIFO!APush(t)
        BY <1>1, <1>2, <2>5, <2>11, <2>12, <2>13 DEF FIFO!APush, Calls, CallOf, Contents, Base
    <2> QED
        BY <2>14
<1>5. CASE t \notin Producer
    <2>1. t \in Consumer /\ head' = head /\ tail' = tail + 1
        BY <1>1, <1>5 DEF Publish, Thread
    <2>2. Taken = 1
        BY <1>1, <2>1, TakenInLock
    <2>3. tail + 1 + 0 = tail + 1
        BY ContentsIs
    <2>4. Contents' = Contents
        BY <1>1, <1>3, <2>1, <2>2, <2>3 DEF Contents, Base
    <2>5. CallOf(t) = "returning"
        BY <1>1, <2>1 DEF CallOf
    <2>6. Calls' = Calls
        BY <1>2, <2>5 DEF Calls
    <2> QED
        BY <1>1, <2>4, <2>6
<1> QED
    BY <1>4, <1>5

(* Giving the lock back is the call's return. *)
LEMMA UnlockRefines ==
    ASSUME RInv, NEW t \in Thread, Unlock(t)
    PROVE  FIFO!AReturn(t)
<1>1. /\ pc[t] = "unlock" /\ pc' = [pc EXCEPT ![t] = "idle"] /\ UNCHANGED <<head, tail, queue_vec, data>>
      /\ pc \in [Thread -> {"idle", "spin", "look", "decide", "publish", "unlock"}]
    BY DEF Unlock, Goto, RInv, TypeOK
<1>2. CallOf(t) = "returning" /\ CallOf(t)' = "none"
    BY <1>1 DEF CallOf
<1>3. Calls' = [Calls EXCEPT ![t] = "none"] /\ Calls[t] = "returning"
    BY <1>1, <1>2, CallsAfter DEF Calls
<1>4. \A x \in Thread : pc'[x] = "publish" <=> pc[x] = "publish"
    BY <1>1
<1>5. Contents' = Contents
    <2>1. Taken' = Taken
        BY <1>4 DEF Taken, Thread
    <2> QED
        BY <2>1, <1>1 DEF Contents, Base
<1> QED
    BY <1>1, <1>3, <1>5 DEF FIFO!AReturn, Calls, CallOf, Contents, Base

(* Every step of the ring buffer is a step of the queue, or none. *)
LEMMA RingStepRefines ==
    ASSUME Padded
    PROVE  RInv /\ [Next]_vars => [FIFO!ANext]_(FIFO!fvars)
<1> SUFFICES ASSUME RInv, [Next]_vars PROVE [FIFO!ANext]_(FIFO!fvars)
    OBVIOUS
<1>1. CASE UNCHANGED vars
    BY <1>1 DEF vars, shared, FIFO!fvars, Taken
<1>2. ASSUME NEW t \in Thread, UNCHANGED <<Contents, Calls, data>>
      PROVE  UNCHANGED FIFO!fvars
    BY <1>2 DEF FIFO!fvars, Contents, Base, Calls, CallOf
<1>3. ASSUME NEW t \in Thread, Start(t) \/ Acquire(t) \/ InLock(t)
      PROVE  [FIFO!ANext]_(FIFO!fvars)
    <2>1. CASE Start(t)
        BY <2>1, StartRefines
    <2>2. CASE Acquire(t) \/ Look(t)
        BY <2>2, <1>2, QuietRefines
    <2>3. CASE Refuse(t)
        BY <2>3, RefuseRefines DEF FIFO!ANext
    <2>4. CASE Write(t)
        BY <2>4, <1>2, WriteRefines
    <2>5. CASE Take(t)
        BY <2>5, TakeRefines DEF FIFO!ANext
    <2>6. CASE Publish(t)
        BY <2>6, <1>2, PublishRefines DEF FIFO!ANext
    <2>7. CASE Unlock(t)
        BY <2>7, UnlockRefines DEF FIFO!ANext
    <2> QED
        BY <1>3, <2>1, <2>2, <2>3, <2>4, <2>5, <2>6, <2>7 DEF InLock
<1> QED
    BY <1>1, <1>3 DEF Next

(* push and pop of the ring buffer, called by any threads at any time, are *)
(* the calls of a bounded first-in first-out queue, as long as the slot    *)
(* past the end of the array keeps what is written to it: nothing pushed   *)
(* is lost, doubled or overtaken, and a call is refused only when the      *)
(* queue is full or empty.                                                 *)
THEOREM RingImplementsFifo == ASSUME Padded PROVE Spec => FifoSpec
<1>1. Init => FIFO!AInit
    <2> SUFFICES ASSUME Init PROVE FIFO!AInit
        OBVIOUS
    <2>1. Taken = 0 /\ head = 0 /\ tail = 0
        BY DEF Init, Taken, Thread
    <2>2. 1 .. head - (tail + Taken) = {}
        BY <2>1
    <2> QED
        BY <2>2 DEF Init, FIFO!AInit
<1> QED
    BY <1>1, RingInvariant, RingStepRefines, PTL DEF Spec, FifoSpec, FIFO!ASpec

----------------------------------------------------------------------------
(* What is sent: an item as a thread made it, or a timed one with the      *)
(* result and the time its MarkEnd put in.                                 *)
Ended(item, kind) == [item EXCEPT !.result = kind.result, !.val = kind.val]
MatrixItem == Kind \cup {Ended(pair[1], pair[2]) : pair \in Timed \X Timed}

Sending == {"push", "failed", "compare", "pause", "clear"}
Doing == {Idle} \cup [at : {"check"}, item : MatrixItem]
                \cup [at : Sending, item : MatrixItem, cur_time : Nat]

(* The types of what Send, the marks and the collector use. *)
MatrixTypes ==
    /\ time \in Nat
    /\ thread \in [Sender -> Doing]
    /\ token_id_ \in [Sender -> Nat]
    /\ IsFiniteSet(DOMAIN map_)
    /\ \A token \in DOMAIN map_ : map_[token] \in Timed
    /\ queue_ \in [Queue -> Seq(MatrixItem)]
    /\ \A q \in Queue : Len(queue_[q]) <= queue_size_
    /\ seq_id \in Nat
    /\ queue_push_failed_times \in Nat /\ pause_push_stop_times \in Nat
    /\ collector \in [at : {"period", "drain", "ended"}, idx : Queue]
    /\ made \in Nat /\ deleted \in Nat

(* With whole tokens, since a mark's is one of its maker's. *)
MatrixInv == MatrixTypes /\ MarkEndTakesOwn /\ ItemsConserved

----------------------------------------------------------------------------
(* Cardinalities. *)

LEMMA QueuesFinite == IsFiniteSet(Queue) /\ 0 \in Queue
<1>1. bucket_count_ \in Nat /\ bucket_count_ > 0
    BY MatrixAssumption
<1>2. 0 \in Int /\ bucket_count_ - 1 \in Int
    BY <1>1
<1>3. IsFiniteSet(0 .. bucket_count_ - 1)
    BY ONLY <1>2, FS_Interval, Zenon
<1> QED
    BY <1>1, <1>3 DEF Queue

(* A number modulo the number of queues is a queue. *)
LEMMA TurnIsQueue ==
    ASSUME NEW n \in Nat
    PROVE  (n + 1) % bucket_count_ \in Queue
<1> DEFINE N == bucket_count_
<1>1. N \in Nat /\ N > 0
    BY MatrixAssumption
<1> HIDE DEF N
<1>2. (n + 1) % N \in 0 .. N - 1
    BY <1>1
<1> QED
    BY <1>2 DEF Queue, N

LEMMA PlacesFinite == IsFiniteSet(Places)
<1>1. 1 \in Int /\ queue_size_ \in Int
    BY MatrixAssumption
<1>2. IsFiniteSet(1 .. queue_size_)
    BY ONLY <1>1, FS_Interval, Zenon
<1>3. IsFiniteSet(Queue \X (1 .. queue_size_))
    BY ONLY <1>2, QueuesFinite, FS_Product, Zenon
<1> QED
    BY <1>3, FS_Subset DEF Places

(* An item put at the end of a queue that has room is one more queued. *)
LEMMA PushCounts ==
    ASSUME queue_ \in [Queue -> Seq(MatrixItem)],
           NEW idx \in Queue, NEW item \in MatrixItem, Len(queue_[idx]) < queue_size_,
           queue_' = [queue_ EXCEPT ![idx] = Append(@, item)]
    PROVE  Queued' = Queued + 1 /\ Queued \in Nat
<1> DEFINE n == Len(queue_[idx]) + 1
<1>1. n \in 1 .. queue_size_ /\ Len(queue_[idx]) \in Nat
    BY MatrixAssumption
<1>2. queue_'[idx] = Append(queue_[idx], item) /\ Len(queue_'[idx]) = n
    OBVIOUS
<1>3. \A q \in Queue : q # idx => queue_'[q] = queue_[q]
    OBVIOUS
<1>4. Places' = Places \cup {<<idx, n>>}
  <2>1. ASSUME NEW q \in Queue, NEW i \in 1 .. queue_size_
        PROVE  i <= Len(queue_'[q]) <=> i <= Len(queue_[q]) \/ (q = idx /\ i = n)
      BY <1>1, <1>2, <1>3
  <2> QED
      BY <1>1, <2>1 DEF Places
<1>5. <<idx, n>> \notin Places
    BY <1>1 DEF Places
<1> QED
    BY <1>4, <1>5, PlacesFinite, FS_AddElement, FS_CardinalityType DEF Queued

(* An item taken from the front of a queue is one less queued. *)
LEMMA PopCounts ==
    ASSUME queue_ \in [Queue -> Seq(MatrixItem)],
           NEW idx \in Queue, queue_[idx] # <<>>, Len(queue_[idx]) <= queue_size_,
           queue_' = [queue_ EXCEPT ![idx] = Tail(@)]
    PROVE  Queued' = Queued - 1 /\ Queued \in Nat
<1> DEFINE n == Len(queue_[idx])
<1>1. n \in 1 .. queue_size_
  <2>1. queue_[idx] \in Seq(MatrixItem) /\ n \in Nat
      OBVIOUS
  <2>2. n # 0
      BY <2>1, EmptySeq
  <2>3. queue_size_ \in Nat
      BY MatrixAssumption
  <2> QED
      BY <2>1, <2>2, <2>3
<1>2. queue_'[idx] = Tail(queue_[idx]) /\ Len(queue_'[idx]) = n - 1
    OBVIOUS
<1>3. \A q \in Queue : q # idx => queue_'[q] = queue_[q]
    OBVIOUS
<1>4. Places' = Places \ {<<idx, n>>}
  <2>1. ASSUME NEW q \in Queue, NEW i \in 1 .. queue_size_
        PROVE  i <= Len(queue_'[q]) <=> i <= Len(queue_[q]) /\ ~(q = idx /\ i = n)
    <3>1. i \in Int /\ n \in Int /\ (i <= n - 1 <=> i <= n /\ i # n)
        BY <1>1
    <3>2. CASE q = idx
        BY <1>2, <3>1, <3>2
    <3>3. CASE q # idx
        BY <1>3, <3>3
    <3> QED
        BY <3>2, <3>3
  <2> QED
      BY <1>1, <2>1 DEF Places
<1>5. <<idx, n>> \in Places
    BY <1>1 DEF Places
<1> QED
    BY <1>4, <1>5, PlacesFinite, FS_RemoveElement, FS_CardinalityType DEF Queued

(* A thread that begins to send has one more item in hand. *)
LEMMA TakeCounts ==
    ASSUME thread \in [Sender -> Doing], NEW t \in Sender, At(t, "idle"),
           NEW state, Become(t, state), state.at # "idle"
    PROVE  Cardinality(Hands') = Cardinality(Hands) + 1
<1>1. IsFiniteSet(Hands)
    BY MatrixAssumption, FS_Subset DEF Hands
<1>2. thread'[t].at # "idle" /\ \A u \in Sender : u # t => thread'[u] = thread[u]
    BY DEF Become
<1>3. Hands' = Hands \cup {t} /\ t \notin Hands
    BY <1>2 DEF Hands, At
<1> QED
    BY <1>1, <1>3, FS_AddElement

(* A thread that lets go of its item has one less. *)
LEMMA DropCounts ==
    ASSUME thread \in [Sender -> Doing], NEW t \in Sender, ~At(t, "idle"), Become(t, Idle)
    PROVE  Cardinality(Hands') = Cardinality(Hands) - 1
<1>1. IsFiniteSet(Hands)
    BY MatrixAssumption, FS_Subset DEF Hands
<1>2. thread'[t].at = "idle" /\ \A u \in Sender : u # t => thread'[u] = thread[u]
    BY DEF Become, Idle
<1>3. Hands' = Hands \ {t} /\ t \in Hands
    BY <1>2 DEF Hands, At
<1> QED
    BY <1>1, <1>3, FS_RemoveElement

(* A thread between two steps of Send still has its item. *)
LEMMA KeepCounts ==
    ASSUME thread \in [Sender -> Doing], NEW t \in Sender, ~At(t, "idle"),
           NEW state, Become(t, state), state.at # "idle"
    PROVE  Hands' = Hands
<1>1. thread'[t].at # "idle" /\ \A u \in Sender : u # t => thread'[u] = thread[u]
    BY DEF Become
<1> QED
    BY <1>1 DEF Hands, At

LEMMA CountsAreNumbers ==
    ASSUME IsFiniteSet(DOMAIN map_)
    PROVE  Cardinality(Hands) \in Nat /\ Queued \in Nat /\ Cardinality(DOMAIN map_) \in Nat
<1>1. IsFiniteSet(Hands)
    BY MatrixAssumption, FS_Subset DEF Hands
<1> QED
    BY <1>1, PlacesFinite, FS_CardinalityType DEF Queued

----------------------------------------------------------------------------
LEMMA MatrixInitInv == ASSUME MatrixInit PROVE MatrixInv
<1>1. DOMAIN map_ = {}
    BY DEF MatrixInit
<1>2. MatrixTypes
  <2>1. queue_ \in [Queue -> Seq(MatrixItem)] /\ \A q \in Queue : Len(queue_[q]) = 0
      BY DEF MatrixInit
  <2>2. queue_size_ \in Nat
      BY MatrixAssumption
  <2>3. IsFiniteSet(DOMAIN map_)
      BY <1>1, FS_EmptySet
  <2> QED
      BY <1>1, <2>1, <2>2, <2>3, QueuesFinite DEF MatrixInit, MatrixTypes, Doing
<1>3. MarkEndTakesOwn
    BY DEF MatrixInit, MarkEndTakesOwn
<1>4. ItemsConserved
  <2>1. Hands = {}
      BY DEF MatrixInit, Hands, Idle
  <2>2. Places = {}
    <3>1. \A q \in Queue : Len(queue_[q]) = 0
        BY DEF MatrixInit
    <3> QED
        BY <3>1 DEF Places
  <2> QED
      BY <1>1, <2>1, <2>2, FS_EmptySet DEF MatrixInit, ItemsConserved, Queued
<1> QED
    BY <1>2, <1>3, <1>4 DEF MatrixInv

(* Each thing a thread can be doing while it sends has an item. *)
LEMMA DoingItem ==
    ASSUME NEW s \in Doing
    PROVE  /\ s.at # "idle" => s.item \in MatrixItem
           /\ s.at \in Sending => /\ s.cur_time \in Nat
                                  /\ \A at \in Sending : [s EXCEPT !.at = at] \in Doing
                                  /\ \A at \in Sending : [s EXCEPT !.at = at].at = at
           /\ s.at \notin Sending => s.at \in {"idle", "check"}
<1>1. CASE s = Idle
    BY <1>1 DEF Idle, Sending
<1>2. CASE s \in [at : {"check"}, item : MatrixItem]
    BY <1>2 DEF Sending
<1>3. CASE s \in [at : Sending, item : MatrixItem, cur_time : Nat]
    BY <1>3 DEF Sending, Doing
<1> QED
    BY <1>1, <1>2, <1>3 DEF Doing

----------------------------------------------------------------------------
(* Each action keeps the invariant. *)

LEMMA CountInv ==
    ASSUME MatrixInv, NEW t \in Sender, NEW item \in Kind, Count(t, item)
    PROVE  MatrixInv'
<1> DEFINE state == [at |-> "check", item |-> item]
<1>1. state \in Doing /\ state.at # "idle"
  <2>1. item \in MatrixItem
      BY DEF MatrixItem
  <2>2. state \in [at : {"check"}, item : MatrixItem]
      BY <2>1
  <2> QED
      BY <2>2 DEF Doing
<1>2. Become(t, state) /\ At(t, "idle") /\ made' = made + 1 /\ deleted' = deleted
      /\ UNCHANGED <<time, token_id_, map_, begun, sendVars, collectVars>>
    BY DEF Count, tokenVars
<1> HIDE DEF state
<1>3. MatrixTypes'
    BY <1>1, <1>2 DEF MatrixInv, MatrixTypes, Become, sendVars, collectVars
<1>4. MarkEndTakesOwn'
    BY <1>2 DEF MatrixInv, MarkEndTakesOwn
<1>5. ItemsConserved'
  <2>1. Cardinality(Hands') = Cardinality(Hands) + 1
      BY <1>1, <1>2, TakeCounts DEF MatrixInv, MatrixTypes
  <2>2. Queued' = Queued
      BY <1>2 DEF sendVars, Queued, Places
  <2> QED
      BY <1>2, <2>1, <2>2, CountsAreNumbers DEF MatrixInv, MatrixTypes, ItemsConserved
<1> QED
    BY <1>3, <1>4, <1>5 DEF MatrixInv

LEMMA MarkBeginInv ==
    ASSUME MatrixInv, NEW t \in Sender, NEW item \in Timed, MarkBegin(t, item)
    PROVE  MatrixInv'
<1> DEFINE number == (token_id_[t] + 1) % TokenWidth
           token == <<t, number>>
           mark == [token |-> token, item |-> item, no |-> made']
<1>1. number \in Nat
    BY MatrixAssumption DEF MatrixInv, MatrixTypes
<1>2. /\ token_id_' = [token_id_ EXCEPT ![t] = number]
      /\ made' = made + 1
      /\ UNCHANGED <<time, thread, sendVars, collectVars>>
    BY DEF MarkBegin
<1>3. Queued' = Queued /\ Hands' = Hands
    BY <1>2 DEF sendVars, Queued, Places, Hands
<1>4. CASE token \in DOMAIN map_
  <2>1. deleted' = deleted + 1 /\ UNCHANGED <<map_, begun>>
      BY <1>4 DEF MarkBegin
  <2>2. MatrixTypes'
      BY <1>1, <1>2, <2>1 DEF MatrixInv, MatrixTypes, sendVars, collectVars
  <2>3. MarkEndTakesOwn'
      BY <2>1 DEF MatrixInv, MarkEndTakesOwn
  <2>4. ItemsConserved'
      BY <1>2, <1>3, <2>1, CountsAreNumbers DEF MatrixInv, MatrixTypes, ItemsConserved
  <2> QED
      BY <2>2, <2>3, <2>4 DEF MatrixInv
<1>5. CASE token \notin DOMAIN map_
  <2>1. /\ map_' = [k \in DOMAIN map_ \cup {token} |-> IF k = token THEN item ELSE map_[k]]
        /\ begun' = begun \cup {mark} /\ deleted' = deleted
      BY <1>5 DEF MarkBegin
  <2>2. mark.token = token /\ mark.item = item
      OBVIOUS
  <2> HIDE DEF number, token, mark
  <2>3. /\ DOMAIN map_' = DOMAIN map_ \cup {token}
        /\ map_'[token] = item
        /\ \A k \in DOMAIN map_ : map_'[k] = map_[k]
      BY <1>5, <2>1
  <2>4. /\ IsFiniteSet(DOMAIN map_')
        /\ Cardinality(DOMAIN map_') = Cardinality(DOMAIN map_) + 1
      BY <1>5, <2>3, FS_AddElement DEF MatrixInv, MatrixTypes
  <2>5. \A k \in DOMAIN map_' : map_'[k] \in Timed
      BY <2>3 DEF MatrixInv, MatrixTypes
  <2>6. MatrixTypes'
      BY <1>1, <1>2, <2>1, <2>4, <2>5 DEF MatrixInv, MatrixTypes, sendVars, collectVars
  <2>7. MarkEndTakesOwn'
    <3>1. \A m \in begun : m.token \in DOMAIN map_ /\ m.token # token
        BY <1>5 DEF MatrixInv, MarkEndTakesOwn
    <3>2. \A m \in begun' : m.token \in DOMAIN map_' /\ map_'[m.token] = m.item
        BY <2>1, <2>2, <2>3, <3>1 DEF MatrixInv, MarkEndTakesOwn
    <3>3. \A m, n \in begun' : m.token = n.token => m = n
        BY <2>1, <2>2, <3>1 DEF MatrixInv, MarkEndTakesOwn
    <3> QED
        BY <3>2, <3>3 DEF MarkEndTakesOwn
  <2>8. ItemsConserved'
      BY <1>2, <1>3, <2>1, <2>4, CountsAreNumbers DEF MatrixInv, MatrixTypes, ItemsConserved
  <2> QED
      BY <2>6, <2>7, <2>8 DEF MatrixInv
<1> QED
    BY <1>4, <1>5

LEMMA MarkEndInv ==
    ASSUME MatrixInv, NEW t \in Sender, NEW mark \in begun, NEW kind \in Timed,
           MarkEnd(t, mark, kind.result, kind.val)
    PROVE  MatrixInv'
<1> DEFINE sent == [map_[mark.token] EXCEPT !.result = kind.result, !.val = kind.val]
           state == [at |-> "check", item |-> sent]
<1>1. mark.token \in DOMAIN map_
    BY DEF MatrixInv, MarkEndTakesOwn
<1>2. sent \in MatrixItem
  <2>1. map_[mark.token] \in Timed
      BY <1>1 DEF MatrixInv, MatrixTypes
  <2>2. sent = Ended(map_[mark.token], kind)
      BY DEF Ended
  <2>3. <<map_[mark.token], kind>> \in Timed \X Timed
      BY <2>1
  <2>4. Ended(map_[mark.token], kind) \in {Ended(pair[1], pair[2]) : pair \in Timed \X Timed}
      BY <2>3
  <2> QED
      BY <2>2, <2>4 DEF MatrixItem
<1>3. state \in Doing /\ state.at # "idle"
  <2> HIDE DEF sent
  <2>1. state \in [at : {"check"}, item : MatrixItem]
      BY <1>2
  <2> QED
      BY <2>1 DEF Doing
<1>4. /\ At(t, "idle") /\ Become(t, state)
      /\ begun' = begun \ {mark}
      /\ map_' = [k \in DOMAIN map_ \ {mark.token} |-> map_[k]]
      /\ UNCHANGED <<time, token_id_, sendVars, collectVars, made, deleted>>
    BY <1>1 DEF MarkEnd
<1> HIDE DEF sent, state
<1>5. /\ DOMAIN map_' = DOMAIN map_ \ {mark.token}
      /\ \A k \in DOMAIN map_' : map_'[k] = map_[k]
    BY <1>4
<1>6. /\ IsFiniteSet(DOMAIN map_')
      /\ Cardinality(DOMAIN map_') = Cardinality(DOMAIN map_) - 1
  <2>1. IsFiniteSet(DOMAIN map_)
      BY DEF MatrixInv, MatrixTypes
  <2>2. /\ IsFiniteSet(DOMAIN map_ \ {mark.token})
        /\ Cardinality(DOMAIN map_ \ {mark.token}) = Cardinality(DOMAIN map_) - 1
      BY ONLY <1>1, <2>1, FS_RemoveElement, Zenon
  <2> QED
      BY <1>5, <2>2
<1>7. MatrixTypes'
    BY <1>3, <1>4, <1>5, <1>6 DEF MatrixInv, MatrixTypes, Become, sendVars, collectVars
<1>8. MarkEndTakesOwn'
    BY <1>4, <1>5 DEF MatrixInv, MarkEndTakesOwn
<1>9. ItemsConserved'
  <2>1. Cardinality(Hands') = Cardinality(Hands) + 1
      BY <1>3, <1>4, TakeCounts DEF MatrixInv, MatrixTypes
  <2>2. Queued' = Queued
      BY <1>4 DEF sendVars, Queued, Places
  <2> QED
      BY <1>4, <1>6, <2>1, <2>2, CountsAreNumbers DEF MatrixInv, MatrixTypes, ItemsConserved
<1> QED
    BY <1>7, <1>8, <1>9 DEF MatrixInv

(* A caller whose item was not taken deletes it. *)
LEMMA DropInv ==
    ASSUME MatrixInv, NEW t \in Sender, ~At(t, "idle"), DropItem(t),
           UNCHANGED <<time, tokenVars, queue_, seq_id, pause_push_stop_times,
                       collectVars, made>>,
           queue_push_failed_times' \in Nat
    PROVE  MatrixInv'
<1>1. Idle \in Doing
    BY DEF Doing
<1>2. Become(t, Idle) /\ deleted' = deleted + 1
    BY DEF DropItem
<1>3. MatrixTypes'
    BY <1>1, <1>2 DEF MatrixInv, MatrixTypes, Become, tokenVars, collectVars
<1>4. MarkEndTakesOwn'
    BY DEF MatrixInv, MarkEndTakesOwn, tokenVars
<1>5. ItemsConserved'
  <2>1. Cardinality(Hands') = Cardinality(Hands) - 1
      BY <1>2, DropCounts DEF MatrixInv, MatrixTypes
  <2>2. Queued' = Queued
      BY DEF Queued, Places
  <2> QED
      BY <1>2, <2>1, <2>2, CountsAreNumbers DEF MatrixInv, MatrixTypes, ItemsConserved, tokenVars
<1> QED
    BY <1>3, <1>4, <1>5 DEF MatrixInv

(* Between two steps of Send the caller keeps its item. *)
LEMMA KeepInv ==
    ASSUME MatrixInv, NEW t \in Sender, ~At(t, "idle"),
           NEW state \in Doing, state.at # "idle", Become(t, state),
           UNCHANGED <<time, tokenVars, queue_, collectVars, made, deleted>>,
           seq_id' \in Nat, queue_push_failed_times' \in Nat, pause_push_stop_times' \in Nat
    PROVE  MatrixInv'
<1>1. MatrixTypes'
    BY DEF MatrixInv, MatrixTypes, Become, tokenVars, collectVars
<1>2. MarkEndTakesOwn'
    BY DEF MatrixInv, MarkEndTakesOwn, tokenVars
<1>3. Hands' = Hands
    BY KeepCounts DEF MatrixInv, MatrixTypes
<1>4. ItemsConserved'
    BY <1>3 DEF MatrixInv, ItemsConserved, tokenVars, Queued, Places
<1> QED
    BY <1>1, <1>2, <1>4 DEF MatrixInv

(* The steps of Send.  A thread at one of them has an item. *)
LEMMA SendStepInv ==
    ASSUME MatrixInv, NEW t \in Sender, SendStep(t)
    PROVE  MatrixInv'
<1> DEFINE s == thread[t]
           moved(at) == [s EXCEPT !.at = at]
<1>1. s \in Doing
    BY DEF MatrixInv, MatrixTypes
<1>2. time \in Nat /\ seq_id \in Nat /\ queue_push_failed_times \in Nat
      /\ pause_push_stop_times \in Nat
    BY DEF MatrixInv, MatrixTypes
<1>3. CASE Check(t)
  <2>1. s.at = "check" /\ ~At(t, "idle") /\ s.item \in MatrixItem
      BY <1>1, <1>3, DoingItem DEF Check, At
  <2>2. UNCHANGED <<time, tokenVars, sendVars, collectVars, made>>
      BY <1>3 DEF Check
  <2>3. CASE time < pause_push_stop_times
      BY <1>2, <1>3, <2>1, <2>2, <2>3, DropInv DEF Check, sendVars
  <2>4. CASE ~(time < pause_push_stop_times)
    <3> DEFINE state == [at |-> "push", item |-> s.item, cur_time |-> time]
    <3>1. state \in Doing /\ state.at # "idle"
        BY <1>2, <2>1 DEF Doing, Sending
    <3>2. Become(t, state) /\ deleted' = deleted
        BY <1>3, <2>4 DEF Check
    <3> HIDE DEF state
    <3> QED
        BY <1>2, <2>1, <2>2, <3>1, <3>2, KeepInv DEF sendVars
  <2> QED
      BY <2>3, <2>4
<1>4. CASE PushItem(t)
  <2> DEFINE idx == (seq_id + 1) % bucket_count_
  <2>1. s.at = "push" /\ ~At(t, "idle") /\ s.item \in MatrixItem
      BY <1>1, <1>4, DoingItem DEF PushItem, At, Sending
  <2>2. idx \in Queue /\ idx \in Nat
      BY <1>2, TurnIsQueue DEF Queue
  <2>3. /\ seq_id' = idx
        /\ UNCHANGED <<time, tokenVars, queue_push_failed_times, pause_push_stop_times,
                       collectVars, made, deleted>>
      BY <1>4 DEF PushItem
  <2>4. CASE Len(queue_[idx]) < queue_size_
    <3>1. queue_' = [queue_ EXCEPT ![idx] = Append(@, s.item)] /\ Become(t, Idle)
        BY <1>4, <2>4 DEF PushItem
    <3> HIDE DEF idx
    <3>2. Queued' = Queued + 1
        BY <2>1, <2>2, <2>4, <3>1, PushCounts DEF MatrixInv, MatrixTypes
    <3>3. Cardinality(Hands') = Cardinality(Hands) - 1
        BY <2>1, <3>1, DropCounts DEF MatrixInv, MatrixTypes
    <3>4. ItemsConserved'
        BY <2>3, <3>2, <3>3, CountsAreNumbers
        DEF MatrixInv, MatrixTypes, ItemsConserved, tokenVars
    <3>5. /\ queue_' \in [Queue -> Seq(MatrixItem)]
          /\ \A q \in Queue : Len(queue_'[q]) <= queue_size_
      <4>1. queue_[idx] \in Seq(MatrixItem) /\ queue_ \in [Queue -> Seq(MatrixItem)]
          BY <2>2 DEF MatrixInv, MatrixTypes
      <4>2. queue_' \in [Queue -> Seq(MatrixItem)]
          BY <2>1, <2>2, <3>1, <4>1
      <4>3. queue_'[idx] = Append(queue_[idx], s.item)
          BY <2>2, <3>1, <4>1
      <4>4. Len(queue_'[idx]) <= queue_size_
          BY <2>1, <2>4, <4>1, <4>3, MatrixAssumption
      <4>5. \A q \in Queue : q # idx => queue_'[q] = queue_[q]
          BY <3>1, <4>1
      <4> QED
          BY <4>2, <4>4, <4>5 DEF MatrixInv, MatrixTypes
    <3>6. MatrixTypes'
        BY <2>2, <2>3, <3>1, <3>5 DEF MatrixInv, MatrixTypes, Become, tokenVars, collectVars, Doing
    <3>7. MarkEndTakesOwn'
        BY <2>3 DEF MatrixInv, MarkEndTakesOwn, tokenVars
    <3> QED
        BY <3>4, <3>6, <3>7 DEF MatrixInv
  <2>5. CASE ~(Len(queue_[idx]) < queue_size_)
    <3>1. Become(t, moved("failed")) /\ queue_' = queue_
        BY <1>4, <2>5 DEF PushItem
    <3>2. moved("failed") \in Doing /\ moved("failed").at = "failed"
        BY <1>1, <2>1, DoingItem DEF Sending
    <3> HIDE DEF idx, moved
    <3> QED
        BY <1>2, <2>1, <2>2, <2>3, <3>1, <3>2, KeepInv
  <2> QED
      BY <2>4, <2>5
<1>5. CASE CountFailure(t)
  <2>1. s.at = "failed" /\ ~At(t, "idle")
      BY <1>5 DEF CountFailure, At
  <2>2. moved("compare") \in Doing /\ moved("compare").at = "compare"
      BY <1>1, <2>1, DoingItem DEF Sending
  <2>3. /\ Become(t, moved("compare"))
        /\ queue_push_failed_times' = queue_push_failed_times + 1
        /\ UNCHANGED <<time, tokenVars, queue_, seq_id, pause_push_stop_times,
                       collectVars, made, deleted>>
      BY <1>5 DEF CountFailure
  <2> HIDE DEF moved
  <2> QED
      BY <1>2, <2>1, <2>2, <2>3, KeepInv
<1>6. CASE Compare(t)
  <2>1. s.at = "compare" /\ ~At(t, "idle")
      BY <1>6 DEF Compare, At
  <2>2. UNCHANGED <<time, tokenVars, sendVars, collectVars, made>>
      BY <1>6 DEF Compare
  <2>3. CASE queue_push_failed_times > MAX_PUSH_FAILED_TO_PAUSE
    <3>1. Become(t, moved("pause")) /\ deleted' = deleted
        BY <1>6, <2>3 DEF Compare
    <3>2. moved("pause") \in Doing /\ moved("pause").at = "pause"
        BY <1>1, <2>1, DoingItem DEF Sending
    <3> HIDE DEF moved
    <3> QED
        BY <1>2, <2>1, <2>2, <3>1, <3>2, KeepInv DEF sendVars
  <2>4. CASE ~(queue_push_failed_times > MAX_PUSH_FAILED_TO_PAUSE)
      BY <1>2, <1>6, <2>1, <2>2, <2>4, DropInv DEF Compare, sendVars
  <2> QED
      BY <2>3, <2>4
<1>7. CASE Pause(t)
  <2>1. s.at = "pause" /\ ~At(t, "idle")
      BY <1>7 DEF Pause, At
  <2>2. /\ moved("clear") \in Doing /\ moved("clear").at = "clear"
        /\ s.cur_time + PAUSE_TIMES_SECOND \in Nat
    <3>1. s.cur_time \in Nat /\ moved("clear") \in Doing /\ moved("clear").at = "clear"
        BY <1>1, <2>1, DoingItem DEF Sending
    <3> QED
        BY <3>1, MatrixAssumption
  <2>3. /\ Become(t, moved("clear"))
        /\ pause_push_stop_times' = s.cur_time + PAUSE_TIMES_SECOND
        /\ UNCHANGED <<time, tokenVars, queue_, seq_id, queue_push_failed_times,
                       collectVars, made, deleted>>
      BY <1>7 DEF Pause
  <2> HIDE DEF moved
  <2> QED
      BY <1>2, <2>1, <2>2, <2>3, KeepInv
<1>8. CASE Clear(t)
  <2>1. ~At(t, "idle") /\ DropItem(t) /\ queue_push_failed_times' = 0
        /\ UNCHANGED <<time, tokenVars, queue_, seq_id, pause_push_stop_times, collectVars, made>>
      BY <1>8 DEF Clear, At
  <2> QED
      BY <2>1, DropInv
<1> QED
    BY <1>3, <1>4, <1>5, <1>6, <1>7, <1>8 DEF SendStep

(* What the collector does with an item it took is to delete it. *)
LEMMA DrainInv ==
    ASSUME MatrixInv, Drain
    PROVE  MatrixInv'
<1> DEFINE idx == collector.idx
<1>1. idx \in Queue
    BY DEF MatrixInv, MatrixTypes
<1>2. UNCHANGED <<time, thread, tokenVars, seq_id, queue_push_failed_times,
                  pause_push_stop_times, made>>
    BY DEF Drain
<1>3. MarkEndTakesOwn'
    BY <1>2 DEF MatrixInv, MarkEndTakesOwn, tokenVars
<1>4. Hands' = Hands
    BY <1>2 DEF Hands
<1>5. CASE queue_[idx] = <<>>
  <2>1. queue_' = queue_ /\ deleted' = deleted
      BY <1>5 DEF Drain
  <2>2. collector' \in [at : {"period", "drain", "ended"}, idx : Queue]
    <3>1. IF idx + 1 = bucket_count_ THEN To("period", 0) ELSE To("drain", idx + 1)
        BY <1>5 DEF Drain
    <3>2. idx + 1 # bucket_count_ => idx + 1 \in Queue
        BY <1>1, MatrixAssumption DEF Queue
    <3> HIDE DEF idx
    <3> QED
        BY <3>1, <3>2, QueuesFinite DEF To
  <2>3. MatrixTypes'
      BY <1>2, <2>1, <2>2 DEF MatrixInv, MatrixTypes, tokenVars
  <2>4. ItemsConserved'
      BY <1>2, <1>4, <2>1 DEF MatrixInv, ItemsConserved, tokenVars, Queued, Places
  <2> QED
      BY <1>3, <2>3, <2>4 DEF MatrixInv
<1>6. CASE queue_[idx] # <<>>
  <2>1. /\ queue_' = [queue_ EXCEPT ![idx] = Tail(@)]
        /\ deleted' = deleted + 1 /\ collector' = collector
      BY <1>6 DEF Drain
  <2> HIDE DEF idx
  <2>2. queue_ \in [Queue -> Seq(MatrixItem)] /\ Len(queue_[idx]) <= queue_size_
      BY <1>1 DEF MatrixInv, MatrixTypes
  <2>3. Queued' = Queued - 1
      BY <1>1, <1>6, <2>1, <2>2, PopCounts
  <2>4. /\ queue_' \in [Queue -> Seq(MatrixItem)]
        /\ \A q \in Queue : Len(queue_'[q]) <= queue_size_
    <3>1. queue_[idx] \in Seq(MatrixItem) /\ queue_'[idx] = Tail(queue_[idx])
        BY <1>1, <2>1, <2>2
    <3>2. /\ Tail(queue_[idx]) \in Seq(MatrixItem)
          /\ Len(Tail(queue_[idx])) = Len(queue_[idx]) - 1
          /\ Len(queue_[idx]) \in Nat
        BY <1>6, <3>1, HeadTailProperties
    <3>3. Len(queue_'[idx]) <= queue_size_
        BY <2>2, <3>1, <3>2, MatrixAssumption
    <3>4. \A q \in Queue : q # idx => queue_'[q] = queue_[q]
        BY <2>1, <2>2
    <3>5. queue_' \in [Queue -> Seq(MatrixItem)]
        BY <1>1, <2>1, <2>2, <3>2
    <3> QED
        BY <3>3, <3>4, <3>5 DEF MatrixInv, MatrixTypes
  <2>5. MatrixTypes'
      BY <1>2, <2>1, <2>4 DEF MatrixInv, MatrixTypes, tokenVars
  <2>6. ItemsConserved'
      BY <1>2, <1>4, <2>1, <2>3, CountsAreNumbers
      DEF MatrixInv, MatrixTypes, ItemsConserved, tokenVars
  <2> QED
      BY <1>3, <2>5, <2>6 DEF MatrixInv
<1> QED
    BY <1>5, <1>6

(* The other steps of the collector, and the clock, move no item. *)
LEMMA OtherInv ==
    ASSUME MatrixInv, NextPeriod \/ StopCollector \/ LeaveRun \/ Tick
    PROVE  MatrixInv'
<1>1. UNCHANGED <<thread, tokenVars, sendVars, made, deleted>>
    BY DEF NextPeriod, StopCollector, LeaveRun, Tick
<1>2. time' \in Nat
    BY DEF NextPeriod, StopCollector, LeaveRun, Tick, MatrixInv, MatrixTypes
<1>3. collector' \in [at : {"period", "drain", "ended"}, idx : Queue]
    BY QueuesFinite
    DEF NextPeriod, StopCollector, LeaveRun, Tick, To, collectVars, MatrixInv, MatrixTypes
<1>4. MatrixTypes'
    BY <1>1, <1>2, <1>3 DEF MatrixInv, MatrixTypes, tokenVars, sendVars
<1>5. MarkEndTakesOwn'
    BY <1>1 DEF MatrixInv, MarkEndTakesOwn, tokenVars
<1>6. ItemsConserved'
    BY <1>1 DEF MatrixInv, ItemsConserved, tokenVars, sendVars, Hands, Queued, Places
<1> QED
    BY <1>4, <1>5, <1>6 DEF MatrixInv

LEMMA MatrixNextInv ==
    ASSUME MatrixInv, [MatrixNext]_matrixVars
    PROVE  MatrixInv'
<1>1. CASE \E t \in Sender, item \in Kind : Count(t, item)
    BY <1>1, CountInv
<1>2. CASE \E t \in Sender, item \in Timed : MarkBegin(t, item)
    BY <1>2, MarkBeginInv
<1>3. CASE \E t \in Sender, mark \in begun, kind \in Timed :
              MarkEnd(t, mark, kind.result, kind.val)
    BY <1>3, MarkEndInv
<1>4. CASE \E t \in Sender : SendStep(t)
    BY <1>4, SendStepInv
<1>5. CASE Drain
    BY <1>5, DrainInv
<1>6. CASE NextPeriod \/ StopCollector \/ LeaveRun \/ Tick
    BY <1>6, OtherInv
<1>7. CASE UNCHANGED matrixVars
  <2>1. MatrixTypes'
      BY <1>7 DEF MatrixInv, MatrixTypes, matrixVars, tokenVars, sendVars, collectVars
  <2>2. MarkEndTakesOwn'
      BY <1>7 DEF MatrixInv, MarkEndTakesOwn, matrixVars, tokenVars
  <2>3. ItemsConserved'
      BY <1>7 DEF MatrixInv, ItemsConserved, matrixVars, tokenVars, sendVars, Hands, Queued, Places
  <2> QED
      BY <2>1, <2>2, <2>3 DEF MatrixInv
<1> QED
    BY <1>1, <1>2, <1>3, <1>4, <1>5, <1>6, <1>7 DEF MatrixNext

(* The inductive invariant of the monitor: the types of what Send, the     *)
(* marks and the collector (matrix_collector.h, matrix_item_map.cpp) use,  *)
(* the owner of each mark and the count of items.                          *)
THEOREM MatrixInvariant == MatrixSpec => []MatrixInv
    BY MatrixInitInv, MatrixNextInv, PTL DEF MatrixSpec

(* For any number of threads, queues and items, whatever is full, paused   *)
(* or closed: each item that was made has one owner or was deleted, once   *)
(* (MatrixCollector::Send and its callers).                                *)
THEOREM ItemsCorrect == MatrixSpec => []ItemsConserved
<1>1. MatrixInv => ItemsConserved
    BY DEF MatrixInv
<1> QED
    BY <1>1, MatrixInvariant, PTL

(* For any width of token_id_, so also when it has come round: MarkEnd     *)
(* takes out of the map the item its own MarkBegin put there               *)
(* (matrix_item_map.cpp).                                                  *)
THEOREM MarksCorrect == MatrixSpec => []MarkEndTakesOwn
<1>1. MatrixInv => MarkEndTakesOwn
    BY DEF MatrixInv
<1> QED
    BY <1>1, MatrixInvariant, PTL

----------------------------------------------------------------------------
(* The statistics as a fold over items.                                    *)

Over(items) == FoldLeft(Apply, <<>>, items)
Folds(h, S, items) ==
    h = [T \in SUBSET S |-> IF T = {} THEN <<>> ELSE Apply(h[T \ {Max(T)}], items[Max(T)])]

LEMMA FoldIs ==
    ASSUME NEW items
    PROVE  Over(items) = (CHOOSE h : Folds(h, DOMAIN items, items))[DOMAIN items]
BY Zenon DEF Over, FoldLeft, MapThenFoldSet, Folds

LEMMA LeastNatural ==
    ASSUME NEW T, T \subseteq Nat, T # {}
    PROVE  \E x \in T : \A y \in T : x <= y
<1> DEFINE Less == {pair \in Nat \X Nat : pair[1] < pair[2]}
<1>1. IsWellFoundedOn(Less, Nat)
    BY NatLessThanWellFounded DEF OpToRel
<1>2. \A x, y \in Nat : y < x => <<y, x>> \in Less
    OBVIOUS
<1> HIDE DEF Less
<1>3. PICK x \in T : \A y \in T : ~ (<<y, x>> \in Less)
    BY <1>1, WFMin, Zenon
<1>4. \A y \in T : y \in Nat /\ x \in Nat /\ ~ (y < x)
    BY <1>2, <1>3
<1> QED
    BY <1>4

LEMMA MaxIs ==
    ASSUME NEW T, T \subseteq Nat, NEW m \in T, \A y \in T : y <= m
    PROVE  Max(T) = m
<1>1. \A y \in T : m >= y
    OBVIOUS
<1>2. \A x \in T : (\A y \in T : x >= y) => x = m
    OBVIOUS
<1> QED
    BY <1>1, <1>2 DEF Max

LEMMA FoldExtends ==
    ASSUME NEW items, NEW n \in Nat, NEW h, Folds(h, 1 .. n, items)
    PROVE  \E g : Folds(g, 1 .. n + 1, items)
<1> DEFINE m == n + 1
           g == [T \in SUBSET (1 .. m) |->
                    IF m \in T THEN Apply(h[T \ {m}], items[m]) ELSE h[T]]
           Step(T) == IF T = {} THEN <<>> ELSE Apply(g[T \ {Max(T)}], items[Max(T)])
<1>1. m \in Nat /\ m \notin 1 .. n /\ 1 .. n \subseteq 1 .. m
      /\ \A i \in 1 .. m : i \in Nat /\ i <= m /\ (i # m => i \in 1 .. n)
    OBVIOUS
<1> HIDE DEF m
<1>2. \A T \in SUBSET (1 .. n) :
          h[T] = IF T = {} THEN <<>> ELSE Apply(h[T \ {Max(T)}], items[Max(T)])
    BY Zenon DEF Folds
<1>3. \A T \in SUBSET (1 .. n) : T \in SUBSET (1 .. m) /\ m \notin T
    BY <1>1
<1>4. \A T \in SUBSET (1 .. n) : g[T] = h[T]
  <2> SUFFICES ASSUME NEW T \in SUBSET (1 .. n) PROVE g[T] = h[T]
      OBVIOUS
  <2>1. T \in SUBSET (1 .. m) /\ m \notin T
      BY <1>3
  <2> QED
      BY ONLY <2>1
<1>5. ASSUME NEW T \in SUBSET (1 .. m)
      PROVE  g[T] = Step(T)
  <2>1. CASE m \in T
    <3>1. g[T] = Apply(h[T \ {m}], items[m])
        BY <2>1
    <3>2. Max(T) = m
      <4>1. T \subseteq Nat /\ \A y \in T : y <= m
          BY <1>1
      <4> QED
          BY <2>1, <4>1, MaxIs
    <3>3. T \ {m} \in SUBSET (1 .. n)
        BY <1>1
    <3>4. g[T \ {m}] = h[T \ {m}]
        BY <1>4, <3>3
    <3> HIDE DEF g
    <3> QED
        BY ONLY <2>1, <3>1, <3>2, <3>4, Zenon
  <2>2. CASE m \notin T
    <3>1. T \in SUBSET (1 .. n)
        BY <1>1, <2>2
    <3>2. g[T] = h[T]
        BY <1>4, <3>1
    <3>3. T \ {Max(T)} \in SUBSET (1 .. n)
        BY <3>1
    <3>4. g[T \ {Max(T)}] = h[T \ {Max(T)}]
        BY <1>4, <3>3
    <3>5. h[T] = IF T = {} THEN <<>> ELSE Apply(h[T \ {Max(T)}], items[Max(T)])
        BY <1>2, <3>1
    <3> HIDE DEF g
    <3> QED
        BY ONLY <3>2, <3>4, <3>5, Zenon
  <2> QED
      BY <2>1, <2>2
<1>6. Folds(g, 1 .. m, items)
  <2>1. g = [T \in SUBSET (1 .. m) |-> Step(T)]
    <3> DEFINE Value(T) == IF m \in T THEN Apply(h[T \ {m}], items[m]) ELSE h[T]
    <3>1. ASSUME NEW T \in SUBSET (1 .. m) PROVE Value(T) = Step(T)
        BY <1>5
    <3>2. g = [T \in SUBSET (1 .. m) |-> Value(T)]
        OBVIOUS
    <3> HIDE DEF g, Value, Step
    <3> QED
        BY ONLY <3>1, <3>2
  <2> QED
      BY <2>1, Zenon DEF Folds
<1> QED
    BY <1>6 DEF m

LEMMA FoldExists ==
    ASSUME NEW items, NEW n \in Nat
    PROVE  \E h : Folds(h, 1 .. n, items)
<1> DEFINE Bad == {k \in Nat : ~ \E h : Folds(h, 1 .. k, items)}
<1> SUFFICES ASSUME Bad # {} PROVE FALSE
    OBVIOUS
<1>1. PICK k \in Bad : \A j \in Bad : k <= j
    BY LeastNatural
<1>2. k \in Nat /\ ~ \E h : Folds(h, 1 .. k, items)
    OBVIOUS
<1>3. CASE k = 0
  <2> DEFINE Value(T) == <<>>
             h == [T \in SUBSET {} |-> Value(T)]
  <2>1. 1 .. k = {}
      BY <1>3
  <2>2. h = [T \in SUBSET {} |-> IF T = {} THEN <<>> ELSE Apply(h[T \ {Max(T)}], items[Max(T)])]
    <3> DEFINE Step(T) == IF T = {} THEN <<>> ELSE Apply(h[T \ {Max(T)}], items[Max(T)])
    <3>1. \A T \in SUBSET {} : Value(T) = Step(T)
        OBVIOUS
    <3> HIDE DEF Value, Step
    <3>2. [T \in SUBSET {} |-> Value(T)] = [T \in SUBSET {} |-> Step(T)]
        BY ONLY <3>1
    <3> QED
        BY <3>2 DEF Step
  <2>3. Folds(h, 1 .. k, items)
      BY <2>1, <2>2, Zenon DEF Folds
  <2> QED
      BY <1>2, <2>3
<1>4. CASE k # 0
  <2>1. k - 1 \in Nat /\ ~ (k <= k - 1) /\ k - 1 + 1 = k
      BY <1>2, <1>4
  <2>2. PICK h : Folds(h, 1 .. k - 1, items)
      BY <1>1, <2>1
  <2>3. \E g : Folds(g, 1 .. k - 1 + 1, items)
      BY <2>1, <2>2, FoldExtends
  <2> QED
      BY <1>2, <2>1, <2>3
<1> QED
    BY <1>3, <1>4

LEMMA FoldSteps ==
    ASSUME NEW items, NEW n \in Nat, NEW h, Folds(h, 1 .. n, items)
    PROVE  /\ h[1 .. 0] = <<>>
           /\ \A k \in 1 .. n : \A j : j = k - 1 => h[1 .. k] = Apply(h[1 .. j], items[k])
<1>1. \A T \in SUBSET (1 .. n) :
          h[T] = IF T = {} THEN <<>> ELSE Apply(h[T \ {Max(T)}], items[Max(T)])
    BY Zenon DEF Folds
<1>2. 1 .. 0 = {} /\ {} \in SUBSET (1 .. n)
    OBVIOUS
<1>3. h[1 .. 0] = <<>>
    BY ONLY <1>1, <1>2, Zenon
<1>4. ASSUME NEW k \in 1 .. n, NEW j, j = k - 1
      PROVE  h[1 .. k] = Apply(h[1 .. j], items[k])
  <2> DEFINE T == 1 .. k
             U == 1 .. j
  <2>1. T \in SUBSET (1 .. n) /\ T # {} /\ T \subseteq Nat /\ k \in T /\ \A y \in T : y <= k
      OBVIOUS
  <2>2. T \ {k} = U
      BY j = k - 1
  <2> HIDE DEF T, U
  <2>3. Max(T) = k
      BY <2>1, MaxIs
  <2>4. h[T] = Apply(h[U], items[k])
      BY ONLY <1>1, <2>1, <2>2, <2>3, Zenon
  <2> QED
      BY <2>4 DEF T, U
<1> QED
    BY <1>3, <1>4

(* Two folds agree as far as their items do. *)
SameUpTo(s, t, n) == \A k \in 1 .. n : s[k] = t[k]

LEMMA FoldsAgree ==
    ASSUME NEW s, NEW t, NEW n \in Nat, NEW m \in Nat, n <= m,
           SameUpTo(s, t, n),
           NEW g, Folds(g, 1 .. n, s), NEW h, Folds(h, 1 .. m, t)
    PROVE  g[1 .. n] = h[1 .. n]
<1> DEFINE Bad == {k \in 0 .. n : g[1 .. k] # h[1 .. k]}
<1>1. Bad = {}
  <2> SUFFICES ASSUME Bad # {} PROVE FALSE
      OBVIOUS
  <2>1. Bad \subseteq Nat
      OBVIOUS
  <2>2. PICK k \in Bad : \A j \in Bad : k <= j
      BY <2>1, LeastNatural
  <2>3. k \in 0 .. n /\ g[1 .. k] # h[1 .. k]
      OBVIOUS
  <2>4. k # 0
    <3>1. g[1 .. 0] = <<>> /\ h[1 .. 0] = <<>>
        BY FoldSteps
    <3> QED
        BY <2>3, <3>1
  <2> DEFINE j == k - 1
  <2>5. k \in 1 .. n /\ k \in 1 .. m /\ j \in 0 .. n /\ ~ (k <= j) /\ j = k - 1
      BY <2>3, <2>4
  <2> HIDE DEF j
  <2>6. g[1 .. j] = h[1 .. j]
      BY <2>2, <2>5
  <2>7. g[1 .. k] = Apply(g[1 .. j], s[k]) /\ h[1 .. k] = Apply(h[1 .. j], t[k])
      BY <2>5, FoldSteps
  <2>8. s[k] = t[k]
      BY <2>5 DEF SameUpTo
  <2> QED
      BY ONLY <2>3, <2>6, <2>7, <2>8, Zenon
<1>2. n \in 0 .. n
    OBVIOUS
<1> QED
    BY <1>1, <1>2

(* One more item is applied to what the others add up to. *)
LEMMA OverAppend ==
    ASSUME NEW S, NEW items \in Seq(S), NEW x \in S
    PROVE  Over(<<>>) = <<>> /\ Over(Append(items, x)) = Apply(Over(items), x)
<1> DEFINE Fold(s) == CHOOSE h : Folds(h, DOMAIN s, s)
<1>1. \A s, n : DOMAIN s = 1 .. n /\ n \in Nat =>
          Folds(Fold(s), 1 .. n, s) /\ Over(s) = Fold(s)[1 .. n]
  <2> SUFFICES ASSUME NEW s, NEW n, DOMAIN s = 1 .. n, n \in Nat
               PROVE  Folds(Fold(s), 1 .. n, s) /\ Over(s) = Fold(s)[1 .. n]
      OBVIOUS
  <2>1. Folds(Fold(s), DOMAIN s, s)
      BY FoldExists, Zenon
  <2> QED
      BY <2>1, FoldIs
<1> HIDE DEF Fold
<1>2. Over(<<>>) = <<>>
  <2>1. DOMAIN <<>> = 1 .. 0 /\ 0 \in Nat
      BY EmptySeq
  <2>2. Folds(Fold(<<>>), 1 .. 0, <<>>) /\ Over(<<>>) = Fold(<<>>)[1 .. 0]
      BY <1>1, <2>1
  <2> QED
      BY <2>1, <2>2, FoldSteps
<1> DEFINE t == Append(items, x)
           n == Len(items)
           m == n + 1
<1>3. n \in Nat /\ DOMAIN items = 1 .. n
    BY LenProperties
<1>4. t \in Seq(S) /\ Len(t) = m /\ (\A k \in 1 .. n : t[k] = items[k]) /\ t[m] = x
    BY AppendProperties
<1>5. DOMAIN t = 1 .. m
    BY <1>4, LenProperties
<1>6. m \in Nat /\ n <= m /\ m \in 1 .. m /\ m - 1 = n
    BY <1>3
<1> HIDE DEF t, n, m
<1>7. Folds(Fold(items), 1 .. n, items) /\ Over(items) = Fold(items)[1 .. n]
    BY <1>1, <1>3
<1>8. Folds(Fold(t), 1 .. m, t) /\ Over(t) = Fold(t)[1 .. m]
    BY <1>1, <1>5, <1>6
<1>9. Fold(t)[1 .. m] = Apply(Fold(t)[1 .. n], x)
  <2>1. \A k \in 1 .. m : \A j : j = k - 1 => Fold(t)[1 .. k] = Apply(Fold(t)[1 .. j], t[k])
      BY <1>6, <1>8, FoldSteps
  <2>2. n = m - 1
      BY <1>6
  <2>3. Fold(t)[1 .. m] = Apply(Fold(t)[1 .. n], t[m])
      BY ONLY <1>6, <2>1, <2>2, Zenon
  <2> QED
      BY ONLY <1>4, <2>3, Zenon
<1>10. Fold(items)[1 .. n] = Fold(t)[1 .. n]
  <2>1. SameUpTo(items, t, n)
      BY <1>4 DEF SameUpTo
  <2> DEFINE g == Fold(items)
             h == Fold(t)
  <2>2. Folds(g, 1 .. n, items) /\ Folds(h, 1 .. m, t) /\ n \in Nat /\ m \in Nat /\ n <= m
      BY <1>3, <1>6, <1>7, <1>8
  <2> HIDE DEF g, h
  <2>3. g[1 .. n] = h[1 .. n]
      BY <2>1, <2>2, FoldsAgree
  <2> QED
      BY <2>3 DEF g, h
<1> QED
    BY <1>2, <1>7, <1>8, <1>9, <1>10 DEF t

----------------------------------------------------------------------------
(* What the map has of a name.                                             *)

(* The call lets its statistic live on when the period ends. *)
Lasts(item) == item.operation # "Reset" /\ item.persistent

AgreeAt(n, map, other) ==
    /\ n \in DOMAIN map <=> n \in DOMAIN other
    /\ n \in DOMAIN other => map[n] = other[n]

Flagged(n, map, flag) ==
    n \in DOMAIN map => "persistent" \in DOMAIN map[n] /\ map[n].persistent = flag

LEMMA ItemFacts ==
    ASSUME NEW item \in MatrixItem
    PROVE  /\ item.operation \in {"Set", "Add", "Sub", "Reset", "TimeDistribute"}
           /\ Lasts(item) \in BOOLEAN
<1>1. CASE item \in Kind
    BY <1>1, ItemAssumption DEF Lasts
<1>2. CASE \E pair \in Timed \X Timed : item = Ended(pair[1], pair[2])
  <2>1. PICK made0 \in Timed, kind \in Timed : item = Ended(made0, kind)
      BY <1>2
  <2>2. /\ {"name", "operation", "result", "persistent", "val"} \subseteq DOMAIN made0
        /\ made0.operation \in {"Set", "Add", "Sub", "Reset", "TimeDistribute"}
        /\ made0.persistent \in BOOLEAN
      BY ItemAssumption DEF Timed
  <2>3. item.operation = made0.operation /\ item.persistent = made0.persistent
      BY <2>1, <2>2 DEF Ended
  <2> QED
      BY <2>2, <2>3 DEF Lasts
<1> QED
    BY <1>1, <1>2 DEF MatrixItem

(* Each operation leaves the flag of the statistic as it is. *)
Worked(stat, item) ==
    CASE item.operation = "Set" -> Set(stat, item.val)
      [] item.operation = "Add" -> Add(stat, item.val)
      [] item.operation = "Sub" -> Sub(stat, item.val)
      [] item.operation = "Reset" -> Reset(stat)
      [] item.operation = "TimeDistribute" -> TimeDistribute(stat, item.result, item.val)

LEMMA WorkedKeepsFlag ==
    ASSUME NEW item \in MatrixItem, NEW stat, "persistent" \in DOMAIN stat
    PROVE  /\ "persistent" \in DOMAIN Worked(stat, item)
           /\ Worked(stat, item).persistent = stat.persistent
<1>1. \A value, x, y, z : LET new == [stat EXCEPT !.count = x, !.value = value, !.max = y, !.min = z]
          IN "persistent" \in DOMAIN new /\ new.persistent = stat.persistent
    OBVIOUS
<1>2. CASE item.operation = "Set"
    BY <1>2 DEF Worked, Set, Counted
<1>3. CASE item.operation = "Add"
    BY <1>3 DEF Worked, Add, Counted
<1>4. CASE item.operation = "Sub"
    BY <1>4 DEF Worked, Sub, Counted
<1>5. CASE item.operation = "Reset"
    BY <1>5 DEF Worked, Reset
<1>6. CASE item.operation = "TimeDistribute"
  <2> DEFINE d == Distribute(stat, item.val)
  <2>1. "persistent" \in DOMAIN d /\ d.persistent = stat.persistent
      BY DEF Distribute
  <2>2. Worked(stat, item) = TimeDistribute(stat, item.result, item.val)
      BY <1>6 DEF Worked
  <2> HIDE DEF d
  <2>3. \A child : "persistent" \in DOMAIN [d EXCEPT !.child = child]
                   /\ [d EXCEPT !.child = child].persistent = d.persistent
      BY <2>1
  <2>4. \/ Worked(stat, item) = d
        \/ \E child : Worked(stat, item) = [d EXCEPT !.child = child]
      BY ONLY <2>2, Zenon DEF TimeDistribute, d
  <2> QED
      BY <2>1, <2>3, <2>4
<1> QED
    BY <1>2, <1>3, <1>4, <1>5, <1>6, ItemFacts

(* Apply changes the statistic of the item's name only, and what it makes  *)
(* of it depends on nothing else. *)
LEMMA ApplyFacts ==
    ASSUME NEW item \in MatrixItem, NEW map
    PROVE  /\ DOMAIN Apply(map, item) = DOMAIN map \cup {item.name}
           /\ \A n \in DOMAIN map : n # item.name => Apply(map, item)[n] = map[n]
           /\ Apply(map, item)[item.name] =
                  Worked(GetMatrixStat(map, item.name, Lasts(item)), item)
<1>1. Apply(map, item) =
          Put(map, item.name, Worked(GetMatrixStat(map, item.name, Lasts(item)), item))
    BY Zenon DEF Apply, Worked, Lasts
<1> DEFINE new == Worked(GetMatrixStat(map, item.name, Lasts(item)), item)
<1> HIDE DEF new
<1> QED
    BY <1>1 DEF Put, new

LEMMA ApplyAgrees ==
    ASSUME NEW item \in MatrixItem, NEW map, NEW other, NEW n, AgreeAt(n, map, other)
    PROVE  AgreeAt(n, Apply(map, item), Apply(other, item))
<1> DEFINE new == Apply(map, item)
           newOther == Apply(other, item)
<1>1. /\ DOMAIN new = DOMAIN map \cup {item.name}
      /\ \A k \in DOMAIN map : k # item.name => new[k] = map[k]
      /\ new[item.name] = Worked(GetMatrixStat(map, item.name, Lasts(item)), item)
    BY ApplyFacts
<1>2. /\ DOMAIN newOther = DOMAIN other \cup {item.name}
      /\ \A k \in DOMAIN other : k # item.name => newOther[k] = other[k]
      /\ newOther[item.name] = Worked(GetMatrixStat(other, item.name, Lasts(item)), item)
    BY ApplyFacts
<1> HIDE DEF new, newOther
<1>3. CASE n # item.name
  <2>1. AgreeAt(n, new, newOther)
      BY <1>1, <1>2, <1>3 DEF AgreeAt
  <2> QED
      BY <2>1 DEF new, newOther
<1>4. CASE n = item.name
  <2>1. GetMatrixStat(map, n, Lasts(item)) = GetMatrixStat(other, n, Lasts(item))
      BY Zenon DEF AgreeAt, GetMatrixStat
  <2>2. new[n] = newOther[n]
      BY ONLY <1>1, <1>2, <1>4, <2>1, Zenon
  <2>3. n \in DOMAIN new /\ n \in DOMAIN newOther
      BY <1>1, <1>2, <1>4
  <2> QED
      BY ONLY <2>2, <2>3, Zenon DEF AgreeAt, new, newOther
<1> QED
    BY <1>3, <1>4

LEMMA ApplyFlags ==
    ASSUME NEW item \in MatrixItem, NEW map, NEW n, NEW flag \in BOOLEAN, Flagged(n, map, flag),
           n = item.name => Lasts(item) = flag
    PROVE  Flagged(n, Apply(map, item), flag)
<1> DEFINE new == Apply(map, item)
<1>3. /\ DOMAIN new = DOMAIN map \cup {item.name}
      /\ \A k \in DOMAIN map : k # item.name => new[k] = map[k]
      /\ new[item.name] = Worked(GetMatrixStat(map, item.name, Lasts(item)), item)
    BY ApplyFacts
<1> HIDE DEF new
<1>1. CASE n # item.name
  <2>1. n \in DOMAIN new => n \in DOMAIN map /\ new[n] = map[n]
      BY <1>1, <1>3
  <2> QED
      BY ONLY <2>1, Flagged(n, map, flag), Zenon DEF Flagged, new
<1>2. CASE n = item.name
  <2> DEFINE stat == GetMatrixStat(map, n, Lasts(item))
  <2>1. "persistent" \in DOMAIN stat /\ stat.persistent = flag
    <3>1. CASE n \in DOMAIN map
        BY <3>1 DEF Flagged, GetMatrixStat
    <3>2. CASE n \notin DOMAIN map
      <4>1. stat = NewStat(flag)
          BY ONLY <1>2, <3>2, n = item.name => Lasts(item) = flag, Zenon DEF GetMatrixStat
      <4> HIDE DEF stat
      <4> QED
          BY <4>1 DEF NewStat
    <3> QED
        BY <3>1, <3>2
  <2> HIDE DEF stat
  <2>2. "persistent" \in DOMAIN Worked(stat, item) /\ Worked(stat, item).persistent = flag
      BY <2>1, WorkedKeepsFlag
  <2>3. new[n] = Worked(stat, item)
      BY ONLY <1>2, <1>3, Zenon DEF stat
  <2> QED
      BY ONLY <2>2, <2>3, Zenon DEF Flagged, new
<1> QED
    BY <1>1, <1>2

LEMMA PartFacts ==
    ASSUME NEW S, NEW q \in Seq(S), NEW a \in Nat, NEW b \in Nat, a <= b, b <= Len(q)
    PROVE  /\ SubSeq(q, a + 1, b) \in Seq(S) /\ Len(SubSeq(q, a + 1, b)) = b - a
           /\ \A i \in 1 .. b - a : SubSeq(q, a + 1, b)[i] = q[a + i]
<1>1. \A i \in a + 1 .. b : q[i] \in S
    BY ElementOfSeq
<1>2. /\ SubSeq(q, a + 1, b) \in Seq(S)
      /\ Len(SubSeq(q, a + 1, b)) = IF a + 1 <= b THEN b - (a + 1) + 1 ELSE 0
      /\ \A i \in 1 .. b - (a + 1) + 1 : SubSeq(q, a + 1, b)[i] = q[a + 1 + i - 1]
    BY <1>1, SubSeqProperties
<1> DEFINE s == SubSeq(q, a + 1, b)
<1> HIDE DEF s
<1>3. Len(s) = b - a
    BY <1>2 DEF s
<1>4. ASSUME NEW i \in 1 .. b - a
      PROVE  s[i] = q[a + i]
  <2>1. a + 1 + i - 1 = a + i /\ i \in 1 .. b - (a + 1) + 1
      OBVIOUS
  <2> QED
      BY <1>2, <2>1 DEF s
<1> QED
    BY <1>2, <1>3, <1>4 DEF s

LEMMA RestOfAppend ==
    ASSUME NEW S, NEW s \in Seq(S), NEW x \in S, NEW k \in 0 .. Len(s)
    PROVE  /\ SubSeq(s, k + 1, Len(s)) \in Seq(S)
           /\ SubSeq(Append(s, x), k + 1, Len(Append(s, x))) = Append(SubSeq(s, k + 1, Len(s)), x)
<1> DEFINE t == Append(s, x)
           a == SubSeq(s, k + 1, Len(s))
           b == SubSeq(t, k + 1, Len(t))
           c == Append(a, x)
<1>1. Len(s) \in Nat /\ DOMAIN s = 1 .. Len(s)
    BY LenProperties
<1>2. /\ t \in Seq(S) /\ Len(t) = Len(s) + 1
      /\ (\A i \in 1 .. Len(s) : t[i] = s[i]) /\ t[Len(s) + 1] = x
    BY AppendProperties
<1> HIDE DEF t
<1>3. /\ a \in Seq(S) /\ Len(a) = Len(s) - k
      /\ \A i \in 1 .. Len(s) - k : a[i] = s[k + i]
  <2>1. k \in Nat /\ k <= Len(s) /\ Len(s) <= Len(s)
      BY <1>1
  <2> QED
      BY ONLY <1>1, <2>1, s \in Seq(S), PartFacts DEF a
<1>4. /\ b \in Seq(S) /\ Len(b) = Len(s) - k + 1
      /\ \A i \in 1 .. Len(s) - k + 1 : b[i] = t[k + i]
    BY <1>1, <1>2, PartFacts
<1> HIDE DEF a, b
<1>5. /\ c \in Seq(S) /\ Len(c) = Len(s) - k + 1
      /\ (\A i \in 1 .. Len(s) - k : c[i] = a[i]) /\ c[Len(a) + 1] = x
    BY <1>3, AppendProperties
<1> HIDE DEF c
<1>6. ASSUME NEW i \in 1 .. Len(b)
      PROVE  b[i] = c[i]
  <2>1. i \in 1 .. Len(s) - k + 1
      BY <1>4
  <2>2. b[i] = t[k + i]
      BY <1>4, <2>1
  <2>3. CASE i <= Len(s) - k
    <3> DEFINE j == k + i
    <3>1. i \in 1 .. Len(s) - k /\ j \in 1 .. Len(s)
        BY <1>1, <2>1, <2>3
    <3>2. a[i] = s[j] /\ c[i] = a[i]
        BY <1>3, <1>5, <3>1
    <3>3. b[i] = t[j]
        BY <2>2
    <3> HIDE DEF j
    <3>4. t[j] = s[j]
        BY <1>2, <3>1
    <3> QED
        BY <3>2, <3>3, <3>4
  <2>4. CASE ~ (i <= Len(s) - k)
    <3>1. i = Len(a) + 1 /\ k + i = Len(s) + 1
        BY <1>1, <1>3, <2>1, <2>4
    <3> QED
        BY <1>2, <1>5, <2>2, <3>1
  <2> QED
      BY <2>3, <2>4
<1>7. Len(b) = Len(c) /\ b \in Seq(S) /\ c \in Seq(S)
    BY <1>4, <1>5
<1>8. b = c
    BY <1>6, <1>7, SeqEqual
<1> QED
    BY <1>3, <1>8 DEF a, b, c, t

----------------------------------------------------------------------------
(* The invariant of the statistics.                                        *)

OfThisPeriod == SubSeq(applied, frozen + 1, Len(applied))

(* All calls for the name let its statistic live on, or none does.         *)
AlwaysLasts(n) == \A i \in DOMAIN applied : applied[i].name = n => Lasts(applied[i]) = TRUE
NeverLasts(n) == \A i \in DOMAIN applied : applied[i].name = n => Lasts(applied[i]) = FALSE

LastingOK(n) ==
    AlwaysLasts(n) => AgreeAt(n, stat_map, Over(applied)) /\ Flagged(n, stat_map, TRUE)
PassingOK(n) ==
    NeverLasts(n) => AgreeAt(n, stat_map, Over(OfThisPeriod)) /\ Flagged(n, stat_map, FALSE)

StatsInv ==
    /\ applied \in Seq(MatrixItem) /\ frozen \in 0 .. Len(applied)
    /\ \A n : LastingOK(n) /\ PassingOK(n)

LEMMA StatsStart == ASSUME MatrixInit PROVE StatsInv
<1>1. stat_map = <<>> /\ applied = <<>> /\ frozen = 0
    BY DEF MatrixInit
<1>2. applied \in Seq(MatrixItem) /\ Len(applied) = 0
    BY <1>1, EmptySeq
<1>3. OfThisPeriod = <<>>
    BY <1>1, <1>2 DEF OfThisPeriod
<1>4. Over(<<>>) = <<>>
  <2> DEFINE x == CHOOSE y : TRUE
  <2>1. x \in {x} /\ <<>> \in Seq({x})
      BY EmptySeq
  <2> QED
      BY <2>1, OverAppend
<1>5. DOMAIN <<>> = {}
    BY EmptySeq
<1>6. \A n : LastingOK(n) /\ PassingOK(n)
  <2>1. \A n : n \notin DOMAIN <<>>
      BY <1>5
  <2> QED
      BY ONLY <1>1, <1>3, <1>4, <2>1, Zenon DEF LastingOK, PassingOK, AgreeAt, Flagged
<1> QED
    BY <1>1, <1>2, <1>6 DEF StatsInv

(* Drain applies the item to the map and to what the map is compared with. *)
LEMMA StatsDrain ==
    ASSUME StatsInv, MatrixInv, Drain
    PROVE  StatsInv'
<1> DEFINE idx == collector.idx
           item == Head(queue_[idx])
<1>1. frozen' = frozen
    BY DEF Drain
<1>2. CASE queue_[idx] = <<>>
  <2>1. stat_map' = stat_map /\ applied' = applied
      BY <1>2 DEF Drain
  <2> QED
      BY <1>1, <2>1
      DEF StatsInv, LastingOK, PassingOK, AlwaysLasts, NeverLasts, OfThisPeriod
<1>3. CASE queue_[idx] # <<>>
  <2>1. stat_map' = Apply(stat_map, item) /\ applied' = Append(applied, item)
      BY <1>3 DEF Drain
  <2>2. item \in MatrixItem
    <3>1. queue_[idx] \in Seq(MatrixItem)
        BY DEF MatrixInv, MatrixTypes
    <3> HIDE DEF idx
    <3> QED
        BY <1>3, <3>1, HeadTailProperties
  <2> HIDE DEF item
  <2>3. applied \in Seq(MatrixItem) /\ frozen \in 0 .. Len(applied) /\ Len(applied) \in Nat
      BY LenProperties DEF StatsInv
  <2>4. /\ applied' \in Seq(MatrixItem) /\ Len(applied') = Len(applied) + 1
        /\ \A i \in 1 .. Len(applied) : applied'[i] = applied[i]
        /\ applied'[Len(applied) + 1] = item
      BY <2>1, <2>2, <2>3, AppendProperties
  <2>5. DOMAIN applied = 1 .. Len(applied) /\ DOMAIN applied' = 1 .. Len(applied')
      BY <2>3, <2>4, LenProperties
  <2>6. frozen' \in 0 .. Len(applied')
      BY <1>1, <2>3, <2>4
  <2>7. Over(applied') = Apply(Over(applied), item)
      BY <2>1, <2>2, <2>3, OverAppend
  <2>8. Over(OfThisPeriod') = Apply(Over(OfThisPeriod), item)
    <3>1. /\ OfThisPeriod \in Seq(MatrixItem)
          /\ SubSeq(Append(applied, item), frozen + 1, Len(Append(applied, item)))
                 = Append(OfThisPeriod, item)
        BY <2>2, <2>3, RestOfAppend DEF OfThisPeriod
    <3>2. OfThisPeriod' = Append(OfThisPeriod, item)
        BY <1>1, <2>1, <3>1 DEF OfThisPeriod
    <3> QED
        BY <2>2, <3>1, <3>2, OverAppend
  <2>9. ASSUME NEW n
        PROVE  LastingOK(n)' /\ PassingOK(n)'
    <3>1. AlwaysLasts(n)' => AlwaysLasts(n) /\ (n = item.name => Lasts(item) = TRUE)
        BY <2>3, <2>4, <2>5 DEF AlwaysLasts
    <3>2. NeverLasts(n)' => NeverLasts(n) /\ (n = item.name => Lasts(item) = FALSE)
        BY <2>3, <2>4, <2>5 DEF NeverLasts
    <3>3. LastingOK(n) /\ PassingOK(n)
        BY Zenon DEF StatsInv
    <3>4. AlwaysLasts(n)' => /\ AgreeAt(n, stat_map', Over(applied'))
                             /\ Flagged(n, stat_map', TRUE)
      <4> SUFFICES ASSUME AlwaysLasts(n)'
                   PROVE  AgreeAt(n, stat_map', Over(applied')) /\ Flagged(n, stat_map', TRUE)
          OBVIOUS
      <4>1. AgreeAt(n, stat_map, Over(applied)) /\ Flagged(n, stat_map, TRUE)
          BY <3>1, <3>3 DEF LastingOK
      <4>2. AgreeAt(n, Apply(stat_map, item), Apply(Over(applied), item))
          BY <2>2, <4>1, ApplyAgrees
      <4>3. Flagged(n, Apply(stat_map, item), TRUE)
          BY <2>2, <3>1, <4>1, ApplyFlags
      <4> QED
          BY <2>1, <2>7, <4>2, <4>3
    <3>5. NeverLasts(n)' => /\ AgreeAt(n, stat_map', Over(OfThisPeriod'))
                            /\ Flagged(n, stat_map', FALSE)
      <4> SUFFICES ASSUME NeverLasts(n)'
                   PROVE  /\ AgreeAt(n, stat_map', Over(OfThisPeriod'))
                          /\ Flagged(n, stat_map', FALSE)
          OBVIOUS
      <4>1. AgreeAt(n, stat_map, Over(OfThisPeriod)) /\ Flagged(n, stat_map, FALSE)
          BY <3>2, <3>3 DEF PassingOK
      <4>2. AgreeAt(n, Apply(stat_map, item), Apply(Over(OfThisPeriod), item))
          BY <2>2, <4>1, ApplyAgrees
      <4>3. Flagged(n, Apply(stat_map, item), FALSE)
          BY <2>2, <3>2, <4>1, ApplyFlags
      <4> QED
          BY <2>1, <2>8, <4>2, <4>3
    <3> QED
        BY <3>4, <3>5 DEF LastingOK, PassingOK
  <2> QED
      BY <2>4, <2>6, <2>9 DEF StatsInv
<1> QED
    BY <1>2, <1>3

(* The end of a period keeps the statistics that last, whole, and no other. *)
LEMMA StatsPeriod ==
    ASSUME StatsInv, NextPeriod
    PROVE  StatsInv'
<1>1. applied' = applied
    BY DEF NextPeriod
<1>2. CASE ~ (time - start_time_sec_ >= Period)
  <2>1. stat_map' = stat_map /\ frozen' = frozen
      BY <1>2 DEF NextPeriod
  <2> QED
      BY <1>1, <2>1
      DEF StatsInv, LastingOK, PassingOK, AlwaysLasts, NeverLasts, OfThisPeriod
<1>3. CASE time - start_time_sec_ >= Period
  <2>1. stat_map' = Inherit(stat_map) /\ frozen' = Len(applied)
      BY <1>3 DEF NextPeriod
  <2>2. applied \in Seq(MatrixItem) /\ Len(applied) \in Nat
      BY LenProperties DEF StatsInv
  <2>3. Over(OfThisPeriod') = <<>>
    <3>1. OfThisPeriod' = <<>>
        BY <1>1, <2>1, <2>2 DEF OfThisPeriod
    <3>2. Over(<<>>) = <<>>
      <4> DEFINE x == CHOOSE y : TRUE
      <4>1. x \in {x} /\ <<>> \in Seq({x})
          BY EmptySeq
      <4> QED
          BY <4>1, OverAppend
    <3> QED
        BY <3>1, <3>2
  <2>4. /\ \A n : n \in DOMAIN stat_map' <=> n \in DOMAIN stat_map /\ stat_map[n].persistent
        /\ \A n \in DOMAIN stat_map' : stat_map'[n] = stat_map[n]
      BY <2>1 DEF Inherit
  <2>5. \A n : (AlwaysLasts(n)' <=> AlwaysLasts(n)) /\ (NeverLasts(n)' <=> NeverLasts(n))
      BY <1>1 DEF AlwaysLasts, NeverLasts
  <2>6. ASSUME NEW n
        PROVE  LastingOK(n)' /\ PassingOK(n)'
    <3>1. LastingOK(n) /\ PassingOK(n)
        BY Zenon DEF StatsInv
    <3>2. LastingOK(n)'
      <4> SUFFICES ASSUME AlwaysLasts(n)'
                   PROVE  AgreeAt(n, stat_map', Over(applied')) /\ Flagged(n, stat_map', TRUE)
          BY DEF LastingOK
      <4>1. AgreeAt(n, stat_map, Over(applied)) /\ Flagged(n, stat_map, TRUE)
          BY <2>5, <3>1 DEF LastingOK
      <4>2. n \in DOMAIN stat_map' <=> n \in DOMAIN stat_map
          BY <2>4, <4>1 DEF Flagged
      <4> QED
          BY <1>1, <2>4, <4>1, <4>2 DEF AgreeAt, Flagged
    <3>3. PassingOK(n)'
      <4> SUFFICES ASSUME NeverLasts(n)'
                   PROVE  /\ AgreeAt(n, stat_map', Over(OfThisPeriod'))
                          /\ Flagged(n, stat_map', FALSE)
          BY DEF PassingOK
      <4>1. Flagged(n, stat_map, FALSE)
          BY <2>5, <3>1 DEF PassingOK
      <4>2. n \notin DOMAIN stat_map'
          BY <2>4, <4>1 DEF Flagged
      <4>3. n \notin DOMAIN <<>>
          BY EmptySeq
      <4> QED
          BY <2>3, <4>2, <4>3 DEF AgreeAt, Flagged
    <3> QED
        BY <3>2, <3>3
  <2>7. frozen' \in 0 .. Len(applied')
      BY <1>1, <2>1, <2>2
  <2> QED
      BY <1>1, <2>2, <2>6, <2>7 DEF StatsInv
<1> QED
    BY <1>2, <1>3

LEMMA StatsNext ==
    ASSUME StatsInv, MatrixInv, [MatrixNext]_matrixVars
    PROVE  StatsInv'
<1>1. CASE Drain
    BY <1>1, StatsDrain
<1>2. CASE NextPeriod
    BY <1>2, StatsPeriod
<1>3. CASE UNCHANGED <<stat_map, applied, frozen>>
    BY <1>3 DEF StatsInv, LastingOK, PassingOK, AlwaysLasts, NeverLasts, OfThisPeriod
<1>4. \/ Drain \/ NextPeriod \/ UNCHANGED <<stat_map, applied, frozen>>
    BY DEF MatrixNext, matrixVars, collectVars, Count, MarkBegin, MarkEnd, SendStep, Check, PushItem,
           CountFailure, Compare, Pause, Clear, StopCollector, LeaveRun, Tick
<1> QED
    BY <1>1, <1>2, <1>3, <1>4

(* For any items, any number of threads and however the periods fall: the  *)
(* map the collector fills has of a name what its items add up to, all of  *)
(* them if its calls are persistent, those of this period if none is       *)
(* (matrix_stat_map.h, MatrixCollector::Run). *)
THEOREM StatsCorrect == MatrixSpec => []StatsAreHistory
<1>1. ASSUME StatsInv PROVE StatsAreHistory
  <2> DEFINE uses(n) == {applied[i].persistent /\ applied[i].operation # "Reset" :
                             i \in {j \in DOMAIN applied : applied[j].name = n}}
  <2>1. \A n : uses(n) = {TRUE} => AlwaysLasts(n)
      BY DEF AlwaysLasts, Lasts
  <2>2. \A n : uses(n) = {FALSE} => NeverLasts(n)
      BY DEF NeverLasts, Lasts
  <2>3. \A n : LastingOK(n) /\ PassingOK(n)
      BY <1>1, Zenon DEF StatsInv
  <2> HIDE DEF uses
  <2>4. \A n : /\ uses(n) = {TRUE} => AgreeAt(n, stat_map, Over(applied))
               /\ uses(n) = {FALSE} => AgreeAt(n, stat_map, Over(OfThisPeriod))
      BY ONLY <2>1, <2>2, <2>3, Zenon DEF LastingOK, PassingOK
  <2> QED
      BY ONLY <2>4, Zenon DEF StatsAreHistory, AgreeAt, Over, OfThisPeriod, uses
<1> DEFINE Both == MatrixInv /\ StatsInv
<1>2. MatrixInit => Both
    BY MatrixInitInv, StatsStart
<1>3. Both /\ [MatrixNext]_matrixVars => Both'
    BY MatrixNextInv, StatsNext
<1> QED
    BY <1>1, <1>2, <1>3, PTL DEF MatrixSpec
=============================================================================
