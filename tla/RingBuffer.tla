----------------------------- MODULE RingBuffer -----------------------------
(***************************************************************************)
(* MPMCLockfreeRingbuffer of common/lockfree_ringbuffer.h: push and pop by *)
(* any number of threads, one step per access to the shared memory.        *)
(*                                                                         *)
(* The spin lock is taken by an atomic exchange or compare-and-swap: both  *)
(* take it exactly when it is free, and the turns of the waiting loop      *)
(* change nothing.  head and tail are 64 bits wide and only ever count up  *)
(* by one, so their overflow is out of reach.                              *)
(*                                                                         *)
(* The array is allocated with real_queue_size_ elements, but `& real_     *)
(* queue_size_` also yields real_queue_size_, one past its end.  Whether   *)
(* what is written there can be read back depends on the allocator, which  *)
(* is the constant Padded: TRUE when the allocation is rounded up (as it   *)
(* is for the sizes config_info.h sets, which malloc serves in pages).     *)
(*                                                                         *)
(* A definition after the words `A slip` is a wrong variant of the next    *)
(* one, there to see a property fail.                                      *)
(***************************************************************************)
EXTENDS Integers, Sequences

CONSTANTS
    Producer, Consumer,
    Data,
    NoData,             \* the null pointer a consumer passes in
    real_queue_size_,   \* 2^k - 1
    Padded,
    MaxHead             \* bound: no push starts once this many have been made

Thread == Producer \cup Consumer

ASSUME RingAssumption ==
    /\ Producer \cap Consumer = {}
    /\ real_queue_size_ \in Nat
    /\ Padded \in BOOLEAN
    /\ NoData \notin Data

VARIABLES
    head, tail,     \* info.head, info.tail
    lock,           \* spin_lock.lock
    queue_vec,
    pc,             \* where each thread is in its call
    seen,           \* each thread's local head and tail
    data            \* push's argument or pop's out_data

shared == <<head, tail, lock, queue_vec>>
vars == <<shared, pc, seen, data>>

Index == 0 .. real_queue_size_
Mask(n) == n % (real_queue_size_ + 1)

(* What reading queue_vec[i] can yield. *)
Read(i) == IF i < real_queue_size_ \/ Padded THEN {queue_vec[i]} ELSE Data \cup {NoData}

Init ==
    /\ head = 0 /\ tail = 0 /\ lock = 0
    /\ queue_vec = [i \in Index |-> NoData]
    /\ pc = [t \in Thread |-> "idle"]
    /\ seen = [t \in Thread |-> [head |-> 0, tail |-> 0]]
    /\ data = [t \in Thread |-> NoData]

Goto(t, from, to) == pc[t] = from /\ pc' = [pc EXCEPT ![t] = to]

----------------------------------------------------------------------------
Push(t, d) ==
    /\ Goto(t, "idle", "spin")
    /\ data' = [data EXCEPT ![t] = d]
    /\ UNCHANGED <<shared, seen>>

(* ProcessQueue clears the variable it passes to pop. *)
Pop(t) ==
    /\ Goto(t, "idle", "spin")
    /\ data' = [data EXCEPT ![t] = NoData]
    /\ UNCHANGED <<shared, seen>>

(* A slip: the lock is set without a look at it. *)
AcquireAlways(t) ==
    /\ Goto(t, "spin", "look")
    /\ lock' = 1
    /\ UNCHANGED <<head, tail, queue_vec, seen, data>>

Acquire(t) ==
    /\ lock = 0
    /\ Goto(t, "spin", "look")
    /\ lock' = 1
    /\ UNCHANGED <<head, tail, queue_vec, seen, data>>

Look(t) ==
    /\ Goto(t, "look", "decide")
    /\ seen' = [seen EXCEPT ![t] = [head |-> head, tail |-> tail]]
    /\ UNCHANGED <<shared, data>>

IsFull(s) == s.head - s.tail >= real_queue_size_

IsEmpty(s) == s.tail >= s.head

(* The local variables are gone. *)
Returns(t) == seen' = [seen EXCEPT ![t] = [head |-> 0, tail |-> 0]]

(* A slip: no early return, but another look with the lock held. *)
RefuseWaits(t) ==
    /\ t \in Producer => IsFull(seen[t])
    /\ t \in Consumer => IsEmpty(seen[t])
    /\ Goto(t, "decide", "look")
    /\ UNCHANGED <<shared, seen, data>>

(* The early returns: the lock is given back with a plain store. *)
Refuse(t) ==
    /\ t \in Producer => IsFull(seen[t])
    /\ t \in Consumer => IsEmpty(seen[t])
    /\ Goto(t, "decide", "idle")
    /\ lock' = 0 /\ Returns(t)
    /\ UNCHANGED <<head, tail, queue_vec, data>>

Write(t) ==
    /\ t \in Producer /\ ~ IsFull(seen[t])
    /\ Goto(t, "decide", "publish")
    /\ queue_vec' = [queue_vec EXCEPT ![Mask(seen[t].head)] = data[t]]
    /\ UNCHANGED <<head, tail, lock, seen, data>>

(* A slip: the other index, the newest element. *)
TakeNewest(t) ==
    /\ t \in Consumer /\ ~ IsEmpty(seen[t])
    /\ Goto(t, "decide", "publish")
    /\ \E d \in Read(Mask(seen[t].head - 1)) : data' = [data EXCEPT ![t] = d]
    /\ UNCHANGED <<shared, seen>>

Take(t) ==
    /\ t \in Consumer /\ ~ IsEmpty(seen[t])
    /\ Goto(t, "decide", "publish")
    /\ \E d \in Read(Mask(seen[t].tail)) : data' = [data EXCEPT ![t] = d]
    /\ UNCHANGED <<shared, seen>>

Publish(t) ==
    /\ Goto(t, "publish", "unlock")
    /\ IF t \in Producer
       THEN head' = seen[t].head + 1 /\ UNCHANGED tail
       ELSE tail' = seen[t].tail + 1 /\ UNCHANGED head
    /\ UNCHANGED <<lock, queue_vec, seen, data>>

Unlock(t) ==
    /\ Goto(t, "unlock", "idle")
    /\ lock' = 0 /\ Returns(t)
    /\ UNCHANGED <<head, tail, queue_vec, data>>

----------------------------------------------------------------------------
Start(t) ==
    \/ t \in Producer /\ head < MaxHead /\ \E d \in Data : Push(t, d)
    \/ t \in Consumer /\ Pop(t)

(* What a thread does once it has the lock. *)
InLock(t) == Look(t) \/ Refuse(t) \/ Write(t) \/ Take(t) \/ Publish(t) \/ Unlock(t)

Next == \E t \in Thread : Start(t) \/ Acquire(t) \/ InLock(t)

Spec == Init /\ [][Next]_vars

(* A thread that holds the lock is scheduled again. *)
FairSpec == Spec /\ \A t \in Thread : WF_vars(InLock(t))

----------------------------------------------------------------------------
Holding(t) == pc[t] \notin {"idle", "spin"}

(* The values the variables range over. *)
TypeOK ==
    /\ head \in Nat /\ tail \in Nat
    /\ lock \in {0, 1}
    /\ queue_vec \in [Index -> Data \cup {NoData}]
    /\ pc \in [Thread -> {"idle", "spin", "look", "decide", "publish", "unlock"}]
    /\ seen \in [Thread -> [head : Nat, tail : Nat]]
    /\ data \in [Thread -> Data \cup {NoData}]

(* The lock is free exactly when no call is between taking it and giving   *)
(* it back (every early return gives it back), and one call at most is.    *)
MutualExclusion ==
    /\ lock = 0 <=> \A t \in Thread : ~ Holding(t)
    /\ \A s, t \in Thread : Holding(s) /\ Holding(t) => s = t

(* The unsigned `head - tail` of size() never wraps and never exceeds the  *)
(* capacity.                                                               *)
SizeInRange == tail <= head /\ head - tail <= real_queue_size_

(* The head and tail a thread has copied are still the queue's when it     *)
(* acts on them: its room or its element is still there, and the slot it   *)
(* filled still holds its data when head is moved past it.                 *)
ViewIsCurrent ==
    \A t \in Thread :
        /\ pc[t] \in {"decide", "publish"} => seen[t].head = head /\ seen[t].tail = tail
        /\ pc[t] = "publish" /\ t \in Producer =>
                ~ IsFull(seen[t]) /\ queue_vec[Mask(head)] = data[t]
        /\ pc[t] = "publish" /\ t \in Consumer => ~ IsEmpty(seen[t])

(* What every caller of push and pop relies on, at each of its steps.      *)
RingOK == TypeOK /\ MutualExclusion /\ SizeInRange /\ ViewIsCurrent

(* The allocation has real_queue_size_ elements. *)
IndexInArray ==
    \A t \in Thread :
        pc[t] = "decide" =>
            /\ t \in Producer /\ ~ IsFull(seen[t]) => Mask(seen[t].head) < real_queue_size_
            /\ t \in Consumer /\ ~ IsEmpty(seen[t]) => Mask(seen[t].tail) < real_queue_size_

(* Whoever takes the lock gives it back. *)
LockReleased == lock = 1 ~> lock = 0

(* The queue as its users see it.  push takes effect when it publishes     *)
(* head, and pop when it takes the element, which is before it publishes   *)
(* tail.                                                                   *)
Taken == IF \E t \in Consumer : pc[t] = "publish" THEN 1 ELSE 0

FIFO == INSTANCE BoundedFifo WITH
    Capacity <- real_queue_size_,
    fifo <- [i \in 1 .. head - (tail + Taken) |-> queue_vec[Mask(tail + Taken + i - 1)]],
    call <- [t \in Thread |->
                CASE pc[t] = "idle" -> "none"
                  [] pc[t] = "unlock" \/ (pc[t] = "publish" /\ t \in Consumer) -> "returning"
                  [] OTHER -> IF t \in Producer THEN "push" ELSE "pop"],
    out <- data

(* push and pop are the calls of a bounded first-in first-out queue. *)
FifoSpec == FIFO!ASpec
=============================================================================
