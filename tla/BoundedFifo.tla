---------------------------- MODULE BoundedFifo ----------------------------
(***************************************************************************)
(* What common/lockfree_ringbuffer.h promises the monitor: a first-in      *)
(* first-out queue of bounded length that any thread may use at any time.  *)
(* Each call takes effect at one moment between its start and its return.  *)
(***************************************************************************)
EXTENDS Integers, Sequences

CONSTANTS
    Thread,
    Data,
    Capacity,
    NoData      \* what a consumer's out_data holds before anything is put there

VARIABLES
    fifo,       \* what is in the queue
    call,       \* thread -> "none", "push", "pop", or "returning"
    out         \* thread -> the data of its call

fvars == <<fifo, call, out>>

AInit ==
    /\ fifo = <<>>
    /\ call = [t \in Thread |-> "none"]
    /\ out = [t \in Thread |-> NoData]

ACall(t, op, d) ==
    /\ call[t] = "none"
    /\ call' = [call EXCEPT ![t] = op]
    /\ out' = [out EXCEPT ![t] = d]
    /\ UNCHANGED fifo

APush(t) ==
    /\ call[t] = "push" /\ Len(fifo) < Capacity
    /\ fifo' = Append(fifo, out[t])
    /\ call' = [call EXCEPT ![t] = "returning"]
    /\ UNCHANGED out

APop(t) ==
    /\ call[t] = "pop" /\ fifo # <<>>
    /\ out' = [out EXCEPT ![t] = Head(fifo)]
    /\ fifo' = Tail(fifo)
    /\ call' = [call EXCEPT ![t] = "returning"]

\* push returns false only if the queue is full, pop only if it is empty.
ARefuse(t) ==
    /\ \/ call[t] = "push" /\ Len(fifo) = Capacity
       \/ call[t] = "pop" /\ fifo = <<>>
    /\ call' = [call EXCEPT ![t] = "none"]
    /\ UNCHANGED <<fifo, out>>

AReturn(t) ==
    /\ call[t] = "returning"
    /\ call' = [call EXCEPT ![t] = "none"]
    /\ UNCHANGED <<fifo, out>>

ANext ==
    \E t \in Thread :
        \/ \E d \in Data : ACall(t, "push", d)
        \/ ACall(t, "pop", NoData)
        \/ APush(t) \/ APop(t) \/ ARefuse(t) \/ AReturn(t)

ASpec == AInit /\ [][ANext]_fvars
=============================================================================
