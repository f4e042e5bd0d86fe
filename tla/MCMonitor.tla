------------------------------ MODULE MCMonitor ------------------------------
(***************************************************************************)
(* The monitor in one run: the ring buffer of its queues, step by step,    *)
(* and the items that go through them.  The first state says which of the  *)
(* two moves; the other stays where it began.                              *)
(***************************************************************************)
EXTENDS RingBuffer, Matrix

VARIABLE part

monitorVars == <<part, vars, matrixVars>>

MonitorInit == part \in {"ring", "matrix"} /\ Init /\ MatrixInit

MonitorNext ==
    /\ part' = part
    /\ \/ part = "ring" /\ Next /\ UNCHANGED matrixVars
       \/ part = "matrix" /\ MatrixNext /\ UNCHANGED vars

(* The fairness of RingBuffer's FairSpec and MatrixFairness, for the part  *)
(* that moves.                                                             *)
MonitorFairness ==
    /\ \A t \in Thread : WF_vars(part = "ring" /\ InLock(t))
    /\ WF_matrixVars(part = "matrix" /\ NextPeriod) /\ WF_matrixVars(part = "matrix" /\ Drain)
    /\ WF_matrixVars(part = "matrix" /\ LeaveRun)
    /\ \A t \in Sender : WF_matrixVars(part = "matrix" /\ SendStep(t))

MonitorSpec == MonitorInit /\ [][MonitorNext]_monitorVars /\ MonitorFairness

(* One item is a counter that is kept from period to period, one a time    *)
(* with a result that is not.                                              *)
Items ==
    {[name |-> "a", operation |-> "Add", result |-> "", persistent |-> TRUE, val |-> 1],
     [name |-> "b", operation |-> "TimeDistribute", result |-> "OK", persistent |-> FALSE, val |-> 3]}
=============================================================================
