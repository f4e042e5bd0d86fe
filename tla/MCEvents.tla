------------------------------ MODULE MCEvents -------------------------------
(***************************************************************************)
(* The event loop, and starting and stopping the process, in one run.  The *)
(* first state says which of the two moves; the other stays where it began.*)
(***************************************************************************)
EXTENDS EventDriver, Lifecycle

VARIABLE part

eventsVars == <<part, driverVars, lifecycleVars>>

EventsInit == part \in {"driver", "lifecycle"} /\ DriverInit /\ LifecycleInit

EventsNext ==
    /\ part' = part
    /\ \/ part = "driver" /\ DriverNext /\ UNCHANGED lifecycleVars
       \/ part = "lifecycle" /\ LifecycleNext /\ UNCHANGED driverVars

(* DriverFairness and LifecycleFairness, for the part that moves. *)
EventsFairness ==
    /\ WF_driverVars(part = "driver" /\ LoopStep)
    /\ \A c \in Caller : WF_driverVars(part = "driver" /\ AddModr(c))
    /\ WF_lifecycleVars(part = "lifecycle" /\ crash = "no" /\ MainStep)
    /\ WF_lifecycleVars(part = "lifecycle" /\ crash = "no" /\ Reconnect)
    /\ \A l \in Loops :
        /\ WF_lifecycleVars(part = "lifecycle" /\ crash = "no" /\ LoopBegins(l))
        /\ WF_lifecycleVars(part = "lifecycle" /\ crash = "no" /\ LoopEnds(l))
    /\ \A s \in 1 .. ServiceCount :
        WF_lifecycleVars(part = "lifecycle" /\ crash = "no" /\ s \in DOMAIN services /\ Serve(s))

EventsSpec == EventsInit /\ [][EventsNext]_eventsVars /\ EventsFairness
=============================================================================
