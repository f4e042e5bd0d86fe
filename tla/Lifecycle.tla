------------------------------ MODULE Lifecycle -------------------------------
(***************************************************************************)
(* How the process starts and stops: app/appbase, service/service_manager, *)
(* net_thread_mgr, its acceptor and IO threads, client/client_mgr and the  *)
(* reconnect thread, service/service_handle's loop.                        *)
(*                                                                         *)
(* AppRun starts the threads in order and waits for the service threads.   *)
(* SIGINT and SIGTERM run AppStop, the whole shutdown, on the interrupted  *)
(* main thread; and when the service threads have ended AppRun calls it    *)
(* again.  What can no longer be done is a crash, which ends the model.    *)
(***************************************************************************)
EXTENDS Integers, Sequences

CONSTANTS
    ServiceCount,   \* service_handle_thread_count
    MaxSignal       \* bound: signals that ever arrive

ASSUME LifecycleAssumption == ServiceCount \in Nat \ {0} /\ MaxSignal \in Nat

VARIABLES
    app,            \* where the main thread is
    stopping,       \* the AppStops it is in: the last one runs, the others wait for it
    signals,        \* how many signals have come
    early,          \* one came before AppStart had returned
    mgr,            \* net_thread_mgr_: "none", "live" or "freed"
    looping,        \* the acceptor's and the IO threads' loops
    keep,           \* their run_ flags
    joinable,       \* their thread_ pointers
    retry,          \* the reconnect thread, and its flag
    clients,        \* the clients' connections: "none", "made" or "stopped"
    services,       \* the service threads that were made: "running" or "ended"
    serving,        \* their is_run flags
    crash           \* what crashed, or "no"

lifecycleVars == <<app, stopping, signals, early, mgr, looping, keep, joinable, retry,
                   clients, services, serving, crash>>
loopThreadVars == <<looping, keep, joinable>>
serviceVars == <<services, serving>>

Loops == {"acceptor", "io"}

LifecycleInit ==
    /\ app = "init" /\ stopping = <<>> /\ signals = 0 /\ early = FALSE
    /\ mgr = "none"
    /\ looping = [l \in Loops |-> "none"] /\ keep = [l \in Loops |-> FALSE]
    /\ joinable = [l \in Loops |-> "null"]
    /\ retry = [thread |-> "none", run |-> FALSE] /\ clients = "none"
    /\ services = <<>> /\ serving = TRUE /\ crash = "no"

(* The main thread does the next thing of AppRun if it is in no AppStop.   *)
Main(from, to) == app = from /\ stopping = <<>> /\ app' = to

(* ServiceManager::Init: what failed is deleted. *)
InitService ==
    /\ \/ Main("init", "acceptor") /\ mgr' = "live"
       \/ Main("init", "failed") /\ mgr' = "freed"
    /\ UNCHANGED <<stopping, signals, early, loopThreadVars, retry, clients, serviceVars, crash>>

(* ServiceManager::Start and NetThreadManager::Start: the loops first. *)
StartThread(l) ==
    /\ Main(l, IF l = "acceptor" THEN "io" ELSE "services")
    /\ looping' = [looping EXCEPT ![l] = "starting"]
    /\ joinable' = [joinable EXCEPT ![l] = "made"]
    /\ UNCHANGED <<stopping, signals, early, mgr, keep, retry, clients, serviceVars, crash>>

StartServiceThread ==
    /\ app = "services" /\ stopping = <<>>
    /\ services' = Append(services, "running") /\ serving' = TRUE
    /\ app' = IF Len(services') = ServiceCount THEN "clients" ELSE app
    /\ UNCHANGED <<stopping, signals, early, mgr, loopThreadVars, retry, clients, crash>>

(* ClientMgr::Start: the connections, then the thread; without a router in *)
(* the configuration neither. *)
StartClients ==
    /\ \/ Main("clients", "failed") /\ UNCHANGED <<clients, crash>>
       \/ Main("clients", "after") /\ UNCHANGED <<clients, crash>>
       \/ /\ Main("clients", "retry")
          /\ clients' = "made"
          /\ crash' = IF mgr = "live" THEN crash ELSE "start"
    /\ UNCHANGED <<stopping, signals, early, mgr, loopThreadVars, retry, serviceVars>>

StartReconnect ==
    /\ Main("retry", "after")
    /\ retry' = [thread |-> "running", run |-> TRUE]
    /\ UNCHANGED <<stopping, signals, early, mgr, loopThreadVars, clients, serviceVars,
                   crash>>

AfterStart ==
    /\ Main("after", "wait") \/ Main("after", "failed")
    /\ UNCHANGED <<stopping, signals, early, mgr, loopThreadVars, retry, clients,
                   serviceVars, crash>>

(* ThreadWait, and AppRun's own AppStop.  (It does not come to its end: the *)
(* service threads end because of an AppStop, which frees the manager.)    *)
WaitForService ==
    /\ Main("wait", "stop")
    /\ \A s \in DOMAIN services : services[s] = "ended"
    /\ stopping' = <<"flag">>
    /\ UNCHANGED <<signals, early, mgr, loopThreadVars, retry, clients, serviceVars, crash>>

(* StopApp, at any point of the main thread. *)
Signal ==
    /\ signals < MaxSignal /\ app # "failed"
    /\ signals' = signals + 1 /\ stopping' = Append(stopping, "flag")
    /\ early' = (early \/ app \notin {"wait", "stop"})
    /\ UNCHANGED <<app, mgr, loopThreadVars, retry, clients, serviceVars, crash>>

----------------------------------------------------------------------------
(* AppStop, one blocking step after the other.                             *)

At(pc) == stopping # <<>> /\ stopping[Len(stopping)] = pc
Joining(l) == IF l = "acceptor" THEN "join acceptor" ELSE "join io"
AfterStopping(l) == IF l = "acceptor" THEN "io" ELSE "service"
Then(pc) == stopping' = [stopping EXCEPT ![Len(stopping)] = pc]

(* ClientReconnect::StopThread: the flag ... *)
StopReconnect ==
    /\ At("flag") /\ Then("routers")
    /\ retry' = [retry EXCEPT !.run = FALSE]
    /\ UNCHANGED <<app, signals, early, mgr, loopThreadVars, clients, serviceVars, crash>>

(* ... and the join; then the routers and their clients, which queue a     *)
(* close for each connection. *)
StopClients ==
    /\ At("routers") /\ Then("acceptor")
    /\ retry.thread # "running" /\ retry' = [retry EXCEPT !.thread = "none"]
    /\ clients' = IF clients = "made" THEN "stopped" ELSE clients
    /\ crash' = IF clients = "made" /\ mgr # "live" THEN "close" ELSE crash
    /\ UNCHANGED <<app, signals, early, mgr, loopThreadVars, serviceVars>>

(* Slip: NetThreadManager::Stop does not wait for its threads. *)
StopLoopNoJoin(l) ==
    /\ At(l) /\ Then(AfterStopping(l))
    /\ IF mgr # "live" \/ joinable[l] = "deleted"
       THEN crash' = "stop" /\ UNCHANGED keep
       ELSE keep' = [keep EXCEPT ![l] = FALSE] /\ UNCHANGED crash
    /\ UNCHANGED <<app, signals, early, mgr, looping, joinable, retry, clients, serviceVars>>

(* Slip: EventLoopThread::Stop does not stop the driver. *)
StopLoopKeeps(l) ==
    /\ At(l) /\ joinable[l] = "made" /\ Then(Joining(l))
    /\ UNCHANGED <<app, signals, early, mgr, looping, keep, joinable, retry, clients, serviceVars,
                   crash>>

(* NetThreadManager::Stop and EventLoopThread::Stop: of the acceptor, then *)
(* of the IO threads.  thread_ is deleted after the join, and kept. *)
StopLoop(l) ==
    /\ At(l)
    /\ IF mgr # "live" \/ joinable[l] = "deleted"
       THEN crash' = "stop" /\ UNCHANGED <<keep, stopping>>
       ELSE /\ keep' = [keep EXCEPT ![l] = FALSE] /\ UNCHANGED crash
            /\ Then(IF joinable[l] = "made" THEN Joining(l) ELSE AfterStopping(l))
    /\ UNCHANGED <<app, signals, early, mgr, looping, joinable, retry, clients, serviceVars>>

JoinLoop(l) ==
    /\ At(Joining(l)) /\ looping[l] = "ended"
    /\ joinable' = [joinable EXCEPT ![l] = "deleted"]
    /\ Then(AfterStopping(l))
    /\ crash' = IF joinable[l] = "deleted" THEN "stop" ELSE crash
    /\ UNCHANGED <<app, signals, early, mgr, looping, keep, retry, clients, serviceVars>>

(* ThreadStop, which counts on all threads having been made.  Nobody waits *)
(* for them here. *)
StopService ==
    /\ At("service") /\ Then("free")
    /\ IF Len(services) < ServiceCount
       THEN crash' = "stop" /\ UNCHANGED serving
       ELSE serving' = FALSE /\ UNCHANGED crash
    /\ UNCHANGED <<app, signals, early, mgr, loopThreadVars, retry, clients, services>>

(* The rest of ServiceManager::Stop, with GlobalMatrix::Destroy. *)
Free ==
    /\ At("free")
    /\ stopping' = SubSeq(stopping, 1, Len(stopping) - 1)
    /\ mgr' = "freed"
    /\ UNCHANGED <<app, signals, early, loopThreadVars, retry, clients, serviceVars, crash>>

----------------------------------------------------------------------------
(* The other threads.                                                      *)

(* EventDriver::Run begins, and ends. *)
LoopBegins(l) ==
    /\ looping[l] = "starting"
    /\ looping' = [looping EXCEPT ![l] = "running"] /\ keep' = [keep EXCEPT ![l] = TRUE]
    /\ UNCHANGED <<app, stopping, signals, early, mgr, joinable, retry, clients,
                   serviceVars, crash>>

LoopEnds(l) ==
    /\ looping[l] = "running" /\ ~keep[l]
    /\ looping' = [looping EXCEPT ![l] = "ended"]
    /\ UNCHANGED <<app, stopping, signals, early, mgr, keep, joinable, retry, clients,
                   serviceVars, crash>>

(* An IO thread hands a request over: modulo the number of service threads.*)
Request ==
    /\ looping["io"] = "running" /\ services = <<>>
    /\ crash' = "request"
    /\ UNCHANGED <<app, stopping, signals, early, mgr, loopThreadVars, retry, clients,
                   serviceVars>>

(* The reconnect thread connects (TryConnect), or ends. *)
Reconnect ==
    /\ retry.thread = "running"
    /\ \/ /\ mgr # "live" /\ crash' = "reconnect" /\ UNCHANGED retry
       \/ /\ ~retry.run /\ retry' = [retry EXCEPT !.thread = "ended"] /\ UNCHANGED crash
    /\ UNCHANGED <<app, stopping, signals, early, mgr, loopThreadVars, clients, serviceVars>>

(* A service thread sends (SendToNetThread, MatrixScope), or ends. *)
Serve(s) ==
    /\ services[s] = "running"
    /\ \/ /\ mgr # "live" /\ crash' = "service" /\ UNCHANGED services
       \/ /\ ~serving /\ services' = [services EXCEPT ![s] = "ended"] /\ UNCHANGED crash
    /\ UNCHANGED <<app, stopping, signals, early, mgr, loopThreadVars, retry, clients,
                   serving>>

MainStep ==
    \/ InitService \/ StartServiceThread \/ StartClients \/ StartReconnect \/ AfterStart
    \/ WaitForService \/ StopReconnect \/ StopClients \/ StopService \/ Free
    \/ \E l \in Loops : StartThread(l) \/ StopLoop(l) \/ JoinLoop(l)

LifecycleNext ==
    /\ crash = "no"
    /\ \/ MainStep \/ Signal \/ Request \/ Reconnect
       \/ \E l \in Loops : LoopBegins(l) \/ LoopEnds(l)
       \/ \E s \in DOMAIN services : Serve(s)

LifecycleSpec == LifecycleInit /\ [][LifecycleNext]_lifecycleVars

(* Every thread is scheduled. *)
LifecycleFairness ==
    /\ WF_lifecycleVars(crash = "no" /\ MainStep) /\ WF_lifecycleVars(crash = "no" /\ Reconnect)
    /\ \A l \in Loops :
        WF_lifecycleVars(crash = "no" /\ LoopBegins(l)) /\ WF_lifecycleVars(crash = "no" /\ LoopEnds(l))
    /\ \A s \in 1 .. ServiceCount :
        WF_lifecycleVars(crash = "no" /\ s \in DOMAIN services /\ Serve(s))

LifecycleFairSpec == LifecycleSpec /\ LifecycleFairness

----------------------------------------------------------------------------
(* Properties.                                                             *)

(* The network manager owns the loops' drivers, queues and connections, so *)
(* ServiceManager::Stop may delete it only when no loop and no reconnect   *)
(* thread is left to use it - unless the signal came while AppStart went   *)
(* on making them.  (The service threads it does not wait for.)            *)
ManagerOutlivesLoops ==
    ~early /\ mgr = "freed" =>
        (\A l \in Loops : looping[l] \in {"none", "ended"}) /\ retry.thread # "running"

(* Without a signal nothing is used that has not been made yet, but for a  *)
(* request that an IO thread has before there is a service thread: the     *)
(* loops are started first (service/service_manager.cpp:35).               *)
OnlyRequestIsEarly == signals = 0 => crash \in {"no", "request"}

(* Nothing is used before it is made, or after it is deleted, by the       *)
(* threads the start and the stop are ordered for.                         *)
LifecycleInv == ManagerOutlivesLoops /\ OnlyRequestIsEarly

(* A signal ends the loops, unless it comes before they run: a loop that   *)
(* has not begun sets run_ again, and is waited for for ever.  The process *)
(* may crash first, of a service thread that goes on.                      *)
SignalEndsLoops ==
    [](app = "wait" /\ stopping = <<"flag">> /\ (\A l \in Loops : looping[l] = "running")
        => <>((\A l \in Loops : looping[l] = "ended") \/ crash # "no"))

=============================================================================
