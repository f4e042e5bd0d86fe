---------------------------- MODULE EventDriver -----------------------------
(***************************************************************************)
(* The event loop of an IO thread: event/event_driver, event_data,         *)
(* event_notifier and event_loop_thread, with the calls that other threads *)
(* make on it through net_thread_mgr/io_threads (AddModr).                 *)
(*                                                                         *)
(* The loop thread polls, calls handlers and deletes; the acceptor and the *)
(* reconnect thread add descriptors while it runs.  None of them takes a   *)
(* lock, so each access to the table is a step.  An entry (FdEvent) is a   *)
(* number; 0 is nullptr.                                                   *)
(***************************************************************************)
EXTENDS Integers, Sequences, FiniteSets

CONSTANTS
    MaxFd,          \* descriptors are 1 .. MaxFd
    Init_fd2data,   \* the table's first size (init_fd2data)
    Incr_fd2data,   \* by how much it grows (incr_fd2data)
    Caller,         \* the threads that add descriptors
    MaxEntry        \* bound: how many entries exist at the same time

ASSUME DriverAssumption ==
    /\ MaxFd \in Nat /\ MaxEntry \in Nat
    /\ Init_fd2data \in Nat /\ Incr_fd2data \in Nat \ {0}

VARIABLES
    fd2data_,       \* the table: descriptor -> entry, for 0 .. fd2data_size_
    maxfd_,
    entry,          \* the entries that exist: [fd_, event_]
    closed_,        \* entries deleted inside a poll: kept until the destructor
    epoll,          \* the kernel's set: descriptor -> [ptr, mask]
    ready,          \* what the kernel has to report of a descriptor
    opened,         \* descriptors that are open
    eventfd,        \* the notifier's counter is not 0
    run_, inloop_,
    loop,           \* where the loop thread is
    events,         \* what epoll_wait returned and is not handled yet
    last,           \* this is the poll after the loop
    stop,           \* "no"; "early", "late": Stop came before or after Run
    at,             \* where each caller is in AddModr
    arg             \* its descriptor

callerVars == <<at, arg>>
loopVars == <<run_, inloop_, loop, events, last, stop>>
tableVars == <<fd2data_, maxfd_, entry, closed_>>
kernelVars == <<epoll, ready, opened>>
driverVars == <<tableVars, kernelVars, eventfd, loopVars, callerVars>>

Fds == 1 .. MaxFd
Hangup == {"rdhup", "hup"}                  \* EPOLLRDHUP; EPOLLHUP or EPOLLERR
fd2data_size_ == Cardinality(DOMAIN fd2data_) - 1
Without(f, x) == [y \in DOMAIN f \ {x} |-> f[y]]
With(f, x, v) == [y \in DOMAIN f \cup {x} |-> IF y = x THEN v ELSE f[y]]

DriverInit ==
    /\ fd2data_ = [i \in 0 .. Init_fd2data |-> 0] /\ maxfd_ = -1
    /\ entry = [e \in {} |-> 0] /\ closed_ = <<>>
    /\ epoll = [fd \in {} |-> 0] /\ ready = [fd \in Fds |-> {}] /\ opened = {}
    /\ eventfd = FALSE
    /\ run_ = FALSE /\ inloop_ = FALSE /\ loop = "off" /\ events = {} /\ last = FALSE
    /\ stop = "no"
    /\ at = [c \in Caller |-> "idle"] /\ arg = [c \in Caller |-> 0]

----------------------------------------------------------------------------
(* AddModr, on another thread (no thread calls AddModrw).  An error closes *)
(* the descriptor that was being added, as TryConnect does.                *)

InTable(fd) == fd \in 0 .. maxfd_ /\ fd2data_[fd] # 0
Goto(c, pc) == at' = [at EXCEPT ![c] = pc]
CloseFd(fd) ==
    /\ opened' = opened \ {fd}
    /\ epoll' = Without(epoll, fd)
    /\ ready' = [ready EXCEPT ![fd] = {}]
Fail(c) == Goto(c, "idle") /\ CloseFd(arg[c])

Open(c) ==
    /\ at[c] = "idle"
    /\ \E fd \in Fds \ opened :
        opened' = opened \cup {fd} /\ arg' = [arg EXCEPT ![c] = fd]
    /\ Goto(c, "add")
    /\ UNCHANGED <<tableVars, epoll, ready, eventfd, loopVars>>

(* EventData::ReInitEventData: by one increment, or as many as fd needs. *)
Grown(fd) ==
    LET by == (fd - fd2data_size_ + Incr_fd2data - 1) \div Incr_fd2data IN
    IF fd <= fd2data_size_ THEN fd2data_size_ ELSE fd2data_size_ + by * Incr_fd2data

(* EventDriver::Add up to the table; the test for a repeated descriptor    *)
(* does not look at the table's last slot.                                 *)
Add(c) ==
    /\ at[c] = "add"
    /\ LET fd == arg[c] IN
       IF fd < fd2data_size_ /\ fd2data_[fd] # 0
       THEN Fail(c) /\ UNCHANGED tableVars
       ELSE LET free == (1 .. MaxEntry) \ DOMAIN entry
                new == CHOOSE e \in free : \A other \in free : e <= other IN
            /\ free # {}
            /\ entry' = With(entry, new, [fd_ |-> fd, event_ |-> {}])
            /\ maxfd_' = IF fd > maxfd_ THEN fd ELSE maxfd_
            /\ fd2data_' = With([i \in 0 .. Grown(fd) |->
                                    IF i <= fd2data_size_ THEN fd2data_[i] ELSE 0], fd, new)
            /\ Goto(c, "ctl") /\ UNCHANGED <<closed_, kernelVars>>
    /\ UNCHANGED <<arg, eventfd, loopVars>>

(* Slip: an entry that the kernel refuses is freed and stays in the table. *)
CtlAddKeeps(c) ==
    /\ at[c] = "ctl"
    /\ LET fd == arg[c] IN
        \/ /\ epoll' = With(epoll, fd, [ptr |-> fd2data_[fd], mask |-> {}])
           /\ Goto(c, "modr") /\ UNCHANGED <<tableVars, ready, opened>>
        \/ /\ entry' = Without(entry, fd2data_[fd])
           /\ Fail(c) /\ UNCHANGED <<fd2data_, maxfd_, closed_>>
    /\ UNCHANGED <<arg, eventfd, loopVars>>

(* The rest of Add: the kernel may refuse (EPOLL_CTL_ADD).  From here the  *)
(* kernel reports a hangup, which no mask can exclude.                     *)
CtlAdd(c) ==
    /\ at[c] = "ctl"
    /\ LET fd == arg[c] IN
        \/ /\ epoll' = With(epoll, fd, [ptr |-> fd2data_[fd], mask |-> {}])
           /\ Goto(c, "modr") /\ UNCHANGED <<tableVars, ready, opened>>
        \/ /\ entry' = Without(entry, fd2data_[fd])
           /\ fd2data_' = [fd2data_ EXCEPT ![fd] = 0]
           /\ Fail(c) /\ UNCHANGED <<maxfd_, closed_>>
    /\ UNCHANGED <<arg, eventfd, loopVars>>

(* EventDriver::Modr: the entry is tested ...                              *)
Modr(c) ==
    /\ at[c] = "modr"
    /\ IF InTable(arg[c]) THEN Goto(c, "set") /\ UNCHANGED kernelVars ELSE Fail(c)
    /\ UNCHANGED <<tableVars, eventfd, loopVars, arg>>

(* ... then read again, and used: if the loop thread has deleted it in     *)
(* between, a null pointer is dereferenced.                                *)
SetEvent(c) ==
    /\ at[c] = "set"
    /\ LET e == fd2data_[arg[c]] IN
       IF e = 0
       THEN Goto(c, "crash") /\ UNCHANGED <<entry, eventfd>>
       ELSE /\ entry' = [entry EXCEPT ![e].event_ = {"in"}]
            /\ eventfd' = TRUE
            /\ Goto(c, "mod")
    /\ UNCHANGED <<fd2data_, maxfd_, closed_, kernelVars, loopVars, arg>>

(* Slip: Mod gives the kernel the interest the descriptor had before. *)
ModStale(c) ==
    /\ at[c] = "mod"
    /\ Goto(c, "idle")
    /\ UNCHANGED <<tableVars, kernelVars, eventfd, loopVars, arg>>

(* EventDriver::Mod *)
Mod(c) ==
    /\ at[c] = "mod"
    /\ LET fd == arg[c]  e == fd2data_[fd] IN
       IF e = 0 \/ fd \notin DOMAIN epoll
       THEN Fail(c)
       ELSE /\ epoll' = [epoll EXCEPT ![fd] = [ptr |-> e, mask |-> entry[e].event_]]
            /\ Goto(c, "idle") /\ UNCHANGED <<ready, opened>>
    /\ UNCHANGED <<tableVars, eventfd, loopVars, arg>>

----------------------------------------------------------------------------
(* The loop thread.                                                        *)

(* EventDriver::Del: only ever called on the loop thread. *)
Del(fd) ==
    IF InTable(fd)
    THEN /\ IF inloop_
            THEN closed_' = Append(closed_, fd2data_[fd]) /\ UNCHANGED entry
            ELSE entry' = Without(entry, fd2data_[fd]) /\ UNCHANGED closed_
         /\ fd2data_' = [fd2data_ EXCEPT ![fd] = 0]
         /\ epoll' = Without(epoll, fd)
    ELSE UNCHANGED <<entry, closed_, fd2data_, epoll>>

(* EventLoopThread::Start has made the thread, and Run begins. *)
StartLoop ==
    /\ loop = "off" /\ loop' = "timer"
    /\ run_' = TRUE
    /\ UNCHANGED <<tableVars, kernelVars, eventfd, inloop_, events, last, stop, callerVars>>

(* A descriptor whose registration is over. *)
Settled(fd) == fd \in DOMAIN epoll /\ \A c \in Caller : at[c] = "idle" \/ arg[c] # fd

(* Poll begins with the timers; a handler may give up its connection       *)
(* (SyncSequence::OnTimer): EventDel, then close.                          *)
TimerClose(fd) ==
    /\ loop = "timer" /\ loop' = "wait" /\ inloop_' = TRUE
    /\ Settled(fd)
    /\ fd2data_' = [fd2data_ EXCEPT ![fd] = 0]
    /\ IF inloop_
       THEN closed_' = Append(closed_, fd2data_[fd]) /\ UNCHANGED entry
       ELSE entry' = Without(entry, fd2data_[fd]) /\ UNCHANGED closed_
    /\ CloseFd(fd)
    /\ UNCHANGED <<maxfd_, eventfd, run_, events, last, stop, callerVars>>

Timers ==
    /\ loop = "timer" /\ loop' = "wait" /\ inloop_' = TRUE
    /\ UNCHANGED <<tableVars, kernelVars, eventfd, run_, events, last, stop, callerVars>>

AfterPoll == IF last THEN "exit" ELSE "call"

(* epoll_wait.  What it returns is edge triggered once Mod has set a mask; *)
(* a hangup of a descriptor without one is reported each time.  A timeout  *)
(* returns early and leaves inloop_ set.  Entry 0 is the notifier.         *)
Wait ==
    LET seen == [fd \in DOMAIN epoll |->
                    ready[fd] \cap (epoll[fd].mask \cup {"hup"} \cup
                                    IF epoll[fd].mask = {} THEN {} ELSE {"rdhup"})]
        batch == {[ptr |-> epoll[fd].ptr, flags |-> seen[fd]] :
                    fd \in {fd \in DOMAIN epoll : seen[fd] # {}}}
                 \cup IF eventfd THEN {[ptr |-> 0, flags |-> {"in"}]} ELSE {} IN
    /\ loop = "wait"
    /\ events' = batch
    /\ loop' = IF batch = {} THEN AfterPoll ELSE "events"
    /\ ready' = [fd \in Fds |-> IF fd \in DOMAIN epoll /\ epoll[fd].mask # {}
                                THEN ready[fd] \ seen[fd] ELSE ready[fd]]
    /\ UNCHANGED <<tableVars, epoll, opened, eventfd, run_, inloop_, last, stop, callerVars>>

(* One turn of the loop over what epoll_wait returned: the flags are read  *)
(* against the entry, and the handler of a closed connection deletes it.   *)
Handle(event) ==
    /\ loop = "events" /\ event \in events
    /\ events' = events \ {event}
    /\ IF event.ptr = 0
       THEN eventfd' = FALSE /\ UNCHANGED <<entry, closed_, fd2data_, epoll>>
       ELSE /\ IF event.flags \cap Hangup # {}
               THEN Del(entry[event.ptr].fd_)
               ELSE UNCHANGED <<entry, closed_, fd2data_, epoll>>
            /\ UNCHANGED eventfd
    /\ IF events' = {}
       THEN inloop_' = FALSE /\ loop' = AfterPoll
       ELSE UNCHANGED <<inloop_, loop>>
    /\ UNCHANGED <<maxfd_, ready, opened, run_, last, stop, callerVars>>

(* HandleIoActiveCloseEvent, in CallRun: the descriptor is closed and its  *)
(* table entry stays.                                                      *)
Destroy(fd) ==
    /\ loop = "call" /\ Settled(fd)
    /\ CloseFd(fd)
    /\ UNCHANGED <<tableVars, eventfd, loopVars, callerVars>>

(* Slip: what epoll_wait returned decides whether there is another turn. *)
AgainIgnores ==
    /\ loop = "call" /\ loop' = "timer"
    /\ last' = (~run_ /\ ~eventfd)
    /\ UNCHANGED <<tableVars, kernelVars, eventfd, run_, inloop_, events, stop, callerVars>>

(* CallRun returns, and Run tests run_. *)
Again ==
    /\ loop = "call" /\ loop' = "timer"
    /\ last' = ~run_
    /\ UNCHANGED <<tableVars, kernelVars, eventfd, run_, inloop_, events, stop, callerVars>>

(* EventDriver::Stop, once, by the main thread. *)
Stop ==
    /\ stop = "no"
    /\ stop' = IF loop = "off" THEN "early" ELSE "late"
    /\ run_' = FALSE
    /\ UNCHANGED <<tableVars, kernelVars, eventfd, inloop_, loop, events, last, callerVars>>

(* External: a hangup at an open descriptor.  (Data is left out: reading   *)
(* changes nothing here.) *)
Arrive(fd, flag) ==
    /\ fd \in opened /\ flag \notin ready[fd]
    /\ ready' = [ready EXCEPT ![fd] = @ \cup {flag}]
    /\ UNCHANGED <<tableVars, epoll, opened, eventfd, loopVars, callerVars>>

Crashed == \E c \in Caller : at[c] = "crash"

AddModr(c) == Add(c) \/ CtlAdd(c) \/ Modr(c) \/ SetEvent(c) \/ Mod(c)

LoopStep ==
    \/ StartLoop \/ Timers \/ Wait \/ Again
    \/ \E event \in events : Handle(event)

DriverNext ==
    /\ ~Crashed
    /\ \/ \E c \in Caller : Open(c) \/ AddModr(c)
       \/ LoopStep \/ Stop
       \/ \E fd \in Fds : TimerClose(fd) \/ Destroy(fd)
       \/ \E fd \in Fds, flag \in Hangup : Arrive(fd, flag)

DriverSpec == DriverInit /\ [][DriverNext]_driverVars
DriverFairness ==
    /\ WF_driverVars(LoopStep)
    /\ \A c \in Caller : WF_driverVars(AddModr(c))

DriverFairSpec == DriverSpec /\ DriverFairness

----------------------------------------------------------------------------
(* Properties.                                                             *)

Held == {fd2data_[i] : i \in DOMAIN fd2data_} \ {0}

(* Entries are freed by the loop thread while other threads add, and the   *)
(* kernel and the batch keep raw pointers to them.  No entry is used after *)
(* it was freed: whatever the table, the kernel, the batch and the list of *)
(* deferred frees refer to exists.                                         *)
NoDanglingEntry ==
    Held \cup {epoll[fd].ptr : fd \in DOMAIN epoll} \cup {closed_[i] : i \in DOMAIN closed_}
         \cup ({event.ptr : event \in events} \ {0}) \subseteq DOMAIN entry

(* The destructor frees the table's entries and the deferred ones: none is *)
(* in both, or twice in one of them.                                       *)
FreedOnce ==
    /\ \A i, j \in DOMAIN closed_ : closed_[i] = closed_[j] => i = j
    /\ \A i \in DOMAIN closed_ : closed_[i] \notin Held
    /\ \A i, j \in DOMAIN fd2data_ : fd2data_[i] = fd2data_[j] /\ fd2data_[i] # 0 => i = j

(* Once AddModr has returned, the kernel watches the descriptor for what   *)
(* its entry asks for, and would report that entry.                        *)
KernelAgrees ==
    \A fd \in DOMAIN epoll :
        /\ fd2data_[fd] = epoll[fd].ptr /\ entry[fd2data_[fd]].fd_ = fd
        /\ Settled(fd) => /\ epoll[fd].mask = entry[fd2data_[fd]].event_
                          /\ "in" \in epoll[fd].mask

(* A null entry is used only when the descriptor was hung up while it was  *)
(* being added.                                                            *)
OnlyHangupCrashes ==
    \A c \in Caller : at[c] = "crash" => "hup" \in ready[arg[c]]

DriverInv ==
    /\ DOMAIN fd2data_ = 0 .. fd2data_size_ /\ maxfd_ <= fd2data_size_
    /\ NoDanglingEntry /\ FreedOnce /\ KernelAgrees /\ OnlyHangupCrashes

(* A hangup is never missed: one that comes before the descriptor is       *)
(* completely registered is reported after, or by the kernel at once.      *)
HangupIsHandled ==
    \A fd \in Fds :
        [](fd \in DOMAIN epoll /\ ready[fd] # {} /\ loop # "exit"
            => <>(fd \notin DOMAIN epoll \/ loop = "exit" \/ Crashed))

(* A Stop that comes while the loop runs ends it, whatever arrives.        *)
LateStopEndsLoop == [](stop = "late" => <>(loop = "exit" \/ Crashed))
=============================================================================
