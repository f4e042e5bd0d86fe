---------------------------- MODULE CoroutineSched ----------------------------
(***************************************************************************)
(* One CoroutineServiceHandler thread: its scheduler                       *)
(* (coroutine/coroutine_schedule.cpp, coroutine_impl.cpp), the mailbox of  *)
(* each coroutine (coroutine_actor.cpp), the loop that every coroutine     *)
(* runs (service/coroutine_service_handle.cpp) and the timers of the       *)
(* blocked calls (common/timer_mgr.cpp).  IO threads put results and       *)
(* requests into the thread's queue.                                       *)
(*                                                                         *)
(* A coroutine's stack is where it stands (at), the part of its batch that *)
(* it has not handled yet and the call that it waits for.  The thread runs *)
(* one coroutine until that yields.  Time is abstract: any timer may be    *)
(* the next that is due.  Definitions called "A slip" vary the one that    *)
(* follows; no specification uses them.                                    *)
(***************************************************************************)
EXTENDS Integers, Sequences, FiniteSets

CONSTANTS InitSize,     \* coroutine_size of the configuration
          MaxCoros,     \* bound: coroutines that may ever be created
          MaxCalls,     \* bound: calls of SendRecieve
          MaxRequests,  \* bound: requests, tasks and stray responses that arrive
          MessageKept   \* the caller reads its message before it can be freed

ASSUME CoroAssumption == /\ InitSize \in Nat /\ MaxCoros \in Nat
                         /\ InitSize >= 1 /\ MaxCoros >= InitSize
                         /\ MaxCalls \in Nat /\ MaxRequests \in Nat
                         /\ MessageKept \in BOOLEAN

None == -1
Ids == 0 .. (MaxCoros - 1)
Calls == 1 .. MaxCalls

\* A message is a request, a task, a response or a failed result.  seq names the
\* call a result belongs to, 0 if it belongs to none.
Msgs == [kind : {"request", "task", "response", "failed"}, seq : 0 .. MaxCalls]
Msg(kind, seq) == [kind |-> kind, seq |-> seq]

VARIABLES
  is_run,      \* HandleData::is_run
  running,     \* CoroSchedule::running
  cur,         \* CoroutineContext::cur_coroutine_id_
  cap,         \* CoroSchedule::cap: the coroutines created so far
  status,      \* CoroContext::status, "none" without a coroutine
  available,   \* available_coro_list_
  begin,       \* what available_coro_list_.begin() is, if it is not empty
  active,      \* active_coro_list_
  at,          \* where the coroutine stands in its loop
  loop,        \* "tasks" or "batch": the loop that called the user's code
  batch,       \* the items on the coroutine's stack, not yet handled
  call,        \* the call in which the coroutine is
  is_waiting, waiting_id, msg_list,   \* the fields of CoroutineActor
  timers,      \* timer_map_: [call, coro]; each call has at most one timer
  inbox,       \* HandleData::data_
  tasks,       \* HandleData::task_: how many
  requests,    \* how many requests, tasks and stray responses came
  calls,       \* Client::GetSequenceId: calls made so far
  owner,       \* coroutine_id in the call's message
  net,         \* "unused", "out", "answered" or "failed": the call in the IO thread
  result       \* "unused", "open", "answered" or "nothing": what the call returned

control == <<is_run, running, cur, cap, status>>
chosen  == <<available, begin>>
stacks  == <<at, loop, batch, call>>
mail    == <<is_waiting, waiting_id, msg_list>>
queues  == <<inbox, tasks, requests>>
book    == <<calls, owner, net, result>>
vars    == <<control, chosen, active, stacks, mail, timers, queues, book>>

Created == 0 .. (cap - 1)
Blocked == {c \in Ids : at[c] = "waiting"}
CallerOf(m) == IF m.seq = 0 THEN None ELSE owner[m.seq]

-----------------------------------------------------------------------------
(* The scheduler                                                           *)

Init ==
  /\ is_run = TRUE /\ running = None /\ cur = None
  /\ cap = InitSize
  /\ status = [c \in Ids |-> IF c < InitSize THEN "ready" ELSE "none"]
  /\ available = 0 .. (InitSize - 1)
  /\ begin \in 0 .. (InitSize - 1)
  /\ active = <<>>
  /\ at = [c \in Ids |-> "top"]
  /\ loop = [c \in Ids |-> "batch"]
  /\ batch = [c \in Ids |-> <<>>]
  /\ call = [c \in Ids |-> 0]
  /\ is_waiting = [c \in Ids |-> FALSE]
  /\ waiting_id = [c \in Ids |-> None]
  /\ msg_list = [c \in Ids |-> <<>>]
  /\ timers = {}
  /\ inbox = <<>> /\ tasks = 0 /\ requests = 0
  /\ calls = 0
  /\ owner = [s \in Calls |-> 0]
  /\ net = [s \in Calls |-> "unused"]
  /\ result = [s \in Calls |-> "unused"]

\* unordered_set: which element is first is the library's choice, and stays so
\* until the set changes.
InsertAvailable(c) ==
  /\ available' = available \cup {c}
  /\ begin' \in IF c \in available THEN {begin}
                ELSE IF available = {} THEN {c} ELSE {begin, c}

EraseAvailable(c) ==
  /\ available' = available \ {c}
  /\ begin' \in IF c = begin /\ available' # {} THEN available' ELSE {begin}

\* CoroutineYield(): back to the main context.
Suspend(c) == /\ running' = None /\ cur' = None
              /\ status' = [status EXCEPT ![c] = "suspend"]
              /\ UNCHANGED <<is_run, cap>>

\* A slip: the range check leaves the last coroutine out.
YieldToActiveButLast(c, k) ==
  IF k \in Created \ {cap - 1} /\ k # c
  THEN active' = Append(active, k) /\ Suspend(c)
  ELSE UNCHANGED <<active, control>>

\* CoroutineYieldToActive(k), called in coroutine c.
YieldToActive(c, k) ==
  IF k \in Created /\ k # c
  THEN active' = Append(active, k) /\ Suspend(c)
  ELSE UNCHANGED <<active, control>>

\* CoroutineResume(c), called in the main context.
Switch(c, s) ==
  /\ cur' = c
  /\ IF s[c] \in {"ready", "suspend"}
     THEN running' = c /\ status' = [s EXCEPT ![c] = "running"]
     ELSE UNCHANGED running /\ status' = s

\* Run's loop: coroutines with a result first.
ResumeActive ==
  /\ is_run /\ running = None /\ active # <<>>
  /\ Switch(Head(active), status)
  /\ active' = Tail(active)
  /\ UNCHANGED <<is_run, cap, chosen, stacks, mail, timers, queues, book>>

ResumeAvailable ==
  /\ is_run /\ running = None /\ active = <<>> /\ cur < 0
  /\ available # {}
  /\ Switch(begin, status)
  /\ UNCHANGED <<is_run, cap, chosen, active, stacks, mail, timers, queues, book>>

\* GetAvailableCoroId creates a coroutine when every other one is blocked.
AddNewCoroutine ==
  /\ is_run /\ running = None /\ active = <<>> /\ cur < 0
  /\ available = {} /\ cap < MaxCoros
  /\ cap' = cap + 1
  /\ InsertAvailable(cap)
  /\ Switch(cap, [status EXCEPT ![cap] = "ready"])
  /\ UNCHANGED <<is_run, active, stacks, mail, timers, queues, book>>

-----------------------------------------------------------------------------
(* The loop of a coroutine                                                 *)

\* Coroutine c runs and stands at l.
In(c, l) == running = c /\ at[c] = l
Goto(c, l) == at' = [at EXCEPT ![c] = l]

LoopTop(c) ==
  /\ In(c, "top") /\ is_run
  /\ Goto(c, "timer")
  /\ UNCHANGED <<control, chosen, active, loop, batch, call, mail, timers, queues, book>>

\* ProcessCoroutine returns, and MainFunc deletes the coroutine.
Finish(c) ==
  /\ In(c, "top") /\ ~is_run
  /\ status' = [status EXCEPT ![c] = "none"]
  /\ running' = None
  /\ UNCHANGED <<is_run, cur, cap, chosen, active, stacks, mail, timers, queues, book>>

\* RunTimer: take a timer that is due out of the map, then call OnTimer, which
\* leaves c for the coroutine that waits.  c goes on in RunTimer's loop.
FireTimer(c) ==
  /\ In(c, "timer")
  /\ \E t \in timers : timers' = timers \ {t} /\ YieldToActive(c, t.coro)
  /\ UNCHANGED <<chosen, stacks, mail, queues, book>>

\* No timer, or the next is not due.
TimersDone(c) ==
  /\ In(c, "timer")
  /\ Goto(c, "task")
  /\ UNCHANGED <<control, chosen, active, loop, batch, call, mail, timers, queues, book>>

TakeTasks(c) ==
  /\ In(c, "task")
  /\ IF tasks = 0
     THEN Goto(c, "process") /\ UNCHANGED <<batch, tasks>>
     ELSE /\ Goto(c, "tasks") /\ tasks' = 0
          /\ batch' = [batch EXCEPT ![c] = [i \in 1 .. tasks |-> Msg("task", 0)]]
  /\ UNCHANGED <<control, chosen, active, loop, call, mail, timers, inbox, requests, book>>

\* An item of the batch that calls the user's code, OnTask or Handle.
RunUserCode(c, l) ==
  /\ Goto(c, "user")
  /\ loop' = [loop EXCEPT ![c] = l]
  /\ batch' = [batch EXCEPT ![c] = Tail(@)]
  /\ UNCHANGED <<control, chosen, active, call, mail, timers, queues, book>>

NextTask(c) == In(c, "tasks") /\ batch[c] # <<>> /\ RunUserCode(c, "tasks")

TasksDone(c) ==
  /\ In(c, "tasks") /\ batch[c] = <<>>
  /\ Goto(c, "process")
  /\ UNCHANGED <<control, chosen, active, loop, batch, call, mail, timers, queues, book>>

\* Process: with an empty queue, sleep; every tenth time yield as well.
Idle(c, yields) ==
  /\ In(c, "process") /\ inbox = <<>>
  /\ Goto(c, "top")
  /\ IF yields THEN Suspend(c) ELSE UNCHANGED control
  /\ UNCHANGED <<chosen, active, loop, batch, call, mail, timers, queues, book>>

TakeBatch(c) ==
  /\ In(c, "process") /\ inbox # <<>>
  /\ batch' = [batch EXCEPT ![c] = inbox] /\ inbox' = <<>>
  /\ Goto(c, "batch")
  /\ UNCHANGED <<control, chosen, active, loop, call, mail, timers, tasks, requests, book>>

-----------------------------------------------------------------------------
(* ProcessMessageHandle: one message                                       *)

NextIs(c, kind) == In(c, "batch") /\ batch[c] # <<>> /\ Head(batch[c]).kind = kind
PopBatch(c) == batch' = [batch EXCEPT ![c] = Tail(@)]

BatchDone(c) ==
  /\ In(c, "batch") /\ batch[c] = <<>>
  /\ Goto(c, "top")
  /\ UNCHANGED <<control, chosen, active, loop, batch, call, mail, timers, queues, book>>

\* A status other than OK, or a response that names no coroutine: yield, and
\* destroy the message after coming back.
SkipMessage(c) ==
  /\ \/ NextIs(c, "failed")
     \/ NextIs(c, "response") /\ CallerOf(Head(batch[c])) < 0
  /\ PopBatch(c) /\ Suspend(c)
  /\ UNCHANGED <<chosen, active, at, loop, call, mail, timers, queues, book>>

HandleRequest(c) == NextIs(c, "request") /\ RunUserCode(c, "batch")

\* More than INNER_QUERY_SEND_PROTECT_TIME since it was received.
DropOldRequest(c) ==
  /\ NextIs(c, "request")
  /\ PopBatch(c)
  /\ UNCHANGED <<control, chosen, active, at, loop, call, mail, timers, queues, book>>

\* CoroutineActor::SendMessage accepts the response to the call it waits for.
Accepts(k, seq) == is_waiting[k] /\ waiting_id[k] = seq

ProcessClientItem(c) ==
  /\ NextIs(c, "response") /\ CallerOf(Head(batch[c])) >= 0
  /\ LET m == Head(batch[c])
         k == CallerOf(m)
     IN IF Accepts(k, m.seq)
        THEN /\ msg_list' = [msg_list EXCEPT ![k] = Append(@, m)]
             /\ waiting_id' = [waiting_id EXCEPT ![k] = None]
             /\ UNCHANGED is_waiting
             /\ YieldToActive(c, k)
        ELSE UNCHANGED <<mail, active, control>>
  /\ PopBatch(c)
  /\ UNCHANGED <<chosen, at, loop, call, timers, queues, book>>

-----------------------------------------------------------------------------
(* The user's code: Handle or OnTask, with calls of Client::SendRecieve    *)

UserDone(c) ==
  /\ In(c, "user")
  /\ Goto(c, loop[c])
  /\ UNCHANGED <<control, chosen, active, loop, batch, call, mail, timers, queues, book>>

\* A slip: two calls draw the same number.
SequenceIdRace == IF calls = 0 THEN 1 ELSE calls

\* Client::GetSequenceId
SequenceId == calls + 1

\* DoSendRecieve up to the return of DoSend.
DoSend(c) ==
  /\ In(c, "user") /\ calls < MaxCalls
  /\ LET s == SequenceId
     IN /\ calls' = calls + 1
        /\ call' = [call EXCEPT ![c] = s]
        /\ owner' = [owner EXCEPT ![s] = cur]
        /\ net' = [net EXCEPT ![s] = "out"]
        /\ result' = [result EXCEPT ![s] = "open"]
  /\ Goto(c, "sent")
  /\ UNCHANGED <<control, chosen, active, loop, batch, mail, timers, queues>>

Returns(c, r) == /\ result' = [result EXCEPT ![call[c]] = r]
                 /\ UNCHANGED <<calls, owner, net>>
                 /\ Goto(c, "user")

\* TimerMgr: a call's timer goes into timer_map_ and id_map_, and out of both.
AddTimer(s, c) == timers' = timers \cup {[call |-> s, coro |-> c]}
DelTimer(s) == timers' = {t \in timers : t.call # s}

\* A slip: the timer is left in the map.
TakeMailKeepTimer(c) ==
  /\ is_waiting' = [is_waiting EXCEPT ![c] = FALSE]
  /\ waiting_id' = [waiting_id EXCEPT ![c] = None]
  /\ UNCHANGED timers
  /\ IF msg_list[c] = <<>>
     THEN Returns(c, "nothing") /\ UNCHANGED msg_list
     ELSE /\ Returns(c, IF Head(msg_list[c]).seq = call[c] THEN "answered" ELSE "nothing")
          /\ msg_list' = [msg_list EXCEPT ![c] = Tail(@)]

\* RecieveMessage from "is_waiting_ = false" to the end.
TakeMail(c) ==
  /\ is_waiting' = [is_waiting EXCEPT ![c] = FALSE]
  /\ waiting_id' = [waiting_id EXCEPT ![c] = None]
  /\ DelTimer(call[c])
  /\ IF msg_list[c] = <<>>
     THEN Returns(c, "nothing") /\ UNCHANGED msg_list
     ELSE /\ Returns(c, IF Head(msg_list[c]).seq = call[c] THEN "answered" ELSE "nothing")
          /\ msg_list' = [msg_list EXCEPT ![c] = Tail(@)]

\* DoRecieve: SetWaitingId, then RecieveMessage up to the yield.
RecieveMessage(c) ==
  /\ In(c, "sent") /\ msg_list[c] = <<>>
  /\ is_waiting' = [is_waiting EXCEPT ![c] = TRUE]
  /\ waiting_id' = [waiting_id EXCEPT ![c] = call[c]]
  /\ AddTimer(call[c], cur)
  /\ EraseAvailable(c)
  /\ Suspend(c)
  /\ Goto(c, "waiting")
  /\ UNCHANGED <<active, loop, batch, call, msg_list, queues, book>>

\* A message is in the list already: RecieveMessage does not yield.
RecieveAtOnce(c) ==
  /\ In(c, "sent") /\ msg_list[c] # <<>>
  /\ TakeMail(c)
  /\ UNCHANGED <<control, chosen, active, loop, batch, call, queues>>

\* DoRecieve and RecieveMessage read the message after DoSend has given it away.
\* Once the response has come, the IO thread has destroyed it: its coroutine_id,
\* and the sequence_id that was read just before, may be another message's.
RecieveFreed(c) ==
  /\ ~MessageKept
  /\ In(c, "sent") /\ net[call[c]] = "answered"
  /\ is_waiting' = [is_waiting EXCEPT ![c] = TRUE]
  /\ \E id \in {call[c], None} : waiting_id' = [waiting_id EXCEPT ![c] = id]
  /\ Returns(c, "nothing")
  /\ UNCHANGED <<control, chosen, active, loop, batch, call, msg_list, timers, queues>>

\* A slip: the coroutine is not put back into available_coro_list_.
AwakeOnly(c) ==
  /\ In(c, "waiting")
  /\ TakeMail(c)
  /\ UNCHANGED <<control, chosen, active, loop, batch, call, queues>>

\* RecieveMessage after the yield.
Awake(c) ==
  /\ In(c, "waiting")
  /\ InsertAvailable(c)
  /\ TakeMail(c)
  /\ UNCHANGED <<control, active, loop, batch, call, queues>>

-----------------------------------------------------------------------------
(* Other threads                                                           *)

\* An IO thread's SendToServiceHandle.
Post(m) == /\ inbox' = Append(inbox, m)
           /\ UNCHANGED <<control, chosen, active, stacks, mail, timers, tasks>>

NewRequest ==
  /\ requests < MaxRequests /\ requests' = requests + 1
  /\ \E kind \in {"request", "response"} : Post(Msg(kind, 0))
  /\ UNCHANGED book

NewTask ==
  /\ requests < MaxRequests
  /\ requests' = requests + 1 /\ tasks' = tasks + 1
  /\ UNCHANGED <<control, chosen, active, stacks, mail, timers, inbox, book>>

\* A client connection returns at most one result of a call, or none at all.
Respond(s) ==
  /\ net[s] = "out"
  /\ \/ net' = [net EXCEPT ![s] = "answered"] /\ Post(Msg("response", s))
     \/ net' = [net EXCEPT ![s] = "failed"] /\ Post(Msg("failed", s))
  /\ UNCHANGED <<requests, calls, owner, result>>

\* ServiceManager::ThreadStop
Stop == /\ is_run /\ is_run' = FALSE
        /\ UNCHANGED <<running, cur, cap, status, chosen, active, stacks, mail,
                       timers, queues, book>>

\* Run has left its loop.
Stopped == ~is_run /\ running = None /\ UNCHANGED vars

-----------------------------------------------------------------------------
Coroutine(c) ==
  \/ LoopTop(c) \/ Finish(c)
  \/ FireTimer(c) \/ TimersDone(c)
  \/ TakeTasks(c) \/ NextTask(c) \/ TasksDone(c)
  \/ \E yields \in BOOLEAN : Idle(c, yields)
  \/ TakeBatch(c) \/ BatchDone(c)
  \/ SkipMessage(c) \/ HandleRequest(c) \/ DropOldRequest(c) \/ ProcessClientItem(c)
  \/ UserDone(c) \/ DoSend(c)
  \/ RecieveMessage(c) \/ RecieveAtOnce(c) \/ RecieveFreed(c) \/ Awake(c)

ServiceThread == \/ ResumeActive \/ ResumeAvailable \/ AddNewCoroutine
                 \/ \E c \in Ids : Coroutine(c)

OtherThreads == NewRequest \/ NewTask \/ Stop \/ \E s \in Calls : Respond(s)

Next == ServiceThread \/ OtherThreads \/ Stopped

Spec == Init /\ [][Next]_vars

\* The thread goes on; every tenth round without messages yields; the clock
\* passes the time of every timer.
FireTimerOf(s) == \E c \in Ids : FireTimer(c) /\ s \in {t.call : t \in timers \ timers'}
Fairness == /\ WF_vars(ServiceThread)
            /\ SF_vars(\E c \in Ids : Idle(c, TRUE))
            /\ \A s \in Calls : SF_vars(FireTimerOf(s))
FairSpec == Spec /\ Fairness

-----------------------------------------------------------------------------
(* Properties                                                              *)

ControlType ==
  /\ is_run \in BOOLEAN
  /\ running \in Ids \cup {None} /\ cur \in Ids \cup {None}
  /\ cap \in InitSize .. MaxCoros
  /\ status \in [Ids -> {"none", "ready", "running", "suspend"}]
ChosenType == available \subseteq Created /\ begin \in Ids
StackType ==
  /\ at \in [Ids -> {"top", "timer", "task", "tasks", "process", "batch",
                     "user", "sent", "waiting"}]
  /\ loop \in [Ids -> {"tasks", "batch"}]
  /\ batch \in [Ids -> Seq(Msgs)]
  /\ call \in [Ids -> 0 .. MaxCalls]
MailType ==
  /\ is_waiting \in [Ids -> BOOLEAN]
  /\ waiting_id \in [Ids -> Calls \cup {None}]
  /\ msg_list \in [Ids -> Seq(Msgs)]
QueueType == inbox \in Seq(Msgs) /\ tasks \in Nat /\ requests \in Nat
BookType ==
  /\ calls \in 0 .. MaxCalls
  /\ owner \in [Calls -> Ids]
  /\ net \in [Calls -> {"unused", "out", "answered", "failed"}]
  /\ result \in [Calls -> {"unused", "open", "answered", "nothing"}]

TypeOK == /\ ControlType /\ ChosenType /\ StackType /\ MailType /\ QueueType
          /\ BookType
          /\ active \in Seq(Ids)
          /\ timers \subseteq [call : Calls, coro : Ids]

\* The scheduler may start or continue exactly the coroutines that are not blocked
\* in RecieveMessage, whatever list a coroutine was last resumed from; the one it
\* starts next is one of them.
AvailableUnlessBlocked ==
  /\ available = Created \ Blocked
  /\ available # {} => begin \in available

\* active_coro_list_ never holds more than one coroutine, and only between the
\* yield that put it there and the main loop's next turn.
ActiveIsNext == active # <<>> => Len(active) = 1 /\ running = None

\* What CoroutineYieldToActive wakes is blocked in RecieveMessage: a coroutine is
\* not woken at another place of its stack.
ActiveIsBlocked == \A i \in 1 .. Len(active) : active[i] \in Blocked

\* A blocked coroutine has its timer in timer_map_ or is the one being resumed, so
\* that no wake-up is lost, and no timer outlives its call.
BlockedHasTimer ==
  /\ \A c \in Blocked : \/ [call |-> call[c], coro |-> c] \in timers
                         \/ running = c
                         \/ \E i \in 1 .. Len(active) : active[i] = c
  /\ \A t \in timers : t.coro \in Blocked /\ call[t.coro] = t.call

\* What is in a mailbox is the response to the call in which its coroutine is
\* blocked (coroutine_actor.cpp:56 calls anything else impossible).
MailAnswersCall ==
  \A c \in Ids : msg_list[c] # <<>> =>
     c \in Blocked /\ Len(msg_list[c]) = 1 /\ Head(msg_list[c]).seq = call[c]

\* A coroutine that is blocked without mail accepts the response to its call: a
\* response that comes in time is not destroyed as a late one.
BlockedAccepts ==
  \A c \in Blocked : msg_list[c] = <<>> => Accepts(c, call[c])

\* No wake-up is lost, and none goes to a coroutine at another place of its stack.
SchedulerOK == TypeOK /\ AvailableUnlessBlocked /\ ActiveIsNext /\ BlockedHasTimer

\* As long as the caller's message is kept, what wakes a coroutine is its timer or the
\* response to its own call.
MailboxMatchesCall == ActiveIsBlocked /\ MailAnswersCall /\ BlockedAccepts

\* SendRecieve returns: a caller does not stay blocked while the thread runs.
CallsReturn == \A c \in Ids : c \in Blocked ~> (c \notin Blocked \/ ~is_run)

\* A call returns the response to this call, or nothing, and returns once.
SR == INSTANCE SendRecieve WITH Callers <- Ids, caller <- owner, phase <- result,
                                given <- {s \in Calls : net[s] = "answered"}
SendRecieveSpec == SR!Spec

\* A message with another sequence id is impossible (coroutine_actor.cpp:56): what
\* RecieveMessage finds in the mailbox is the response to its own message.
NoMismatch ==
  \A c \in Ids : (In(c, "sent") \/ In(c, "waiting")) /\ msg_list[c] # <<>>
                  => Head(msg_list[c]).seq = call[c]
===============================================================================
