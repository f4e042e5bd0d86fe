---------------------------- MODULE AsyncRequest ----------------------------
(***************************************************************************)
(* The life of a request of an asynchronous (rapid) client: Client::Invoke *)
(* on a service thread, the queue to the IO thread, AsyncClientConnect and *)
(* AsyncSequence there, the IO thread's Timer, and the result that goes    *)
(* back to the service thread.                                             *)
(*                                                                         *)
(* Everything but the two queues belongs to one IO thread, because a       *)
(* connection's messages, events and timers are all given to the thread    *)
(* `pointer % io_thread_count`.  The thread's loop is EventDriver::Run:    *)
(* timers, then events, then the queued messages.  The connection stays in *)
(* status kConnected; a peer that has closed is a server that no longer    *)
(* answers.                                                                *)
(*                                                                         *)
(* A request stands for its message, its sequence_id (GetSequenceId gives  *)
(* every message its own) and its callback.  list_ holds the same messages *)
(* as registery_ and is read by no reachable code, so it is left out.      *)
(* A definition after the words `A slip` is a wrong variant of the next    *)
(* one, there to see a property fail.                                      *)
(***************************************************************************)
EXTENDS Integers, Sequences, FiniteSets, HeapOps

CONSTANTS
    Request,        \* messages sent with Client::Invoke
    OneWay,         \* messages sent with Client::Send (kOnlySend)
    Timeout,        \* Request -> timeout_ms_ of the client it is sent through
    Protect,        \* INNER_QUERY_SEND_PROTECT_TIME
    Window,         \* bound: how many requests the callers keep outstanding
    LastInvoke      \* bound: the clock value after which nothing is sent

Message == Request \cup OneWay

ASSUME ClientAssumption ==
    /\ IsFiniteSet(Message) /\ Request \cap OneWay = {}
    /\ Timeout \in [Request -> Nat \ {0}]
    /\ Protect \in Nat /\ Window \in Nat /\ LastInvoke \in Nat

VARIABLES
    now,            \* Time::GetCurrentClockTime
    birthtime,      \* of every message sent
    data_,          \* HandleData::data_: the queue to the IO thread
    temp,           \* the batch CallRun has taken from it
    phase,          \* where the IO thread is in EventDriver::Run
    cur_time_ms,    \* what ProcessTimer read
    registery_,     \* requests waiting for their response
    timer_out_id,   \* EventMessage::timer_out_id
    heap_timer_,    \* the IO thread's timers, keyed by time_out_ms
    function_data,  \* timer node -> the request whose sequence_id it points at
    robbed,         \* history: ProcessTimer has popped another request's timer
    sent,           \* messages written to the connection
    arrived,        \* responses that can be read, in order
    answered,       \* requests the server has answered
    results,        \* request -> the statuses its callback has been given
    destroyed       \* messages given to MessageFactory::Destroy

ioVars == <<temp, phase, cur_time_ms, registery_, timer_out_id, heap_timer_, function_data,
            robbed>>
vars == <<now, birthtime, data_, ioVars, sent, arrived, answered, results, destroyed>>

NoTimer == 0
HeapSlots == 0 .. Cardinality(Request)
Elems(s) == {s[i] : i \in 1 .. Len(s)}

(* Every timer is due by then: a message waits at most Protect in the queue. *)
Horizon ==
    LET longest == CHOOSE t \in {Timeout[m] : m \in Request} : \A m \in Request : Timeout[m] <= t
    IN  LastInvoke + Protect + longest

Init ==
    /\ now = 0
    /\ birthtime = [m \in {} |-> 0]
    /\ data_ = <<>> /\ temp = <<>>
    /\ phase = "poll" /\ cur_time_ms = 0
    /\ registery_ = {}
    /\ timer_out_id = [m \in Request |-> NoTimer]
    /\ heap_timer_ = NewHeap(Cardinality(HeapSlots), HeapSlots, 0)
    /\ function_data = [n \in {} |-> 0]
    /\ robbed = FALSE
    /\ sent = {} /\ arrived = <<>> /\ answered = {}
    /\ results = [m \in Request |-> <<>>]
    /\ destroyed = {}

Outstanding == {m \in Request \cap DOMAIN birthtime : results[m] = <<>>}

----------------------------------------------------------------------------
(* Client::Invoke and Client::Send on a service thread. *)
Send(m) ==
    /\ m \notin DOMAIN birthtime
    /\ now <= LastInvoke
    /\ m \in Request => Cardinality(Outstanding) < Window
    /\ birthtime' = [x \in DOMAIN birthtime \cup {m} |-> IF x = m THEN now ELSE birthtime[x]]
    /\ data_' = Append(data_, m)
    /\ UNCHANGED <<now, ioVars, sent, arrived, answered, results, destroyed>>

(* The server answers a request it has received, late, early or never. *)
Answer(m) ==
    /\ m \in sent \cap Request /\ m \notin answered
    /\ answered' = answered \cup {m}
    /\ arrived' = Append(arrived, m)
    /\ UNCHANGED <<now, birthtime, data_, ioVars, sent, results, destroyed>>

Tick ==
    /\ now < Horizon
    /\ now' = now + 1
    /\ UNCHANGED <<birthtime, data_, ioVars, sent, arrived, answered, results, destroyed>>

----------------------------------------------------------------------------
SendToServiceHandle(m, status) == results' = [results EXCEPT ![m] = Append(@, status)]

(* A slip: the timer is not cancelled. *)
AfterNoCancel(m) == heap_timer_

(* AsyncSequence::CancelTimer -> Timer::DelTimer -> HeapBase::Erase. *)
AfterCancel(m) ==
    IF timer_out_id[m] = NoTimer THEN heap_timer_
    ELSE EraseNode(heap_timer_, timer_out_id[m])

(* Poll calls ProcessTimer, which reads the clock once. *)
StartTimers ==
    /\ phase = "poll"
    /\ IF heap_timer_.num = 0
       THEN phase' = "events" /\ UNCHANGED cur_time_ms
       ELSE phase' = "timers" /\ cur_time_ms' = now
    /\ UNCHANGED <<now, birthtime, data_, temp, registery_, timer_out_id, heap_timer_,
                   function_data, robbed, sent, arrived, answered, results, destroyed>>

(* A slip: the first timer fires whatever the time is. *)
TopIsThere == heap_timer_.num > 0

TopIsDue == heap_timer_.num > 0 /\ cur_time_ms >= KeyAt(heap_timer_, 1)

(* The id behind function_data: a message that has left the registery may  *)
(* be freed, and its memory may hold the id of another one.                *)
SequenceIdRead(m) == IF m \in registery_ THEN {m} ELSE Request

(* A slip: the request is found by its timer, but stays registered. *)
FireTimerKeeps ==
    /\ phase = "timers"
    /\ TopIsDue
    /\ \E m \in SequenceIdRead(function_data[TopNode(heap_timer_)]) :
          IF m \in registery_
          THEN heap_timer_' = PopTop(AfterCancel(m)) /\ SendToServiceHandle(m, "timeout")
          ELSE heap_timer_' = PopTop(heap_timer_) /\ UNCHANGED results
    /\ UNCHANGED <<now, birthtime, data_, temp, phase, cur_time_ms, registery_, timer_out_id,
                   function_data, robbed, sent, arrived, answered, destroyed>>

(* One turn of ProcessTimer's loop: OnTimer(function_data), and then Pop.  *)
(* Get cancels the request's own timer before OnTimeout sends it back.     *)
FireTimer ==
    /\ phase = "timers"
    /\ TopIsDue
    /\ \E m \in SequenceIdRead(function_data[TopNode(heap_timer_)]) :
          IF m \in registery_
          THEN /\ registery_' = registery_ \ {m}
               /\ heap_timer_' = PopTop(AfterCancel(m))
               /\ robbed' = (robbed \/ AfterCancel(m).num > 0)
               /\ SendToServiceHandle(m, "timeout")
          ELSE /\ heap_timer_' = PopTop(heap_timer_)
               /\ UNCHANGED <<registery_, robbed, results>>
    /\ UNCHANGED <<now, birthtime, data_, temp, phase, cur_time_ms, timer_out_id, function_data,
                   sent, arrived, answered, destroyed>>

TimersDone ==
    /\ phase = "timers"
    /\ ~ TopIsDue
    /\ phase' = "events" /\ cur_time_ms' = 0
    /\ UNCHANGED <<now, birthtime, data_, temp, registery_, timer_out_id, heap_timer_,
                   function_data, robbed, sent, arrived, answered, results, destroyed>>

OnDecodeMessageSilent ==
    /\ phase = "events"
    /\ arrived # <<>>
    /\ arrived' = Tail(arrived)
    /\ LET m == Head(arrived) IN
         IF m \in registery_
         THEN /\ registery_' = registery_ \ {m}
              /\ heap_timer_' = AfterCancel(m)
              /\ destroyed' = destroyed \cup {m}
         ELSE UNCHANGED <<registery_, heap_timer_, destroyed>>
    /\ UNCHANGED <<now, birthtime, data_, temp, phase, cur_time_ms, timer_out_id,
                   function_data, robbed, sent, answered, results>>

(* AsyncClientConnect::OnDecodeMessage, for each response that was read.   *)
(* One whose request is gone is dropped.                                   *)
OnDecodeMessage ==
    /\ phase = "events"
    /\ arrived # <<>>
    /\ arrived' = Tail(arrived)
    /\ LET m == Head(arrived) IN
         IF m \in registery_
         THEN /\ registery_' = registery_ \ {m}
              /\ heap_timer_' = AfterCancel(m)
              /\ destroyed' = destroyed \cup {m}
              /\ SendToServiceHandle(m, "ok")
         ELSE UNCHANGED <<registery_, heap_timer_, destroyed, results>>
    /\ UNCHANGED <<now, birthtime, data_, temp, phase, cur_time_ms, timer_out_id,
                   function_data, robbed, sent, answered>>

(* No more events: CallRun takes the whole queue. *)
CallRun ==
    /\ phase = "events"
    /\ arrived = <<>>
    /\ phase' = "run"
    /\ temp' = data_ /\ data_' = <<>>
    /\ UNCHANGED <<now, birthtime, cur_time_ms, registery_, timer_out_id, heap_timer_,
                   function_data, robbed, sent, arrived, answered, results, destroyed>>

(* HandleIoMessageEvent finds that the message has waited too long. *)
HandleFailed ==
    /\ phase = "run" /\ temp # <<>>
    /\ LET m == Head(temp) IN
         /\ now - birthtime[m] > Protect
         /\ IF m \in Request
            THEN SendToServiceHandle(m, "failed") /\ UNCHANGED destroyed
            ELSE destroyed' = destroyed \cup {m} /\ UNCHANGED results
    /\ temp' = Tail(temp)
    /\ UNCHANGED <<now, birthtime, data_, phase, cur_time_ms, registery_, timer_out_id,
                   heap_timer_, function_data, robbed, sent, arrived, answered>>

RegisterNoTimer(m) ==
    /\ registery_' = registery_ \cup {m}
    /\ UNCHANGED <<heap_timer_, timer_out_id, function_data>>

(* AsyncSequence::Put: the registery and a timer whose data is the id. *)
Register(m) ==
    LET n == NextNode(heap_timer_) IN
    /\ registery_' = registery_ \cup {m}
    /\ heap_timer_' = InsertKey(heap_timer_, now + Timeout[m])
    /\ timer_out_id' = [timer_out_id EXCEPT ![m] = n]
    /\ function_data' = [x \in DOMAIN function_data \cup {n} |->
                             IF x = n THEN m ELSE function_data[x]]

(* EncodeMsg and OnWrite.  A one-way message is done then. *)
EncodeMsg ==
    /\ phase = "run" /\ temp # <<>>
    /\ LET m == Head(temp) IN
         /\ now - birthtime[m] <= Protect
         /\ sent' = sent \cup {m}
         /\ IF m \in Request
            THEN Register(m) /\ UNCHANGED destroyed
            ELSE /\ destroyed' = destroyed \cup {m}
                 /\ UNCHANGED <<registery_, heap_timer_, timer_out_id, function_data>>
    /\ temp' = Tail(temp)
    /\ UNCHANGED <<now, birthtime, data_, phase, cur_time_ms, robbed, arrived, answered,
                   results>>

RunDone ==
    /\ phase = "run" /\ temp = <<>>
    /\ phase' = "poll"
    /\ UNCHANGED <<now, birthtime, data_, temp, cur_time_ms, registery_, timer_out_id,
                   heap_timer_, function_data, robbed, sent, arrived, answered, results,
                   destroyed>>

IoThread ==
    \/ StartTimers \/ FireTimer \/ TimersDone
    \/ OnDecodeMessage
    \/ CallRun \/ HandleFailed \/ EncodeMsg \/ RunDone

Next ==
    \/ \E m \in Message : Send(m)
    \/ \E m \in Request : Answer(m)
    \/ Tick
    \/ IoThread

Spec == Init /\ [][Next]_vars

(* The IO thread runs for ever and time passes.  Neither the callers nor   *)
(* the server have to do anything.  A step of the IO thread is always      *)
(* possible, so its weak fairness is that it takes infinitely many.        *)
FairSpec == Spec /\ []<><<IoThread>>_vars /\ WF_vars(Tick)

----------------------------------------------------------------------------
Live == {heap_timer_.items[i] : i \in 1 .. heap_timer_.num}

(* The values the variables range over. *)
TypeOK ==
    /\ now \in Nat
    /\ DOMAIN birthtime \subseteq Message
    /\ Elems(data_) \cup Elems(temp) \subseteq DOMAIN birthtime
    /\ phase \in {"poll", "timers", "events", "run"}
    /\ registery_ \subseteq Request
    /\ timer_out_id \in [Request -> HeapSlots]
    /\ heap_timer_.num \in HeapSlots
    /\ \A i \in HeapSlots : heap_timer_.items[i] \in HeapSlots
    /\ \A n \in Live : n \in DOMAIN function_data
    /\ Elems(arrived) \subseteq answered /\ answered \subseteq sent
    /\ \A m \in Request : Elems(results[m]) \subseteq {"ok", "timeout", "failed"}
    /\ destroyed \subseteq DOMAIN birthtime

Once(s) == \A i, j \in 1 .. Len(s) : s[i] = s[j] => i = j
Released == {m \in Request : results[m] # <<>>} \cup (OneWay \cap destroyed)

(* A request that was invoked is in exactly one place, whatever the timers *)
(* did: queued, in the batch, registered, or given back to its callback -  *)
(* once.  A one-way message is queued, in the batch, or destroyed.         *)
MessageInOnePlace ==
    LET Held == [queue |-> Elems(data_), batch |-> Elems(temp),
                 registery |-> registery_, nowhere |-> Released]
    IN /\ Once(data_) /\ Once(temp)
       /\ \A m \in Request : Len(results[m]) <= 1
       /\ \A m \in DOMAIN birthtime :
             \E place \in DOMAIN Held : \A p \in DOMAIN Held : m \in Held[p] <=> p = place

(* The caller of a request that came back as kInternalFailure may send it  *)
(* again: it was never written to the connection.                          *)
FailedWasNotSent ==
    \A m \in Request : "failed" \in Elems(results[m]) => m \notin sent

(* A callback sees kStatusTimeout no earlier than the timeout after        *)
(* Invoke, until ProcessTimer has popped another request's timer: from     *)
(* then on a node may be live twice, and its second firing reads the id of *)
(* a message that is gone.                                                 *)
NoEarlyTimeout ==
    [][\A m \in Request :
          ~robbed /\ Elems(results'[m]) \ Elems(results[m]) = {"timeout"}
              => now >= birthtime[m] + Timeout[m]]_vars

(* No request is destroyed while something still points at it: the queue,  *)
(* the batch or the registery.                                             *)
NotUsedAfterDestroy ==
    destroyed \cap (Elems(data_) \cup Elems(temp) \cup registery_) = {}

(* The queue, the registry and the callbacks agree on every message.       *)
RequestsTracked == TypeOK /\ MessageInOnePlace /\ FailedWasNotSent /\ NotUsedAfterDestroy

(* Between the steps of ProcessTimer every registered request has a timer  *)
(* of its own, and every timer is a registered request's, as long as       *)
(* ProcessTimer has popped none but the ones it fired.  It does not when   *)
(* the callers have one request outstanding between them.                  *)
OneTimerPerRequest ==
    /\ ~robbed =>
          /\ \A m \in registery_ :
                timer_out_id[m] \in Live /\ function_data[timer_out_id[m]] = m
          /\ \A n \in Live :
                function_data[n] \in registery_ /\ timer_out_id[function_data[n]] = n
    /\ Window <= 1 => ~robbed

(* A response that has been read or is waiting to be read releases its     *)
(* request, if nothing else has.                                           *)
AnswerReleases == \A m \in Request : (m \in Elems(arrived)) ~> (results[m] # <<>>)

(* "Two-way messages are released on the response or on the timeout". *)
ReleasedByAnswerOrTimeout ==
    \A m \in Request : (m \in DOMAIN birthtime) ~> (results[m] # <<>>)
=============================================================================
