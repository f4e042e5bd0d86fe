------------------------------ MODULE Matrix ------------------------------
(***************************************************************************)
(* The monitor (monitor/matrix.cpp, matrix_item_map.cpp, matrix_scope.h,   *)
(* matrix_collector.cpp): threads of the program send items - a counter    *)
(* operation, or a time between MarkBegin and MarkEnd - through a set of   *)
(* ring buffers, and the collector thread adds them up in a map it prints  *)
(* and replaces every period.                                              *)
(*                                                                         *)
(* A ring buffer is the bounded queue RingBuffer is shown to be.  The      *)
(* clocks count seconds; a clock does not go back.  The monitor is started *)
(* (GlobalMatrix::Init) and its file is open; a change of day, at which    *)
(* Run closes the file it goes on using, does not come.                    *)
(*                                                                         *)
(* A definition after the words `A slip` is a wrong variant of the next.   *)
(***************************************************************************)
EXTENDS MatrixStat, Sequences, SequencesExt

CONSTANTS
    Sender,
    Kind,               \* what items threads make: [name, operation, result, persistent, val]
    TokenWidth,         \* tokens of a thread before token_id_ comes round (2^32)
    bucket_count_,      \* queues
    queue_size_,        \* items one queue holds
    MAX_PUSH_FAILED_TO_PAUSE, PAUSE_TIMES_SECOND,
    Period,             \* seconds between two maps (30)
    MaxItem, MaxTime    \* bounds: items made, seconds passed

ASSUME MatrixAssumption ==
    /\ IsFiniteSet(Sender)
    /\ bucket_count_ \in Nat \ {0} /\ queue_size_ \in Nat \ {0}
    /\ TokenWidth \in Nat \ {0} /\ Period \in Nat \ {0}
    /\ MAX_PUSH_FAILED_TO_PAUSE \in Nat /\ PAUSE_TIMES_SECOND \in Nat

ASSUME ItemAssumption == \A item \in Kind :
    /\ {"name", "operation", "result", "persistent", "val"} \subseteq DOMAIN item
    /\ item.operation \in {"Set", "Add", "Sub", "Reset", "TimeDistribute"}
    /\ item.persistent \in BOOLEAN

VARIABLES
    time,
    thread,             \* what each thread of the program is doing
    token_id_,          \* thread -> the last number it drew
    map_,               \* token -> the item that waits for its MarkEnd
    begun,              \* the tokens threads hold, with the item each was drawn for
    queue_, seq_id,     \* the queues, and the next one in turn
    queue_push_failed_times, pause_push_stop_times,
    running_, collector,    \* the collector: what it is doing, and at which queue
    stat_map, start_time_sec_,
    stat_map_,          \* the map of the last whole period, which anyone may read
    made, deleted,      \* counts of items, against MaxItem
    applied, frozen     \* what was applied, and how much of it when the period began

sendVars == <<queue_, seq_id, queue_push_failed_times, pause_push_stop_times>>
tokenVars == <<token_id_, map_, begun>>
collectVars == <<running_, collector, stat_map, start_time_sec_, stat_map_, applied, frozen>>
matrixVars == <<time, thread, tokenVars, sendVars, collectVars, made, deleted>>

Queue == 0 .. bucket_count_ - 1
Idle == [at |-> "idle"]
Timed == {item \in Kind : item.operation = "TimeDistribute"}

MatrixInit ==
    /\ time = 0
    /\ thread = [t \in Sender |-> Idle]
    /\ token_id_ = [t \in Sender |-> 0] /\ map_ = <<>> /\ begun = {}
    /\ queue_ = [q \in Queue |-> <<>>] /\ seq_id = 0
    /\ queue_push_failed_times = 0 /\ pause_push_stop_times = 0
    /\ running_ = TRUE /\ collector = [at |-> "period", idx |-> 0]
    /\ stat_map = <<>> /\ start_time_sec_ = 0 /\ stat_map_ = <<>>
    /\ made = 0 /\ deleted = 0
    /\ applied = <<>> /\ frozen = 0

At(t, at) == thread[t].at = at
Become(t, state) == thread' = [thread EXCEPT ![t] = state]
DropItem(t) == Become(t, Idle) /\ deleted' = deleted + 1

----------------------------------------------------------------------------
(* Set, Add, Sub, Reset and their persistent forms, Distribution, and the  *)
(* end of a MatrixScope: an item goes to the collector at once.            *)
Count(t, item) ==
    /\ At(t, "idle") /\ made < MaxItem
    /\ made' = made + 1
    /\ Become(t, [at |-> "check", item |-> item])
    /\ UNCHANGED <<time, tokenVars, sendVars, collectVars, deleted>>

(* A slip: a token that comes round replaces the item that waits. *)
MarkBeginReplaces(t, item) ==
    LET token == <<t, (token_id_[t] + 1) % TokenWidth>>
    IN /\ At(t, "idle") /\ made < MaxItem
       /\ made' = made + 1
       /\ token_id_' = [token_id_ EXCEPT ![t] = token[2]]
       /\ map_' = [k \in DOMAIN map_ \cup {token} |-> IF k = token THEN item ELSE map_[k]]
       /\ begun' = begun \cup {[token |-> token, item |-> item, no |-> made']}
       /\ UNCHANGED <<time, thread, sendVars, collectVars, deleted>>

(* The number is the thread's own; the item waits in the map under it.  A  *)
(* number still in use is refused, and the caller gets token 0, which no   *)
(* MarkEnd finds.                                                          *)
MarkBegin(t, item) ==
    LET token == <<t, (token_id_[t] + 1) % TokenWidth>>
    IN /\ At(t, "idle") /\ made < MaxItem
       /\ made' = made + 1
       /\ token_id_' = [token_id_ EXCEPT ![t] = token[2]]
       /\ IF token \in DOMAIN map_
          THEN /\ deleted' = deleted + 1
               /\ UNCHANGED <<map_, begun>>
          ELSE /\ map_' = [k \in DOMAIN map_ \cup {token} |-> IF k = token THEN item ELSE map_[k]]
               /\ begun' = begun \cup {[token |-> token, item |-> item, no |-> made']}
               /\ UNCHANGED deleted
       /\ UNCHANGED <<time, thread, sendVars, collectVars>>

(* MarkEnd: whoever holds the token - often another thread - takes the     *)
(* item out of the map.  Its value is the time since, `val` here.          *)
MarkEnd(t, mark, result, val) ==
    /\ At(t, "idle") /\ mark \in begun
    /\ begun' = begun \ {mark}
    /\ IF mark.token \in DOMAIN map_
       THEN /\ map_' = [k \in DOMAIN map_ \ {mark.token} |-> map_[k]]
            /\ Become(t, [at |-> "check",
                          item |-> [map_[mark.token] EXCEPT !.result = result, !.val = val]])
       ELSE UNCHANGED <<map_, thread>>
    /\ UNCHANGED <<time, token_id_, sendVars, collectVars, made, deleted>>

----------------------------------------------------------------------------
(* Send, one step per access to what the threads share.  A caller whose    *)
(* item was not taken deletes it.                                          *)
Check(t) ==
    /\ At(t, "check")
    /\ IF time < pause_push_stop_times THEN DropItem(t)
       ELSE /\ Become(t, [at |-> "push", item |-> thread[t].item, cur_time |-> time])
            /\ UNCHANGED deleted
    /\ UNCHANGED <<time, tokenVars, sendVars, collectVars, made>>

(* A slip: the item is deleted whether it was taken or not. *)
PushDeletes(t) ==
    LET idx == (seq_id + 1) % bucket_count_
    IN /\ At(t, "push")
       /\ seq_id' = idx
       /\ IF Len(queue_[idx]) < queue_size_
          THEN /\ queue_' = [queue_ EXCEPT ![idx] = Append(@, thread[t].item)]
               /\ DropItem(t)
          ELSE /\ Become(t, [thread[t] EXCEPT !.at = "failed"])
               /\ UNCHANGED <<queue_, deleted>>
       /\ UNCHANGED <<time, tokenVars, queue_push_failed_times, pause_push_stop_times,
                      collectVars, made>>

PushItem(t) ==
    LET idx == (seq_id + 1) % bucket_count_
    IN /\ At(t, "push")
       /\ seq_id' = idx
       /\ IF Len(queue_[idx]) < queue_size_
          THEN /\ queue_' = [queue_ EXCEPT ![idx] = Append(@, thread[t].item)]
               /\ Become(t, Idle)
          ELSE /\ Become(t, [thread[t] EXCEPT !.at = "failed"])
               /\ UNCHANGED queue_
       /\ UNCHANGED <<time, tokenVars, queue_push_failed_times, pause_push_stop_times,
                      collectVars, made, deleted>>

CountFailure(t) ==
    /\ At(t, "failed")
    /\ queue_push_failed_times' = queue_push_failed_times + 1
    /\ Become(t, [thread[t] EXCEPT !.at = "compare"])
    /\ UNCHANGED <<time, tokenVars, queue_, seq_id, pause_push_stop_times,
                   collectVars, made, deleted>>

Compare(t) ==
    /\ At(t, "compare")
    /\ IF queue_push_failed_times > MAX_PUSH_FAILED_TO_PAUSE
       THEN Become(t, [thread[t] EXCEPT !.at = "pause"]) /\ UNCHANGED deleted
       ELSE DropItem(t)
    /\ UNCHANGED <<time, tokenVars, sendVars, collectVars, made>>

(* The pause is counted from when this call began. *)
Pause(t) ==
    /\ At(t, "pause")
    /\ pause_push_stop_times' = thread[t].cur_time + PAUSE_TIMES_SECOND
    /\ Become(t, [thread[t] EXCEPT !.at = "clear"])
    /\ UNCHANGED <<time, tokenVars, queue_, seq_id, queue_push_failed_times,
                   collectVars, made, deleted>>

Clear(t) ==
    /\ At(t, "clear")
    /\ queue_push_failed_times' = 0
    /\ DropItem(t)
    /\ UNCHANGED <<time, tokenVars, queue_, seq_id, pause_push_stop_times, collectVars, made>>

----------------------------------------------------------------------------
(* The collector's loop: first the end of the period, if it is due. *)
Collecting(at) == collector.at = at
To(at, idx) == collector' = [at |-> at, idx |-> idx]

NextPeriod ==
    /\ Collecting("period") /\ running_
    /\ To("drain", 0)
    /\ IF time - start_time_sec_ >= Period
       THEN /\ stat_map_' = stat_map
            /\ stat_map' = Inherit(stat_map)
            /\ start_time_sec_' = time
            /\ frozen' = Len(applied)
       ELSE UNCHANGED <<stat_map_, stat_map, start_time_sec_, frozen>>
    /\ UNCHANGED <<time, thread, tokenVars, sendVars, running_, made, deleted, applied>>

(* A slip: the last queue is never reached. *)
DrainShort ==
    LET idx == collector.idx
    IN /\ Collecting("drain")
       /\ IF queue_[idx] = <<>>
          THEN /\ IF idx + 2 >= bucket_count_ THEN To("period", 0) ELSE To("drain", idx + 1)
               /\ UNCHANGED <<queue_, stat_map, applied, deleted>>
          ELSE /\ queue_' = [queue_ EXCEPT ![idx] = Tail(@)]
               /\ stat_map' = Apply(stat_map, Head(queue_[idx]))
               /\ applied' = Append(applied, Head(queue_[idx]))
               /\ deleted' = deleted + 1
               /\ UNCHANGED collector
       /\ UNCHANGED <<time, thread, tokenVars, seq_id, queue_push_failed_times,
                      pause_push_stop_times, running_, start_time_sec_, stat_map_, made, frozen>>

(* ProcessQueueList: every queue is emptied in turn, one item a step. *)
Drain ==
    LET idx == collector.idx
    IN /\ Collecting("drain")
       /\ IF queue_[idx] = <<>>
          THEN /\ IF idx + 1 = bucket_count_ THEN To("period", 0) ELSE To("drain", idx + 1)
               /\ UNCHANGED <<queue_, stat_map, applied, deleted>>
          ELSE /\ queue_' = [queue_ EXCEPT ![idx] = Tail(@)]
               /\ stat_map' = Apply(stat_map, Head(queue_[idx]))
               /\ applied' = Append(applied, Head(queue_[idx]))
               /\ deleted' = deleted + 1
               /\ UNCHANGED collector
       /\ UNCHANGED <<time, thread, tokenVars, seq_id, queue_push_failed_times,
                      pause_push_stop_times, running_, start_time_sec_, stat_map_, made, frozen>>

(* MatrixCollector::Stop; the thread leaves at the top of its loop, and    *)
(* what is queued by then stays there.                                     *)
StopCollector ==
    /\ running_
    /\ running_' = FALSE
    /\ UNCHANGED <<time, thread, tokenVars, sendVars, collector, stat_map, start_time_sec_,
                   stat_map_, made, deleted, applied, frozen>>

LeaveRun ==
    /\ Collecting("period") /\ ~running_
    /\ To("ended", 0)
    /\ UNCHANGED <<time, thread, tokenVars, sendVars, running_, stat_map, start_time_sec_,
                   stat_map_, made, deleted, applied, frozen>>

Tick ==
    /\ time < MaxTime
    /\ time' = time + 1
    /\ UNCHANGED <<thread, tokenVars, sendVars, collectVars, made, deleted>>

SendStep(t) ==
    Check(t) \/ PushItem(t) \/ CountFailure(t) \/ Compare(t) \/ Pause(t) \/ Clear(t)

MatrixNext ==
    \/ \E t \in Sender :
          \/ \E item \in Kind : Count(t, item)
          \/ \E item \in Timed : MarkBegin(t, item)
          \/ \E mark \in begun, kind \in Timed : MarkEnd(t, mark, kind.result, kind.val)
          \/ SendStep(t)
    \/ NextPeriod \/ Drain \/ StopCollector \/ LeaveRun
    \/ Tick

(* A sender and the collector, once called, run on. *)
MatrixSpec == MatrixInit /\ [][MatrixNext]_matrixVars
MatrixFairness ==
    /\ WF_matrixVars(NextPeriod) /\ WF_matrixVars(Drain)
    /\ WF_matrixVars(LeaveRun)
    /\ \A t \in Sender : WF_matrixVars(SendStep(t))

MatrixFairSpec == MatrixSpec /\ MatrixFairness

----------------------------------------------------------------------------
Hands == {t \in Sender : thread[t].at # "idle"}
Places == {p \in Queue \X (1 .. queue_size_) : p[2] <= Len(queue_[p[1]])}
Queued == Cardinality(Places)

(* An item has one owner at a time - the map of open marks, the thread     *)
(* that sends it, a queue, the collector - and the last one deletes it:    *)
(* none is lost when a queue is full, a pause begins or a token comes      *)
(* round, and none is deleted twice.                                       *)
ItemsConserved ==
    made = Cardinality(Hands) + Cardinality(DOMAIN map_) + Queued + deleted

(* MarkEnd takes the item its own MarkBegin left, even when token_id_ has  *)
(* come round while the mark was open.                                     *)
MarkEndTakesOwn ==
    \A mark \in begun :
        /\ mark.token \in DOMAIN map_ /\ map_[mark.token] = mark.item
        /\ \A other \in begun : other.token = mark.token => other = mark

(* The map the collector fills is what the items it took add up to: for a  *)
(* name always used with the persistent operations all of them since the   *)
(* monitor began, for a name never used with one those of this period,     *)
(* whatever was frozen and handed to the readers in between.               *)
StatsAreHistory ==
    LET Over(items) == FoldLeft(Apply, <<>>, items)
        all == Over(applied)
        recent == Over(SubSeq(applied, frozen + 1, Len(applied)))
        Agree(n, map) == /\ n \in DOMAIN stat_map <=> n \in DOMAIN map
                         /\ n \in DOMAIN map => stat_map[n] = map[n]
    IN \A n \in DOMAIN all :
           LET uses == {applied[i].persistent /\ applied[i].operation # "Reset" :
                           i \in {j \in DOMAIN applied : applied[j].name = n}}
           IN /\ uses = {TRUE} => Agree(n, all)
              /\ uses = {FALSE} => Agree(n, recent)

(* While the collector runs, whatever was queued is counted: no queue is   *)
(* passed over.                                                            *)
QueuedIsCounted ==
    \A q \in Queue :
        queue_[q] # <<>> /\ running_ ~> (queue_[q] = <<>> \/ ~running_)
=============================================================================
