------------------------ MODULE CoroutineSched_proofs ------------------------
(***************************************************************************)
(* Proofs about CoroutineSched for any number of coroutines and calls.     *)
(***************************************************************************)
EXTENDS CoroutineKept, TLAPS, SequenceTheorems

USE DEF AddTimer, DelTimer

\* The coroutine that runs exists and is the current one; a blocked coroutine exists
\* and can be resumed.
ControlOK ==
  /\ running # None => running \in Created /\ cur = running
  /\ Blocked \subseteq Created
  /\ \A c \in Blocked : running = c \/ status[c] = "suspend"

\* A call is open from DoSend until RecieveMessage returns, in one coroutine.
CallsOK ==
  /\ \A s \in Calls : /\ s <= calls <=> result[s] # "unused"
                      /\ net[s] = "unused" <=> result[s] = "unused"
                      /\ result[s] = "open" => /\ at[owner[s]] \in {"sent", "waiting"}
                                               /\ call[owner[s]] = s
  /\ \A c \in Ids : at[c] \in {"sent", "waiting"} =>
        /\ call[c] \in Calls
        /\ owner[call[c]] = c /\ result[call[c]] = "open"

\* A response to a call was given to that call.
Genuine == {m \in Msgs : m.kind = "response" /\ m.seq # 0 => net[m.seq] = "answered"}
Responses == {m \in Genuine : m.kind = "response" /\ m.seq # 0}
MailGenuine ==
  /\ inbox \in Seq(Genuine)
  /\ batch \in [Ids -> Seq(Genuine)]
  /\ msg_list \in [Ids -> Seq(Responses)]

\* What is in active_coro_list_ is the id of a coroutine.
ActiveExists == \A i \in 1 .. Len(active) : active[i] \in Created

\* The inductive invariant, whether or not messages are freed early.
IInv == /\ TypeOK
        /\ ControlOK
        /\ AvailableUnlessBlocked
        /\ ActiveIsNext
        /\ ActiveExists
        /\ BlockedHasTimer
        /\ CallsOK
        /\ MailGenuine

\* What holds as well if they are kept: a mailbox is used only by a blocked call, and
\* a coroutine that got its response is the one that is resumed.
MailboxOK ==
  \A c \in Ids :
    /\ c \notin Blocked => msg_list[c] = <<>> /\ is_waiting[c] = FALSE
    /\ c \in Blocked /\ msg_list[c] = <<>> => is_waiting[c] = TRUE /\ waiting_id[c] = call[c]
    /\ c \in Blocked /\ msg_list[c] # <<>> =>
         Len(msg_list[c]) = 1 /\ msg_list[c][1].seq = call[c] /\ waiting_id[c] = None
MInv == IInv /\ MailboxOK /\ ActiveIsBlocked

-----------------------------------------------------------------------------
(* Helpers                                                                 *)

\* A batch of tasks is a sequence of messages, none of them a response.
LEMMA TaskBatch ==
  ASSUME NEW n \in Nat
  PROVE  /\ [i \in 1 .. n |-> Msg("task", 0)] \in Seq(Msgs)
         /\ [i \in 1 .. n |-> Msg("task", 0)] \in Seq(Genuine)
<1> DEFINE f == [i \in 1 .. n |-> Msg("task", 0)]
<1>1. Msg("task", 0) \in Msgs /\ Msg("task", 0) \in Genuine
  BY CoroAssumption DEF Msg, Msgs, Genuine
<1> HIDE DEF f
<1>2. ASSUME NEW S, Msg("task", 0) \in S
      PROVE  f \in Seq(S)
  <2>1. f \in [1 .. n -> S]
    BY <1>2 DEF f
  <2>2. Seq(S) = UNION {[1 .. k -> S] : k \in Nat}
    BY SeqDef, Zenon
  <2> DEFINE F(k) == [1 .. k -> S]
  <2>3. f \in F(n)
    BY <2>1
  <2> HIDE DEF F
  <2>4. Seq(S) = UNION {F(k) : k \in Nat}
    BY <2>2 DEF F
  <2>5. f \in UNION {F(k) : k \in Nat}
    BY <2>3, Zenon
  <2> QED
    BY <2>4, <2>5, Zenon
<1> QED
  BY <1>1, <1>2, Zenon DEF f

LEMMA InitType == Init => TypeOK
<1> SUFFICES ASSUME Init PROVE TypeOK
  OBVIOUS
<1>1. ControlType /\ ChosenType
  BY CoroAssumption DEF Init, ControlType, ChosenType, Ids, Created, None
<1>2. StackType
  BY CoroAssumption DEF Init, StackType
<1>3. MailType
  BY DEF Init, MailType
<1>4. QueueType
  BY DEF Init, QueueType
<1>5. BookType
  BY CoroAssumption DEF Init, BookType, Ids
<1>6. active \in Seq(Ids) /\ timers \subseteq [call : Calls, coro : Ids]
  BY DEF Init
<1> QED
  BY <1>1, <1>2, <1>3, <1>4, <1>5, <1>6 DEF TypeOK

\* Where a coroutine may stand.
LEMMA GotoType ==
  ASSUME StackType, NEW c \in Ids,
         NEW l \in {"top", "timer", "task", "tasks", "process", "batch", "user", "sent", "waiting"},
         Goto(c, l), UNCHANGED <<loop, batch, call>>
  PROVE  StackType'
BY DEF StackType, Goto

\* A yield keeps the types.
LEMMA SuspendType ==
  ASSUME ControlType, NEW c \in Ids, Suspend(c)
  PROVE  ControlType' /\ Created' = Created
BY DEF ControlType, Suspend, Created

LEMMA YieldType ==
  ASSUME ControlType, active \in Seq(Ids), NEW c \in Ids, NEW k \in Ids,
         YieldToActive(c, k)
  PROVE  ControlType' /\ Created' = Created /\ active' \in Seq(Ids)
<1>1. CASE k \in Created /\ k # c
  <2>1. Suspend(c) /\ active' = Append(active, k)
    BY <1>1 DEF YieldToActive
  <2>2. active' \in Seq(Ids)
    BY <2>1
  <2> QED
    BY <2>1, <2>2, SuspendType
<1>2. CASE ~(k \in Created /\ k # c)
  <2>1. UNCHANGED <<active, control>>
    BY <1>2 DEF YieldToActive
  <2> QED
    BY <2>1 DEF ControlType, control, Created
<1> QED
  BY <1>1, <1>2

\* Taking the first item off a batch keeps the types.
LEMMA PopType ==
  ASSUME StackType, NEW c \in Ids, batch[c] # <<>>, PopBatch(c), UNCHANGED <<at, loop, call>>
  PROVE  StackType'
<1>1. Tail(batch[c]) \in Seq(Msgs)
  BY DEF StackType
<1> QED
  BY <1>1 DEF StackType, PopBatch

LEMMA TakeMailType ==
  ASSUME MailType, BookType, StackType, timers \subseteq [call : Calls, coro : Ids],
         NEW c \in Ids, TakeMail(c), UNCHANGED <<loop, batch, call>>
  PROVE  MailType' /\ BookType' /\ StackType' /\ timers' \subseteq [call : Calls, coro : Ids]
<1>1. timers' \subseteq [call : Calls, coro : Ids] /\ Goto(c, "user")
  BY DEF TakeMail, Returns
<1>2. StackType'
  BY <1>1, GotoType
<1>3. msg_list' \in [Ids -> Seq(Msgs)]
  <2>1. CASE msg_list[c] = <<>>
    BY <2>1 DEF TakeMail, MailType
  <2>2. CASE msg_list[c] # <<>>
    <3>1. Tail(msg_list[c]) \in Seq(Msgs)
      BY <2>2 DEF MailType
    <3> QED
      BY <2>2, <3>1 DEF TakeMail, MailType
  <2> QED
    BY <2>1, <2>2
<1>4. MailType'
  BY <1>3 DEF TakeMail, MailType
<1>5. BookType'
  BY DEF TakeMail, Returns, BookType
<1> QED
  BY <1>1, <1>2, <1>4, <1>5

\* What a step leaves alone keeps its type.
LEMMA SameType ==
  ASSUME TypeOK
  PROVE  /\ UNCHANGED control => ControlType' /\ Created' = Created
         /\ UNCHANGED chosen /\ Created' = Created => ChosenType'
         /\ UNCHANGED stacks => StackType'
         /\ UNCHANGED mail => MailType'
         /\ UNCHANGED queues => QueueType'
         /\ UNCHANGED book => BookType'
<1>1. UNCHANGED control => ControlType' /\ Created' = Created
  BY DEF TypeOK, ControlType, control, Created
<1>2. UNCHANGED chosen /\ Created' = Created => ChosenType'
  BY DEF TypeOK, ChosenType, chosen
<1>3. UNCHANGED stacks => StackType'
  BY DEF TypeOK, StackType, stacks
<1>4. UNCHANGED mail => MailType'
  BY DEF TypeOK, MailType, mail
<1>5. UNCHANGED queues => QueueType'
  BY DEF TypeOK, QueueType, queues
<1>6. UNCHANGED book => BookType'
  BY DEF TypeOK, BookType, book
<1> QED
  BY <1>1, <1>2, <1>3, <1>4, <1>5, <1>6

\* A turn of the main loop keeps the types.
LEMMA MainType ==
  ASSUME IInv, ResumeActive \/ ResumeAvailable \/ AddNewCoroutine
  PROVE  TypeOK'
<1>1. TypeOK
  BY DEF IInv
<1>2. ASSUME NEW c \in Ids, Switch(c, status), UNCHANGED <<is_run, cap>>
      PROVE  ControlType' /\ Created' = Created
  BY <1>1, <1>2 DEF TypeOK, ControlType, Switch, Created
<1>3. CASE ResumeActive
  <2>1. Head(active) \in Ids /\ Tail(active) \in Seq(Ids)
    BY <1>1, <1>3 DEF ResumeActive, TypeOK
  <2>2. ControlType' /\ Created' = Created
    BY <1>2, <1>3, <2>1 DEF ResumeActive
  <2> QED
    BY <1>1, <1>3, <2>1, <2>2, SameType DEF ResumeActive, TypeOK
<1>4. CASE ResumeAvailable
  <2>1. ControlType' /\ Created' = Created
    BY <1>1, <1>2, <1>4 DEF ResumeAvailable, TypeOK, ChosenType
  <2> QED
    BY <1>1, <1>4, <2>1, SameType DEF ResumeAvailable, TypeOK
<1>5. CASE AddNewCoroutine
  <2>1. cap \in Ids /\ cap' = cap + 1 /\ cap' \in InitSize .. MaxCoros
    BY <1>1, <1>5, CoroAssumption DEF AddNewCoroutine, TypeOK, ControlType, Ids
  <2>2. ControlType'
    BY <1>1, <1>5, <2>1 DEF AddNewCoroutine, Switch, TypeOK, ControlType
  <2>3. cap \in Created' /\ Created \subseteq Created'
    BY <2>1, CoroAssumption DEF Created, Ids
  <2>4. ChosenType'
    BY <1>1, <1>5, <2>1, <2>3 DEF AddNewCoroutine, InsertAvailable, TypeOK, ChosenType
  <2> QED
    BY <1>1, <1>5, <2>2, <2>4, SameType DEF AddNewCoroutine, TypeOK
<1> QED
  BY <1>3, <1>4, <1>5

\* The coroutine that runs is the current one, and a call is open in one coroutine.
LEMMA RunningFacts ==
  ASSUME IInv, NEW c \in Ids, running = c
  PROVE  /\ TypeOK /\ c # None /\ cur = c /\ c \in Created /\ active = <<>>
         /\ Created \subseteq Ids
         /\ at[c] \in {"sent", "waiting"} => call[c] \in Calls
<1>1. c # None
  BY CoroAssumption DEF Ids, None
<1>2. TypeOK /\ active = <<>> /\ cur = c /\ c \in Created
  BY <1>1 DEF IInv, ControlOK, ActiveIsNext
<1>3. Created \subseteq Ids
  BY <1>2, CoroAssumption DEF TypeOK, ControlType, Created, Ids
<1> QED
  BY <1>1, <1>2, <1>3 DEF IInv, CallsOK

\* A step of a coroutine keeps the types.
LEMMA CoroutineType ==
  ASSUME IInv, NEW c \in Ids, Coroutine(c)
  PROVE  TypeOK'
<1>1. TypeOK
  BY DEF IInv
<1> USE SameType
<1>2. CASE LoopTop(c)
  BY <1>1, <1>2, GotoType DEF LoopTop, TypeOK
<1>3. CASE TimersDone(c) \/ TasksDone(c) \/ BatchDone(c) \/ UserDone(c)
  <2>1. StackType' /\ UNCHANGED <<control, chosen, active, mail, timers, queues, book>>
    <3>1. loop[c] \in {"tasks", "batch"}
      BY <1>1 DEF TypeOK, StackType
    <3> QED
      BY <1>1, <1>3, <3>1, GotoType DEF TimersDone, TasksDone, BatchDone, UserDone, TypeOK
  <2> QED
    BY <1>1, <2>1 DEF TypeOK
<1>4. CASE Finish(c)
  <2>1. ControlType' /\ Created' = Created
    BY <1>1, <1>4 DEF Finish, TypeOK, ControlType, Created
  <2> QED
    BY <1>1, <1>4, <2>1 DEF Finish, TypeOK
<1>5. CASE FireTimer(c)
  <2>1. PICK t \in timers : timers' = timers \ {t} /\ YieldToActive(c, t.coro)
    BY <1>5 DEF FireTimer
  <2>2. t.coro \in Ids
    BY <1>1 DEF TypeOK
  <2>3. ControlType' /\ Created' = Created /\ active' \in Seq(Ids)
    BY <1>1, <2>1, <2>2, YieldType DEF TypeOK
  <2> QED
    BY <1>1, <1>5, <2>1, <2>3 DEF FireTimer, TypeOK
<1>6. CASE TakeTasks(c)
  <2>1. [i \in 1 .. tasks |-> Msg("task", 0)] \in Seq(Msgs)
    BY <1>1, TaskBatch DEF TypeOK, QueueType
  <2>2. StackType' /\ QueueType'
    <3>1. CASE tasks = 0
      BY <1>1, <1>6, <3>1, GotoType DEF TakeTasks, TypeOK, StackType, QueueType
    <3>2. CASE tasks # 0
      <4>1. batch' = [batch EXCEPT ![c] = [i \in 1 .. tasks |-> Msg("task", 0)]]
            /\ Goto(c, "tasks") /\ tasks' = 0 /\ UNCHANGED <<loop, call, inbox, requests>>
        BY <1>6, <3>2 DEF TakeTasks
      <4> DEFINE f == [i \in 1 .. tasks |-> Msg("task", 0)]
      <4>2. f \in Seq(Msgs) /\ batch' = [batch EXCEPT ![c] = f]
        BY <2>1, <4>1
      <4> HIDE DEF f
      <4>3. StackType'
        BY <1>1, <4>1, <4>2 DEF TypeOK, StackType, Goto
      <4> QED
        BY <1>1, <4>1, <4>3 DEF TypeOK, QueueType
    <3> QED
      BY <3>1, <3>2
  <2> QED
    BY <1>1, <1>6, <2>2 DEF TakeTasks, TypeOK
<1>7. CASE NextTask(c) \/ HandleRequest(c)
  <2>1. batch[c] # <<>> /\ \E l \in {"tasks", "batch"} : RunUserCode(c, l)
    BY <1>7 DEF NextTask, HandleRequest, NextIs
  <2>2. Tail(batch[c]) \in Seq(Msgs)
    BY <1>1, <2>1 DEF TypeOK, StackType
  <2>3. StackType'
    BY <1>1, <2>1, <2>2 DEF RunUserCode, TypeOK, StackType, Goto
  <2> QED
    BY <1>1, <2>1, <2>3 DEF RunUserCode, TypeOK
<1>8. CASE \E yields \in BOOLEAN : Idle(c, yields)
  <2>1. ControlType' /\ Created' = Created
    BY <1>1, <1>8, SuspendType DEF Idle, TypeOK
  <2>2. StackType'
    BY <1>1, <1>8, GotoType DEF Idle, TypeOK
  <2> QED
    BY <1>1, <1>8, <2>1, <2>2 DEF Idle, TypeOK
<1>9. CASE TakeBatch(c)
  <2>1. StackType' /\ QueueType'
    BY <1>1, <1>9 DEF TakeBatch, TypeOK, StackType, QueueType, Goto
  <2> QED
    BY <1>1, <1>9, <2>1 DEF TakeBatch, TypeOK
<1>10. CASE SkipMessage(c)
  <2>1. ControlType' /\ Created' = Created
    BY <1>1, <1>10, SuspendType DEF SkipMessage, TypeOK
  <2>2. StackType'
    BY <1>1, <1>10, PopType DEF SkipMessage, NextIs, TypeOK
  <2> QED
    BY <1>1, <1>10, <2>1, <2>2 DEF SkipMessage, TypeOK
<1>11. CASE DropOldRequest(c)
  <2>1. StackType'
    BY <1>1, <1>11, PopType DEF DropOldRequest, NextIs, TypeOK
  <2> QED
    BY <1>1, <1>11, <2>1 DEF DropOldRequest, TypeOK
<1>12. CASE ProcessClientItem(c)
  <2> DEFINE m == Head(batch[c])
             k == CallerOf(m)
  <2>1. m \in Msgs /\ k >= 0 /\ batch[c] # <<>>
    BY <1>1, <1>12 DEF ProcessClientItem, NextIs, TypeOK, StackType
  <2>2. m.seq \in Calls /\ k = owner[m.seq] /\ k \in Ids
    BY <1>1, <2>1, CoroAssumption DEF Msgs, CallerOf, None, Calls, TypeOK, BookType
  <2>3. StackType'
    BY <1>1, <1>12, <2>1, PopType DEF ProcessClientItem, TypeOK
  <2>4. CASE Accepts(k, m.seq)
    <3>1. YieldToActive(c, k) /\ msg_list' = [msg_list EXCEPT ![k] = Append(@, m)]
          /\ waiting_id' = [waiting_id EXCEPT ![k] = None] /\ UNCHANGED is_waiting
      BY <1>12, <2>4 DEF ProcessClientItem
    <3>2. ControlType' /\ Created' = Created /\ active' \in Seq(Ids)
      BY <1>1, <2>2, <3>1, YieldType DEF TypeOK
    <3>3. Append(msg_list[k], m) \in Seq(Msgs)
      BY <1>1, <2>1, <2>2 DEF TypeOK, MailType
    <3>4. MailType'
      BY <1>1, <3>1, <3>3 DEF TypeOK, MailType
    <3> QED
      BY <1>1, <1>12, <2>3, <3>2, <3>4 DEF ProcessClientItem, TypeOK
  <2>5. CASE ~Accepts(k, m.seq)
    <3>1. UNCHANGED <<mail, active, control>>
      BY <1>12, <2>5 DEF ProcessClientItem
    <3> QED
      BY <1>1, <1>12, <2>3, <3>1 DEF ProcessClientItem, TypeOK
  <2> QED
    BY <2>4, <2>5
<1>13. CASE DoSend(c)
  <2>1. running = c /\ SequenceId \in Calls /\ SequenceId = calls + 1
    BY <1>1, <1>13, CoroAssumption DEF DoSend, In, SequenceId, TypeOK, BookType, Calls
  <2>2. cur \in Ids
    BY <2>1, RunningFacts
  <2>3. StackType'
    BY <1>1, <1>13, <2>1 DEF DoSend, TypeOK, StackType, Goto, Calls
  <2>4. calls' \in 0 .. MaxCalls
    BY <1>1, <1>13, CoroAssumption DEF DoSend, TypeOK, BookType
  <2>5. BookType'
    BY <1>1, <1>13, <2>2, <2>4 DEF DoSend, TypeOK, BookType
  <2> QED
    BY <1>1, <1>13, <2>3, <2>5 DEF DoSend, TypeOK
<1>14. CASE RecieveMessage(c)
  <2>1. running = c /\ at[c] = "sent"
    BY <1>14 DEF RecieveMessage, In
  <2>2. cur \in Ids /\ call[c] \in Calls /\ Created \subseteq Ids
    BY <2>1, RunningFacts
  <2>3. ControlType' /\ Created' = Created
    BY <1>1, <1>14, SuspendType DEF RecieveMessage, TypeOK
  <2>4. StackType'
    BY <1>1, <1>14, GotoType DEF RecieveMessage, TypeOK
  <2>5. ChosenType'
    BY <1>1, <1>14, <2>2, <2>3 DEF RecieveMessage, EraseAvailable, TypeOK, ChosenType
  <2>6. MailType'
    BY <1>1, <1>14, <2>2 DEF RecieveMessage, TypeOK, MailType
  <2>7. timers' \subseteq [call : Calls, coro : Ids]
    BY <1>1, <1>14, <2>2 DEF RecieveMessage, TypeOK
  <2> QED
    BY <1>1, <1>14, <2>3, <2>4, <2>5, <2>6, <2>7 DEF RecieveMessage, TypeOK
<1>15. CASE RecieveAtOnce(c)
  BY <1>1, <1>15, TakeMailType DEF RecieveAtOnce, TypeOK
<1>16. CASE RecieveFreed(c)
  <2>1. call[c] \in Calls
    BY <1>16, RunningFacts DEF RecieveFreed, In
  <2>2. StackType'
    BY <1>1, <1>16, GotoType DEF RecieveFreed, Returns, TypeOK
  <2>3. MailType'
    BY <1>1, <1>16, <2>1 DEF RecieveFreed, TypeOK, MailType
  <2>4. BookType'
    BY <1>1, <1>16 DEF RecieveFreed, Returns, TypeOK, BookType
  <2> QED
    BY <1>1, <1>16, <2>2, <2>3, <2>4 DEF RecieveFreed, TypeOK
<1>17. CASE Awake(c)
  <2>1. running = c
    BY <1>17 DEF Awake, In
  <2>2. ChosenType'
    <3>1. Created' = Created /\ c \in Created
      BY <1>1, <1>17, <2>1, RunningFacts DEF Awake
    <3> QED
      BY <1>1, <1>17, <3>1 DEF Awake, InsertAvailable, TypeOK, ChosenType
  <2> QED
    BY <1>1, <1>17, <2>2, TakeMailType DEF Awake, TypeOK
<1> QED
  BY <1>2, <1>3, <1>4, <1>5, <1>6, <1>7, <1>8, <1>9, <1>10, <1>11, <1>12, <1>13,
     <1>14, <1>15, <1>16, <1>17 DEF Coroutine

\* The steps of a coroutine that neither begin nor end a call.
Quiet(c) ==
  \/ LoopTop(c) \/ Finish(c) \/ FireTimer(c) \/ TimersDone(c)
  \/ TakeTasks(c) \/ NextTask(c) \/ TasksDone(c)
  \/ \E yields \in BOOLEAN : Idle(c, yields)
  \/ TakeBatch(c) \/ BatchDone(c)
  \/ SkipMessage(c) \/ HandleRequest(c) \/ DropOldRequest(c) \/ ProcessClientItem(c)
  \/ UserDone(c)

InCall == {"sent", "waiting"}

\* A quiet step moves its coroutine from one place outside a call to another.
LEMMA QuietMoves ==
  ASSUME IInv, NEW c \in Ids, Quiet(c)
  PROVE  /\ running = c
         /\ \A d \in Ids : /\ at[d] \in InCall => d # c /\ at'[d] = at[d]
                           /\ at'[d] \in InCall => d # c /\ at'[d] = at[d]
         /\ UNCHANGED <<chosen, call, book, cap>>
<1>1. loop[c] \in {"tasks", "batch"} /\ DOMAIN at = Ids
  BY DEF IInv, TypeOK, StackType
<1>2. ASSUME NEW l \in {"top", "timer", "task", "tasks", "process", "batch", "user"},
             Goto(c, l), at[c] \notin InCall
      PROVE  \A d \in Ids : /\ at[d] \in InCall => d # c /\ at'[d] = at[d]
                            /\ at'[d] \in InCall => d # c /\ at'[d] = at[d]
  BY <1>1, <1>2 DEF Goto, InCall
<1>3. ASSUME UNCHANGED at, at[c] \notin InCall
      PROVE  \A d \in Ids : /\ at[d] \in InCall => d # c /\ at'[d] = at[d]
                            /\ at'[d] \in InCall => d # c /\ at'[d] = at[d]
  BY <1>3
<1> USE DEF control, stacks, In, NextIs
<1>4. CASE LoopTop(c) \/ TimersDone(c) \/ TasksDone(c) \/ BatchDone(c) \/ UserDone(c)
  BY <1>1, <1>2, <1>4 DEF LoopTop, TimersDone, TasksDone, BatchDone, UserDone, InCall
<1>5. CASE Finish(c)
  BY <1>3, <1>5 DEF Finish, InCall
<1>6. CASE FireTimer(c)
  BY <1>3, <1>6 DEF FireTimer, YieldToActive, Suspend, InCall
<1>7. CASE TakeTasks(c)
  BY <1>2, <1>7 DEF TakeTasks, InCall
<1>8. CASE NextTask(c) \/ HandleRequest(c)
  BY <1>2, <1>8 DEF NextTask, HandleRequest, RunUserCode, InCall
<1>9. CASE \E yields \in BOOLEAN : Idle(c, yields)
  BY <1>2, <1>9 DEF Idle, Suspend, InCall
<1>10. CASE TakeBatch(c)
  BY <1>2, <1>10 DEF TakeBatch, InCall
<1>11. CASE SkipMessage(c)
  BY <1>3, <1>11 DEF SkipMessage, Suspend, InCall
<1>12. CASE DropOldRequest(c)
  BY <1>3, <1>12 DEF DropOldRequest, InCall
<1>13. CASE ProcessClientItem(c)
  BY <1>3, <1>13 DEF ProcessClientItem, YieldToActive, Suspend, InCall
<1> QED
  BY <1>4, <1>5, <1>6, <1>7, <1>8, <1>9, <1>10, <1>11, <1>12, <1>13 DEF Quiet

\* After YieldToActive either nothing has changed or the main context runs and the
\* other coroutine is next.
LEMMA YieldNext ==
  ASSUME IInv, NEW c \in Ids, running = c, NEW k, YieldToActive(c, k)
  PROVE  \/ UNCHANGED <<active, running, cur, status>> /\ (k = c \/ k \notin Created)
         \/ /\ running' = None /\ active' = <<k>> /\ k \in Created
            /\ \A d \in Ids \ {c} : status'[d] = status[d]
<1>1. active = <<>> /\ DOMAIN status = Ids
  BY RunningFacts DEF TypeOK, ControlType
<1>2. CASE k \in Created /\ k # c
  <2>1. Suspend(c) /\ active' = Append(active, k)
    BY <1>2 DEF YieldToActive
  <2>2. active' = <<k>>
    BY <1>1, <2>1
  <2> QED
    BY <1>1, <1>2, <2>1, <2>2 DEF Suspend
<1>3. CASE ~(k \in Created /\ k # c)
  BY <1>3 DEF YieldToActive, control
<1> QED
  BY <1>2, <1>3

\* A quiet step goes on, yields, or yields to one other coroutine; a timer that it
\* takes out wakes its coroutine.
LEMMA QuietYields ==
  ASSUME IInv, NEW c \in Ids, Quiet(c)
  PROVE  /\ running' = None \/ UNCHANGED <<running, cur>>
         /\ \A d \in Ids \ {c} : status'[d] = status[d]
         /\ active' = <<>> \/ (running' = None /\ \E k \in Created : active' = <<k>>)
         /\ timers' \subseteq timers
         /\ \A t \in timers : t \in timers' \/ active' = <<t.coro>>
<1>1. running = c /\ at[c] \notin InCall /\ c \in Created /\ active = <<>>
  BY QuietMoves, RunningFacts DEF InCall
<1>2. DOMAIN status = Ids
  BY DEF IInv, TypeOK, ControlType
<1>3. ASSUME UNCHANGED <<active, timers>>, running' = None \/ UNCHANGED <<running, cur>>,
             \A d \in Ids \ {c} : status'[d] = status[d]
      PROVE  /\ running' = None \/ UNCHANGED <<running, cur>>
             /\ \A d \in Ids \ {c} : status'[d] = status[d]
             /\ active' = <<>> \/ (running' = None /\ \E k \in Created : active' = <<k>>)
             /\ timers' \subseteq timers
             /\ \A t \in timers : t \in timers' \/ active' = <<t.coro>>
  <2>1. active' = <<>> /\ timers' = timers
    BY <1>1, <1>3
  <2>2. timers' \subseteq timers /\ \A t \in timers : t \in timers'
    BY <2>1
  <2> QED
    BY <1>3, <2>1, <2>2, Zenon
<1> USE DEF control
<1>4. CASE LoopTop(c) \/ TimersDone(c) \/ TasksDone(c) \/ BatchDone(c) \/ UserDone(c)
           \/ TakeBatch(c) \/ DropOldRequest(c) \/ TakeTasks(c)
  BY <1>2, <1>3, <1>4 DEF LoopTop, TimersDone, TasksDone, BatchDone, UserDone,
     TakeBatch, DropOldRequest, TakeTasks
<1>5. CASE Finish(c)
  BY <1>2, <1>3, <1>5 DEF Finish
<1>6. CASE FireTimer(c)
  <2>1. PICK t \in timers : timers' = timers \ {t} /\ YieldToActive(c, t.coro)
    BY <1>6 DEF FireTimer
  <2>2. t.coro \in Blocked /\ t.coro \in Created
    BY <2>1 DEF IInv, BlockedHasTimer, ControlOK
  <2>3. t.coro # c
    BY <1>1, <2>2 DEF Blocked, InCall
  <2>4. running' = None /\ active' = <<t.coro>> /\ \A d \in Ids \ {c} : status'[d] = status[d]
    BY <1>1, <2>1, <2>2, <2>3, YieldNext
  <2> QED
    BY <2>1, <2>2, <2>4
<1>8. CASE NextTask(c) \/ HandleRequest(c)
  BY <1>2, <1>3, <1>8 DEF NextTask, HandleRequest, RunUserCode
<1>9. CASE \E yields \in BOOLEAN : Idle(c, yields)
  BY <1>2, <1>3, <1>9 DEF Idle, Suspend
<1>11. CASE SkipMessage(c)
  BY <1>2, <1>3, <1>11 DEF SkipMessage, Suspend
<1>13. CASE ProcessClientItem(c)
  <2> DEFINE k == CallerOf(Head(batch[c]))
  <2>1. YieldToActive(c, k) \/ UNCHANGED <<active, control>>
    BY <1>13 DEF ProcessClientItem
  <2>2. \/ UNCHANGED <<active, running, cur, status>>
        \/ /\ running' = None /\ active' = <<k>> /\ k \in Created
           /\ \A d \in Ids \ {c} : status'[d] = status[d]
    BY <1>1, <2>1, YieldNext
  <2>3. UNCHANGED timers
    BY <1>13 DEF ProcessClientItem
  <2> HIDE DEF k
  <2>4. CASE UNCHANGED <<active, running, cur, status>>
    BY <1>3, <2>3, <2>4
  <2>5. CASE /\ running' = None /\ active' = <<k>> /\ k \in Created
             /\ \A d \in Ids \ {c} : status'[d] = status[d]
    BY <2>3, <2>5
  <2> QED
    BY <2>2, <2>4, <2>5
<1> QED
  BY <1>4, <1>5, <1>6, <1>8, <1>9, <1>11, <1>13 DEF Quiet

\* A quiet step keeps the control state, the lists and the calls in order.
LEMMA QuietInv ==
  ASSUME IInv, NEW c \in Ids, Quiet(c)
  PROVE  /\ ControlOK' /\ AvailableUnlessBlocked' /\ ActiveIsNext' /\ ActiveExists'
         /\ BlockedHasTimer' /\ CallsOK'
<1>1. /\ running = c /\ c \in Created /\ c # None /\ active = <<>> /\ cur = c
      /\ UNCHANGED <<chosen, call, book, cap>>
  BY QuietMoves, RunningFacts
<1>2. Blocked' = Blocked /\ Created' = Created /\ c \notin Blocked
  BY <1>1, QuietMoves DEF Blocked, InCall, Created
<1>3. ControlOK'
  <2>1. running' # None => running' \in Created' /\ cur' = running'
    BY <1>1, <1>2, QuietYields
  <2>2. \A d \in Blocked' : status'[d] = "suspend"
    BY <1>1, <1>2, QuietYields DEF IInv, ControlOK, Blocked
  <2> QED
    BY <1>2, <2>1, <2>2 DEF ControlOK, IInv
<1>4. AvailableUnlessBlocked'
  BY <1>1, <1>2 DEF IInv, AvailableUnlessBlocked, chosen
<1>5. ActiveIsNext' /\ ActiveExists'
  <2>1. CASE active' = <<>>
    BY <2>1 DEF ActiveIsNext, ActiveExists
  <2>2. CASE running' = None /\ \E k \in Created : active' = <<k>>
    <3>1. PICK k \in Created : active' = <<k>>
      BY <2>2
    <3> QED
      BY <1>2, <2>2, <3>1 DEF ActiveIsNext, ActiveExists
  <2> QED
    BY <2>1, <2>2, QuietYields
<1>6. BlockedHasTimer'
  <2>1. ASSUME NEW d \in Blocked'
        PROVE  \/ [call |-> call'[d], coro |-> d] \in timers'
               \/ \E i \in 1 .. Len(active') : active'[i] = d
    <3> DEFINE t == [call |-> call[d], coro |-> d]
    <3>1. t \in timers /\ call' = call /\ t.coro = d
      BY <1>1, <1>2, <2>1 DEF IInv, BlockedHasTimer
    <3> HIDE DEF t
    <3>2. t \in timers' \/ active' = <<d>>
      BY <3>1, QuietYields
    <3>3. active' = <<d>> => Len(active') = 1 /\ active'[1] = d
      OBVIOUS
    <3> QED
      BY <3>1, <3>2, <3>3 DEF t
  <2>2. ASSUME NEW t \in timers' PROVE t.coro \in Blocked' /\ call'[t.coro] = t.call
    BY <1>1, <1>2, QuietYields DEF IInv, BlockedHasTimer
  <2> QED
    BY <2>1, <2>2 DEF BlockedHasTimer
<1>7. CallsOK'
  <2>1. TypeOK /\ CallsOK
    BY DEF IInv
  <2>2. UNCHANGED <<call, calls, owner, net, result>>
    BY <1>1 DEF book
  <2>3. \A s \in Calls : owner[s] \in Ids
    BY <2>1 DEF TypeOK, BookType
  <2>4. \A d \in Ids : at[d] \in InCall <=> at'[d] \in InCall
    BY QuietMoves
  <2> QED
    BY <2>1, <2>2, <2>3, <2>4 DEF CallsOK, InCall
<1> QED
  BY <1>3, <1>4, <1>5, <1>6, <1>7

\* CoroutineResume of an existing coroutine: a blocked one does continue.
LEMMA SwitchTo ==
  ASSUME IInv, running = None, NEW k \in Ids, Switch(k, status)
  PROVE  /\ running' = k \/ running' = None
         /\ cur' = k
         /\ k \in Blocked => running' = k
         /\ \A d \in Blocked : running' = d \/ status'[d] = "suspend"
<1>1. DOMAIN status = Ids
  BY DEF IInv, TypeOK, ControlType
<1>2. k \in Blocked => status[k] = "suspend"
  BY CoroAssumption DEF IInv, ControlOK, Ids, None
<1>3. k \in Blocked => running' = k
  BY <1>2 DEF Switch
<1>4. \A d \in Ids \ {k} : status'[d] = status[d]
  BY <1>1 DEF Switch
<1>5. ASSUME NEW d \in Blocked, d # k PROVE status'[d] = "suspend"
  <2>1. d \in Ids /\ d # None
    BY <1>5, CoroAssumption DEF Blocked, Ids, None
  <2>2. status[d] = "suspend"
    BY <1>5, <2>1 DEF IInv, ControlOK
  <2> QED
    BY <1>4, <1>5, <2>1, <2>2
<1>6. \A d \in Blocked : running' = d \/ status'[d] = "suspend"
  BY <1>3, <1>5
<1> QED
  BY <1>3, <1>6 DEF Switch

\* A turn of the main loop keeps the control state, the lists and the calls in order.
LEMMA MainInv ==
  ASSUME IInv, ResumeActive \/ ResumeAvailable \/ AddNewCoroutine
  PROVE  /\ ControlOK' /\ AvailableUnlessBlocked' /\ ActiveIsNext' /\ ActiveExists'
         /\ BlockedHasTimer' /\ CallsOK'
<1>1. /\ TypeOK /\ CallsOK /\ running = None
      /\ UNCHANGED <<stacks, timers, book>>
  BY DEF IInv, ResumeActive, ResumeAvailable, AddNewCoroutine
<1>2. CallsOK' /\ Blocked' = Blocked /\ UNCHANGED <<at, call>>
  BY <1>1 DEF CallsOK, stacks, book, Blocked
<1>3. Created \subseteq Ids
  BY <1>1, CoroAssumption DEF TypeOK, ControlType, Created, Ids
<1>4. CASE ResumeActive
  <2> DEFINE k == Head(active)
  <2>1. active = <<k>> /\ active' = <<>> /\ k \in Created
    <3>1. Len(active) = 1 /\ active \in Seq(Ids)
      BY <1>1, <1>4 DEF ResumeActive, IInv, ActiveIsNext, TypeOK
    <3>2. active = <<k>> /\ k = active[1]
      BY <3>1
    <3> QED
      BY <1>4, <3>1, <3>2 DEF ResumeActive, IInv, ActiveExists
  <2>2. Switch(k, status) /\ UNCHANGED <<is_run, cap, chosen>> /\ Created' = Created
    BY <1>4 DEF ResumeActive, Created
  <2>3. k \in Ids
    BY <1>3, <2>1
  <2> HIDE DEF k
  <2>4. ControlOK'
    BY <1>1, <1>2, <2>1, <2>2, <2>3, SwitchTo DEF IInv, ControlOK
  <2>5. AvailableUnlessBlocked' /\ ActiveIsNext' /\ ActiveExists'
    BY <1>2, <2>1, <2>2 DEF IInv, AvailableUnlessBlocked, ActiveIsNext, ActiveExists, chosen
  <2>6. BlockedHasTimer'
    <3>1. ASSUME NEW d \in Blocked'
          PROVE  [call |-> call'[d], coro |-> d] \in timers' \/ running' = d
      <4>1. d \in Ids
        BY <3>1 DEF Blocked
      <4>2. d # None
        BY <4>1, CoroAssumption DEF Ids, None
      <4>3. (\E i \in 1 .. Len(active) : active[i] = d) => d = k
        BY <2>1
      <4>4. [call |-> call[d], coro |-> d] \in timers \/ d = k
        BY <1>1, <1>2, <3>1, <4>2, <4>3 DEF IInv, BlockedHasTimer
      <4> QED
        BY <1>1, <1>2, <2>2, <2>3, <3>1, <4>4, SwitchTo
    <3>2. \A t \in timers' : t.coro \in Blocked' /\ call'[t.coro] = t.call
      BY <1>1, <1>2 DEF IInv, BlockedHasTimer
    <3> QED
      BY <3>1, <3>2 DEF BlockedHasTimer
  <2> QED
    BY <1>2, <2>4, <2>5, <2>6
<1>5. CASE ResumeAvailable \/ AddNewCoroutine
  <2>1. active = <<>> /\ active' = <<>>
    BY <1>5 DEF ResumeAvailable, AddNewCoroutine
  <2>2. BlockedHasTimer'
    <3>1. ASSUME NEW d \in Blocked'
          PROVE  [call |-> call'[d], coro |-> d] \in timers'
      <4>1. d # None
        BY <3>1, CoroAssumption DEF Blocked, Ids, None
      <4> QED
        BY <1>1, <1>2, <2>1, <3>1, <4>1 DEF IInv, BlockedHasTimer
    <3>2. \A t \in timers' : t.coro \in Blocked' /\ call'[t.coro] = t.call
      BY <1>1, <1>2 DEF IInv, BlockedHasTimer
    <3> QED
      BY <3>1, <3>2 DEF BlockedHasTimer
  <2>3. ActiveIsNext' /\ ActiveExists'
    BY <2>1 DEF ActiveIsNext, ActiveExists
  <2>4. ControlOK' /\ AvailableUnlessBlocked'
    <3>1. CASE ResumeAvailable
      <4>1. Switch(begin, status) /\ begin \in Created /\ Created' = Created
        BY <1>1, <3>1 DEF ResumeAvailable, IInv, AvailableUnlessBlocked, Created, TypeOK, ChosenType
      <4>2. ControlOK'
        BY <1>1, <1>2, <1>3, <4>1, SwitchTo DEF IInv, ControlOK
      <4> QED
        BY <1>2, <3>1, <4>1, <4>2 DEF ResumeAvailable, IInv, AvailableUnlessBlocked, chosen
    <3>2. CASE AddNewCoroutine
      <4>1. cap \in Ids /\ Created' = Created \cup {cap} /\ cap \notin Created
        BY <1>1, <3>2, CoroAssumption DEF AddNewCoroutine, TypeOK, ControlType, Ids, Created
      <4>2. cap \notin Blocked
        BY <4>1 DEF IInv, ControlOK
      <4>3. available' = {cap} /\ begin' = cap /\ available = {}
        BY <3>2 DEF AddNewCoroutine, InsertAvailable
      <4>4. running' = cap /\ cur' = cap
            /\ \A d \in Ids \ {cap} : status'[d] = status[d]
        BY <1>1, <3>2, <4>1 DEF AddNewCoroutine, Switch, TypeOK, ControlType
      <4>5. ControlOK'
        BY <1>1, <1>2, <4>1, <4>2, <4>4, CoroAssumption DEF IInv, ControlOK, Blocked, Ids, None
      <4>6. AvailableUnlessBlocked'
        BY <1>2, <4>1, <4>2, <4>3 DEF IInv, AvailableUnlessBlocked
      <4> QED
        BY <4>5, <4>6
    <3> QED
      BY <1>5, <3>1, <3>2
  <2> QED
    BY <1>2, <2>2, <2>3, <2>4
<1> QED
  BY <1>4, <1>5

\* DoSend opens a call.
LEMMA DoSendInv ==
  ASSUME IInv, NEW c \in Ids, DoSend(c)
  PROVE  /\ ControlOK' /\ AvailableUnlessBlocked' /\ ActiveIsNext' /\ ActiveExists'
         /\ BlockedHasTimer' /\ CallsOK'
<1> DEFINE s == calls + 1
<1>1. /\ running = c /\ at[c] = "user" /\ cur = c /\ TypeOK
      /\ UNCHANGED <<control, chosen, active, timers>>
  BY RunningFacts DEF DoSend, In
<1>2. /\ s \in Calls /\ calls' = s
      /\ call' = [call EXCEPT ![c] = s] /\ owner' = [owner EXCEPT ![s] = c]
      /\ net' = [net EXCEPT ![s] = "out"] /\ result' = [result EXCEPT ![s] = "open"]
      /\ at' = [at EXCEPT ![c] = "sent"]
  BY <1>1, CoroAssumption DEF DoSend, SequenceId, Goto, TypeOK, BookType, Calls
<1>3. calls \in Nat /\ DOMAIN call = Ids /\ DOMAIN at = Ids
      /\ DOMAIN owner = Calls /\ DOMAIN net = Calls /\ DOMAIN result = Calls
  BY <1>1, CoroAssumption DEF TypeOK, StackType, BookType
<1>4. result[s] = "unused"
  BY <1>2, <1>3, CoroAssumption DEF IInv, CallsOK, Calls
<1>5. Blocked' = Blocked /\ c \notin Blocked /\ Created' = Created
  BY <1>1, <1>2, <1>3 DEF Blocked, Created, control
<1>6. ControlOK' /\ AvailableUnlessBlocked' /\ ActiveIsNext' /\ ActiveExists'
  BY <1>1, <1>5 DEF IInv, ControlOK, AvailableUnlessBlocked, ActiveIsNext, ActiveExists,
     control, chosen
<1>7. BlockedHasTimer'
  <2>1. \A d \in Blocked : call'[d] = call[d]
    BY <1>2, <1>3, <1>5 DEF Blocked
  <2> QED
    BY <1>1, <1>5, <2>1 DEF IInv, BlockedHasTimer, control
<1>8. CallsOK'
  <2> HIDE DEF s
  <2>1. ASSUME NEW r \in Calls
        PROVE  /\ r <= calls' <=> result'[r] # "unused"
               /\ net'[r] = "unused" <=> result'[r] = "unused"
               /\ result'[r] = "open" => at'[owner'[r]] \in InCall /\ call'[owner'[r]] = r
    <3>1. CASE r = s
      BY <1>1, <1>2, <1>3, <3>1, CoroAssumption DEF Calls, InCall
    <3>2. CASE r # s
      <4>1. result'[r] = result[r] /\ net'[r] = net[r] /\ owner'[r] = owner[r]
        BY <1>2, <1>3, <3>2
      <4>2. owner[r] \in Ids
        BY <1>1 DEF TypeOK, BookType
      <4>3. result[r] = "open" => owner[r] # c
        BY <1>1 DEF IInv, CallsOK
      <4>4. r <= calls' <=> r <= calls
        BY <1>2, <1>3, <3>2, CoroAssumption DEF Calls, s
      <4> QED
        BY <1>2, <1>3, <4>1, <4>2, <4>3, <4>4 DEF IInv, CallsOK, InCall
    <3> QED
      BY <3>1, <3>2
  <2>2. ASSUME NEW d \in Ids, at'[d] \in InCall
        PROVE  call'[d] \in Calls /\ owner'[call'[d]] = d /\ result'[call'[d]] = "open"
    <3>1. CASE d = c
      BY <1>2, <1>3, <3>1
    <3>2. CASE d # c
      <4>1. call'[d] = call[d] /\ call[d] \in Calls /\ owner[call[d]] = d /\ result[call[d]] = "open"
        BY <1>2, <1>3, <2>2, <3>2 DEF IInv, CallsOK, InCall
      <4> QED
        BY <1>2, <1>3, <1>4, <4>1
    <3> QED
      BY <3>1, <3>2
  <2> QED
    BY <2>1, <2>2 DEF CallsOK, InCall
<1> QED
  BY <1>6, <1>7, <1>8

\* RecieveMessage blocks its coroutine, with a timer.
LEMMA RecieveInv ==
  ASSUME IInv, NEW c \in Ids, RecieveMessage(c)
  PROVE  /\ ControlOK' /\ AvailableUnlessBlocked' /\ ActiveIsNext' /\ ActiveExists'
         /\ BlockedHasTimer' /\ CallsOK'
<1>1. /\ running = c /\ at[c] = "sent" /\ cur = c /\ TypeOK /\ c \in Created
      /\ c # None /\ active = <<>> /\ Suspend(c) /\ EraseAvailable(c)
      /\ timers' = timers \cup {[call |-> call[c], coro |-> c]}
      /\ at' = [at EXCEPT ![c] = "waiting"]
      /\ UNCHANGED <<active, call, book>>
  BY RunningFacts DEF RecieveMessage, In, Goto
<1>2. DOMAIN at = Ids /\ DOMAIN status = Ids
  BY <1>1 DEF TypeOK, StackType, ControlType
<1>3. Blocked' = Blocked \cup {c} /\ Created' = Created
  BY <1>1, <1>2 DEF Blocked, Suspend, Created
<1>4. ControlOK'
  <2>1. ASSUME NEW d \in Blocked' PROVE status'[d] = "suspend"
    BY <1>1, <1>2, <1>3, <2>1 DEF IInv, ControlOK, Suspend, Blocked
  <2> QED
    BY <1>1, <1>3, <2>1 DEF ControlOK, IInv, Suspend
<1>5. AvailableUnlessBlocked'
  <2>1. available = Created \ Blocked /\ (available # {} => begin \in available)
    BY DEF IInv, AvailableUnlessBlocked
  <2>2. available' = available \ {c}
    BY <1>1 DEF EraseAvailable
  <2>3. available' # {} => begin' \in available'
    BY <1>1, <2>1, <2>2 DEF EraseAvailable
  <2> QED
    BY <1>3, <2>1, <2>2, <2>3 DEF AvailableUnlessBlocked
<1>6. ActiveIsNext' /\ ActiveExists'
  BY <1>1 DEF ActiveIsNext, ActiveExists
<1>7. BlockedHasTimer'
  <2>1. ASSUME NEW d \in Blocked' PROVE [call |-> call'[d], coro |-> d] \in timers'
    <3>1. CASE d = c
      BY <1>1, <3>1
    <3>2. CASE d # c
      BY <1>1, <1>3, <2>1, <3>2 DEF IInv, BlockedHasTimer
    <3> QED
      BY <3>1, <3>2
  <2>2. ASSUME NEW t \in timers' PROVE t.coro \in Blocked' /\ call'[t.coro] = t.call
    <3>1. CASE t \in timers
      BY <1>1, <1>3, <3>1 DEF IInv, BlockedHasTimer
    <3>2. CASE t = [call |-> call[c], coro |-> c]
      BY <1>1, <1>3, <3>2
    <3> QED
      BY <1>1, <2>2, <3>1, <3>2
  <2> QED
    BY <2>1, <2>2 DEF BlockedHasTimer
<1>8. CallsOK'
  <2>1. \A d \in Ids : at[d] \in InCall <=> at'[d] \in InCall
    BY <1>1, <1>2 DEF InCall
  <2>2. \A s \in Calls : owner[s] \in Ids
    BY <1>1 DEF TypeOK, BookType
  <2>3. UNCHANGED <<call, calls, owner, net, result>>
    BY <1>1 DEF book
  <2> QED
    BY <2>1, <2>2, <2>3 DEF IInv, CallsOK, InCall
<1> QED
  BY <1>4, <1>5, <1>6, <1>7, <1>8

\* The steps that end a call.
Return(c) == RecieveAtOnce(c) \/ RecieveFreed(c) \/ Awake(c)

\* Which parts of the state such a step changes.
LEMMA ReturnMoves ==
  ASSUME IInv, NEW c \in Ids, Return(c)
  PROVE  /\ running = c /\ at[c] \in InCall
         /\ call[c] \in Calls /\ owner[call[c]] = c /\ result[call[c]] = "open"
         /\ at' = [at EXCEPT ![c] = "user"]
         /\ \E r \in {"answered", "nothing"} : result' = [result EXCEPT ![call[c]] = r]
         /\ UNCHANGED <<control, active, call, calls, owner, net>>
         /\ timers' \subseteq timers
         /\ \A t \in timers : t \in timers' \/ t.call = call[c]
<1>1. running = c /\ at[c] \in InCall
  BY DEF Return, RecieveAtOnce, RecieveFreed, Awake, In, InCall
<1>2. call[c] \in Calls /\ owner[call[c]] = c /\ result[call[c]] = "open"
  BY <1>1 DEF IInv, CallsOK, InCall
<1>3. ASSUME TakeMail(c)
      PROVE  /\ at' = [at EXCEPT ![c] = "user"]
             /\ \E r \in {"answered", "nothing"} : result' = [result EXCEPT ![call[c]] = r]
             /\ UNCHANGED <<calls, owner, net>>
             /\ timers' = {t \in timers : t.call # call[c]}
  BY <1>3 DEF TakeMail, Returns, Goto
<1>4. CASE RecieveAtOnce(c)
  BY <1>1, <1>2, <1>3, <1>4 DEF RecieveAtOnce
<1>5. CASE Awake(c)
  BY <1>1, <1>2, <1>3, <1>5 DEF Awake
<1>6. CASE RecieveFreed(c)
  BY <1>1, <1>2, <1>6 DEF RecieveFreed, Returns, Goto
<1> QED
  BY <1>4, <1>5, <1>6 DEF Return

\* The end of a call keeps the control state, the lists and the calls in order.
LEMMA ReturnInv ==
  ASSUME IInv, NEW c \in Ids, Return(c)
  PROVE  /\ ControlOK' /\ AvailableUnlessBlocked' /\ ActiveIsNext' /\ ActiveExists'
         /\ BlockedHasTimer' /\ CallsOK'
<1>1. /\ TypeOK /\ c \in Created /\ c # None /\ active = <<>> /\ cur = c
      /\ running = c /\ Created \subseteq Ids
  BY ReturnMoves, RunningFacts
<1>2. DOMAIN at = Ids /\ DOMAIN result = Calls /\ \A s \in Calls : owner[s] \in Ids
  BY <1>1 DEF TypeOK, StackType, BookType
<1>3. Blocked' = Blocked \ {c} /\ Created' = Created /\ UNCHANGED <<control, active, call>>
  BY <1>2, ReturnMoves DEF Blocked, Created, control
<1>4. ControlOK'
  BY <1>3 DEF IInv, ControlOK, control
<1>5. ActiveIsNext' /\ ActiveExists'
  BY <1>1, <1>3 DEF ActiveIsNext, ActiveExists
<1>6. AvailableUnlessBlocked'
  <2>1. available = Created \ Blocked /\ (available # {} => begin \in available)
    BY DEF IInv, AvailableUnlessBlocked
  <2>2. CASE RecieveAtOnce(c) \/ RecieveFreed(c)
    <3>1. c \notin Blocked /\ UNCHANGED chosen
      BY <2>2 DEF RecieveAtOnce, RecieveFreed, In, Blocked
    <3> QED
      BY <1>3, <2>1, <3>1 DEF AvailableUnlessBlocked, chosen
  <2>3. CASE Awake(c)
    <3>1. c \notin available /\ InsertAvailable(c)
      BY <2>1, <2>3 DEF Awake, In, Blocked
    <3>2. available' = available \cup {c} /\ begin' \in available'
      BY <2>1, <3>1 DEF InsertAvailable
    <3> QED
      BY <1>1, <1>3, <2>1, <3>2 DEF AvailableUnlessBlocked
  <2> QED
    BY <2>2, <2>3 DEF Return
<1>7. BlockedHasTimer'
  <2>1. ASSUME NEW d \in Blocked' PROVE [call |-> call'[d], coro |-> d] \in timers'
    <3> DEFINE t == [call |-> call[d], coro |-> d]
    <3>1. d \in Blocked /\ d # c /\ d \in Ids /\ at[d] = "waiting"
      BY <1>3, <2>1 DEF Blocked
    <3>2. t \in timers /\ t.call = call[d]
      BY <1>1, <3>1 DEF IInv, BlockedHasTimer
    <3>3. owner[call[d]] = d
      BY <3>1 DEF IInv, CallsOK
    <3>4. call[d] # call[c]
      BY <3>1, <3>3, ReturnMoves
    <3> HIDE DEF t
    <3>5. t \in timers'
      BY <3>2, <3>4, ReturnMoves
    <3> QED
      BY <1>3, <3>5 DEF t
  <2>2. ASSUME NEW t \in timers' PROVE t.coro \in Blocked' /\ call'[t.coro] = t.call
    <3>1. t \in timers
      BY ReturnMoves
    <3>2. t.coro \in Blocked /\ call[t.coro] = t.call
      BY <3>1 DEF IInv, BlockedHasTimer
    <3>3. CASE RecieveAtOnce(c) \/ RecieveFreed(c)
      <4>1. c \notin Blocked
        BY <3>3 DEF RecieveAtOnce, RecieveFreed, In, Blocked
      <4> QED
        BY <1>3, <3>2, <4>1
    <3>4. CASE Awake(c)
      <4>1. t.call # call[c]
        BY <3>4 DEF Awake, TakeMail
      <4>2. t.coro # c
        BY <3>2, <4>1
      <4> QED
        BY <1>3, <3>2, <4>2
    <3> QED
      BY <3>3, <3>4 DEF Return
  <2> QED
    BY <2>1, <2>2 DEF BlockedHasTimer
<1>8. CallsOK'
  <2>1. PICK r \in {"answered", "nothing"} : result' = [result EXCEPT ![call[c]] = r]
    BY ReturnMoves
  <2>2. UNCHANGED <<call, calls, owner, net>> /\ at' = [at EXCEPT ![c] = "user"]
    BY ReturnMoves
  <2>3. call[c] \in Calls /\ owner[call[c]] = c /\ result[call[c]] = "open"
    BY ReturnMoves
  <2>4. ASSUME NEW s \in Calls
        PROVE  /\ s <= calls' <=> result'[s] # "unused"
               /\ net'[s] = "unused" <=> result'[s] = "unused"
               /\ result'[s] = "open" => at'[owner'[s]] \in InCall /\ call'[owner'[s]] = s
    <3>1. CASE s = call[c]
      <4>1. result'[s] = r /\ r # "unused" /\ r # "open"
        BY <1>2, <2>1, <3>1
      <4>2. s <= calls /\ net[s] # "unused"
        BY <2>3, <3>1 DEF IInv, CallsOK
      <4> QED
        BY <2>2, <4>1, <4>2
    <3>2. CASE s # call[c]
      <4>1. result'[s] = result[s]
        BY <1>2, <2>1, <3>2
      <4>2. result[s] = "open" => at[owner[s]] \in InCall /\ call[owner[s]] = s
        BY DEF IInv, CallsOK, InCall
      <4>3. result[s] = "open" => owner[s] # c
        BY <3>2, <4>2
      <4>4. (s <= calls <=> result[s] # "unused") /\ (net[s] = "unused" <=> result[s] = "unused")
        BY DEF IInv, CallsOK
      <4> QED
        BY <1>2, <2>2, <4>1, <4>2, <4>3, <4>4
    <3> QED
      BY <3>1, <3>2
  <2>5. ASSUME NEW d \in Ids, at'[d] \in InCall
        PROVE  call'[d] \in Calls /\ owner'[call'[d]] = d /\ result'[call'[d]] = "open"
    <3>1. d # c /\ at[d] \in InCall
      BY <1>2, <2>2, <2>5 DEF InCall
    <3>2. call[d] \in Calls /\ owner[call[d]] = d /\ result[call[d]] = "open"
      BY <3>1 DEF IInv, CallsOK, InCall
    <3>3. call[d] # call[c]
      BY <2>3, <3>1, <3>2
    <3> QED
      BY <1>2, <2>1, <2>2, <3>2, <3>3
  <2> QED
    BY <2>4, <2>5 DEF CallsOK, InCall
<1> QED
  BY <1>4, <1>5, <1>6, <1>7, <1>8

\* Other threads touch neither the coroutines nor the scheduler.
LEMMA OtherMoves ==
  ASSUME OtherThreads
  PROVE  /\ UNCHANGED <<running, cur, cap, status, chosen, active, stacks, mail, timers,
                        calls, owner, result>>
         /\ UNCHANGED net \/ \E s \in Calls : Respond(s)
<1>1. CASE NewRequest
  BY <1>1 DEF NewRequest, Post, control, book
<1>2. CASE NewTask
  BY <1>2 DEF NewTask, control, book
<1>3. CASE Stop
  BY <1>3 DEF Stop, book
<1>4. CASE \E s \in Calls : Respond(s)
  BY <1>4 DEF Respond, Post, control
<1> QED
  BY <1>1, <1>2, <1>3, <1>4 DEF OtherThreads

LEMMA OtherType ==
  ASSUME IInv, OtherThreads
  PROVE  TypeOK'
<1>1. TypeOK
  BY DEF IInv
<1>2. ControlType' /\ Created' = Created
  BY <1>1, OtherMoves DEF OtherThreads, NewRequest, NewTask, Stop, Respond, Post, control,
     TypeOK, ControlType, Created
<1>3. ASSUME NEW m \in Msgs, Post(m) PROVE inbox' \in Seq(Msgs)
  BY <1>1, <1>3 DEF Post, TypeOK, QueueType
<1>4. QueueType'
  <2>1. CASE NewRequest
    <3>1. PICK kind \in {"request", "response"} : Post(Msg(kind, 0))
      BY <2>1 DEF NewRequest
    <3>2. Msg(kind, 0) \in Msgs
      BY CoroAssumption DEF Msg, Msgs
    <3>3. inbox' \in Seq(Msgs) /\ tasks' = tasks /\ requests' = requests + 1
      BY <1>3, <2>1, <3>1, <3>2 DEF NewRequest, Post
    <3> QED
      BY <1>1, <3>3 DEF TypeOK, QueueType
  <2>2. CASE NewTask
    BY <1>1, <2>2 DEF NewTask, TypeOK, QueueType
  <2>3. CASE Stop
    BY <1>1, <2>3, SameType DEF Stop
  <2>4. CASE \E s \in Calls : Respond(s)
    <3>1. PICK s \in Calls : Respond(s)
      BY <2>4
    <3>2. Msg("response", s) \in Msgs /\ Msg("failed", s) \in Msgs
      BY CoroAssumption DEF Msg, Msgs, Calls
    <3>3. inbox' \in Seq(Msgs) /\ tasks' = tasks /\ requests' = requests
      BY <1>3, <3>1, <3>2 DEF Respond, Post
    <3> QED
      BY <1>1, <3>3 DEF TypeOK, QueueType
  <2> QED
    BY <2>1, <2>2, <2>3, <2>4 DEF OtherThreads
<1>5. BookType'
  <2>1. CASE UNCHANGED net
    BY <1>1, <2>1, OtherMoves, SameType DEF book
  <2>2. CASE \E s \in Calls : Respond(s)
    BY <1>1, <2>2 DEF Respond, TypeOK, BookType
  <2> QED
    BY <2>1, <2>2, OtherMoves
<1>6. UNCHANGED <<chosen, stacks, mail, active, timers>>
  BY OtherMoves
<1> QED
  BY <1>1, <1>2, <1>4, <1>5, <1>6, SameType DEF TypeOK

LEMMA OtherInv ==
  ASSUME IInv, OtherThreads
  PROVE  /\ ControlOK' /\ AvailableUnlessBlocked' /\ ActiveIsNext' /\ ActiveExists'
         /\ BlockedHasTimer' /\ CallsOK'
<1>1. UNCHANGED <<running, cur, cap, status, available, begin, active, at, call, timers,
                  calls, owner, result>>
  BY OtherMoves DEF chosen, stacks
<1>2. Blocked' = Blocked /\ Created' = Created
  BY <1>1 DEF Blocked, Created
<1>3. ControlOK' /\ AvailableUnlessBlocked' /\ ActiveIsNext' /\ ActiveExists' /\ BlockedHasTimer'
  BY <1>1, <1>2 DEF IInv, ControlOK, AvailableUnlessBlocked, ActiveIsNext, ActiveExists,
     BlockedHasTimer
<1>4. \A s \in Calls : net'[s] = "unused" <=> net[s] = "unused"
  <2>1. DOMAIN net = Calls
    BY DEF IInv, TypeOK, BookType
  <2> QED
    BY <2>1, OtherMoves DEF Respond
<1>5. CallsOK'
  BY <1>1, <1>4 DEF IInv, CallsOK
<1> QED
  BY <1>3, <1>5

LEMMA StutterInv ==
  ASSUME IInv, UNCHANGED vars
  PROVE  IInv'
<1>1. /\ UNCHANGED <<is_run, running, cur, cap, status, available, begin, active, at, loop,
                     batch, call, is_waiting, waiting_id, msg_list, timers, inbox, tasks,
                     requests>>
      /\ UNCHANGED <<calls, owner, net, result>>
  BY DEF vars, control, chosen, stacks, mail, queues, book
<1>2. TypeOK'
  <2>1. /\ UNCHANGED <<control, chosen, stacks>>
        /\ UNCHANGED <<mail, queues, book, active, timers>>
    BY DEF vars
  <2> QED
    BY <2>1, SameType DEF IInv, TypeOK
<1>3. Blocked' = Blocked /\ Created' = Created /\ Genuine' = Genuine /\ Responses' = Responses
  BY <1>1 DEF Blocked, Created, Genuine, Responses
<1>4. ControlOK' /\ AvailableUnlessBlocked' /\ ActiveIsNext' /\ ActiveExists'
  BY <1>1, <1>3 DEF IInv, ControlOK, AvailableUnlessBlocked, ActiveIsNext, ActiveExists
<1>5. BlockedHasTimer'
  BY <1>1, <1>3 DEF IInv, BlockedHasTimer
<1>6. CallsOK'
  BY <1>1 DEF IInv, CallsOK
<1>7. MailGenuine'
  BY <1>1, <1>3 DEF IInv, MailGenuine
<1> QED
  BY <1>2, <1>4, <1>5, <1>6, <1>7 DEF IInv

\* A coroutine only moves messages about.
LEMMA CoroutineMail ==
  ASSUME IInv, NEW c \in Ids, Coroutine(c)
  PROVE  /\ inbox' \in Seq(Genuine)
         /\ batch' \in [Ids -> Seq(Genuine)]
         /\ msg_list' \in [Ids -> Seq(Responses)]
<1>1. /\ inbox \in Seq(Genuine)
      /\ batch \in [Ids -> Seq(Genuine)]
      /\ msg_list \in [Ids -> Seq(Responses)]
  BY DEF IInv, MailGenuine
<1>2. ASSUME batch[c] # <<>>, PopBatch(c)
      PROVE  batch' \in [Ids -> Seq(Genuine)] /\ Head(batch[c]) \in Genuine
  <2>1. Tail(batch[c]) \in Seq(Genuine) /\ Head(batch[c]) \in Genuine
    BY <1>1, <1>2
  <2> QED
    BY <1>1, <1>2, <2>1 DEF PopBatch
<1>3. ASSUME TakeMail(c) PROVE msg_list' \in [Ids -> Seq(Responses)]
  <2>1. CASE msg_list[c] = <<>>
    BY <1>1, <1>3, <2>1 DEF TakeMail
  <2>2. CASE msg_list[c] # <<>>
    <3>1. Tail(msg_list[c]) \in Seq(Responses)
      BY <1>1, <2>2
    <3> QED
      BY <1>1, <1>3, <2>2, <3>1 DEF TakeMail
  <2> QED
    BY <2>1, <2>2
<1> USE DEF stacks, mail, queues
<1>4. CASE \/ LoopTop(c) \/ TimersDone(c) \/ TasksDone(c) \/ BatchDone(c) \/ UserDone(c)
           \/ Finish(c) \/ FireTimer(c) \/ DoSend(c) \/ RecieveMessage(c) \/ RecieveFreed(c)
  BY <1>1, <1>4 DEF LoopTop, TimersDone, TasksDone, BatchDone, UserDone, Finish, FireTimer,
     DoSend, RecieveMessage, RecieveFreed
<1>5. CASE \E yields \in BOOLEAN : Idle(c, yields)
  BY <1>1, <1>5 DEF Idle
<1>6. CASE TakeTasks(c)
  <2>1. CASE tasks = 0
    BY <1>1, <1>6, <2>1 DEF TakeTasks
  <2>2. CASE tasks # 0
    <3> DEFINE f == [i \in 1 .. tasks |-> Msg("task", 0)]
    <3>1. f \in Seq(Genuine)
      BY TaskBatch DEF IInv, TypeOK, QueueType
    <3>2. batch' = [batch EXCEPT ![c] = f] /\ UNCHANGED <<inbox, msg_list>>
      BY <1>6, <2>2 DEF TakeTasks
    <3> HIDE DEF f
    <3> QED
      BY <1>1, <3>1, <3>2
  <2> QED
    BY <2>1, <2>2
<1>7. CASE NextTask(c) \/ HandleRequest(c)
  BY <1>1, <1>2, <1>7 DEF NextTask, HandleRequest, NextIs, RunUserCode, PopBatch
<1>8. CASE TakeBatch(c)
  <2>1. inbox' = <<>> /\ batch' = [batch EXCEPT ![c] = inbox] /\ UNCHANGED msg_list
    BY <1>8 DEF TakeBatch
  <2> QED
    BY <1>1, <2>1
<1>9. CASE SkipMessage(c) \/ DropOldRequest(c)
  BY <1>1, <1>2, <1>9 DEF SkipMessage, DropOldRequest, NextIs
<1>10. CASE ProcessClientItem(c)
  <2> DEFINE m == Head(batch[c])
             k == CallerOf(m)
  <2>1. /\ batch[c] # <<>> /\ PopBatch(c) /\ UNCHANGED inbox
        /\ m.kind = "response" /\ k >= 0
        /\ UNCHANGED msg_list \/ msg_list' = [msg_list EXCEPT ![k] = Append(@, m)]
    BY <1>10 DEF ProcessClientItem, NextIs
  <2>2. m \in Genuine /\ batch' \in [Ids -> Seq(Genuine)]
    BY <1>2, <2>1
  <2>3. m \in Responses
    <3>1. ASSUME NEW x, CallerOf(x) >= 0 PROVE x.seq # 0
      BY <3>1 DEF CallerOf, None
    <3>2. m.seq # 0
      BY <2>1, <3>1
    <3> HIDE DEF m
    <3> QED
      BY <2>1, <2>2, <3>2 DEF Responses
  <2> HIDE DEF m, k
  <2>4. CASE k \in Ids
    <3>1. Append(msg_list[k], m) \in Seq(Responses)
      BY <1>1, <2>3, <2>4
    <3> QED
      BY <1>1, <2>1, <2>2, <3>1
  <2>5. CASE k \notin Ids
    BY <1>1, <2>1, <2>2, <2>5
  <2> QED
    BY <2>4, <2>5
<1>11. CASE RecieveAtOnce(c) \/ Awake(c)
  BY <1>1, <1>3, <1>11 DEF RecieveAtOnce, Awake
<1> QED
  BY <1>4, <1>5, <1>6, <1>7, <1>8, <1>9, <1>10, <1>11 DEF Coroutine

\* A call to which the server gave a response keeps it.
LEMMA GenuineGrows ==
  ASSUME IInv, Next
  PROVE  Genuine \subseteq Genuine' /\ Responses \subseteq Responses'
<1>1. \A s \in Calls : net[s] = "answered" => net'[s] = "answered"
  <2>1. DOMAIN net = Calls
    BY DEF IInv, TypeOK, BookType
  <2>2. CASE ResumeActive \/ ResumeAvailable \/ AddNewCoroutine \/ Stopped
    BY <2>2 DEF ResumeActive, ResumeAvailable, AddNewCoroutine, Stopped, vars, book
  <2>3. ASSUME NEW c \in Ids, Coroutine(c)
        PROVE  \A s \in Calls : net[s] = "answered" => net'[s] = "answered"
    <3>1. CASE Quiet(c)
      BY <3>1, QuietMoves DEF book
    <3>2. CASE Return(c)
      BY <3>2, ReturnMoves
    <3>3. CASE RecieveMessage(c)
      BY <3>3 DEF RecieveMessage, book
    <3>4. CASE DoSend(c)
      <4>1. SequenceId \in Calls /\ net[SequenceId] = "unused"
        BY <3>4, CoroAssumption DEF DoSend, IInv, CallsOK, TypeOK, BookType, SequenceId, Calls
      <4>2. net' = [net EXCEPT ![SequenceId] = "out"]
        BY <3>4 DEF DoSend
      <4> HIDE DEF SequenceId
      <4> QED
        BY <2>1, <4>1, <4>2
    <3> QED
      BY <2>3, <3>1, <3>2, <3>3, <3>4 DEF Coroutine, Quiet, Return
  <2>4. CASE OtherThreads
    BY <2>1, <2>4, OtherMoves DEF Respond
  <2> QED
    BY <2>2, <2>3, <2>4 DEF Next, ServiceThread
<1>2. \A m \in Msgs : m.kind = "response" /\ m.seq # 0 => m.seq \in Calls
  BY CoroAssumption DEF Msgs, Calls
<1> QED
  BY <1>1, <1>2 DEF Genuine, Responses

\* Every response that is on its way was given to its call.
LEMMA MailInv ==
  ASSUME IInv, Next
  PROVE  MailGenuine'
<1>1. SUFFICES /\ inbox' \in Seq(Genuine')
               /\ batch' \in [Ids -> Seq(Genuine)]
               /\ msg_list' \in [Ids -> Seq(Responses)]
  <2>1. Seq(Genuine) \subseteq Seq(Genuine') /\ Seq(Responses) \subseteq Seq(Responses')
    BY GenuineGrows, SeqMonotonic
  <2>2. batch' \in [Ids -> Seq(Genuine')]
    BY <1>1, <2>1
  <2>3. msg_list' \in [Ids -> Seq(Responses')]
    BY <1>1, <2>1
  <2> QED
    BY <1>1, <2>2, <2>3 DEF MailGenuine
<1>2. inbox \in Seq(Genuine') /\ (inbox' \in Seq(Genuine) => inbox' \in Seq(Genuine'))
  BY GenuineGrows, SeqMonotonic DEF IInv, MailGenuine
<1>3. ASSUME UNCHANGED <<batch, msg_list, inbox>>
      PROVE  /\ inbox' \in Seq(Genuine')
             /\ batch' \in [Ids -> Seq(Genuine)]
             /\ msg_list' \in [Ids -> Seq(Responses)]
  BY <1>2, <1>3 DEF IInv, MailGenuine
<1>4. CASE ResumeActive \/ ResumeAvailable \/ AddNewCoroutine \/ Stopped
  BY <1>3, <1>4 DEF ResumeActive, ResumeAvailable, AddNewCoroutine, Stopped, vars,
     stacks, mail, queues
<1>5. CASE \E c \in Ids : Coroutine(c)
  BY <1>2, <1>5, CoroutineMail
<1>6. CASE OtherThreads
  <2>1. batch' = batch /\ msg_list' = msg_list
    BY <1>6, OtherMoves DEF stacks, mail
  <2>2. ASSUME NEW m \in Genuine', Post(m) PROVE inbox' \in Seq(Genuine')
    BY <1>2, <2>2 DEF Post
  <2>3. inbox' \in Seq(Genuine')
    <3>1. CASE NewRequest
      <4>1. PICK kind \in {"request", "response"} : Post(Msg(kind, 0))
        BY <3>1 DEF NewRequest
      <4>2. Msg(kind, 0) \in Genuine'
        BY CoroAssumption DEF Msg, Msgs, Genuine
      <4> QED
        BY <2>2, <4>1, <4>2
    <3>2. CASE NewTask \/ Stop
      BY <1>2, <3>2 DEF NewTask, Stop, queues
    <3>3. CASE \E s \in Calls : Respond(s)
      <4>1. PICK s \in Calls : Respond(s)
        BY <3>3
      <4>2. Msg("response", s) \in Msgs /\ Msg("failed", s) \in Msgs
        BY CoroAssumption DEF Msg, Msgs, Calls
      <4>3. CASE net' = [net EXCEPT ![s] = "answered"] /\ Post(Msg("response", s))
        <5>1. net'[s] = "answered"
          BY <4>3 DEF IInv, TypeOK, BookType
        <5>2. Msg("response", s) \in Genuine'
          BY <4>2, <5>1 DEF Msg, Genuine
        <5> QED
          BY <2>2, <4>3, <5>2
      <4>4. CASE net' = [net EXCEPT ![s] = "failed"] /\ Post(Msg("failed", s))
        <5>1. Msg("failed", s) \in Genuine'
          BY <4>2 DEF Msg, Genuine
        <5> QED
          BY <2>2, <4>4, <5>1
      <4> QED
        BY <4>1, <4>3, <4>4 DEF Respond
    <3> QED
      BY <1>6, <3>1, <3>2, <3>3 DEF OtherThreads
  <2> QED
    BY <2>1, <2>3 DEF IInv, MailGenuine
<1> QED
  BY <1>4, <1>5, <1>6 DEF Next, ServiceThread

-----------------------------------------------------------------------------
(* The inductive invariant                                                 *)

LEMMA InitInv == Init => IInv
<1> SUFFICES ASSUME Init PROVE IInv
  OBVIOUS
<1>1. TypeOK /\ active = <<>> /\ Blocked = {}
  BY InitType DEF Init, Blocked
<1>2. ControlOK
  BY <1>1 DEF Init, ControlOK
<1>3. AvailableUnlessBlocked /\ ActiveIsNext /\ ActiveExists
  BY <1>1, CoroAssumption DEF Init, AvailableUnlessBlocked, ActiveIsNext, ActiveExists, Created
<1>4. BlockedHasTimer
  BY <1>1 DEF Init, BlockedHasTimer
<1>5. CallsOK
  <2>1. \A c \in Ids : at[c] = "top"
    BY DEF Init
  <2>2. \A s \in Calls : ~(s <= calls) /\ result[s] = "unused" /\ net[s] = "unused"
    BY CoroAssumption DEF Init, Calls
  <2> QED
    BY <2>1, <2>2 DEF CallsOK
<1>6. MailGenuine
  BY DEF Init, MailGenuine
<1> QED
  BY <1>1, <1>2, <1>3, <1>4, <1>5, <1>6 DEF IInv

LEMMA StepInv == IInv /\ [Next]_vars => IInv'
<1> SUFFICES ASSUME IInv, [Next]_vars PROVE IInv'
  OBVIOUS
<1>1. CASE ResumeActive \/ ResumeAvailable \/ AddNewCoroutine
  BY <1>1, MainType, MainInv, MailInv DEF IInv, Next, ServiceThread
<1>2. ASSUME NEW c \in Ids, Coroutine(c) PROVE IInv'
  <2>1. TypeOK' /\ MailGenuine'
    BY <1>2, CoroutineType, MailInv DEF Next, ServiceThread
  <2>2. CASE Quiet(c)
    BY <2>1, <2>2, QuietInv DEF IInv
  <2>3. CASE Return(c)
    BY <2>1, <2>3, ReturnInv DEF IInv
  <2>4. CASE DoSend(c)
    BY <2>1, <2>4, DoSendInv DEF IInv
  <2>5. CASE RecieveMessage(c)
    BY <2>1, <2>5, RecieveInv DEF IInv
  <2> QED
    BY <1>2, <2>2, <2>3, <2>4, <2>5 DEF Coroutine, Quiet, Return
<1>3. CASE OtherThreads
  BY <1>3, OtherType, OtherInv, MailInv DEF IInv, Next
<1>4. CASE Stopped \/ UNCHANGED vars
  BY <1>4, StutterInv DEF Stopped
<1> QED
  BY <1>1, <1>2, <1>3, <1>4 DEF Next, ServiceThread

\* Every variable of the scheduler keeps its type, however many coroutines and calls
\* there are (coroutine_schedule.cpp, coroutine_actor.cpp, coroutine_service_handle.cpp).
THEOREM CoroTypeOK == Spec => []TypeOK
<1>1. IInv => TypeOK
  BY DEF IInv
<1> QED
  BY InitInv, StepInv, <1>1, PTL DEF Spec

\* The set of coroutines that may be resumed holds exactly those that are not blocked
\* in RecieveMessage, whatever list a coroutine was last resumed from; only one
\* coroutine at a time is to be woken, and it is the next to run; a blocked coroutine
\* keeps its timer until it is woken, so that no wake-up is lost, and a timer is gone
\* when its call has returned.
THEOREM SchedulerCorrect == Spec => []SchedulerOK
<1>1. IInv => SchedulerOK
  BY DEF IInv, SchedulerOK
<1> QED
  BY InitInv, StepInv, <1>1, PTL DEF Spec

-----------------------------------------------------------------------------
(* The refinement of SendRecieve                                           *)

LEMMA InitRefines == Init => SR!Init
BY CoroAssumption DEF Init, SR!Init, Calls, Ids

\* DoSend is Begin: the caller has no other call open.
LEMMA DoSendRefines ==
  ASSUME IInv, NEW c \in Ids, DoSend(c)
  PROVE  SR!Next
<1> DEFINE s == calls + 1
<1>1. /\ running = c /\ at[c] = "user" /\ cur = c /\ TypeOK
  BY RunningFacts DEF DoSend, In
<1>2. /\ s \in Calls
      /\ owner' = [owner EXCEPT ![s] = c]
      /\ net' = [net EXCEPT ![s] = "out"] /\ result' = [result EXCEPT ![s] = "open"]
  BY <1>1, CoroAssumption DEF DoSend, SequenceId, TypeOK, BookType, Calls
<1>3. result[s] = "unused" /\ net[s] = "unused" /\ DOMAIN net = Calls
  BY <1>1, <1>2, CoroAssumption DEF IInv, CallsOK, Calls, TypeOK, BookType
<1> HIDE DEF s
<1>4. SR!Open(c) = {}
  BY <1>1 DEF SR!Open, IInv, CallsOK
<1>5. {r \in Calls : net'[r] = "answered"} = {r \in Calls : net[r] = "answered"}
  BY <1>2, <1>3
<1>6. SR!Begin(s, c)
  BY <1>2, <1>3, <1>4, <1>5 DEF SR!Begin
<1> QED
  BY <1>2, <1>6 DEF SR!Next

\* A return with a response is Answer: the response in the mailbox has the number of
\* the call, and the server gave it.  Any other return is GiveUp.
LEMMA ReturnRefines ==
  ASSUME IInv, NEW c \in Ids, Return(c)
  PROVE  SR!Next
<1>1. /\ call[c] \in Calls /\ result[call[c]] = "open"
      /\ UNCHANGED <<owner, net>>
  BY ReturnMoves
<1>2. CASE result' = [result EXCEPT ![call[c]] = "nothing"]
  BY <1>1, <1>2 DEF SR!Next, SR!GiveUp
<1>3. CASE result' = [result EXCEPT ![call[c]] = "answered"]
  <2>1. SUFFICES net[call[c]] = "answered"
    BY <1>1, <1>3 DEF SR!Next, SR!Answer
  <2>2. result'[call[c]] = "answered"
    BY <1>1, <1>3 DEF IInv, TypeOK, BookType
  <2>3. result' # [result EXCEPT ![call[c]] = "nothing"]
    BY <1>1, <2>2 DEF IInv, TypeOK, BookType
  <2>4. TakeMail(c)
    BY <2>3 DEF Return, RecieveAtOnce, RecieveFreed, Awake, Returns
  <2>5. msg_list[c] # <<>> /\ Head(msg_list[c]).seq = call[c]
    BY <2>3, <2>4 DEF TakeMail, Returns
  <2>6. Head(msg_list[c]) \in Responses
    <3>1. msg_list[c] \in Seq(Responses)
      BY DEF IInv, MailGenuine
    <3> QED
      BY <2>5, <3>1
  <2> QED
    BY <1>1, <2>5, <2>6 DEF Responses, Genuine
<1> QED
  BY <1>2, <1>3, ReturnMoves

\* A response of the server is Give.
LEMMA RespondRefines ==
  ASSUME IInv, NEW s \in Calls, Respond(s)
  PROVE  SR!Next \/ UNCHANGED SR!vars
<1>1. net[s] = "out" /\ result[s] # "unused" /\ UNCHANGED <<owner, result>> /\ DOMAIN net = Calls
  BY DEF Respond, IInv, CallsOK, TypeOK, BookType
<1>2. CASE net' = [net EXCEPT ![s] = "answered"]
  <2>1. {r \in Calls : net'[r] = "answered"} = {r \in Calls : net[r] = "answered"} \cup {s}
    BY <1>1, <1>2
  <2>2. SR!Give(s)
    BY <1>1, <2>1 DEF SR!Give
  <2> QED
    BY <2>2 DEF SR!Next
<1>3. CASE net' = [net EXCEPT ![s] = "failed"]
  <2>1. {r \in Calls : net'[r] = "answered"} = {r \in Calls : net[r] = "answered"}
    BY <1>1, <1>3
  <2> QED
    BY <1>1, <2>1 DEF SR!vars
<1> QED
  BY <1>2, <1>3 DEF Respond

LEMMA StepRefines == IInv /\ [Next]_vars => [SR!Next]_SR!vars
<1> SUFFICES ASSUME IInv, [Next]_vars PROVE SR!Next \/ UNCHANGED SR!vars
  OBVIOUS
<1>1. ASSUME UNCHANGED <<owner, net, result>> PROVE UNCHANGED SR!vars
  BY <1>1 DEF SR!vars
<1>2. CASE ResumeActive \/ ResumeAvailable \/ AddNewCoroutine \/ Stopped \/ UNCHANGED vars
  BY <1>1, <1>2 DEF ResumeActive, ResumeAvailable, AddNewCoroutine, Stopped, vars, book
<1>3. ASSUME NEW c \in Ids, Coroutine(c) PROVE SR!Next \/ UNCHANGED SR!vars
  <2>1. CASE Quiet(c)
    BY <1>1, <2>1, QuietMoves DEF book
  <2>2. CASE RecieveMessage(c)
    BY <1>1, <2>2 DEF RecieveMessage, book
  <2> QED
    BY <1>3, <2>1, <2>2, DoSendRefines, ReturnRefines DEF Coroutine, Quiet, Return
<1>4. CASE OtherThreads
  BY <1>1, <1>4, OtherMoves, RespondRefines
<1> QED
  BY <1>2, <1>3, <1>4 DEF Next, ServiceThread

\* A call of SendRecieve returns once, with the response that the server gave to this
\* very call or with nothing, even if its message is destroyed while RecieveMessage
\* still reads it: the thread implements the abstract specification
\* (client.cpp, coroutine_actor.cpp).
THEOREM CoroutinesImplementSendRecieve == Spec => SendRecieveSpec
BY InitInv, StepInv, InitRefines, StepRefines, PTL DEF Spec, SendRecieveSpec, SR!Spec

-----------------------------------------------------------------------------
(* The mailboxes, if the caller's message is kept until RecieveMessage     *)
(* has read it.                                                            *)

\* A step that leaves the mailboxes alone and neither begins nor ends a wait.
LEMMA SameMailbox ==
  ASSUME MailboxOK, UNCHANGED mail, Blocked' = Blocked,
         \A d \in Blocked : call'[d] = call[d]
  PROVE  MailboxOK'
BY DEF MailboxOK, mail

\* A response is accepted by its caller, which is blocked and has no other.
LEMMA ProcessClientItemMailbox ==
  ASSUME MInv, NEW c \in Ids, ProcessClientItem(c)
  PROVE  MailboxOK' /\ ActiveIsBlocked'
<1> DEFINE m == Head(batch[c])
           k == CallerOf(m)
<1>1. Quiet(c) /\ IInv /\ TypeOK /\ MailboxOK
  BY DEF Quiet, MInv, IInv
<1>2. running = c /\ active = <<>> /\ UNCHANGED call /\ Blocked' = Blocked
  BY <1>1, QuietMoves, RunningFacts DEF Blocked, InCall
<1>3. m \in Msgs /\ k >= 0
  BY <1>1 DEF ProcessClientItem, NextIs, TypeOK, StackType
<1>4. m.seq \in Calls /\ k \in Ids
  BY <1>1, <1>3, CoroAssumption DEF Msgs, CallerOf, None, Calls, TypeOK, BookType
<1>5. CASE ~Accepts(k, m.seq)
  <2>1. UNCHANGED <<mail, active>>
    BY <1>5 DEF ProcessClientItem
  <2> QED
    BY <1>1, <1>2, <2>1, SameMailbox DEF ActiveIsBlocked
<1>6. CASE Accepts(k, m.seq)
  <2>1. /\ msg_list' = [msg_list EXCEPT ![k] = Append(@, m)]
        /\ waiting_id' = [waiting_id EXCEPT ![k] = None]
        /\ UNCHANGED is_waiting /\ YieldToActive(c, k)
    BY <1>6 DEF ProcessClientItem
  <2> HIDE DEF m, k
  <2>2. k \in Blocked /\ msg_list[k] = <<>> /\ call[k] = m.seq
    <3>1. is_waiting[k] /\ waiting_id[k] = m.seq /\ m.seq # None
      BY <1>4, <1>6, CoroAssumption DEF Accepts, Calls, None
    <3> QED
      BY <1>1, <1>4, <3>1 DEF MailboxOK
  <2>3. DOMAIN msg_list = Ids /\ DOMAIN waiting_id = Ids
    BY <1>1 DEF TypeOK, MailType
  <2>4. msg_list'[k] = <<m>> /\ waiting_id'[k] = None
    BY <1>4, <2>1, <2>2, <2>3
  <2>5. Len(<<m>>) = 1 /\ <<m>>[1] = m /\ <<m>> # <<>>
    OBVIOUS
  <2>6. MailboxOK'
    <3>1. ASSUME NEW d \in Ids, d # k
          PROVE  msg_list'[d] = msg_list[d] /\ waiting_id'[d] = waiting_id[d]
      BY <2>1, <2>3, <3>1
    <3> QED
      BY <1>1, <1>2, <2>1, <2>2, <2>4, <2>5, <3>1 DEF MailboxOK
  <2>7. ActiveIsBlocked'
    <3>1. active' = <<>> \/ active' = <<k>>
      BY <1>1, <1>2, <2>1, YieldNext
    <3> QED
      BY <1>2, <2>2, <3>1 DEF ActiveIsBlocked
  <2> QED
    BY <2>6, <2>7
<1> QED
  BY <1>5, <1>6

LEMMA QuietMailbox ==
  ASSUME MInv, NEW c \in Ids, Quiet(c)
  PROVE  MailboxOK' /\ ActiveIsBlocked'
<1>1. IInv /\ MailboxOK
  BY DEF MInv
<1>2. active = <<>> /\ UNCHANGED call /\ Blocked' = Blocked
  BY <1>1, QuietMoves, RunningFacts DEF Blocked, InCall
<1>3. ASSUME UNCHANGED mail, active' = <<>> \/ \E d \in Blocked : active' = <<d>>
      PROVE  MailboxOK' /\ ActiveIsBlocked'
  BY <1>1, <1>2, <1>3, SameMailbox DEF ActiveIsBlocked
<1>4. CASE ProcessClientItem(c)
  BY <1>4, ProcessClientItemMailbox
<1>5. CASE FireTimer(c)
  <2>1. PICK t \in timers : timers' = timers \ {t} /\ YieldToActive(c, t.coro) /\ UNCHANGED mail
    BY <1>5 DEF FireTimer
  <2>2. t.coro \in Blocked
    BY <1>1 DEF IInv, BlockedHasTimer
  <2>3. active' = <<>> \/ active' = <<t.coro>>
    BY <1>1, <1>2, <2>1, QuietMoves, YieldNext
  <2> QED
    BY <1>3, <2>1, <2>2, <2>3
<1>6. CASE ~ProcessClientItem(c) /\ ~FireTimer(c)
  <2>1. UNCHANGED <<mail, active>>
    BY <1>6 DEF Quiet, LoopTop, Finish, TimersDone, TakeTasks, NextTask, TasksDone, Idle,
       TakeBatch, BatchDone, SkipMessage, HandleRequest, DropOldRequest, UserDone, RunUserCode
  <2> QED
    BY <1>2, <1>3, <2>1
<1> QED
  BY <1>4, <1>5, <1>6

LEMMA RecieveMailbox ==
  ASSUME MInv, NEW c \in Ids, RecieveMessage(c)
  PROVE  MailboxOK' /\ ActiveIsBlocked'
<1>1. TypeOK /\ MailboxOK /\ active' = <<>>
  BY RunningFacts DEF MInv, RecieveMessage, In
<1>2. /\ msg_list[c] = <<>> /\ UNCHANGED <<msg_list, call>>
      /\ is_waiting' = [is_waiting EXCEPT ![c] = TRUE]
      /\ waiting_id' = [waiting_id EXCEPT ![c] = call[c]]
      /\ at' = [at EXCEPT ![c] = "waiting"]
  BY DEF RecieveMessage, Goto
<1>3. DOMAIN at = Ids /\ DOMAIN is_waiting = Ids /\ DOMAIN waiting_id = Ids
  BY <1>1 DEF TypeOK, StackType, MailType
<1>4. Blocked' = Blocked \cup {c}
  BY <1>2, <1>3 DEF Blocked
<1>5. MailboxOK'
  <2>1. is_waiting'[c] = TRUE /\ waiting_id'[c] = call[c]
    BY <1>2, <1>3
  <2>2. \A d \in Ids \ {c} : is_waiting'[d] = is_waiting[d] /\ waiting_id'[d] = waiting_id[d]
    BY <1>2, <1>3
  <2> QED
    BY <1>1, <1>2, <1>4, <2>1, <2>2 DEF MailboxOK
<1> QED
  BY <1>1, <1>5 DEF ActiveIsBlocked

\* The coroutine takes the only message there is.
LEMMA ReturnMailbox ==
  ASSUME MInv, NEW c \in Ids, Return(c), ~RecieveFreed(c)
  PROVE  MailboxOK' /\ ActiveIsBlocked'
<1>1. IInv /\ TypeOK /\ MailboxOK
  BY DEF MInv, IInv
<1>2. Awake(c)
  <2>1. ~RecieveAtOnce(c)
    BY <1>1 DEF RecieveAtOnce, MailboxOK, In, Blocked
  <2> QED
    BY <2>1 DEF Return
<1>3. active' = <<>> /\ UNCHANGED call
  BY <1>1, ReturnMoves, RunningFacts
<1>4. DOMAIN at = Ids /\ DOMAIN is_waiting = Ids /\ DOMAIN waiting_id = Ids /\ DOMAIN msg_list = Ids
  BY <1>1 DEF TypeOK, StackType, MailType
<1>5. Blocked' = Blocked \ {c} /\ c \in Blocked
  BY <1>1, <1>2, <1>4, ReturnMoves DEF Blocked, Awake, In
<1>6. is_waiting' = [is_waiting EXCEPT ![c] = FALSE]
      /\ waiting_id' = [waiting_id EXCEPT ![c] = None]
  BY <1>2 DEF Awake, TakeMail
<1>7. msg_list'[c] = <<>> /\ \A d \in Ids \ {c} : msg_list'[d] = msg_list[d]
  <2>1. CASE msg_list[c] = <<>>
    BY <1>2, <2>1 DEF Awake, TakeMail
  <2>2. CASE msg_list[c] # <<>>
    <3>1. Len(msg_list[c]) = 1 /\ msg_list[c] \in Seq(Msgs)
      BY <1>1, <1>5, <2>2 DEF MailboxOK, TypeOK, MailType
    <3>2. Tail(msg_list[c]) = <<>>
      <4>1. Tail(msg_list[c]) \in Seq(Msgs) /\ Len(Tail(msg_list[c])) = 0
        BY <2>2, <3>1
      <4> QED
        BY <4>1, EmptySeq
    <3>3. msg_list' = [msg_list EXCEPT ![c] = Tail(@)]
      BY <1>2, <2>2 DEF Awake, TakeMail
    <3> QED
      BY <1>4, <3>2, <3>3
  <2> QED
    BY <2>1, <2>2
<1>8. MailboxOK'
  <2>1. is_waiting'[c] = FALSE
    BY <1>4, <1>6
  <2>2. \A d \in Ids \ {c} : is_waiting'[d] = is_waiting[d] /\ waiting_id'[d] = waiting_id[d]
    BY <1>4, <1>6
  <2> QED
    BY <1>1, <1>3, <1>5, <1>7, <2>1, <2>2 DEF MailboxOK
<1> QED
  BY <1>3, <1>8 DEF ActiveIsBlocked

LEMMA MailboxStep ==
  ASSUME MInv, [Next]_vars, \A c \in Ids : ~RecieveFreed(c)
  PROVE  MInv'
<1> SUFFICES MailboxOK' /\ ActiveIsBlocked'
  BY StepInv DEF MInv
<1>1. IInv /\ MailboxOK /\ ActiveIsBlocked /\ TypeOK
  BY DEF MInv, IInv
<1>2. ASSUME UNCHANGED <<stacks, mail>> PROVE MailboxOK' /\ Blocked' = Blocked
  BY <1>1, <1>2, SameMailbox DEF stacks, Blocked
<1>3. CASE ResumeActive
  <2>1. Len(active) = 1 /\ active \in Seq(Ids) /\ active' = Tail(active) /\ UNCHANGED <<stacks, mail>>
    BY <1>1, <1>3 DEF ResumeActive, IInv, ActiveIsNext, TypeOK
  <2>2. active' = <<>>
    BY <2>1
  <2> QED
    BY <1>2, <2>1, <2>2 DEF ActiveIsBlocked
<1>4. CASE ResumeAvailable \/ AddNewCoroutine \/ Stopped \/ UNCHANGED vars
  <2>1. UNCHANGED <<stacks, mail, active>>
    BY <1>4 DEF ResumeAvailable, AddNewCoroutine, Stopped, vars
  <2> QED
    BY <1>1, <1>2, <2>1 DEF ActiveIsBlocked
<1>5. ASSUME NEW c \in Ids, DoSend(c) PROVE MailboxOK' /\ ActiveIsBlocked'
  <2>1. /\ at[c] = "user" /\ at' = [at EXCEPT ![c] = "sent"] /\ UNCHANGED <<mail, active>>
        /\ call' = [call EXCEPT ![c] = SequenceId]
    BY <1>5 DEF DoSend, In, Goto
  <2>2. DOMAIN at = Ids /\ DOMAIN call = Ids
    BY <1>1 DEF TypeOK, StackType
  <2>3. Blocked' = Blocked /\ \A d \in Blocked : call'[d] = call[d]
    BY <2>1, <2>2 DEF Blocked
  <2> QED
    BY <1>1, <2>1, <2>3, SameMailbox DEF ActiveIsBlocked
<1>6. ASSUME NEW c \in Ids, Coroutine(c) PROVE MailboxOK' /\ ActiveIsBlocked'
  BY <1>5, <1>6, QuietMailbox, RecieveMailbox, ReturnMailbox DEF Coroutine, Quiet, Return
<1>7. CASE OtherThreads
  <2>1. UNCHANGED <<stacks, mail, active>>
    BY <1>7, OtherMoves
  <2> QED
    BY <1>1, <1>2, <2>1 DEF ActiveIsBlocked
<1> QED
  BY <1>3, <1>4, <1>6, <1>7 DEF Next, ServiceThread

LEMMA InitMailbox == Init => MInv
<1> SUFFICES ASSUME Init PROVE MailboxOK /\ ActiveIsBlocked
  BY InitInv DEF MInv
<1> QED
  BY DEF Init, MailboxOK, ActiveIsBlocked, Blocked

LEMMA MailboxSuffices == MInv => MailboxMatchesCall
<1> SUFFICES ASSUME MInv PROVE MailAnswersCall /\ BlockedAccepts
  BY DEF MInv, MailboxMatchesCall
<1>1. MailAnswersCall
  <2>1. ASSUME NEW c \in Ids, msg_list[c] # <<>>
        PROVE  c \in Blocked /\ Len(msg_list[c]) = 1 /\ Head(msg_list[c]).seq = call[c]
    <3>1. c \in Blocked /\ Len(msg_list[c]) = 1 /\ msg_list[c][1].seq = call[c]
      BY <2>1 DEF MInv, MailboxOK
    <3>2. msg_list[c] \in Seq(Msgs)
      BY DEF MInv, IInv, TypeOK, MailType
    <3>3. Head(msg_list[c]) = msg_list[c][1]
      BY <3>1, <3>2
    <3> QED
      BY <3>1, <3>3
  <2> QED
    BY <2>1 DEF MailAnswersCall
<1>2. BlockedAccepts
  BY DEF BlockedAccepts, Accepts, MInv, MailboxOK, Blocked
<1> QED
  BY <1>1, <1>2

\* As long as the message of a caller is not destroyed before RecieveMessage has read
\* it, a coroutine is woken only where it is blocked in RecieveMessage, what its mailbox
\* holds is the response to its call, and a response that comes before the timeout is
\* accepted (coroutine_actor.cpp, coroutine_service_handle.cpp).
THEOREM MailboxCorrect ==
  ASSUME MessageKept
  PROVE  Spec => []MailboxMatchesCall
<1>1. MInv /\ [Next]_vars => MInv'
  <2>1. \A c \in Ids : ~RecieveFreed(c)
    BY DEF RecieveFreed
  <2> QED
    BY <2>1, MailboxStep
<1> QED
  BY InitMailbox, <1>1, MailboxSuffices, PTL DEF Spec

\* Messages may be freed early, and are in DoRecieve: up to the first that is read after
\* that, a coroutine is woken only by its timer or by the response to its own call
\* (client/client.h, coroutine_actor.cpp).
THEOREM MailboxOfKeptCorrect == KeptSpec => []MailboxOfKept
<1> DEFINE KInv == IInv /\ (kept_so_far => MInv)
<1>1. KeptInit => KInv
  BY InitMailbox DEF KeptInit, MInv
<1>2. KInv /\ [KeptNext]_<<vars, kept_so_far>> => KInv'
  <2> SUFFICES ASSUME KInv, [KeptNext]_<<vars, kept_so_far>> PROVE KInv'
    OBVIOUS
  <2>1. [Next]_vars
    BY DEF KeptNext
  <2>2. IInv'
    BY <2>1, StepInv
  <2>3. ASSUME kept_so_far' PROVE MInv'
    <3>1. CASE UNCHANGED <<vars, kept_so_far>>
      <4>1. kept_so_far /\ MInv /\ UNCHANGED vars
        BY <2>3, <3>1
      <4>2. \A c \in Ids : ~RecieveFreed(c)
        <5>1. ASSUME NEW c \in Ids, RecieveFreed(c) PROVE FALSE
          BY <4>1, <5>1 DEF RecieveFreed, vars, stacks, Goto, Returns, In, MInv, IInv, TypeOK, StackType
        <5> QED
          BY <5>1
      <4> QED
        BY <2>1, <4>1, <4>2, MailboxStep
    <3>2. CASE KeptNext
      <4>1. kept_so_far /\ MInv /\ \A c \in Ids : ~RecieveFreed(c)
        BY <2>3, <3>2 DEF KeptNext
      <4> QED
        BY <2>1, <4>1, MailboxStep
    <3> QED
      BY <3>1, <3>2
  <2> QED
    BY <2>2, <2>3
<1>3. KInv => MailboxOfKept
  BY MailboxSuffices DEF MailboxOfKept
<1> QED
  BY <1>1, <1>2, <1>3, PTL DEF KeptSpec

==============================================================================
