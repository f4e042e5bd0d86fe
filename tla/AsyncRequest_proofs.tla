------------------------ MODULE AsyncRequest_proofs ------------------------
(***************************************************************************)
(* Proofs about AsyncRequest for any number of requests and any timeouts.  *)
(***************************************************************************)
EXTENDS AsyncRequest, HeapOps_proofs, FiniteSetTheorems

----------------------------------------------------------------------------
(* The requests.                                                           *)
Slots == Cardinality(Request)
Status == {"ok", "timeout", "failed"}

RequestTypes ==
    /\ now \in Nat /\ cur_time_ms \in Nat /\ cur_time_ms <= now
    /\ birthtime \in [DOMAIN birthtime -> Nat] /\ DOMAIN birthtime \subseteq Message
    /\ \A m \in DOMAIN birthtime : birthtime[m] <= now
    /\ data_ \in Seq(DOMAIN birthtime) /\ temp \in Seq(DOMAIN birthtime)
    /\ phase \in {"poll", "timers", "events", "run"}
    /\ phase # "run" => temp = <<>>
    /\ registery_ \subseteq Request /\ registery_ \subseteq sent
    /\ sent \subseteq DOMAIN birthtime /\ answered \subseteq sent
    /\ arrived \in Seq(answered \cap Request)
    /\ results \in [Request -> Seq(Status)]
    /\ destroyed \subseteq DOMAIN birthtime
    /\ robbed \in BOOLEAN

(* What MessageInOnePlace says of each message, of all of them. *)
InOnePlace(queue, batch, registered, released, all) ==
    /\ queue \cup batch \cup registered \cup released = all
    /\ queue \cap batch = {} /\ queue \cap registered = {} /\ queue \cap released = {}
    /\ batch \cap registered = {} /\ batch \cap released = {} /\ registered \cap released = {}

PlaceInv ==
    /\ Once(data_) /\ Once(temp)
    /\ \A m \in Request : Len(results[m]) <= 1
    /\ InOnePlace(Elems(data_), Elems(temp), registery_, Released, DOMAIN birthtime)
    /\ sent \cap (Elems(data_) \cup Elems(temp)) = {}

(* What is true of the timers even when a node is live twice. *)
TimerTypes ==
    /\ HeapType(heap_timer_, Slots)
    /\ heap_timer_.num <= Cardinality(sent \cap Request)
    /\ DOMAIN function_data \subseteq 1 .. Slots
    /\ \A n \in DOMAIN function_data :
          function_data[n] \in Request /\ heap_timer_.index[n] # 0
    /\ Live \subseteq DOMAIN function_data
    /\ timer_out_id \in [Request -> 0 .. Slots]
    /\ \A m \in Request : timer_out_id[m] # NoTimer => timer_out_id[m] \in DOMAIN function_data

OwnTimers ==
    /\ \A m \in registery_ : timer_out_id[m] \in Live /\ function_data[timer_out_id[m]] = m
    /\ \A n \in Live : function_data[n] \in registery_ /\ timer_out_id[function_data[n]] = n

NoTimerEarly ==
    \A n \in Live : heap_timer_.val[n] >= birthtime[function_data[n]] + Timeout[function_data[n]]

(* ... and what is until ProcessTimer pops another request's timer. *)
TimerInv == ~robbed => Sound(heap_timer_, Slots) /\ OwnTimers /\ NoTimerEarly

WindowInv ==
    /\ Cardinality(Outstanding) <= Window
    /\ Window <= 1 => ~robbed

AsyncInv ==
    /\ RequestTypes /\ PlaceInv /\ FailedWasNotSent /\ NotUsedAfterDestroy
    /\ TimerTypes /\ TimerInv /\ WindowInv

----------------------------------------------------------------------------
(* Elements of queues. *)

LEMMA ElemsIn ==
    ASSUME NEW S, NEW s \in Seq(S)
    PROVE  Elems(s) \subseteq S /\ Len(s) \in Nat
    BY DEF Elems

LEMMA ElemsEmpty == Elems(<<>>) = {} /\ Once(<<>>)
    BY DEF Elems, Once

LEMMA AppendElems ==
    ASSUME NEW S, NEW s \in Seq(S), NEW x \in S
    PROVE  /\ Append(s, x) \in Seq(S) /\ Append(s, x) # <<>>
           /\ Elems(Append(s, x)) = Elems(s) \cup {x}
           /\ Len(Append(s, x)) = Len(s) + 1
           /\ Once(s) /\ x \notin Elems(s) => Once(Append(s, x))
<1> DEFINE t == Append(s, x)
<1>1. Len(s) \in Nat /\ t \in Seq(S) /\ Len(t) = Len(s) + 1
    OBVIOUS
<1>2. t[Len(t)] = x /\ \A i \in 1 .. Len(s) : t[i] = s[i]
    OBVIOUS
<1>3. t # <<>>
    BY <1>1
<1> HIDE DEF t
<1>4. \A i \in 1 .. Len(t) : i \in 1 .. Len(s) \/ i = Len(t)
    BY <1>1
<1>5. \A i \in 1 .. Len(s) : i \in 1 .. Len(t)
    BY <1>1
<1>6. Len(t) \in 1 .. Len(t)
    BY <1>1
<1>7. Elems(t) = Elems(s) \cup {x}
    BY <1>2, <1>4, <1>5, <1>6 DEF Elems
<1>8. Once(s) /\ x \notin Elems(s) => Once(t)
    BY <1>2, <1>4 DEF Elems, Once
<1> QED
    BY <1>1, <1>3, <1>7, <1>8 DEF t

LEMMA TailElems ==
    ASSUME NEW S, NEW s \in Seq(S), s # <<>>
    PROVE  /\ Tail(s) \in Seq(S) /\ Head(s) \in S /\ Head(s) \in Elems(s)
           /\ Elems(Tail(s)) \subseteq Elems(s)
           /\ Once(s) => Once(Tail(s)) /\ Elems(Tail(s)) = Elems(s) \ {Head(s)}
<1> DEFINE t == Tail(s)
<1>1. Len(s) \in Nat /\ Len(s) # 0
    BY EmptySeq
<1>2. t \in Seq(S) /\ Len(t) = Len(s) - 1 /\ \A i \in 1 .. Len(t) : t[i] = s[i + 1]
    BY <1>1
<1>3. Head(s) = s[1]
    OBVIOUS
<1> HIDE DEF t
<1>4. \A i \in 1 .. Len(t) : i \in Nat /\ i + 1 \in 1 .. Len(s) /\ i + 1 # 1
    BY <1>1, <1>2
<1>5. \A j \in 1 .. Len(s) : j # 1 => j - 1 \in 1 .. Len(t) /\ t[j - 1] = s[j]
    BY <1>1, <1>2
<1>6. 1 \in 1 .. Len(s)
    BY <1>1
<1>7. Elems(t) \subseteq Elems(s) /\ Head(s) \in Elems(s) /\ Head(s) \in S
    BY <1>2, <1>3, <1>4, <1>6 DEF Elems
<1>8. ASSUME Once(s)
      PROVE  Once(t) /\ Elems(t) = Elems(s) \ {Head(s)}
  <2>1. Once(t)
    <3> SUFFICES ASSUME NEW i \in 1 .. Len(t), NEW j \in 1 .. Len(t), t[i] = t[j]
                 PROVE  i = j
        BY DEF Once
    <3>1. i + 1 = j + 1
        BY <1>2, <1>4, <1>8 DEF Once
    <3> QED
        BY <1>4, <3>1
  <2>2. \A i \in 1 .. Len(t) : t[i] # Head(s)
      BY <1>2, <1>3, <1>4, <1>6, <1>8 DEF Once
  <2>3. ASSUME NEW y \in Elems(s), y # Head(s)
        PROVE  y \in Elems(t)
    <3>1. PICK j \in 1 .. Len(s) : y = s[j]
        BY DEF Elems
    <3>2. j # 1
        BY <1>3, <2>3, <3>1
    <3> QED
        BY <1>5, <3>1, <3>2 DEF Elems
  <2>4. Head(s) \notin Elems(t)
      BY <2>2 DEF Elems
  <2> QED
      BY <1>7, <2>1, <2>3, <2>4
<1> QED
    BY <1>2, <1>7, <1>8 DEF t

LEMMA SlotsFinite ==
    /\ IsFiniteSet(Request) /\ Slots \in Nat
    /\ \A S \in SUBSET Request : IsFiniteSet(S) /\ Cardinality(S) \in Nat /\ Cardinality(S) <= Slots
<1>1. IsFiniteSet(Message) /\ Request \subseteq Message
    BY ClientAssumption DEF Message
<1>2. IsFiniteSet(Request)
    BY <1>1, FS_Subset
<1>3. Slots \in Nat
    BY <1>2, FS_CardinalityType DEF Slots
<1>4. \A S \in SUBSET Request : IsFiniteSet(S) /\ Cardinality(S) \in Nat /\ Cardinality(S) <= Slots
    BY <1>2, FS_Subset, FS_CardinalityType DEF Slots
<1> QED
    BY <1>2, <1>3, <1>4

LEMMA SeqOfMore ==
    ASSUME NEW S, NEW T, S \subseteq T, NEW s \in Seq(S)
    PROVE  s \in Seq(T)
<1>1. s \in [1 .. Len(s) -> S] /\ Len(s) \in Nat
    OBVIOUS
<1>2. s \in [1 .. Len(s) -> T]
    BY <1>1
<1> QED
    BY <1>1, <1>2

(* The first status of a request. *)
LEMMA ResultFacts ==
    ASSUME results \in [Request -> Seq(Status)], NEW m \in Request, results[m] = <<>>,
           NEW st \in Status, SendToServiceHandle(m, st)
    PROVE  /\ results' \in [Request -> Seq(Status)]
           /\ results'[m] # <<>> /\ Len(results'[m]) = 1 /\ Elems(results'[m]) = {st}
           /\ \A x \in Request : x # m => results'[x] = results[x]
           /\ {x \in Request : results'[x] # <<>>} = {x \in Request : results[x] # <<>>} \cup {m}
<1>1. results' = [results EXCEPT ![m] = Append(results[m], st)]
    BY DEF SendToServiceHandle
<1> DEFINE e == results[m]
           s == Append(e, st)
<1>2. e \in Seq(Status) /\ Len(e) = 0 /\ Elems(e) = {}
  <2>1. results[m] = <<>>
      OBVIOUS
  <2> QED
      BY <2>1, ElemsEmpty
<1> HIDE DEF e
<1>3. s \in Seq(Status) /\ s # <<>> /\ Len(s) = 1 /\ Elems(s) = {st}
  <2>1. s \in Seq(Status) /\ s # <<>> /\ Len(s) = Len(e) + 1 /\ Elems(s) = Elems(e) \cup {st}
    <3>1. e \in Seq(Status) /\ st \in Status
        BY <1>2
    <3>2. s \in Seq(Status) /\ Len(s) = Len(e) + 1
        BY <3>1
    <3>3. s # <<>>
      <4>1. Len(s) = 1
          BY <1>2, <3>2
      <4> QED
          BY ONLY <3>1, <3>2, <4>1, EmptySeq
    <3>4. Elems(s) = Elems(e) \cup {st}
        BY ONLY <3>1, AppendElems, SMTT(30)
    <3> QED
        BY ONLY <3>2, <3>3, <3>4, Zenon
  <2> QED
      BY <1>2, <2>1
<1> HIDE DEF s
<1>4. results' \in [Request -> Seq(Status)]
    BY <1>1, <1>3 DEF e, s
<1>5. results'[m] = s
    BY <1>1 DEF e, s
<1>6. \A x \in Request : x # m => results'[x] = results[x]
    BY <1>1
<1>7. {x \in Request : results'[x] # <<>>} = {x \in Request : results[x] # <<>>} \cup {m}
    BY <1>3, <1>5, <1>6
<1> QED
    BY <1>3, <1>4, <1>5, <1>6, <1>7

LEMMA TopFacts ==
    ASSUME NEW N \in Nat, NEW H, HeapType(H, N), H.num # 0
    PROVE  TopNode(H) \in LiveIn(H) /\ TopNode(H) \in 1 .. N /\ H.num \in 1 .. N
<1>1. 1 \in 1 .. H.num /\ 1 \in 1 .. N /\ H.num \in 1 .. N
    BY HeapFields
<1> QED
    BY <1>1, HeapFields DEF TopNode, LiveIn

LEMMA PopFacts ==
    ASSUME NEW N \in Nat, NEW H, HeapType(H, N), \A n \in LiveIn(H) : H.index[n] # 0
    PROVE  LET R == PopTop(H)
           IN /\ HeapType(R, N) /\ R.val = H.val /\ R.num <= H.num
              /\ LiveIn(R) \subseteq LiveIn(H)
              /\ KeepsSlots(H, R, N)
              /\ H.num = 0 => R = H
<1>1. CASE H.num = 0
  <2>1. PopTop(H) = H
      BY <1>1 DEF PopTop, EraseNode
  <2> QED
      BY <1>1, <2>1 DEF KeepsSlots
<1>2. CASE H.num # 0
  <2> DEFINE R == EraseNode(H, TopNode(H))
  <2>1. TopNode(H) \in LiveIn(H) /\ TopNode(H) \in 1 .. N /\ H.num \in 1 .. N
      BY <1>2, TopFacts
  <2>2. H.index[TopNode(H)] # 0
      BY <2>1
  <2>3. /\ HeapType(R, N) /\ R.val = H.val /\ R.num = IF H.num = 0 THEN 0 ELSE H.num - 1
        /\ LiveIn(R) \subseteq LiveIn(H) /\ KeepsSlots(H, R, N)
      BY <2>1, <2>2, EraseFacts
  <2>4. R.num <= H.num
      BY <1>2, <2>1, <2>3
  <2> HIDE DEF R
  <2>5. PopTop(H) = R
      BY DEF R, PopTop
  <2> QED
      BY <1>2, <2>3, <2>4, <2>5
<1> QED
    BY <1>1, <1>2

LEMMA KeepsThrough ==
    ASSUME NEW N \in Nat, NEW H, NEW G, NEW R, KeepsSlots(H, G, N), KeepsSlots(G, R, N)
    PROVE  KeepsSlots(H, R, N)
    BY DEF KeepsSlots

(* CancelTimer of a request, whatever its timer_out_id still names. *)
LEMMA CancelFacts ==
    ASSUME TimerTypes, NEW m \in Request
    PROVE  LET R == AfterCancel(m)
           IN /\ HeapType(R, Slots) /\ R.val = heap_timer_.val /\ R.num <= heap_timer_.num
              /\ LiveIn(R) \subseteq Live
              /\ KeepsSlots(heap_timer_, R, Slots)
              /\ Sound(heap_timer_, Slots) /\ timer_out_id[m] \in Live
                     => /\ Sound(R, Slots) /\ LiveIn(R) = Live \ {timer_out_id[m]}
                        /\ R.num = heap_timer_.num - 1
<1> DEFINE n == timer_out_id[m]
           H == heap_timer_
           R == AfterCancel(m)
<1>1. HeapType(H, Slots) /\ Slots \in Nat /\ H.num \in 0 .. Slots
    BY SlotsFinite, HeapFields DEF TimerTypes
<1>2. Live = LiveIn(H)
    BY DEF Live, LiveIn
<1>3. \A x \in LiveIn(H) : x \in 1 .. Slots
    BY <1>1, HeapFields DEF LiveIn
<1>4. CASE n = NoTimer
  <2>1. R = H
      BY <1>4 DEF AfterCancel
  <2>2. n \notin Live
      BY <1>2, <1>3, <1>4 DEF NoTimer
  <2> QED
      BY <1>1, <1>2, <2>1, <2>2 DEF KeepsSlots
<1>5. CASE n # NoTimer
  <2>1. n \in DOMAIN function_data
      BY <1>5 DEF TimerTypes
  <2>2. n \in 1 .. Slots /\ H.index[n] # 0
      BY <2>1 DEF TimerTypes
  <2>3. R = EraseNode(H, n)
      BY <1>5 DEF AfterCancel
  <2> HIDE DEF n, H, R
  <2>4. /\ HeapType(R, Slots) /\ R.val = H.val
        /\ R.num = IF H.num = 0 THEN 0 ELSE H.num - 1
        /\ LiveIn(R) \subseteq LiveIn(H)
        /\ KeepsSlots(H, R, Slots)
        /\ Sound(H, Slots) /\ n \in LiveIn(H) => Sound(R, Slots) /\ LiveIn(R) = LiveIn(H) \ {n}
      BY <1>1, <2>2, <2>3, EraseFacts
  <2>5. n \in LiveIn(H) => H.num # 0
      BY <1>1 DEF LiveIn
  <2>6. R.num <= H.num /\ (n \in LiveIn(H) => R.num = H.num - 1)
      BY <1>1, <2>4, <2>5
  <2> QED
      BY <1>2, <2>4, <2>6 DEF n, H, R
<1> QED
    BY <1>4, <1>5

----------------------------------------------------------------------------
(* The requests' half of the invariant, whatever the timers are.           *)
LedgerInv == RequestTypes /\ PlaceInv /\ FailedWasNotSent /\ NotUsedAfterDestroy

LEMMA LedgerInit == ASSUME Init PROVE LedgerInv /\ WindowInv
<1> USE DEF Init
<1>1. DOMAIN birthtime = {}
    OBVIOUS
<1>2. Elems(data_) = {} /\ Elems(temp) = {} /\ Once(data_) /\ Once(temp)
    BY ElemsEmpty
<1>3. RequestTypes
  <2>1. birthtime \in [DOMAIN birthtime -> Nat]
      BY <1>1
  <2>2. data_ \in Seq(DOMAIN birthtime) /\ temp \in Seq(DOMAIN birthtime)
      OBVIOUS
  <2>3. arrived \in Seq(answered \cap Request)
      OBVIOUS
  <2>4. results \in [Request -> Seq(Status)]
      OBVIOUS
  <2>5. /\ now \in Nat /\ cur_time_ms \in Nat /\ cur_time_ms <= now
        /\ phase \in {"poll", "timers", "events", "run"} /\ temp = <<>>
      OBVIOUS
  <2>8. robbed \in BOOLEAN
      BY Zenon
  <2>7. DOMAIN birthtime \subseteq Message /\ \A m \in DOMAIN birthtime : birthtime[m] <= now
      BY <1>1
  <2>6. /\ registery_ \subseteq Request /\ registery_ \subseteq sent
        /\ sent \subseteq DOMAIN birthtime /\ answered \subseteq sent
        /\ destroyed \subseteq DOMAIN birthtime
      OBVIOUS
  <2> HIDE DEF Init
  <2> QED
      BY <2>1, <2>2, <2>3, <2>4, <2>5, <2>6, <2>7, <2>8 DEF RequestTypes
<1>4. \A m \in Request : results[m] = <<>>
    OBVIOUS
<1>5. \A m \in Request : Len(results[m]) <= 1 /\ Elems(results[m]) = {}
    BY <1>4, ElemsEmpty
<1>6. Released = {}
    BY <1>4 DEF Released
<1>7. PlaceInv
    BY <1>1, <1>2, <1>5, <1>6 DEF PlaceInv, InOnePlace
<1>8. FailedWasNotSent /\ NotUsedAfterDestroy
    BY <1>5 DEF FailedWasNotSent, NotUsedAfterDestroy
<1>9. WindowInv
  <2>1. Outstanding = {}
      BY <1>1 DEF Outstanding
  <2>2. Cardinality(Outstanding) = 0
      BY <2>1, FS_EmptySet
  <2> QED
      BY <2>2, ClientAssumption DEF WindowInv
<1> QED
    BY <1>3, <1>7, <1>8, <1>9 DEF LedgerInv

LEMMA RequestsApart == Request \cap OneWay = {} /\ Message = Request \cup OneWay
    BY ClientAssumption DEF Message

LEMMA SendLedger ==
    ASSUME LedgerInv, NEW m \in Message, Send(m)
    PROVE  LedgerInv'
<1> USE DEF Send, ioVars
<1>1. /\ DOMAIN birthtime' = DOMAIN birthtime \cup {m} /\ m \notin DOMAIN birthtime
      /\ birthtime'[m] = now /\ \A x \in DOMAIN birthtime : birthtime'[x] = birthtime[x]
    OBVIOUS
<1>2. RequestTypes /\ now \in Nat
    BY DEF LedgerInv, RequestTypes
<1>3. data_ \in Seq(DOMAIN birthtime') /\ temp \in Seq(DOMAIN birthtime')
    BY <1>1, <1>2, SeqOfMore DEF RequestTypes
<1>4. Elems(data_) \subseteq DOMAIN birthtime /\ Elems(temp) \subseteq DOMAIN birthtime
    BY <1>2, ElemsIn DEF RequestTypes
<1>5. /\ data_' \in Seq(DOMAIN birthtime')
      /\ Elems(data_') = Elems(data_) \cup {m}
      /\ Once(data_) => Once(data_')
  <2>1. m \in DOMAIN birthtime' /\ m \notin Elems(data_)
      BY <1>1, <1>4
  <2>2. data_' = Append(data_, m)
      OBVIOUS
  <2> HIDE DEF Send
  <2>3. data_ \in Seq(DOMAIN birthtime')
      BY <1>3
  <2> DEFINE S == DOMAIN birthtime \cup {m}
             t == Append(data_, m)
  <2>4. data_ \in Seq(S) /\ m \in S /\ DOMAIN birthtime' = S
      BY <1>1, <2>3
  <2> HIDE DEF S
  <2>5. /\ t \in Seq(S) /\ Elems(t) = Elems(data_) \cup {m}
        /\ Once(data_) /\ m \notin Elems(data_) => Once(t)
    <3>1. data_ \in Seq(S) /\ m \in S
        BY <2>4
    <3>2. t \in Seq(S)
        BY ONLY <3>1, AppendElems, Zenon
    <3>3. Elems(t) = Elems(data_) \cup {m}
        BY ONLY <3>1, AppendElems, SMTT(30)
    <3>4. Once(data_) /\ m \notin Elems(data_) => Once(t)
        BY ONLY <3>1, AppendElems, Zenon
    <3> QED
        BY ONLY <3>2, <3>3, <3>4, Zenon
  <2> QED
      BY <2>1, <2>2, <2>4, <2>5, Zenon
<1>6. RequestTypes'
  <2>1. birthtime' \in [DOMAIN birthtime' -> Nat]
      BY <1>1, <1>2 DEF RequestTypes
  <2>2. \A x \in DOMAIN birthtime' : birthtime'[x] <= now'
      BY <1>1, <1>2 DEF RequestTypes
  <2> QED
      BY <1>1, <1>2, <1>3, <1>5, <2>1, <2>2 DEF RequestTypes
<1>7. m \notin registery_ /\ m \notin sent /\ m \notin destroyed
    BY <1>1, <1>2 DEF RequestTypes
<1>8. Released' = Released /\ m \notin Released
  <2>1. Released \subseteq DOMAIN birthtime
      BY DEF LedgerInv, PlaceInv, InOnePlace
  <2> QED
      BY <1>1, <2>1 DEF Released
<1>9. PlaceInv'
    BY <1>1, <1>4, <1>5, <1>7, <1>8 DEF LedgerInv, PlaceInv, InOnePlace
<1>10. FailedWasNotSent' /\ NotUsedAfterDestroy'
    BY <1>5, <1>7 DEF LedgerInv, FailedWasNotSent, NotUsedAfterDestroy
<1> QED
    BY <1>6, <1>9, <1>10 DEF LedgerInv

LEMMA AnswerLedger ==
    ASSUME LedgerInv, NEW m \in Request, Answer(m)
    PROVE  LedgerInv'
<1> USE DEF Answer, ioVars
<1>1. RequestTypes
    BY DEF LedgerInv
<1>2. arrived \in Seq(answered' \cap Request) /\ m \in answered' \cap Request
    BY <1>1, SeqOfMore DEF RequestTypes
<1>3. arrived' \in Seq(answered' \cap Request)
    BY <1>2
<1>4. RequestTypes'
    BY <1>1, <1>3 DEF RequestTypes
<1>5. PlaceInv'
    BY DEF LedgerInv, PlaceInv, InOnePlace, Released
<1> QED
    BY <1>4, <1>5 DEF LedgerInv, FailedWasNotSent, NotUsedAfterDestroy

LEMMA QuietLedger ==
    ASSUME LedgerInv, Tick \/ StartTimers \/ TimersDone \/ RunDone \/ UNCHANGED vars
    PROVE  LedgerInv'
<1>1. RequestTypes
    BY DEF LedgerInv
<1>2. /\ UNCHANGED <<birthtime, data_, temp, registery_, robbed, sent, arrived, answered,
                    results, destroyed>>
    BY DEF Tick, StartTimers, TimersDone, RunDone, vars, ioVars
<1>3. /\ now' \in Nat /\ now <= now' /\ cur_time_ms' \in Nat /\ cur_time_ms' <= now'
      /\ phase' \in {"poll", "timers", "events", "run"} /\ (phase' # "run" => temp = <<>>)
    BY <1>1 DEF RequestTypes, Tick, StartTimers, TimersDone, RunDone, vars, ioVars
<1>4. \A m \in DOMAIN birthtime : birthtime[m] <= now'
    BY <1>1, <1>3 DEF RequestTypes
<1>5. RequestTypes'
    BY <1>1, <1>2, <1>3, <1>4 DEF RequestTypes
<1>6. PlaceInv'
    BY <1>2 DEF LedgerInv, PlaceInv, InOnePlace, Released
<1> QED
    BY <1>2, <1>5, <1>6 DEF LedgerInv, FailedWasNotSent, NotUsedAfterDestroy

LEMMA FireTimerLedger ==
    ASSUME LedgerInv, FireTimer
    PROVE  LedgerInv'
<1>1. RequestTypes
    BY DEF LedgerInv
<1>2. PICK m \in SequenceIdRead(function_data[TopNode(heap_timer_)]) :
          IF m \in registery_
          THEN /\ registery_' = registery_ \ {m}
               /\ heap_timer_' = PopTop(AfterCancel(m))
               /\ robbed' = (robbed \/ AfterCancel(m).num > 0)
               /\ SendToServiceHandle(m, "timeout")
          ELSE /\ heap_timer_' = PopTop(heap_timer_)
               /\ UNCHANGED <<registery_, robbed, results>>
    BY DEF FireTimer
<1>3. UNCHANGED <<now, birthtime, data_, temp, phase, cur_time_ms, sent, arrived, answered, destroyed>>
    BY DEF FireTimer
<1>4. robbed' \in BOOLEAN
    BY <1>1, <1>2 DEF RequestTypes
<1>5. CASE m \notin registery_
  <2>1. UNCHANGED <<registery_, results>>
      BY <1>2, <1>5
  <2>2. RequestTypes'
      BY <1>1, <1>3, <1>4, <2>1 DEF RequestTypes
  <2>3. PlaceInv'
      BY <1>3, <2>1 DEF LedgerInv, PlaceInv, InOnePlace, Released
  <2> QED
      BY <1>3, <2>1, <2>2, <2>3 DEF LedgerInv, FailedWasNotSent, NotUsedAfterDestroy
<1>6. CASE m \in registery_
  <2>1. registery_' = registery_ \ {m} /\ SendToServiceHandle(m, "timeout")
      BY <1>2, <1>6
  <2>2. m \in Request /\ m \notin Released
      BY <1>1, <1>6 DEF RequestTypes, LedgerInv, PlaceInv, InOnePlace
  <2>3. results[m] = <<>>
      BY <2>2 DEF Released
  <2>4. /\ results' \in [Request -> Seq(Status)]
        /\ Len(results'[m]) = 1 /\ Elems(results'[m]) = {"timeout"}
        /\ \A x \in Request : x # m => results'[x] = results[x]
        /\ {x \in Request : results'[x] # <<>>} = {x \in Request : results[x] # <<>>} \cup {m}
      BY <1>1, <2>1, <2>2, <2>3, ResultFacts DEF RequestTypes, Status
  <2>5. RequestTypes'
      BY <1>1, <1>3, <1>4, <2>1, <2>4 DEF RequestTypes
  <2>6. Released' = Released \cup {m}
      BY <1>3, <2>4 DEF Released
  <2>7. ASSUME NEW x \in Request PROVE Len(results'[x]) <= 1
    <3>1. Len(results[x]) <= 1
        BY DEF LedgerInv, PlaceInv
    <3>2. x # m => Len(results'[x]) = Len(results[x])
        BY <2>4, Zenon
    <3>3. x = m => Len(results'[x]) = 1
        BY <2>4, Zenon
    <3> DEFINE old == Len(results[x])
               new == Len(results'[x])
    <3>4. old <= 1 /\ (x # m => new = old) /\ (x = m => new = 1)
        BY <3>1, <3>2, <3>3, Zenon
    <3> HIDE DEF old, new
    <3>5. new <= 1
        BY ONLY <3>4
    <3> QED
        BY <3>5 DEF new
  <2>8. PlaceInv'
      BY <1>3, <1>6, <2>1, <2>6, <2>7 DEF LedgerInv, PlaceInv, InOnePlace
  <2>9. FailedWasNotSent'
      BY <1>3, <2>4 DEF LedgerInv, FailedWasNotSent
  <2> QED
      BY <1>3, <2>1, <2>5, <2>8, <2>9 DEF LedgerInv, NotUsedAfterDestroy
<1> QED
    BY <1>5, <1>6

LEMMA OnDecodeLedger ==
    ASSUME LedgerInv, OnDecodeMessage
    PROVE  LedgerInv'
<1> DEFINE m == Head(arrived)
<1>1. RequestTypes
    BY DEF LedgerInv
<1>2. arrived # <<>> /\ arrived' = Tail(arrived)
    BY DEF OnDecodeMessage
<1>3. UNCHANGED <<now, birthtime, data_, temp, phase, cur_time_ms, robbed, sent, answered>>
    BY DEF OnDecodeMessage
<1>4. arrived' \in Seq(answered \cap Request) /\ m \in answered \cap Request
  <2>1. arrived \in Seq(answered \cap Request)
      BY <1>1 DEF RequestTypes
  <2> QED
      BY <1>2, <2>1, TailElems
<1>5. CASE m \notin registery_
  <2>1. UNCHANGED <<registery_, results, destroyed>>
      BY <1>5 DEF OnDecodeMessage
  <2>2. RequestTypes'
      BY <1>1, <1>3, <1>4, <2>1 DEF RequestTypes
  <2>3. PlaceInv'
      BY <1>3, <2>1 DEF LedgerInv, PlaceInv, InOnePlace, Released
  <2> QED
      BY <1>3, <2>1, <2>2, <2>3 DEF LedgerInv, FailedWasNotSent, NotUsedAfterDestroy
<1>6. CASE m \in registery_
  <2>1. /\ registery_' = registery_ \ {m} /\ SendToServiceHandle(m, "ok")
        /\ destroyed' = destroyed \cup {m}
      BY <1>6 DEF OnDecodeMessage
  <2> HIDE DEF m
  <2>2. m \in Request /\ m \notin Released /\ m \in DOMAIN birthtime
      BY <1>1, <1>6 DEF RequestTypes, LedgerInv, PlaceInv, InOnePlace
  <2>3. results[m] = <<>>
      BY <2>2 DEF Released
  <2>4. /\ results' \in [Request -> Seq(Status)]
        /\ Len(results'[m]) = 1 /\ Elems(results'[m]) = {"ok"}
        /\ \A x \in Request : x # m => results'[x] = results[x]
        /\ {x \in Request : results'[x] # <<>>} = {x \in Request : results[x] # <<>>} \cup {m}
      BY <1>1, <2>1, <2>2, <2>3, ResultFacts DEF RequestTypes, Status
  <2>5. RequestTypes'
      BY <1>1, <1>3, <1>4, <2>1, <2>2, <2>4 DEF RequestTypes
  <2>6. OneWay \cap destroyed' = OneWay \cap destroyed
      BY <2>1, <2>2, RequestsApart
  <2>7. Released' = Released \cup {m}
      BY <2>4, <2>6 DEF Released
  <2>8. ASSUME NEW x \in Request PROVE Len(results'[x]) <= 1
    <3> DEFINE old == Len(results[x])
               new == Len(results'[x])
    <3>1. old <= 1
        BY DEF LedgerInv, PlaceInv
    <3>2. (x # m => new = old) /\ (x = m => new = 1)
        BY <2>4, Zenon
    <3> HIDE DEF old, new
    <3>3. new <= 1
        BY ONLY <3>1, <3>2
    <3> QED
        BY <3>3 DEF new
  <2>9. PlaceInv'
      BY <1>3, <1>6, <2>1, <2>7, <2>8 DEF LedgerInv, PlaceInv, InOnePlace
  <2>10. FailedWasNotSent'
      BY <1>3, <2>4 DEF LedgerInv, FailedWasNotSent
  <2>11. m \notin Elems(data_) /\ m \notin Elems(temp)
      BY <1>6 DEF LedgerInv, PlaceInv, InOnePlace
  <2>12. NotUsedAfterDestroy'
      BY <1>3, <2>1, <2>11 DEF LedgerInv, NotUsedAfterDestroy
  <2> QED
      BY <2>5, <2>9, <2>10, <2>12 DEF LedgerInv
<1> QED
    BY <1>5, <1>6

LEMMA CallRunLedger ==
    ASSUME LedgerInv, CallRun
    PROVE  LedgerInv'
<1>1. RequestTypes
    BY DEF LedgerInv
<1>2. /\ phase' = "run" /\ temp' = data_ /\ data_' = <<>> /\ temp = <<>>
      /\ UNCHANGED <<now, birthtime, cur_time_ms, registery_, robbed, sent, arrived, answered,
                     results, destroyed>>
    BY <1>1 DEF CallRun, RequestTypes
<1>3. Elems(temp) = {} /\ Elems(data_') = {} /\ Once(data_') /\ data_' \in Seq(DOMAIN birthtime)
    BY <1>2, ElemsEmpty
<1>4. RequestTypes'
    BY <1>1, <1>2, <1>3 DEF RequestTypes
<1>5. Elems(temp') = Elems(data_) /\ (Once(data_) => Once(temp'))
    BY <1>2
<1>6. PlaceInv'
    BY <1>2, <1>3, <1>5 DEF LedgerInv, PlaceInv, InOnePlace, Released
<1>7. FailedWasNotSent' /\ NotUsedAfterDestroy'
    BY <1>2, <1>3, <1>5 DEF LedgerInv, FailedWasNotSent, NotUsedAfterDestroy
<1> QED
    BY <1>4, <1>6, <1>7 DEF LedgerInv

(* The message at the front of the batch leaves it. *)
LEMMA HeadOfBatch ==
    ASSUME LedgerInv, temp # <<>>
    PROVE  /\ Tail(temp) \in Seq(DOMAIN birthtime)
           /\ Head(temp) \in DOMAIN birthtime /\ Head(temp) \in Message
           /\ Elems(Tail(temp)) = Elems(temp) \ {Head(temp)} /\ Once(Tail(temp))
           /\ Head(temp) \in Elems(temp) /\ Head(temp) \notin Elems(data_)
           /\ Head(temp) \notin registery_ /\ Head(temp) \notin Released
           /\ Head(temp) \notin sent /\ Head(temp) \notin destroyed
<1>1. temp \in Seq(DOMAIN birthtime) /\ Once(temp) /\ DOMAIN birthtime \subseteq Message
    BY DEF LedgerInv, RequestTypes, PlaceInv
<1>2. /\ Tail(temp) \in Seq(DOMAIN birthtime) /\ Head(temp) \in DOMAIN birthtime
      /\ Head(temp) \in Elems(temp) /\ Elems(Tail(temp)) = Elems(temp) \ {Head(temp)}
      /\ Once(Tail(temp))
    BY <1>1, TailElems
<1>3. /\ Head(temp) \notin Elems(data_) /\ Head(temp) \notin registery_
      /\ Head(temp) \notin Released /\ Head(temp) \notin sent
    BY <1>2 DEF LedgerInv, PlaceInv, InOnePlace
<1>4. Head(temp) \notin destroyed
    BY <1>2 DEF LedgerInv, NotUsedAfterDestroy
<1> QED
    BY <1>1, <1>2, <1>3, <1>4

LEMMA HandleFailedLedger ==
    ASSUME LedgerInv, HandleFailed
    PROVE  LedgerInv'
<1> DEFINE m == Head(temp)
<1>1. RequestTypes
    BY DEF LedgerInv
<1>2. /\ phase = "run" /\ temp # <<>> /\ temp' = Tail(temp)
      /\ UNCHANGED <<now, birthtime, data_, phase, cur_time_ms, registery_, robbed, sent,
                     arrived, answered>>
    BY DEF HandleFailed
<1>3. /\ temp' \in Seq(DOMAIN birthtime) /\ m \in DOMAIN birthtime /\ m \in Message
      /\ Elems(temp') = Elems(temp) \ {m} /\ Once(temp')
      /\ m \in Elems(temp) /\ m \notin Elems(data_) /\ m \notin registery_ /\ m \notin Released
      /\ m \notin sent /\ m \notin destroyed
    BY <1>2, HeadOfBatch
<1>4. IF m \in Request
      THEN SendToServiceHandle(m, "failed") /\ UNCHANGED destroyed
      ELSE destroyed' = destroyed \cup {m} /\ UNCHANGED results
    BY DEF HandleFailed
<1> HIDE DEF m
<1>5. CASE m \notin Request
  <2>1. destroyed' = destroyed \cup {m} /\ UNCHANGED results
      BY <1>4, <1>5
  <2>2. m \in OneWay
      BY <1>3, <1>5, RequestsApart
  <2>3. Released' = Released \cup {m}
      BY <2>1, <2>2 DEF Released
  <2>4. RequestTypes'
      BY <1>1, <1>2, <1>3, <2>1 DEF RequestTypes
  <2>5. PlaceInv'
      BY <1>2, <1>3, <2>1, <2>3 DEF LedgerInv, PlaceInv, InOnePlace
  <2>6. FailedWasNotSent' /\ NotUsedAfterDestroy'
      BY <1>2, <1>3, <2>1 DEF LedgerInv, FailedWasNotSent, NotUsedAfterDestroy
  <2> QED
      BY <2>4, <2>5, <2>6 DEF LedgerInv
<1>6. CASE m \in Request
  <2>1. SendToServiceHandle(m, "failed") /\ UNCHANGED destroyed
      BY <1>4, <1>6
  <2>2. results[m] = <<>>
      BY <1>3, <1>6 DEF Released
  <2>3. /\ results' \in [Request -> Seq(Status)]
        /\ Len(results'[m]) = 1 /\ Elems(results'[m]) = {"failed"}
        /\ \A x \in Request : x # m => results'[x] = results[x]
        /\ {x \in Request : results'[x] # <<>>} = {x \in Request : results[x] # <<>>} \cup {m}
      BY <1>1, <1>6, <2>1, <2>2, ResultFacts DEF RequestTypes, Status
  <2>4. RequestTypes'
      BY <1>1, <1>2, <1>3, <2>1, <2>3 DEF RequestTypes
  <2>5. Released' = Released \cup {m}
      BY <2>1, <2>3 DEF Released
  <2>6. ASSUME NEW x \in Request PROVE Len(results'[x]) <= 1
    <3> DEFINE old == Len(results[x])
               new == Len(results'[x])
    <3>1. old <= 1
        BY DEF LedgerInv, PlaceInv
    <3>2. (x # m => new = old) /\ (x = m => new = 1)
        BY <2>3, Zenon
    <3> HIDE DEF old, new
    <3>3. new <= 1
        BY ONLY <3>1, <3>2
    <3> QED
        BY <3>3 DEF new
  <2>7. PlaceInv'
      BY <1>2, <1>3, <2>1, <2>5, <2>6 DEF LedgerInv, PlaceInv, InOnePlace
  <2>8. FailedWasNotSent'
      BY <1>2, <1>3, <2>3 DEF LedgerInv, FailedWasNotSent
  <2>9. NotUsedAfterDestroy'
      BY <1>2, <1>3, <2>1 DEF LedgerInv, NotUsedAfterDestroy
  <2> QED
      BY <2>4, <2>7, <2>8, <2>9 DEF LedgerInv
<1> QED
    BY <1>5, <1>6

LEMMA EncodeLedger ==
    ASSUME LedgerInv, EncodeMsg
    PROVE  LedgerInv'
<1> DEFINE m == Head(temp)
<1>1. RequestTypes
    BY DEF LedgerInv
<1>2. /\ phase = "run" /\ temp # <<>> /\ temp' = Tail(temp) /\ sent' = sent \cup {m}
      /\ UNCHANGED <<now, birthtime, data_, phase, cur_time_ms, robbed, arrived, answered, results>>
    BY DEF EncodeMsg
<1>3. /\ temp' \in Seq(DOMAIN birthtime) /\ m \in DOMAIN birthtime /\ m \in Message
      /\ Elems(temp') = Elems(temp) \ {m} /\ Once(temp')
      /\ m \in Elems(temp) /\ m \notin Elems(data_) /\ m \notin registery_ /\ m \notin Released
      /\ m \notin sent /\ m \notin destroyed
    BY <1>2, HeadOfBatch
<1>4. IF m \in Request
      THEN registery_' = registery_ \cup {m} /\ UNCHANGED destroyed
      ELSE destroyed' = destroyed \cup {m} /\ UNCHANGED registery_
    BY DEF EncodeMsg, Register
<1> HIDE DEF m
<1>5. RequestTypes'
  <2>1. /\ registery_' \subseteq Request /\ registery_' \subseteq sent'
        /\ destroyed' \subseteq DOMAIN birthtime
      BY <1>1, <1>2, <1>3, <1>4 DEF RequestTypes
  <2> QED
      BY <1>1, <1>2, <1>3, <2>1 DEF RequestTypes
<1>6. sent' \cap (Elems(data_') \cup Elems(temp')) = {}
    BY <1>2, <1>3 DEF LedgerInv, PlaceInv
<1>7. Once(data_') /\ (\A x \in Request : Len(results'[x]) <= 1)
    BY <1>2 DEF LedgerInv, PlaceInv
<1>8. PlaceInv' /\ NotUsedAfterDestroy'
  <2>1. CASE m \notin Request
    <3>1. destroyed' = destroyed \cup {m} /\ UNCHANGED registery_
        BY <1>4, <2>1
    <3>2. m \in OneWay
        BY <1>3, <2>1, RequestsApart
    <3>3. Released' = Released \cup {m}
        BY <1>2, <3>1, <3>2 DEF Released
    <3>4. InOnePlace(Elems(data_'), Elems(temp'), registery_', Released', DOMAIN birthtime')
      <4>1. /\ Elems(data_') = Elems(data_) /\ DOMAIN birthtime' = DOMAIN birthtime
            /\ InOnePlace(Elems(data_), Elems(temp), registery_, Released, DOMAIN birthtime)
          BY <1>2 DEF LedgerInv, PlaceInv
      <4> QED
          BY <1>3, <3>1, <3>3, <4>1 DEF InOnePlace
    <3>5. PlaceInv'
        BY <1>3, <1>6, <1>7, <3>4 DEF PlaceInv
    <3>6. NotUsedAfterDestroy'
        BY <1>2, <1>3, <3>1 DEF LedgerInv, NotUsedAfterDestroy
    <3> QED
        BY <3>5, <3>6
  <2>2. CASE m \in Request
    <3>1. registery_' = registery_ \cup {m} /\ UNCHANGED destroyed
        BY <1>4, <2>2
    <3>2. Released' = Released
        BY <1>2, <3>1 DEF Released
    <3>4. InOnePlace(Elems(data_'), Elems(temp'), registery_', Released', DOMAIN birthtime')
      <4>1. /\ Elems(data_') = Elems(data_) /\ DOMAIN birthtime' = DOMAIN birthtime
            /\ InOnePlace(Elems(data_), Elems(temp), registery_, Released, DOMAIN birthtime)
          BY <1>2 DEF LedgerInv, PlaceInv
      <4> QED
          BY <1>3, <3>1, <3>2, <4>1 DEF InOnePlace
    <3>5. PlaceInv'
        BY <1>3, <1>6, <1>7, <3>4 DEF PlaceInv
    <3>6. NotUsedAfterDestroy'
        BY <1>2, <1>3, <3>1 DEF LedgerInv, NotUsedAfterDestroy
    <3> QED
        BY <3>5, <3>6
  <2> QED
      BY <2>1, <2>2
<1>9. FailedWasNotSent'
  <2> SUFFICES ASSUME NEW x \in Request, "failed" \in Elems(results[x])
               PROVE  x \notin sent \cup {m}
      BY <1>2 DEF FailedWasNotSent
  <2>1. x \notin sent
      BY DEF LedgerInv, FailedWasNotSent
  <2>2. results[x] # <<>>
      BY ElemsEmpty
  <2>3. x \in Released
      BY <2>2 DEF Released
  <2> QED
      BY <1>3, <2>1, <2>3
<1> QED
    BY <1>5, <1>8, <1>9 DEF LedgerInv

----------------------------------------------------------------------------
(* The timers' half.                                                       *)
LEMMA LiveIsLiveIn == Live = LiveIn(heap_timer_) /\ Live' = LiveIn(heap_timer_')
    BY DEF Live, LiveIn

LEMMA SentCount ==
    ASSUME NEW S, NEW T, S \subseteq T
    PROVE  /\ Cardinality(S \cap Request) \in Nat /\ Cardinality(T \cap Request) \in Nat
           /\ Cardinality(S \cap Request) <= Cardinality(T \cap Request)
           /\ Cardinality(T \cap Request) <= Slots
<1>1. S \cap Request \in SUBSET Request /\ T \cap Request \in SUBSET Request
    OBVIOUS
<1>2. IsFiniteSet(T \cap Request) /\ S \cap Request \subseteq T \cap Request
    BY <1>1, SlotsFinite
<1>3. Cardinality(S \cap Request) <= Cardinality(T \cap Request)
    BY <1>2, FS_Subset
<1> QED
    BY <1>1, <1>3, SlotsFinite

LEMMA TimerInit == ASSUME Init PROVE TimerTypes /\ TimerInv
<1> DEFINE H == heap_timer_
           size == Cardinality(HeapSlots)
<1>1. Slots \in Nat /\ HeapSlots = 0 .. Slots /\ size \in Nat
  <2>1. Slots \in Nat /\ HeapSlots = 0 .. Slots
      BY SlotsFinite DEF HeapSlots, Slots
  <2>2. IsFiniteSet(0 .. Slots)
      BY <2>1, FS_Interval
  <2> QED
      BY <2>1, <2>2, FS_CardinalityType
<1>2. H = [items |-> [i \in 0 .. Slots |-> i], num |-> 0, size |-> size,
           index |-> [i \in 0 .. Slots |-> 0], val |-> [i \in 0 .. Slots |-> 0]]
    BY <1>1 DEF Init, NewHeap
<1> HIDE DEF H, size
<1>3. HeapType(H, Slots) /\ H.num = 0 /\ \A i \in 0 .. Slots : H.items[i] = i
    BY <1>1, <1>2 DEF HeapType, HeapRecord
<1>4. Sound(H, Slots)
  <2>1. Indexed(H)
      BY <1>3 DEF Indexed
  <2>2. \A i \in 1 .. Slots : i \in 0 .. Slots
      BY <1>1
  <2>3. Apart(H, Slots)
      BY <1>3, <2>2 DEF Apart
  <2> QED
      BY <2>1, <2>3 DEF Sound
<1>5. Live = {}
    BY <1>3 DEF Live, H
<1>6. /\ DOMAIN function_data = {} /\ registery_ = {} /\ timer_out_id = [m \in Request |-> 0]
    BY DEF Init, NoTimer
<1>7. TimerTypes
  <2>1. H.num <= Cardinality(sent \cap Request)
      BY <1>3, SentCount
  <2>2. timer_out_id \in [Request -> 0 .. Slots] /\ \A m \in Request : timer_out_id[m] = NoTimer
      BY <1>1, <1>6 DEF NoTimer
  <2> QED
      BY <1>3, <1>5, <1>6, <2>1, <2>2 DEF TimerTypes, H
<1>8. TimerInv
    BY <1>4, <1>5, <1>6 DEF TimerInv, OwnTimers, NoTimerEarly, H
<1> QED
    BY <1>7, <1>8

(* Steps that leave the timers and the registery alone. *)
LEMMA TimersAlone ==
    ASSUME LedgerInv, TimerTypes, TimerInv,
           UNCHANGED <<heap_timer_, function_data, timer_out_id, registery_, robbed>>,
           sent \subseteq sent', \A x \in DOMAIN birthtime : birthtime'[x] = birthtime[x]
    PROVE  TimerTypes' /\ TimerInv'
<1>1. Live' = Live
    BY DEF Live
<1>2. heap_timer_.num <= Cardinality(sent' \cap Request)
  <2> DEFINE a == Cardinality(sent \cap Request)
             b == Cardinality(sent' \cap Request)
  <2>1. a \in Nat /\ b \in Nat /\ a <= b
      BY SentCount
  <2>2. heap_timer_.num \in 0 .. Slots /\ Slots \in Nat
      BY SlotsFinite, HeapFields DEF TimerTypes
  <2>3. heap_timer_.num <= a
      BY DEF TimerTypes
  <2> HIDE DEF a, b
  <2>4. heap_timer_.num <= b
      BY <2>1, <2>2, <2>3
  <2> QED
      BY <2>4 DEF b
<1>3. TimerTypes'
    BY <1>1, <1>2 DEF TimerTypes
<1>4. ASSUME ~robbed PROVE Sound(heap_timer_', Slots) /\ OwnTimers' /\ NoTimerEarly'
  <2>1. Sound(heap_timer_, Slots) /\ OwnTimers /\ NoTimerEarly
      BY <1>4 DEF TimerInv
  <2>2. OwnTimers'
      BY <1>1, <2>1 DEF OwnTimers
  <2>3. \A n \in Live : function_data[n] \in DOMAIN birthtime
      BY <2>1 DEF OwnTimers, LedgerInv, RequestTypes
  <2>4. NoTimerEarly'
      BY <1>1, <2>1, <2>3 DEF NoTimerEarly
  <2> QED
      BY <2>1, <2>2, <2>4
<1>5. robbed' = robbed
    OBVIOUS
<1> QED
    BY <1>3, <1>4, <1>5 DEF TimerInv

(* A request's own timer is cancelled and the request unregistered. *)
LEMMA OnDecodeTimers ==
    ASSUME LedgerInv, TimerTypes, TimerInv, OnDecodeMessage
    PROVE  TimerTypes' /\ TimerInv'
<1> DEFINE m == Head(arrived)
           H == heap_timer_
           R == AfterCancel(m)
<1>1. CASE m \notin registery_
  <2>1. UNCHANGED <<heap_timer_, function_data, timer_out_id, registery_, robbed, sent, birthtime>>
      BY <1>1 DEF OnDecodeMessage
  <2> QED
      BY <2>1, TimersAlone
<1>2. CASE m \in registery_
  <2>1. registery_' = registery_ \ {m} /\ heap_timer_' = R
      BY <1>2 DEF OnDecodeMessage
  <2>2. UNCHANGED <<function_data, timer_out_id, robbed, sent, birthtime>>
      BY DEF OnDecodeMessage
  <2>3. m \in Request
      BY <1>2 DEF LedgerInv, RequestTypes
  <2>4. /\ HeapType(R, Slots) /\ R.val = H.val /\ R.num <= H.num
        /\ LiveIn(R) \subseteq Live
        /\ KeepsSlots(H, R, Slots)
        /\ Sound(H, Slots) /\ timer_out_id[m] \in Live
               => Sound(R, Slots) /\ LiveIn(R) = Live \ {timer_out_id[m]}
      BY <2>3, CancelFacts
  <2> HIDE DEF m, H, R
  <2>5. Live' = LiveIn(R)
      BY <2>1, LiveIsLiveIn
  <2>6. TimerTypes'
    <3>1. heap_timer_'.num <= Cardinality(sent' \cap Request)
      <4> DEFINE a == Cardinality(sent \cap Request)
      <4>1. a \in Nat /\ H.num <= a
          BY SentCount DEF TimerTypes, H
      <4>2. H.num \in 0 .. Slots /\ R.num \in 0 .. Slots /\ Slots \in Nat
          BY <2>4, SlotsFinite, HeapFields DEF TimerTypes, H
      <4> HIDE DEF a
      <4>3. R.num <= a
          BY <2>4, <4>1, <4>2
      <4> QED
          BY <2>1, <2>2, <4>3 DEF a
    <3>2. \A n \in DOMAIN function_data : function_data[n] \in Request /\ R.index[n] # 0
      <4>1. \A n \in DOMAIN function_data : n \in 0 .. Slots /\ H.index[n] # 0
          BY SlotsFinite DEF TimerTypes, H
      <4> QED
          BY <2>4, <4>1 DEF KeepsSlots, TimerTypes
    <3>3. Live' \subseteq DOMAIN function_data
        BY <2>4, <2>5 DEF TimerTypes
    <3> QED
        BY <2>1, <2>2, <2>4, <3>1, <3>2, <3>3 DEF TimerTypes
  <2>7. ASSUME ~robbed PROVE Sound(heap_timer_', Slots) /\ OwnTimers' /\ NoTimerEarly'
    <3>1. Sound(H, Slots) /\ OwnTimers /\ NoTimerEarly
        BY <2>7 DEF TimerInv, H
    <3>2. timer_out_id[m] \in Live /\ function_data[timer_out_id[m]] = m
        BY <1>2, <3>1 DEF OwnTimers
    <3>3. Sound(R, Slots) /\ Live' = Live \ {timer_out_id[m]}
        BY <2>4, <2>5, <3>1, <3>2
    <3>4. OwnTimers'
        BY <2>1, <2>2, <3>1, <3>2, <3>3 DEF OwnTimers
    <3>5. NoTimerEarly'
        BY <2>1, <2>2, <2>4, <3>1, <3>3 DEF NoTimerEarly, H
    <3> QED
        BY <2>1, <3>3, <3>4, <3>5
  <2> QED
      BY <2>2, <2>6, <2>7 DEF TimerInv
<1> QED
    BY <1>1, <1>2

(* The first timer of the heap, and the request it is for. *)
LEMMA TopOwner ==
    ASSUME LedgerInv, TimerTypes, TimerInv, ~robbed, heap_timer_.num # 0
    PROVE  LET n == TopNode(heap_timer_)
               m == function_data[n]
           IN n \in Live /\ m \in registery_ /\ m \in Request /\ timer_out_id[m] = n
<1>1. Slots \in Nat /\ HeapType(heap_timer_, Slots)
    BY SlotsFinite DEF TimerTypes
<1>2. TopNode(heap_timer_) \in Live
    BY <1>1, TopFacts, LiveIsLiveIn
<1> QED
    BY <1>2 DEF TimerInv, OwnTimers, LedgerInv, RequestTypes

(* FireTimer for a request found by its id. *)
FireFor(m) ==
    IF m \in registery_
    THEN /\ registery_' = registery_ \ {m}
         /\ heap_timer_' = PopTop(AfterCancel(m))
         /\ robbed' = (robbed \/ AfterCancel(m).num > 0)
         /\ SendToServiceHandle(m, "timeout")
    ELSE /\ heap_timer_' = PopTop(heap_timer_)
         /\ UNCHANGED <<registery_, robbed, results>>

LEMMA DueIsThere == ASSUME TimerTypes, TopIsDue PROVE heap_timer_.num # 0
<1>1. heap_timer_.num \in 0 .. Slots /\ Slots \in Nat
    BY SlotsFinite, HeapFields DEF TimerTypes
<1> QED
    BY <1>1 DEF TopIsDue

LEMMA FireOne ==
    ASSUME LedgerInv, TimerTypes, TimerInv, FireTimer
    PROVE  /\ \E m \in Request :
                 /\ FireFor(m)
                 /\ ~robbed => m = function_data[TopNode(heap_timer_)] /\ m \in registery_
           /\ heap_timer_.num # 0
           /\ UNCHANGED <<now, birthtime, data_, temp, phase, cur_time_ms, timer_out_id,
                          function_data, sent, arrived, answered, destroyed>>
<1> DEFINE owner == function_data[TopNode(heap_timer_)]
<1>1. heap_timer_.num # 0
    BY DueIsThere DEF FireTimer
<1>2. PICK m \in SequenceIdRead(owner) : FireFor(m)
    BY DEF FireTimer, FireFor
<1>3. m \in Request
    BY <1>2 DEF SequenceIdRead, LedgerInv, RequestTypes
<1>4. ASSUME ~robbed PROVE m = owner /\ m \in registery_
  <2>1. owner \in registery_
      BY <1>1, <1>4, TopOwner
  <2> QED
      BY <1>2, <2>1 DEF SequenceIdRead
<1>5. UNCHANGED <<now, birthtime, data_, temp, phase, cur_time_ms, timer_out_id,
                  function_data, sent, arrived, answered, destroyed>>
    BY DEF FireTimer
<1> QED
    BY <1>1, <1>2, <1>3, <1>4, <1>5

LEMMA FireTimerTimers ==
    ASSUME LedgerInv, TimerTypes, TimerInv, FireTimer
    PROVE  TimerTypes' /\ TimerInv'
<1> DEFINE H == heap_timer_
           owner == function_data[TopNode(heap_timer_)]
<1>1. PICK m \in Request : FireFor(m) /\ (~robbed => m = owner /\ m \in registery_)
    BY FireOne
<1>2. /\ H.num # 0
      /\ UNCHANGED <<birthtime, timer_out_id, function_data, sent>>
    BY FireOne
<1> DEFINE A == IF m \in registery_ THEN AfterCancel(m) ELSE H
           R == PopTop(A)
<1>3. heap_timer_' = R /\ robbed' = (robbed \/ (m \in registery_ /\ A.num > 0))
  <2>1. CASE m \in registery_
      BY <1>1, <2>1 DEF FireFor
  <2>2. CASE m \notin registery_
    <3>1. heap_timer_' = R /\ robbed' = robbed
        BY <1>1, <2>2 DEF FireFor
    <3>2. robbed \in BOOLEAN
        BY DEF LedgerInv, RequestTypes
    <3> QED
        BY <2>2, <3>1, <3>2, Zenon
  <2> QED
      BY <2>1, <2>2
<1>4. registery_' = registery_ \ {m}
    BY <1>1 DEF FireFor
<1>5. HeapType(H, Slots) /\ Slots \in Nat /\ Live = LiveIn(H) /\ H.num \in 0 .. Slots
    BY SlotsFinite, LiveIsLiveIn, HeapFields DEF TimerTypes
<1>6. /\ HeapType(A, Slots) /\ A.val = H.val /\ A.num <= H.num
      /\ LiveIn(A) \subseteq Live /\ KeepsSlots(H, A, Slots)
  <2>1. CASE m \in registery_
      BY <2>1, CancelFacts
  <2>2. CASE m \notin registery_
      BY <1>5, <2>2 DEF KeepsSlots
  <2> QED
      BY <2>1, <2>2
<1>7. \A n \in DOMAIN function_data : n \in 0 .. Slots /\ H.index[n] # 0
    BY <1>5 DEF TimerTypes
<1>8. \A n \in LiveIn(A) : A.index[n] # 0
    BY <1>6, <1>7 DEF KeepsSlots, TimerTypes
<1> HIDE DEF A, R
<1>9. /\ HeapType(R, Slots) /\ R.val = H.val /\ R.num <= A.num /\ A.num \in 0 .. Slots
      /\ R.num \in 0 .. Slots
      /\ LiveIn(R) \subseteq LiveIn(A) /\ KeepsSlots(A, R, Slots) /\ (A.num = 0 => R = A)
  <2>1. LET P == PopTop(A)
        IN /\ HeapType(P, Slots) /\ P.val = A.val /\ P.num <= A.num
           /\ LiveIn(P) \subseteq LiveIn(A) /\ KeepsSlots(A, P, Slots) /\ (A.num = 0 => P = A)
      BY <1>5, <1>6, <1>8, PopFacts
  <2>2. HeapType(R, Slots)
      BY <2>1 DEF R
  <2> QED
      BY <1>5, <1>6, <2>1, <2>2, HeapFields DEF R
<1>10. LiveIn(R) \subseteq Live /\ KeepsSlots(H, R, Slots) /\ Live' = LiveIn(R)
    BY <1>3, <1>5, <1>6, <1>9, KeepsThrough, LiveIsLiveIn
<1>11. TimerTypes'
  <2>1. heap_timer_'.num <= Cardinality(sent' \cap Request)
    <3> DEFINE a == Cardinality(sent \cap Request)
    <3>1. a \in Nat /\ H.num <= a
        BY SentCount DEF TimerTypes
    <3> HIDE DEF a, H
    <3>2. R.num <= a
        BY <1>5, <1>6, <1>9, <3>1
    <3> QED
        BY <1>2, <1>3, <3>2 DEF a
  <2>2. \A n \in DOMAIN function_data : function_data[n] \in Request /\ R.index[n] # 0
      BY <1>7, <1>10 DEF KeepsSlots, TimerTypes
  <2>3. Live' \subseteq DOMAIN function_data
      BY <1>10 DEF TimerTypes
  <2> QED
      BY <1>2, <1>3, <1>9, <2>1, <2>2, <2>3 DEF TimerTypes
<1>12. ASSUME ~robbed' PROVE Sound(heap_timer_', Slots) /\ OwnTimers' /\ NoTimerEarly'
  <2>1. ~robbed /\ ~(m \in registery_ /\ A.num > 0)
      BY <1>3, <1>12
  <2>2. m = owner /\ m \in registery_
      BY <1>1, <2>1
  <2>3. A.num = 0 /\ R = A
      BY <1>9, <2>1, <2>2
  <2>4. Sound(H, Slots) /\ OwnTimers /\ NoTimerEarly
      BY <2>1 DEF TimerInv
  <2>5. timer_out_id[m] \in Live /\ function_data[timer_out_id[m]] = m
      BY <2>2, <2>4 DEF OwnTimers
  <2>6. Sound(A, Slots) /\ LiveIn(A) = Live \ {timer_out_id[m]}
      BY <2>2, <2>4, <2>5, CancelFacts DEF A
  <2>7. Live' = Live \ {timer_out_id[m]} /\ Sound(R, Slots)
      BY <1>10, <2>3, <2>6
  <2>8. OwnTimers'
      BY <1>2, <1>4, <2>4, <2>5, <2>7 DEF OwnTimers
  <2>9. NoTimerEarly'
      BY <1>2, <1>3, <1>9, <2>4, <2>7 DEF NoTimerEarly
  <2> QED
      BY <1>3, <2>7, <2>8, <2>9
<1> QED
    BY <1>11, <1>12 DEF TimerInv

(* With one request outstanding the heap holds one timer. *)
LEMMA FireTimerWindow ==
    ASSUME LedgerInv, TimerTypes, TimerInv, WindowInv, FireTimer, Window <= 1
    PROVE  ~robbed'
<1> DEFINE H == heap_timer_
           owner == function_data[TopNode(heap_timer_)]
<1>1. ~robbed
    BY DEF WindowInv
<1>2. PICK m \in Request : FireFor(m) /\ m = owner /\ m \in registery_
    BY <1>1, FireOne
<1>3. robbed' = (robbed \/ AfterCancel(m).num > 0)
    BY <1>2 DEF FireFor
<1>4. Sound(H, Slots) /\ OwnTimers
    BY <1>1 DEF TimerInv
<1>5. timer_out_id[m] \in Live
    BY <1>2, <1>4 DEF OwnTimers
<1>6. AfterCancel(m).num = H.num - 1
    BY <1>4, <1>5, CancelFacts
<1>7. HeapType(H, Slots) /\ Slots \in Nat /\ H.num \in 0 .. Slots
    BY SlotsFinite, HeapFields DEF TimerTypes
<1>8. SUFFICES ASSUME H.num > 1 PROVE FALSE
  <2>1. ~ (H.num > 1) => ~ (AfterCancel(m).num > 0)
      BY <1>6, <1>7
  <2> QED
      BY <1>1, <1>3, <2>1, Zenon
<1> DEFINE a == H.items[1]
           b == H.items[2]
<1>9. 1 \in 1 .. H.num /\ 2 \in 1 .. H.num
    BY <1>7, <1>8
<1>10. a \in Live /\ b \in Live
    BY <1>9 DEF Live
<1>11. a # b
    BY <1>4, <1>9 DEF Sound, Indexed
<1>12. /\ function_data[a] \in registery_ /\ function_data[b] \in registery_
       /\ function_data[a] # function_data[b]
    BY <1>4, <1>10, <1>11 DEF OwnTimers
<1>13. registery_ \subseteq Outstanding
  <2> SUFFICES ASSUME NEW x \in registery_ PROVE x \in Outstanding
      OBVIOUS
  <2>1. x \in Request /\ x \in DOMAIN birthtime /\ x \notin Released
      BY DEF LedgerInv, RequestTypes, PlaceInv, InOnePlace
  <2> QED
      BY <2>1 DEF Released, Outstanding
<1> DEFINE two == {function_data[a], function_data[b]}
<1>14. Outstanding \in SUBSET Request /\ two \subseteq Outstanding
    BY <1>12, <1>13 DEF Outstanding
<1>15. Cardinality(two) = 2
  <2> DEFINE x == function_data[a]
             y == function_data[b]
  <2>1. x # y
      BY <1>12
  <2> HIDE DEF x, y
  <2>2. Cardinality({x}) = 1 /\ IsFiniteSet({x})
      BY FS_Singleton
  <2>3. Cardinality({x} \cup {y}) = 2
      BY <2>1, <2>2, FS_AddElement
  <2>4. {x, y} = {x} \cup {y}
      OBVIOUS
  <2> QED
      BY <2>3, <2>4 DEF x, y
<1> HIDE DEF two
<1>16. Cardinality(two) <= Cardinality(Outstanding)
    BY <1>14, SlotsFinite, FS_Subset
<1>17. Cardinality(Outstanding) \in Nat /\ Cardinality(Outstanding) <= Window /\ Window \in Nat
    BY <1>14, SlotsFinite, ClientAssumption DEF WindowInv
<1> QED
    BY <1>15, <1>16, <1>17

LEMMA EncodeTimers ==
    ASSUME LedgerInv, TimerTypes, TimerInv, EncodeMsg
    PROVE  TimerTypes' /\ TimerInv'
<1> DEFINE m == Head(temp)
           H == heap_timer_
           n == NextNode(H)
           key == now + Timeout[m]
           R == InsertKey(H, key)
<1>1. sent' = sent \cup {m} /\ UNCHANGED <<birthtime, robbed>>
    BY DEF EncodeMsg
<1>2. m \in DOMAIN birthtime /\ m \notin sent /\ m \notin registery_
    BY HeadOfBatch DEF EncodeMsg
<1>3. CASE m \notin Request
  <2>1. UNCHANGED <<heap_timer_, function_data, timer_out_id, registery_>>
      BY <1>3 DEF EncodeMsg
  <2> QED
      BY <1>1, <2>1, TimersAlone
<1>4. CASE m \in Request
  <2>1. Register(m)
      BY <1>4 DEF EncodeMsg
  <2>2. /\ registery_' = registery_ \cup {m} /\ heap_timer_' = R
        /\ timer_out_id' = [timer_out_id EXCEPT ![m] = n]
        /\ function_data' = [x \in DOMAIN function_data \cup {n} |->
                                 IF x = n THEN m ELSE function_data[x]]
      BY <2>1 DEF Register
  <2>3. HeapType(H, Slots) /\ Slots \in Nat /\ H.num \in 0 .. Slots
      BY SlotsFinite, HeapFields DEF TimerTypes
  <2>4. H.num + 1 <= Cardinality(sent' \cap Request) /\ H.num < Slots
    <3> DEFINE a == sent \cap Request
               b == sent' \cap Request
    <3>1. IsFiniteSet(a) /\ Cardinality(a) \in Nat /\ Cardinality(b) <= Slots
        BY SlotsFinite
    <3>2. b = a \cup {m} /\ m \notin a
        BY <1>1, <1>2, <1>4
    <3>3. H.num <= Cardinality(a)
        BY DEF TimerTypes
    <3> HIDE DEF a, b, H
    <3>4. Cardinality(b) = Cardinality(a) + 1
        BY <3>1, <3>2, FS_AddElement
    <3>5. H.num + 1 <= Cardinality(b) /\ H.num < Slots
        BY <2>3, <3>1, <3>3, <3>4
    <3> QED
        BY <3>5 DEF b
  <2>5. now \in Nat /\ Timeout[m] \in Nat /\ key \in Int
      BY <1>4, ClientAssumption DEF LedgerInv, RequestTypes
  <2> HIDE DEF m, H, key
  <2>6. /\ HeapType(R, Slots) /\ R.num = H.num + 1
        /\ n \in 1 .. Slots /\ R.index[n] # 0
        /\ R.val[n] = key /\ \A x \in 0 .. Slots : x # n => R.val[x] = H.val[x]
        /\ LiveIn(R) = LiveIn(H) \cup {n}
        /\ KeepsSlots(H, R, Slots)
        /\ Sound(H, Slots) => Sound(R, Slots) /\ n \notin LiveIn(H)
      BY <2>3, <2>4, <2>5, InsertFacts
  <2> HIDE DEF n, R
  <2>7. Live = LiveIn(H) /\ Live' = Live \cup {n}
      BY <2>2, <2>6, LiveIsLiveIn DEF H
  <2>8. \A x \in DOMAIN function_data : x \in 0 .. Slots /\ H.index[x] # 0
      BY <2>3 DEF TimerTypes, H
  <2>9. /\ DOMAIN function_data' = DOMAIN function_data \cup {n} /\ function_data'[n] = m
        /\ \A x \in DOMAIN function_data : x # n => function_data'[x] = function_data[x]
      BY <2>2
  <2>10. /\ timer_out_id' \in [Request -> 0 .. Slots] /\ timer_out_id'[m] = n
         /\ \A x \in Request : x # m => timer_out_id'[x] = timer_out_id[x]
      BY <1>4, <2>2, <2>3, <2>6 DEF TimerTypes
  <2>11. TimerTypes'
    <3>1. heap_timer_'.num <= Cardinality(sent' \cap Request)
        BY <2>2, <2>4, <2>6
    <3>2. \A x \in DOMAIN function_data' : function_data'[x] \in Request /\ R.index[x] # 0
      <4>1. function_data'[n] \in Request /\ R.index[n] # 0
          BY <1>4, <2>6, <2>9
      <4>2. \A x \in DOMAIN function_data : R.index[x] # 0 /\ function_data[x] \in Request
          BY <2>6, <2>8 DEF KeepsSlots, TimerTypes
      <4> QED
          BY <2>9, <4>1, <4>2
    <3>3. Live' \subseteq DOMAIN function_data'
        BY <2>7, <2>9 DEF TimerTypes
    <3>4. \A x \in Request : timer_out_id'[x] # NoTimer => timer_out_id'[x] \in DOMAIN function_data'
        BY <2>9, <2>10 DEF TimerTypes
    <3>5. DOMAIN function_data' \subseteq 1 .. Slots
        BY <2>6, <2>9 DEF TimerTypes
    <3>6. HeapType(heap_timer_', Slots) /\ \A x \in DOMAIN function_data' : heap_timer_'.index[x] # 0
        BY <2>2, <2>6, <3>2
    <3> QED
        BY <2>10, <3>1, <3>2, <3>3, <3>4, <3>5, <3>6 DEF TimerTypes
  <2>12. ASSUME ~robbed PROVE Sound(heap_timer_', Slots) /\ OwnTimers' /\ NoTimerEarly'
    <3>1. Sound(H, Slots) /\ OwnTimers /\ NoTimerEarly
        BY <2>12 DEF TimerInv, H
    <3>2. Sound(heap_timer_', Slots) /\ n \notin Live
        BY <2>2, <2>6, <2>7, <3>1
    <3>3. \A x \in Live : x # n /\ x \in DOMAIN function_data /\ function_data'[x] = function_data[x]
        BY <2>9, <3>2 DEF TimerTypes
    <3>4. registery_ \subseteq Request
        BY DEF LedgerInv, RequestTypes
    <3>5. \A x \in registery_' : timer_out_id'[x] \in Live' /\ function_data'[timer_out_id'[x]] = x
      <4>1. timer_out_id'[m] \in Live' /\ function_data'[timer_out_id'[m]] = m
          BY <2>7, <2>9, <2>10
      <4>2. ASSUME NEW x \in registery_
            PROVE  timer_out_id'[x] \in Live' /\ function_data'[timer_out_id'[x]] = x
        <5>1. x # m /\ x \in Request
            BY <1>2, <3>4 DEF m
        <5>2. timer_out_id'[x] = timer_out_id[x]
            BY <2>10, <5>1
        <5>3. timer_out_id[x] \in Live /\ function_data[timer_out_id[x]] = x
            BY <3>1 DEF OwnTimers
        <5> QED
            BY <2>7, <3>3, <5>2, <5>3
      <4> QED
          BY <2>2, <4>1, <4>2
    <3>6. \A x \in Live' : function_data'[x] \in registery_' /\ timer_out_id'[function_data'[x]] = x
      <4>1. function_data'[n] \in registery_' /\ timer_out_id'[function_data'[n]] = n
          BY <2>2, <2>9, <2>10
      <4>2. ASSUME NEW x \in Live
            PROVE  function_data'[x] \in registery_' /\ timer_out_id'[function_data'[x]] = x
        <5>1. function_data[x] \in registery_ /\ timer_out_id[function_data[x]] = x
            BY <3>1 DEF OwnTimers
        <5>2. function_data[x] # m /\ function_data[x] \in Request
            BY <1>2, <3>4, <5>1 DEF m
        <5> QED
            BY <2>2, <2>10, <3>3, <5>1, <5>2
      <4> QED
          BY <2>7, <4>1, <4>2
    <3>7. \A x \in Live' :
              heap_timer_'.val[x] >= birthtime'[function_data'[x]] + Timeout[function_data'[x]]
      <4>1. key >= birthtime[m] + Timeout[m]
        <5>1. birthtime[m] \in Nat /\ birthtime[m] <= now
            BY <1>2 DEF LedgerInv, RequestTypes, m
        <5> QED
            BY <2>5, <5>1 DEF key, m
      <4>2. ASSUME NEW x \in Live
            PROVE  R.val[x] >= birthtime[function_data[x]] + Timeout[function_data[x]]
        <5>1. x \in 0 .. Slots /\ x # n
            BY <2>8, <3>3
        <5>2. R.val[x] = H.val[x]
            BY <2>6, <5>1
        <5> QED
            BY <3>1, <5>2 DEF NoTimerEarly, H
      <4> QED
          BY <1>1, <2>2, <2>6, <2>7, <2>9, <3>3, <4>1, <4>2
    <3> QED
        BY <3>2, <3>5, <3>6, <3>7 DEF OwnTimers, NoTimerEarly
  <2> QED
      BY <1>1, <2>11, <2>12 DEF TimerInv
<1> QED
    BY <1>3, <1>4

----------------------------------------------------------------------------
(* The bound on the requests that are outstanding.                         *)
LEMMA WindowAlone ==
    ASSUME LedgerInv, WindowInv, [Next]_vars, ~FireTimer
    PROVE  Cardinality(Outstanding') <= Window /\ robbed' = robbed
<1>1. /\ Outstanding \in SUBSET Request /\ Outstanding' \in SUBSET Request
      /\ IsFiniteSet(Outstanding) /\ Cardinality(Outstanding) \in Nat
      /\ Cardinality(Outstanding') \in Nat
      /\ Cardinality(Outstanding) <= Window /\ Window \in Nat
    BY SlotsFinite, ClientAssumption DEF Outstanding, WindowInv
<1>2. robbed' = robbed
    BY DEF Next, Send, Answer, Tick, IoThread, StartTimers, TimersDone, OnDecodeMessage,
           CallRun, HandleFailed, EncodeMsg, RunDone, vars, ioVars
<1>3. CASE \E m \in Message : Send(m)
  <2>1. PICK m \in Message : Send(m)
      BY <1>3
  <2>2. /\ DOMAIN birthtime' = DOMAIN birthtime \cup {m} /\ m \notin DOMAIN birthtime
        /\ results' = results
        /\ m \in Request => Cardinality(Outstanding) < Window
      BY <2>1 DEF Send
  <2>3. CASE m \in Request
    <3>1. m \notin Outstanding /\ Outstanding' \subseteq Outstanding \cup {m}
        BY <2>2 DEF Outstanding
    <3> DEFINE more == Outstanding \cup {m}
    <3>2. IsFiniteSet(more) /\ Cardinality(more) = Cardinality(Outstanding) + 1
        BY <1>1, <3>1, FS_AddElement
    <3>3. Cardinality(Outstanding') <= Cardinality(more)
        BY <3>1, <3>2, FS_Subset
    <3> HIDE DEF more
    <3>4. Cardinality(Outstanding') <= Window
        BY <1>1, <2>2, <2>3, <3>2, <3>3
    <3> QED
        BY <1>2, <3>4
  <2>4. CASE m \notin Request
    <3>1. Outstanding' = Outstanding
        BY <2>2, <2>4 DEF Outstanding
    <3> QED
        BY <1>1, <1>2, <3>1
  <2> QED
      BY <2>3, <2>4
<1>4. CASE ~ \E m \in Message : Send(m)
  <2>1. birthtime' = birthtime
      BY <1>4 DEF Next, Answer, Tick, IoThread, StartTimers, TimersDone, OnDecodeMessage,
                  CallRun, HandleFailed, EncodeMsg, RunDone, vars, ioVars
  <2>2. results' = results \/ \E m, st : results' = [results EXCEPT ![m] = Append(@, st)]
      BY <1>4 DEF Next, Answer, Tick, IoThread, StartTimers, TimersDone, OnDecodeMessage,
                  CallRun, HandleFailed, EncodeMsg, RunDone, vars, ioVars, SendToServiceHandle
  <2>3. ASSUME NEW x \in Request, results[x] # <<>> PROVE results'[x] # <<>>
    <3>1. results \in [Request -> Seq(Status)]
        BY DEF LedgerInv, RequestTypes
    <3>2. CASE results' = results
        BY <2>3, <3>2
    <3>3. ASSUME NEW m, NEW st, results' = [results EXCEPT ![m] = Append(@, st)]
          PROVE  results'[x] # <<>>
      <4>1. CASE x = m
        <5>1. results'[x] = Append(results[x], st) /\ results[x] \in Seq(Status)
            BY <3>1, <3>3, <4>1
        <5>2. Append(results[x], st) # <<>>
          <6> DEFINE s == results[x]
                     S == Status \cup {st}
          <6>1. s \in Seq(S) /\ st \in S
              BY <5>1, SeqOfMore
          <6>2. s \in Seq(S) => Append(s, st) # <<>>
            <7> HIDE DEF s, S
            <7> SUFFICES ASSUME s \in Seq(S) PROVE Append(s, st) # <<>>
                OBVIOUS
            <7>1. st \in S
                BY <6>1
            <7>2. Len(Append(s, st)) = Len(s) + 1 /\ Len(s) \in Nat
                BY <7>1
            <7> QED
                BY <7>2
          <6> QED
              BY <6>1, <6>2 DEF s
        <5> QED
            BY <5>1, <5>2
      <4>2. CASE x # m
          BY <2>3, <3>1, <3>3, <4>2
      <4> QED
          BY <4>1, <4>2
    <3> QED
        BY <2>2, <3>2, <3>3
  <2>4. Outstanding' \subseteq Outstanding
      BY <2>1, <2>3 DEF Outstanding
  <2>5. Cardinality(Outstanding') <= Cardinality(Outstanding)
      BY <1>1, <2>4, FS_Subset
  <2>6. Cardinality(Outstanding') <= Window
      BY <1>1, <2>5
  <2> QED
      BY <1>2, <2>6
<1> QED
    BY <1>3, <1>4

LEMMA FireTimerOutstanding ==
    ASSUME LedgerInv, TimerTypes, TimerInv, WindowInv, FireTimer
    PROVE  Cardinality(Outstanding') <= Window
<1>1. birthtime' = birthtime /\ LedgerInv'
    BY FireTimerLedger DEF FireTimer
<1>2. PICK m \in Request : FireFor(m)
    BY FireOne
<1>3. ASSUME NEW x \in Request, results[x] # <<>> PROVE results'[x] # <<>>
  <2>1. CASE m \notin registery_
      BY <1>2, <1>3, <2>1 DEF FireFor
  <2>2. CASE m \in registery_
    <3>1. SendToServiceHandle(m, "timeout") /\ results[m] = <<>>
      <4>1. m \notin Released
          BY <2>2 DEF LedgerInv, PlaceInv, InOnePlace
      <4> QED
          BY <1>2, <2>2, <4>1 DEF FireFor, Released
    <3>2. x # m
        BY <1>3, <3>1
    <3> QED
        BY <1>3, <3>1, <3>2, ResultFacts DEF LedgerInv, RequestTypes, Status
  <2> QED
      BY <2>1, <2>2
<1>4. Outstanding' \subseteq Outstanding /\ Outstanding \in SUBSET Request
    BY <1>1, <1>3 DEF Outstanding
<1>5. Cardinality(Outstanding') <= Cardinality(Outstanding)
    BY <1>4, SlotsFinite, FS_Subset
<1>6. Cardinality(Outstanding') \in Nat /\ Cardinality(Outstanding) \in Nat /\ Window \in Nat
  <2>1. Outstanding' \in SUBSET Request
      BY DEF Outstanding
  <2> QED
      BY <1>4, <2>1, SlotsFinite, ClientAssumption
<1>7. Cardinality(Outstanding) <= Window
    BY DEF WindowInv
<1> QED
    BY <1>5, <1>6, <1>7

LEMMA AsyncStep == ASSUME AsyncInv, [Next]_vars PROVE AsyncInv'
<1>1. LedgerInv /\ TimerTypes /\ TimerInv /\ WindowInv
    BY DEF AsyncInv, LedgerInv
<1>2. LedgerInv' /\ TimerTypes' /\ TimerInv'
  <2>1. ASSUME NEW m \in Message, Send(m)
        PROVE  LedgerInv' /\ TimerTypes' /\ TimerInv'
    <3>1. /\ UNCHANGED <<heap_timer_, function_data, timer_out_id, registery_, robbed, sent>>
          /\ \A x \in DOMAIN birthtime : birthtime'[x] = birthtime[x]
        BY <2>1 DEF Send, ioVars
    <3> QED
        BY <1>1, <2>1, <3>1, SendLedger, TimersAlone
  <2>2. ASSUME NEW m \in Request, Answer(m)
        PROVE  LedgerInv' /\ TimerTypes' /\ TimerInv'
    <3>1. UNCHANGED <<heap_timer_, function_data, timer_out_id, registery_, robbed, sent, birthtime>>
        BY <2>2 DEF Answer, ioVars
    <3> QED
        BY <1>1, <2>2, <3>1, AnswerLedger, TimersAlone
  <2>3. CASE Tick \/ StartTimers \/ TimersDone \/ RunDone \/ UNCHANGED vars
    <3>1. UNCHANGED <<heap_timer_, function_data, timer_out_id, registery_, robbed, sent, birthtime>>
        BY <2>3 DEF Tick, StartTimers, TimersDone, RunDone, vars, ioVars
    <3> QED
        BY <1>1, <2>3, <3>1, QuietLedger, TimersAlone
  <2>4. CASE FireTimer
      BY <1>1, <2>4, FireTimerLedger, FireTimerTimers
  <2>5. CASE OnDecodeMessage
      BY <1>1, <2>5, OnDecodeLedger, OnDecodeTimers
  <2>6. CASE CallRun
    <3>1. UNCHANGED <<heap_timer_, function_data, timer_out_id, registery_, robbed, sent, birthtime>>
        BY <2>6 DEF CallRun
    <3> QED
        BY <1>1, <2>6, <3>1, CallRunLedger, TimersAlone
  <2>7. CASE HandleFailed
    <3>1. UNCHANGED <<heap_timer_, function_data, timer_out_id, registery_, robbed, sent, birthtime>>
        BY <2>7 DEF HandleFailed
    <3> QED
        BY <1>1, <2>7, <3>1, HandleFailedLedger, TimersAlone
  <2>8. CASE EncodeMsg
      BY <1>1, <2>8, EncodeLedger, EncodeTimers
  <2> QED
      BY <2>1, <2>2, <2>3, <2>4, <2>5, <2>6, <2>7, <2>8 DEF Next, IoThread
<1>3. WindowInv'
  <2>1. CASE FireTimer
      BY <1>1, <2>1, FireTimerWindow, FireTimerOutstanding DEF WindowInv
  <2>2. CASE ~FireTimer
    <3>1. Cardinality(Outstanding') <= Window /\ robbed' = robbed
        BY <1>1, <2>2, WindowAlone
    <3> QED
        BY <1>1, <3>1, Zenon DEF WindowInv
  <2> QED
      BY <2>1, <2>2
<1> QED
    BY <1>2, <1>3 DEF AsyncInv, LedgerInv

(* The queues, the registery, the timers and the callbacks of              *)
(* AsyncClientConnect, AsyncSequence and Timer agree at every step, for    *)
(* any number of requests and any timeouts.                                *)
THEOREM AsyncInvariant == Spec => []AsyncInv
<1>1. Init => AsyncInv
    BY LedgerInit, TimerInit DEF AsyncInv, LedgerInv
<1>2. AsyncInv /\ [Next]_vars => AsyncInv'
    BY AsyncStep
<1> QED
    BY <1>1, <1>2, PTL DEF Spec

(* A request that Client::Invoke was given is queued, in the batch,        *)
(* registered or given back to its callback, in one of them and once.      *)
THEOREM AsyncTracked == Spec => []RequestsTracked
<1>1. ASSUME AsyncInv PROVE MessageInOnePlace
  <2> DEFINE Held == [queue |-> Elems(data_), batch |-> Elems(temp),
                      registery |-> registery_, nowhere |-> Released]
  <2>1. InOnePlace(Elems(data_), Elems(temp), registery_, Released, DOMAIN birthtime)
      BY <1>1 DEF AsyncInv, PlaceInv
  <2>2. DOMAIN Held = {"queue", "batch", "registery", "nowhere"}
      OBVIOUS
  <2>3. /\ Held["queue"] = Elems(data_) /\ Held["batch"] = Elems(temp)
        /\ Held["registery"] = registery_ /\ Held["nowhere"] = Released
      OBVIOUS
  <2> HIDE DEF Held
  <2>4. ASSUME NEW m \in DOMAIN birthtime
        PROVE  \E place \in DOMAIN Held : \A p \in DOMAIN Held : m \in Held[p] <=> p = place
    <3>1. CASE m \in Elems(data_)
      <4>1. \A p \in DOMAIN Held : m \in Held[p] <=> p = "queue"
          BY <2>1, <2>2, <2>3, <3>1 DEF InOnePlace
      <4> QED
          BY <2>2, <4>1
    <3>2. CASE m \in Elems(temp)
      <4>1. \A p \in DOMAIN Held : m \in Held[p] <=> p = "batch"
          BY <2>1, <2>2, <2>3, <3>2 DEF InOnePlace
      <4> QED
          BY <2>2, <4>1
    <3>3. CASE m \in registery_
      <4>1. \A p \in DOMAIN Held : m \in Held[p] <=> p = "registery"
          BY <2>1, <2>2, <2>3, <3>3 DEF InOnePlace
      <4> QED
          BY <2>2, <4>1
    <3>4. CASE m \in Released
      <4>1. \A p \in DOMAIN Held : m \in Held[p] <=> p = "nowhere"
          BY <2>1, <2>2, <2>3, <3>4 DEF InOnePlace
      <4> QED
          BY <2>2, <4>1
    <3> QED
        BY <2>1, <3>1, <3>2, <3>3, <3>4 DEF InOnePlace
  <2> QED
      BY <1>1, <2>4 DEF MessageInOnePlace, AsyncInv, PlaceInv, Held
<1>2. ASSUME AsyncInv PROVE TypeOK
  <2>1. RequestTypes /\ TimerTypes
      BY <1>2 DEF AsyncInv
  <2>2. HeapSlots = 0 .. Slots /\ Slots \in Nat
      BY SlotsFinite DEF HeapSlots, Slots
  <2>3. Elems(data_) \cup Elems(temp) \subseteq DOMAIN birthtime
      BY <2>1, ElemsIn DEF RequestTypes
  <2>4. Elems(arrived) \subseteq answered
    <3>1. arrived \in Seq(answered \cap Request)
        BY <2>1 DEF RequestTypes
    <3> QED
        BY <3>1, ElemsIn
  <2>5. \A m \in Request : Elems(results[m]) \subseteq {"ok", "timeout", "failed"}
    <3>1. \A m \in Request : results[m] \in Seq(Status)
        BY <2>1 DEF RequestTypes
    <3> QED
        BY <3>1, ElemsIn DEF Status
  <2>6. heap_timer_.num \in HeapSlots /\ \A i \in HeapSlots : heap_timer_.items[i] \in HeapSlots
      BY <2>1, <2>2, HeapFields DEF TimerTypes
  <2>7. timer_out_id \in [Request -> HeapSlots] /\ \A n \in Live : n \in DOMAIN function_data
      BY <2>1, <2>2 DEF TimerTypes
  <2> QED
      BY <2>1, <2>3, <2>4, <2>5, <2>6, <2>7 DEF RequestTypes, TypeOK
<1>3. AsyncInv => RequestsTracked
    BY <1>1, <1>2 DEF RequestsTracked, AsyncInv
<1> QED
    BY <1>3, AsyncInvariant, PTL

(* AsyncSequence::Put and CancelTimer keep one timer per registered        *)
(* request until ProcessTimer pops another's, and with one request         *)
(* outstanding they always do.                                             *)
THEOREM AsyncTimers == Spec => []OneTimerPerRequest
<1>1. AsyncInv => OneTimerPerRequest
    BY DEF AsyncInv, TimerInv, OwnTimers, WindowInv, OneTimerPerRequest
<1> QED
    BY <1>1, AsyncInvariant, PTL

(* No callback sees kStatusTimeout early, until ProcessTimer pops another  *)
(* request's timer.                                                        *)
THEOREM AsyncNotEarly == Spec => NoEarlyTimeout
<1>1. ASSUME AsyncInv, [Next]_vars, NEW m \in Request, ~robbed,
             Elems(results'[m]) \ Elems(results[m]) = {"timeout"}
      PROVE  now >= birthtime[m] + Timeout[m]
  <2>1. LedgerInv /\ TimerTypes /\ TimerInv
      BY <1>1 DEF AsyncInv, LedgerInv
  <2>2. results'[m] # results[m]
      BY <1>1
  <2>3. CASE FireTimer
    <3>1. PICK x \in Request :
              FireFor(x) /\ x = function_data[TopNode(heap_timer_)] /\ x \in registery_
        BY <1>1, <2>1, <2>3, FireOne
    <3>2. x = m
      <4>1. SendToServiceHandle(x, "timeout")
          BY <3>1 DEF FireFor
      <4>2. \A y \in Request : y # x => results'[y] = results[y]
          BY <2>1, <4>1 DEF SendToServiceHandle, LedgerInv, RequestTypes
      <4> QED
          BY <2>2, <4>2
    <3> DEFINE n == TopNode(heap_timer_)
    <3>3. n \in Live /\ function_data[n] = m
        BY <1>1, <2>1, <2>3, <3>1, <3>2, DueIsThere, TopOwner DEF FireTimer
    <3>4. cur_time_ms >= heap_timer_.val[n]
        BY <2>3 DEF FireTimer, TopIsDue, KeyAt, TopNode
    <3>5. heap_timer_.val[n] >= birthtime[m] + Timeout[m]
        BY <1>1, <2>1, <3>3 DEF TimerInv, NoTimerEarly
    <3>6. /\ now \in Nat /\ cur_time_ms \in Nat /\ cur_time_ms <= now
          /\ m \in DOMAIN birthtime /\ birthtime[m] \in Nat
        BY <2>1, <3>1, <3>2 DEF LedgerInv, RequestTypes
    <3>7. Timeout[m] \in Nat
        BY ClientAssumption
    <3>8. heap_timer_.val[n] \in Int
      <4>1. n \in 0 .. Slots /\ HeapType(heap_timer_, Slots) /\ Slots \in Nat
          BY <2>1, <3>3, SlotsFinite DEF TimerTypes
      <4> QED
          BY <4>1, HeapFields
    <3> HIDE DEF n
    <3> QED
        BY <3>4, <3>5, <3>6, <3>7, <3>8
  <2>4. CASE ~FireTimer
    <3>1. \/ results' = results
          \/ \E x \in {Head(arrived)} : x \in registery_ /\ SendToServiceHandle(x, "ok")
          \/ \E x \in {Head(temp)} : x \in Elems(temp) /\ x \in Request /\ SendToServiceHandle(x, "failed")
        BY <1>1, <2>1, <2>4, HeadOfBatch
           DEF Next, Send, Answer, Tick, IoThread, StartTimers, TimersDone, OnDecodeMessage,
               CallRun, HandleFailed, EncodeMsg, RunDone, vars, ioVars
    <3>2. PICK x \in Request, st \in {"ok", "failed"} :
              x \notin Released /\ SendToServiceHandle(x, st)
      <4>1. \A x \in registery_ : x \in Request /\ x \notin Released
          BY <2>1 DEF LedgerInv, RequestTypes, PlaceInv, InOnePlace
      <4>2. \A x \in Elems(temp) : x \notin Released
          BY <2>1 DEF LedgerInv, PlaceInv, InOnePlace
      <4>3. CASE \E x \in {Head(arrived)} : x \in registery_ /\ SendToServiceHandle(x, "ok")
        <5>1. PICK x : x \in registery_ /\ SendToServiceHandle(x, "ok")
            BY <4>3
        <5> QED
            BY <4>1, <5>1
      <4>4. CASE \E x \in {Head(temp)} :
                    x \in Elems(temp) /\ x \in Request /\ SendToServiceHandle(x, "failed")
        <5>1. PICK x : x \in Elems(temp) /\ x \in Request /\ SendToServiceHandle(x, "failed")
            BY <4>4
        <5> QED
            BY <4>2, <5>1
      <4> QED
          BY <2>2, <3>1, <4>3, <4>4
    <3>3. results[x] = <<>>
        BY <3>2 DEF Released
    <3>4. /\ Elems(results'[x]) = {st}
          /\ \A y \in Request : y # x => results'[y] = results[y]
        BY <2>1, <3>2, <3>3, ResultFacts DEF LedgerInv, RequestTypes, Status
    <3>5. x = m
        BY <2>2, <3>4
    <3> QED
        BY <1>1, <3>2, <3>4, <3>5
  <2> QED
      BY <2>3, <2>4
<1>2. AsyncInv /\ [Next]_vars =>
          \A m \in Request :
              ~robbed /\ Elems(results'[m]) \ Elems(results[m]) = {"timeout"}
                  => now >= birthtime[m] + Timeout[m]
    BY <1>1
<1> QED
    BY <1>2, AsyncInvariant, PTL DEF Spec, NoEarlyTimeout
=============================================================================
