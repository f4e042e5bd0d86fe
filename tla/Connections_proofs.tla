-------------------------- MODULE Connections_proofs --------------------------
(***************************************************************************)
(* Proofs about the two ends of a connection: the server's objects and     *)
(* their delayed release, for any set of objects and any times; the        *)
(* clients' routers, for any finite number of threads, any number of       *)
(* clients and any width of the counter; and one connection of a           *)
(* synchronous client, as long as the reconnect thread keeps away from it. *)
(***************************************************************************)
EXTENDS ServerConnections, ClientRouting, ClientConnection, SequenceTheorems, FiniteSetTheorems,
        TLAPS

----------------------------------------------------------------------------
(* ServerConnections: the lists name objects that exist, and each object   *)
(* once; a message dies before the object it names, if the peer had hung   *)
(* up; and what has been released is deleted in time.                      *)

(* The object that is being accepted is in no list yet, and SetRelease     *)
(* moves one object at a time.                                             *)
ListsOK ==
    /\ DeletedOnce
    /\ accepting \cap (connected_list_ \cup DOMAIN delayed \cup releasing) = {}
    /\ \A a, b \in releasing : a = b

AgesOK ==
    /\ swept \in Nat
    /\ \A c \in DOMAIN delayed : delayed[c] \in Nat
    /\ \A m \in DOMAIN pending : pending[m] \in Nat /\ pending[m] <= ReplyWithin

(* A message of a connection that was quiet when it was released has been  *)
(* under way at least since then.                                          *)
QuietOK ==
    /\ quiet \subseteq hung
    /\ quiet \subseteq releasing \cup DOMAIN delayed
    /\ \A c \in quiet \cap DOMAIN delayed, kind \in Kinds :
          Under(c, kind) => pending[<<c, kind>>] >= delayed[c]

(* While the next sweep is not due, nothing is older than the delay and    *)
(* the time since the last one.                                            *)
SweptOK ==
    swept <= delete_interval_times =>
        \A c \in DOMAIN delayed : delayed[c] <= delay_delete_times + swept

ServerInv == ListsOK /\ AgesOK /\ QuietOK /\ SweptOK

LEMMA ServerInvInit == ServerInit => ServerInv
BY ServerAssumption
   DEF ServerInit, ServerInv, ListsOK, DeletedOnce, AgesOK, QuietOK, SweptOK, Under

LEMMA ServerInvStep == ASSUME ServerInv, [ServerNext]_serverVars PROVE ServerInv'
<1> USE ServerAssumption DEF ServerInv
<1>1. CASE Second
  <2>1. ListsOK'
    BY <1>1 DEF Second, ListsOK, DeletedOnce
  <2>2. AgesOK'
    BY <1>1 DEF Second, AgesOK, Older, Longest
  <2>3. QuietOK'
    BY <1>1 DEF Second, QuietOK, AgesOK, Older, Longest, Under
  <2>4. SweptOK'
    BY <1>1 DEF Second, SweptOK, AgesOK, Older, Longest
  <2> QED BY <2>1, <2>2, <2>3, <2>4
<1>2. ASSUME NEW c \in Con, Accept(c) PROVE ServerInv'
  BY <1>2 DEF Accept, listVars, ListsOK, DeletedOnce, AgesOK, QuietOK, SweptOK, Under
<1>3. ASSUME NEW c \in Con, AddModrFails(c) PROVE ServerInv'
  BY <1>3 DEF AddModrFails, listVars, ListsOK, DeletedOnce, AgesOK, QuietOK, SweptOK, Under
<1>4. ASSUME NEW c \in Con, AddConnect(c) PROVE ServerInv'
  <2> USE <1>4 DEF AddConnect, Less
  <2>1. Expired \subseteq DOMAIN delayed
    BY DEF Expired
  <2>2. ListsOK'
    BY <2>1 DEF ListsOK, DeletedOnce
  <2>3. AgesOK'
    BY <2>1 DEF AgesOK
  <2>4. QuietOK'
    BY <2>1 DEF QuietOK, Under
  <2>5. SweptOK'
    BY <2>1 DEF SweptOK, AgesOK, Expired
  <2> QED BY <2>2, <2>3, <2>4, <2>5
<1>5. ASSUME NEW c \in Con, DecodeRequest(c) PROVE ServerInv'
  <2> USE <1>5 DEF DecodeRequest, listVars
  <2>1. ListsOK' /\ SweptOK'
    BY DEF ListsOK, DeletedOnce, SweptOK
  <2>2. AgesOK'
    BY DEF AgesOK
  <2>3. QuietOK'
    BY DEF QuietOK, Under
  <2> QED BY <2>1, <2>2, <2>3
<1>6. ASSUME NEW c \in Con, HangUp(c) PROVE ServerInv'
  BY <1>6 DEF HangUp, listVars, ListsOK, DeletedOnce, AgesOK, QuietOK, SweptOK, Under
<1>7. ASSUME NEW c \in Con, Reply(c) PROVE ServerInv'
  BY <1>7 DEF Reply, Less, listVars, ListsOK, DeletedOnce, AgesOK, QuietOK, SweptOK, Under
<1>8. ASSUME NEW c \in Con, SendClose(c) PROVE ServerInv'
  <2> USE <1>8 DEF SendClose, listVars
  <2>1. ListsOK' /\ SweptOK'
    BY DEF ListsOK, DeletedOnce, SweptOK
  <2>2. AgesOK'
    BY DEF AgesOK, Under
  <2>3. QuietOK'
    BY DEF QuietOK, Under, Kinds
  <2> QED BY <2>1, <2>2, <2>3
<1>9. ASSUME NEW c \in Con, StartRelease(c) PROVE ServerInv'
  <2> USE <1>9 DEF StartRelease, Less
  <2>1. ListsOK'
    BY DEF ListsOK, DeletedOnce
  <2>2. AgesOK' /\ SweptOK'
    BY DEF AgesOK, SweptOK
  <2>3. QuietOK'
    BY DEF QuietOK, ListsOK, DeletedOnce, Under
  <2> QED BY <2>1, <2>2, <2>3
<1>10. ASSUME NEW c \in Con, EndRelease(c) PROVE ServerInv'
  <2> USE <1>10 DEF EndRelease
  <2>1. ListsOK'
    BY DEF ListsOK, DeletedOnce
  <2>2. AgesOK' /\ SweptOK'
    BY DEF AgesOK, SweptOK
  <2>3. QuietOK'
    BY DEF QuietOK, ListsOK, AgesOK, Under
  <2> QED BY <2>1, <2>2, <2>3
<1>11. CASE UNCHANGED serverVars
  BY <1>11 DEF serverVars, listVars, ListsOK, DeletedOnce, AgesOK, QuietOK, SweptOK, Under
<1> QED
  BY <1>1, <1>2, <1>3, <1>4, <1>5, <1>6, <1>7, <1>8, <1>9, <1>10, <1>11 DEF ServerNext

LEMMA ServerInvariant == ServerSpec => []ServerInv
<1>1. ServerInit => ServerInv
  BY ServerInvInit
<1>2. ServerInv /\ [ServerNext]_serverVars => ServerInv'
  BY ServerInvStep
<1> QED BY <1>1, <1>2, PTL DEF ServerSpec

----------------------------------------------------------------------------
(* For any number of connections, closed twice, or closed before they are  *)
(* listed: SetRelease's two locks, one after the other, let no list hold   *)
(* an object that was deleted, or two lists the same one.                  *)
THEOREM ServerListsCorrect == ServerSpec => []DeletedOnce
<1>1. ServerInv => DeletedOnce
  BY DEF ServerInv, ListsOK
<1> QED BY <1>1, ServerInvariant, PTL

(* DeleteDalayCon deletes no object whose address a message still holds,   *)
(* if its peer had hung up before it was released and messages are under   *)
(* way no longer than an object is kept (ServerAssumption).                *)
THEOREM MessagesDieFirst == ServerSpec => QuietOutlivesMessages
<1>1. ASSUME ServerInv, [ServerNext]_serverVars
      PROVE  [\A c \in quiet : c \notin alive' => \A kind \in Kinds : ~Under(c, kind)]_serverVars
  <2> SUFFICES ASSUME ServerNext, NEW c \in quiet, c \notin alive',
                      NEW kind \in Kinds, Under(c, kind)
               PROVE  FALSE
    BY <1>1 DEF Under
  <2> USE <1>1 DEF ServerInv
  <2>1. c \in alive /\ c \notin accepting
    BY DEF QuietOK, ListsOK, DeletedOnce
  <2>2. \A d \in Con : ~AddModrFails(d)
    BY <2>1 DEF AddModrFails
  <2>3. ASSUME NEW d \in Con, AddConnect(d) PROVE FALSE
    <3>1. c \in DOMAIN delayed /\ delayed[c] > delay_delete_times
      BY <2>1, <2>3 DEF AddConnect, Expired
    <3>2. pending[<<c, kind>>] >= delayed[c] /\ pending[<<c, kind>>] <= ReplyWithin
      BY <3>1 DEF QuietOK, AgesOK, Under
    <3> QED BY <3>1, <3>2, ServerAssumption DEF AgesOK, Under
  <2>4. alive \subseteq alive'
    BY <2>2, <2>3 DEF ServerNext, Second, Accept, DecodeRequest, HangUp, Reply, SendClose,
                      StartRelease, EndRelease
  <2> QED BY <2>1, <2>4
<1>2. ServerInv /\ [ServerNext]_serverVars
        => [\A c \in quiet : c \notin alive' => \A kind \in Kinds : ~Under(c, kind)]_serverVars
  BY <1>1
<1> QED BY <1>2, ServerInvariant, PTL DEF ServerSpec, QuietOutlivesMessages

(* When a connection is accepted, none is left that was released longer    *)
(* ago than the delay and the interval between two sweeps together.        *)
THEOREM ReleasedAreDeleted == ServerSpec => ReleasedIsDeleted
<1>1. ASSUME ServerInv, NEW x \in Con, NEW c \in Con,
             AddConnect(x), c \in DOMAIN delayed, c \in alive'
      PROVE  delayed[c] <= Longest
  <2>1. c \notin Expired
    BY <1>1 DEF AddConnect
  <2>2. CASE swept > delete_interval_times
    BY <2>1, <2>2, <1>1, ServerAssumption DEF Expired, Longest, ServerInv, AgesOK
  <2>3. CASE swept <= delete_interval_times
    BY <2>3, <1>1, ServerAssumption DEF Longest, ServerInv, AgesOK, SweptOK
  <2> QED BY <2>2, <2>3, <1>1, ServerAssumption DEF ServerInv, AgesOK
<1>2. ServerInv /\ [ServerNext]_serverVars
        => [\A x, c \in Con : AddConnect(x) /\ c \in DOMAIN delayed /\ c \in alive'
                => delayed[c] <= Longest]_serverVars
  BY <1>1
<1> QED BY <1>2, ServerInvariant, PTL DEF ServerSpec, ReleasedIsDeleted

----------------------------------------------------------------------------
(* ClientRouting: a busy client has one owner, the counter always points   *)
(* into the list of clients, and a search that has the counter to itself   *)
(* sees all of them.                                                       *)

CallState ==
    [at : {"idle", "search", "examine", "try", "taken", "none", "crash"}, cli : Channels,
     loop_cnt : 0 .. ClientCount, seen : SUBSET Channels, undisturbed : BOOLEAN]

RoutingTypeOK ==
    /\ current_ \in 0 .. Width - 1
    /\ connect_ \in [Channels -> {"kConnected", "kBroken", "null"}]
    /\ held_ \subseteq Channels
    /\ onlyOne \in BOOLEAN
    /\ call \in [Thread -> CallState]
    /\ underway \in [Channels -> Nat]
    /\ leaked \subseteq Channels /\ early \subseteq Channels

LEMMA IndexInChannels == ASSUME NEW value \in 0 .. Width - 1 PROVE Index(value) \in Channels
BY RoutingAssumption DEF Index, Channels

LEMMA RoutingTypeInit == RoutingInit => RoutingTypeOK
BY RoutingAssumption DEF RoutingInit, RoutingTypeOK, Idle, CallState, Channels

(* What a search becomes when the counter is used, or a client passed.     *)
LEMMA CountedState ==
    ASSUME RoutingTypeOK, NEW t \in Thread, call[t].loop_cnt # ClientCount
    PROVE  Counted(t) \in [Thread -> CallState]
<1> USE RoutingAssumption
<1>1. call \in [Thread -> CallState] /\ Index(current_) \in Channels
  BY IndexInChannels DEF RoutingTypeOK
<1>2. call[t].loop_cnt + 1 \in 0 .. ClientCount
  BY <1>1 DEF CallState
<1>3. ASSUME NEW alone \in BOOLEAN
      PROVE  [call[t] EXCEPT !.at = "examine", !.loop_cnt = @ + 1, !.cli = Index(current_),
                             !.undisturbed = alone, !.seen = IF alone THEN @ ELSE {}] \in CallState
  BY <1>1, <1>2 DEF CallState
<1>4. (call[t].undisturbed /\ ~Turns(current_)) \in BOOLEAN
  OBVIOUS
<1>5. ASSUME NEW u \in Thread
      PROVE  (IF Searches(u) THEN [call[u] EXCEPT !.undisturbed = FALSE, !.seen = {}] ELSE call[u])
                 \in CallState
  BY <1>1 DEF CallState
<1> QED BY <1>3, <1>4, <1>5 DEF Counted

LEMMA CountedFields ==
    ASSUME RoutingTypeOK, NEW t \in Thread
    PROVE  LET after == Counted(t)[t] IN
           /\ after.at = "examine" /\ after.loop_cnt = call[t].loop_cnt + 1
           /\ after.cli = Index(current_)
           /\ after.undisturbed => call[t].undisturbed /\ ~Turns(current_)
                                   /\ after.seen = call[t].seen
<1> DEFINE alone == call[t].undisturbed /\ ~Turns(current_)
           after == Counted(t)[t]
<1>1. after = [call[t] EXCEPT !.at = "examine", !.loop_cnt = @ + 1, !.cli = Index(current_),
                              !.undisturbed = alone, !.seen = IF alone THEN @ ELSE {}]
  BY DEF Counted
<1>2. call[t] \in CallState /\ alone \in BOOLEAN
  BY DEF RoutingTypeOK
<1> HIDE DEF alone, after
<1>3. /\ after.at = "examine" /\ after.loop_cnt = call[t].loop_cnt + 1
      /\ after.cli = Index(current_) /\ after.undisturbed = alone
      /\ alone => after.seen = call[t].seen
  BY <1>1, <1>2 DEF CallState
<1> QED BY <1>3 DEF alone, after

LEMMA PassedState ==
    ASSUME RoutingTypeOK, NEW t \in Thread PROVE Passed(t) \in CallState
<1>1. call[t] \in CallState /\ 0 \in Channels
  BY RoutingAssumption DEF RoutingTypeOK, Channels
<1>2. (IF call[t].undisturbed THEN call[t].seen \cup {call[t].cli} ELSE {}) \in SUBSET Channels
  BY <1>1 DEF CallState
<1> QED BY <1>1, <1>2 DEF Passed, CallState

LEMMA RoutingTypeStep == ASSUME RoutingTypeOK, [RoutingNext]_routingVars PROVE RoutingTypeOK'
<1> USE RoutingAssumption DEF RoutingTypeOK, freedVars
<1>0. Idle \in CallState
  BY DEF Idle, CallState, Channels
<1>1. ASSUME NEW t \in Thread, ChooseRouter(t) PROVE RoutingTypeOK'
  BY <1>0, <1>1 DEF ChooseRouter, CallState
<1>2. ASSUME NEW t \in Thread, TakeIndex(t) PROVE RoutingTypeOK'
  <2>1. CASE call[t].loop_cnt = ClientCount
    BY <1>2, <2>1 DEF TakeIndex, CallState
  <2>2. CASE call[t].loop_cnt # ClientCount
    <3>1. (current_ + 1) % Width \in 0 .. Width - 1
      OBVIOUS
    <3> QED BY <1>2, <2>2, <3>1, CountedState DEF TakeIndex
  <2> QED BY <2>1, <2>2
<1>3. ASSUME NEW t \in Thread, Examine(t) PROVE RoutingTypeOK'
  <2>1. [call[t] EXCEPT !.at = "try"] \in CallState /\ Passed(t) \in CallState
    BY PassedState DEF CallState
  <2> QED BY <1>3, <2>1 DEF Examine
<1>4. ASSUME NEW t \in Thread, Try(t) PROVE RoutingTypeOK'
  <2>1. Passed(t) \in CallState /\ call[t].cli \in Channels
    BY PassedState DEF CallState
  <2>2. [Idle EXCEPT !.at = "crash"] \in CallState
        /\ [Idle EXCEPT !.at = "taken", !.cli = call[t].cli] \in CallState
    BY <1>0, <2>1 DEF CallState
  <2> QED BY <1>4, <2>1, <2>2 DEF Try
<1>5. ASSUME NEW t \in Thread, Submit(t) PROVE RoutingTypeOK'
  BY <1>0, <1>5 DEF Submit, CallState
<1>6. ASSUME NEW c \in Channels, Answered(c) \/ Refused(c) \/ FreedEarly(c) PROVE RoutingTypeOK'
  BY <1>6 DEF Answered, Refused, FreedEarly
<1>7. ASSUME NEW c \in Channels, SetStatus(c) \/ StopClient(c) PROVE RoutingTypeOK'
  BY <1>7 DEF SetStatus, StopClient
<1>8. CASE UNCHANGED routingVars
  BY <1>8 DEF routingVars
<1> QED BY <1>1, <1>2, <1>3, <1>4, <1>5, <1>6, <1>7, <1>8 DEF RoutingNext

(* The variables of the model keep their types, so that the counter's      *)
(* conversion to int never leaves the list of clients.                     *)
THEOREM RoutingTypes == RoutingSpec => []RoutingTypeOK
BY RoutingTypeInit, RoutingTypeStep, PTL DEF RoutingSpec

----------------------------------------------------------------------------
(* Owners.                                                                 *)

LEMMA HoldersFinite ==
    ASSUME NEW c PROVE IsFiniteSet(Holders(c)) /\ Cardinality(Holders(c)) \in Nat
BY FS_Subset, FS_CardinalityType, RoutingAssumption DEF Holders

(* What a step does to the set of holders. *)
LEMMA HolderAdded ==
    ASSUME NEW c, NEW t \in Thread, t \notin Holders(c), Holders(c)' = Holders(c) \cup {t}
    PROVE  Cardinality(Holders(c))' = Cardinality(Holders(c)) + 1
BY HoldersFinite, FS_AddElement

LEMMA HolderRemoved ==
    ASSUME NEW c, NEW t \in Holders(c), Holders(c)' = Holders(c) \ {t}
    PROVE  Cardinality(Holders(c))' = Cardinality(Holders(c)) - 1
BY HoldersFinite, FS_RemoveElement

(* What BusyHasOneOwner says of one client. *)
OneOwner(c) ==
    c \notin early =>
        /\ Owners(c) <= 1
        /\ Owners(c) = 1 => c \in held_
        /\ c \in held_ /\ Owners(c) = 0 => c \in leaked \/ connect_[c] = "null"

(* Nothing changes for a client. *)
Kept(c) ==
    /\ \A u \in Thread : (call'[u].at = "taken" /\ call'[u].cli = c)
                         <=> (call[u].at = "taken" /\ call[u].cli = c)
    /\ underway'[c] = underway[c] /\ (c \in held_' <=> c \in held_)
    /\ early \subseteq early' /\ leaked \subseteq leaked'
    /\ connect_[c] = "null" => connect_'[c] = "null"

LEMMA KeptOwner ==
    ASSUME NEW c \in Channels, OneOwner(c), Kept(c) PROVE OneOwner(c)'
<1>1. Holders(c)' = Holders(c)
  BY DEF Kept, Holders
<1>2. Owners(c)' = Owners(c)
  BY <1>1 DEF Kept, Owners
<1> QED BY <1>2 DEF Kept, OneOwner

LEMMA BusyStep ==
    ASSUME RoutingTypeOK, onlyOne, [RoutingNext]_routingVars, NEW c \in Channels, OneOwner(c)
    PROVE  OneOwner(c)'
<1> USE DEF RoutingTypeOK, freedVars
<1>a. Cardinality(Holders(c)) \in Nat /\ underway[c] \in Nat
  BY HoldersFinite
<1>1. ASSUME NEW t \in Thread, ChooseRouter(t) PROVE Kept(c)
  BY <1>1 DEF Kept, ChooseRouter, Idle, CallState
<1>2. ASSUME NEW t \in Thread, TakeIndex(t) PROVE Kept(c)
  <2>1. \A u \in Thread : /\ call'[u].at = "taken" <=> call[u].at = "taken"
                          /\ call[u].at = "taken" => call'[u].cli = call[u].cli
    <3> SUFFICES ASSUME NEW u \in Thread
                 PROVE  /\ call'[u].at = "taken" <=> call[u].at = "taken"
                        /\ call[u].at = "taken" => call'[u].cli = call[u].cli
      OBVIOUS
    <3>1. CASE call[t].loop_cnt = ClientCount
      BY <1>2, <3>1 DEF TakeIndex, CallState
    <3>2. CASE call[t].loop_cnt # ClientCount /\ u = t
      <4>1. call[u].at = "search" /\ call'[u] = Counted(t)[t]
        BY <1>2, <3>2 DEF TakeIndex
      <4>2. call'[u].at = "examine"
        BY <4>1, CountedFields
      <4> QED BY <4>1, <4>2
    <3>3. CASE call[t].loop_cnt # ClientCount /\ u # t
      <4>1. call'[u] = Counted(t)[u]
        BY <1>2, <3>3 DEF TakeIndex
      <4> QED BY <3>3, <4>1 DEF Counted, CallState
    <3> QED BY <3>1, <3>2, <3>3
  <2> QED BY <1>2, <2>1 DEF Kept, TakeIndex
<1>3. ASSUME NEW t \in Thread, Examine(t) PROVE Kept(c)
  <2>1. call[t].at = "examine" /\ call'[t].at \in {"try", "search"}
    BY <1>3 DEF Examine, Passed, CallState
  <2>2. \A u \in Thread : u # t => call'[u] = call[u]
    BY <1>3 DEF Examine
  <2> QED BY <1>3, <2>1, <2>2 DEF Kept, Examine
<1>4. ASSUME NEW t \in Thread, Try(t) PROVE OneOwner(c)'
  <2>0. t \notin Holders(c) /\ \A u \in Thread : u # t => call'[u] = call[u]
    BY <1>4 DEF Try, Holders
  <2>1. CASE /\ call[t].cli = c /\ c \notin held_
             /\ call' = [call EXCEPT ![t] = [Idle EXCEPT !.at = "taken", !.cli = c]]
             /\ held_' = held_ \cup {c}
    <3>1. call'[t].at = "taken" /\ call'[t].cli = c
      BY <2>1 DEF Idle
    <3>2. Holders(c)' = Holders(c) \cup {t}
      BY <2>0, <3>1 DEF Holders
    <3>3. Cardinality(Holders(c))' = Cardinality(Holders(c)) + 1
      BY <2>0, <3>2, HolderAdded
    <3>4. c \notin early => Owners(c) = 0
      BY <1>a, <2>1 DEF OneOwner, Owners
    <3> QED BY <1>4, <1>a, <2>1, <3>3, <3>4 DEF Try, Owners, OneOwner
  <2>2. CASE /\ call[t].cli # c
             /\ call' = [call EXCEPT ![t] = [Idle EXCEPT !.at = "taken", !.cli = call[t].cli]]
             /\ held_' = held_ \cup {call[t].cli}
    <3>1. call[t].at = "try" /\ call'[t].cli # c
      BY <1>4, <2>2 DEF Try, Idle
    <3> QED BY <1>4, <2>0, <2>2, <3>1, KeptOwner DEF Kept, Try
  <2>3. CASE held_' = held_ /\ call'[t].at \in {"crash", "search"}
    <3>1. call[t].at = "try"
      BY <1>4 DEF Try
    <3> QED BY <1>4, <2>0, <2>3, <3>1, KeptOwner DEF Kept, Try
  <2>4. [Idle EXCEPT !.at = "crash"].at = "crash" /\ Passed(t).at = "search"
    BY DEF Idle, Passed, CallState
  <2> QED BY <1>4, <2>1, <2>2, <2>3, <2>4 DEF Try
<1>5. ASSUME NEW t \in Thread, Submit(t) PROVE OneOwner(c)'
  <2>0. /\ call[t].at = "taken" /\ call'[t].at # "taken"
        /\ \A u \in Thread : u # t => call'[u] = call[u]
    BY <1>5 DEF Submit, Idle
  <2>1. CASE call[t].cli = c
    <3>1. t \in Holders(c) /\ Holders(c)' = Holders(c) \ {t}
      BY <2>0, <2>1 DEF Holders
    <3>2. Cardinality(Holders(c))' = Cardinality(Holders(c)) - 1
      BY <3>1, HolderRemoved
    <3>3. Cardinality(Holders(c))' \in Nat
      BY HoldersFinite, <3>2, <3>1, FS_EmptySet, <1>a
    <3>4. c \notin early => Owners(c) = 1 /\ c \in held_
      BY <1>a, <3>2, <3>3 DEF OneOwner, Owners
    <3>5. CASE connect_[c] = "kConnected"
      BY <1>5, <1>a, <2>1, <3>2, <3>3, <3>4, <3>5 DEF Submit, Owners, OneOwner
    <3>6. CASE connect_[c] # "kConnected"
      BY <1>5, <1>a, <2>1, <3>2, <3>3, <3>4, <3>6 DEF Submit, Owners, OneOwner
    <3> QED BY <3>5, <3>6
  <2>2. CASE call[t].cli # c
    BY <1>5, <2>0, <2>2, KeptOwner DEF Kept, Submit
  <2> QED BY <2>1, <2>2
<1>6. ASSUME NEW d \in Channels, Answered(d) \/ Refused(d) PROVE OneOwner(c)'
  <2>1. CASE d # c
    BY <1>6, <2>1, KeptOwner DEF Answered, Refused, Kept
  <2>2. CASE d = c
    <3>1. Cardinality(Holders(c))' = Cardinality(Holders(c))
      BY <1>6 DEF Answered, Refused, Holders
    <3>2. /\ underway[c] > 0 /\ underway'[c] = underway[c] - 1 /\ UNCHANGED <<connect_, early>>
          /\ \/ held_' = held_ \ {c} /\ leaked' = leaked
             \/ held_' = held_ /\ leaked' = leaked \cup {c}
      BY <1>6, <2>2 DEF Answered, Refused
    <3> QED BY <1>a, <3>1, <3>2 DEF Owners, OneOwner
  <2> QED BY <2>1, <2>2
<1>7. ASSUME NEW d \in Channels, FreedEarly(d) PROVE OneOwner(c)'
  <2>1. CASE d = c
    BY <1>7, <2>1 DEF FreedEarly, OneOwner
  <2>2. CASE d # c
    BY <1>7, <2>2, KeptOwner DEF FreedEarly, Kept
  <2> QED BY <2>1, <2>2
<1>8. ASSUME NEW d \in Channels, SetStatus(d) \/ StopClient(d) PROVE Kept(c)
  BY <1>8 DEF Kept, SetStatus, StopClient
<1>9. CASE UNCHANGED routingVars
  BY <1>9, KeptOwner DEF Kept, routingVars
<1> QED BY <1>1, <1>2, <1>3, <1>4, <1>5, <1>6, <1>7, <1>8, <1>9, KeptOwner DEF RoutingNext

(* For any number of threads: they take clients, find them broken and give *)
(* them back, while the IO thread frees them or refuses their requests.  A *)
(* client that may have one request has one owner at most, unless a read   *)
(* freed it early, is busy while it has one, and is busy without one only  *)
(* after a request of its was refused, or when it has been stopped.        *)
THEOREM BusyCorrect == RoutingSpec => []BusyHasOneOwner
<1> DEFINE Busy == onlyOne => \A c \in Channels : OneOwner(c)
<1>1. RoutingInit => Busy
  <2> SUFFICES ASSUME RoutingInit, NEW c \in Channels PROVE OneOwner(c)
    OBVIOUS
  <2>1. Holders(c) = {}
    BY DEF RoutingInit, Idle, Holders
  <2>2. Owners(c) = 0 /\ c \notin held_
    BY <2>1, FS_EmptySet DEF RoutingInit, Owners
  <2> QED BY <2>2 DEF OneOwner
<1>2. RoutingTypeOK /\ Busy /\ [RoutingNext]_routingVars => Busy'
  <2>1. ASSUME [RoutingNext]_routingVars PROVE onlyOne' = onlyOne
    BY <2>1 DEF RoutingNext, ChooseRouter, TakeIndex, Examine, Try, Submit, Answered, Refused,
                FreedEarly, SetStatus, StopClient, routingVars
  <2>2. Channels' = Channels
    BY DEF Channels
  <2> QED BY <2>1, <2>2, BusyStep
<1>3. Busy => BusyHasOneOwner
  BY DEF BusyHasOneOwner, OneOwner
<1> QED BY <1>1, <1>2, <1>3, RoutingTypes, PTL DEF RoutingSpec

----------------------------------------------------------------------------
(* The search.                                                             *)

(* current_ as size_t, before the remainder; and what the last k turns     *)
(* have pointed to, if nobody else has counted and no turn has jumped.     *)
Value(v) == IF v < Width \div 2 THEN v ELSE v + Wide - Width
Looked(v, k) == {(Value(v) - j) % ClientCount : j \in 1 .. k}

SearchOK ==
    \A t \in Thread : call[t].undisturbed =>
        /\ call[t].at = "search" => call[t].seen = Looked(current_, call[t].loop_cnt)
        /\ call[t].at \in {"examine", "try"} =>
              call[t].seen \cup {call[t].cli} = Looked(current_, call[t].loop_cnt)
        /\ call[t].at = "none" => call[t].seen = Channels

LEMMA ModUnique ==
    ASSUME NEW n \in Nat \ {0}, NEW c \in 0 .. n - 1, NEW q \in Int
    PROVE  (c + q * n) % n = c
<1> DEFINE a == c + q * n
           d == a \div n
<1>1. a \in Int /\ d \in Int /\ a % n \in 0 .. n - 1 /\ a = d * n + (a % n)
  OBVIOUS
<1>2. (q - d) * n = (a % n) - c
  BY <1>1
<1>3. CASE q - d >= 1
  <2>1. (q - d) * n >= n
    BY <1>1, <1>3
  <2> QED BY <1>1, <1>2, <2>1
<1>4. CASE q - d <= -1
  <2>1. (q - d) * n <= -n
    BY <1>1, <1>4
  <2> QED BY <1>1, <1>2, <2>1
<1>5. CASE q = d
  BY <1>1, <1>5
<1> QED BY <1>1, <1>3, <1>4, <1>5

(* As many turns as there are clients point to every client. *)
LEMMA AllLooked ==
    ASSUME NEW v \in 0 .. Width - 1 PROVE Looked(v, ClientCount) = Channels
<1> DEFINE n == ClientCount
           V == Value(v)
<1>1. n \in Nat \ {0} /\ V \in Int
  BY RoutingAssumption DEF Value
<1> HIDE DEF n, V
<1>2. \A j \in 1 .. n : (V - j) % n \in 0 .. n - 1
  BY <1>1
<1>3. ASSUME NEW c \in 0 .. n - 1 PROVE \E j \in 1 .. n : (V - j) % n = c
  <2> DEFINE a == V - 1 - c
             q == a \div n
             r == a % n
  <2>1. a \in Int /\ q \in Int /\ r \in 0 .. n - 1 /\ a = q * n + r
    BY <1>1
  <2> HIDE DEF q, r
  <2>2. q * n \in Int
    BY <1>1, <2>1
  <2>3. V - (r + 1) = c + q * n
    BY <1>1, <2>1, <2>2
  <2>4. r + 1 \in 1 .. n
    BY <1>1, <2>1
  <2>5. (V - (r + 1)) % n = c
    BY <1>1, <2>1, <2>3, ModUnique
  <2> QED BY <2>4, <2>5
<1> QED BY <1>2, <1>3 DEF Looked, Channels, n, V

(* One more turn, where the counter does not jump. *)
LEMMA OneMoreLooked ==
    ASSUME NEW v \in 0 .. Width - 1, ~ Turns(v), NEW k \in Nat
    PROVE  Looked((v + 1) % Width, k + 1) = Looked(v, k) \cup {Index(v)}
<1> USE RoutingAssumption
<1>1. v + 1 < Width
  BY DEF Turns
<1>2. (v + 1) % Width = v + 1
  BY <1>1
<1>3. v + 1 # Width \div 2
  BY <1>2 DEF Turns
<1>4. Value(v + 1) = Value(v) + 1 /\ Value(v) \in Int
  BY <1>3 DEF Value
<1>5. Index(v) = Value(v) % ClientCount
  BY DEF Index, Value
<1>6. \A x : x \in Looked(v + 1, k + 1) <=> x \in Looked(v, k) \cup {Index(v)}
  <2>1. ASSUME NEW j \in 1 .. k + 1
        PROVE  (Value(v + 1) - j) % ClientCount \in Looked(v, k) \cup {Index(v)}
    <3>1. Value(v + 1) - j = Value(v) - (j - 1)
      BY <1>4
    <3>2. CASE j = 1
      BY <1>4, <1>5, <3>1, <3>2
    <3>3. CASE j # 1
      <4>1. j - 1 \in 1 .. k
        BY <3>3
      <4> QED BY <3>1, <4>1 DEF Looked
    <3> QED BY <3>2, <3>3
  <2>2. ASSUME NEW j \in 1 .. k
        PROVE  (Value(v) - j) % ClientCount \in Looked(v + 1, k + 1)
    <3>1. Value(v) - j = Value(v + 1) - (j + 1) /\ j + 1 \in 1 .. k + 1
      BY <1>4
    <3> QED BY <3>1 DEF Looked
  <2>3. Index(v) \in Looked(v + 1, k + 1)
    <3>1. Value(v) = Value(v + 1) - 1 /\ 1 \in 1 .. k + 1
      BY <1>4
    <3> QED BY <1>5, <3>1 DEF Looked
  <2> QED BY <2>1, <2>2, <2>3 DEF Looked
<1> QED BY <1>2, <1>6

LEMMA SearchStep ==
    ASSUME RoutingTypeOK, SearchOK, [RoutingNext]_routingVars
    PROVE  SearchOK'
<1> USE DEF RoutingTypeOK, freedVars
<1> DEFINE Fine(t) ==
        call[t].undisturbed =>
            /\ call[t].at = "search" => call[t].seen = Looked(current_, call[t].loop_cnt)
            /\ call[t].at \in {"examine", "try"} =>
                  call[t].seen \cup {call[t].cli} = Looked(current_, call[t].loop_cnt)
            /\ call[t].at = "none" => call[t].seen = Channels
<1>0. \A t \in Thread : Fine(t)
  BY DEF SearchOK
<1>a. SUFFICES ASSUME NEW u \in Thread PROVE Fine(u)'
  BY DEF SearchOK
<1>b. ASSUME call'[u] = call[u], current_' = current_ PROVE Fine(u)'
  BY <1>0, <1>b DEF Looked, Value
<1>c. ASSUME call'[u].at \notin {"search", "examine", "try", "none"} PROVE Fine(u)'
  BY <1>c
<1>d. call[u] \in CallState /\ call[u].loop_cnt \in Nat
  BY RoutingAssumption DEF CallState
<1>1. ASSUME NEW t \in Thread, ChooseRouter(t) PROVE Fine(u)'
  <2>1. CASE u = t
    <3>1. call'[u] = [Idle EXCEPT !.at = "search"]
      BY <1>1, <2>1 DEF ChooseRouter
    <3>2. call'[u].at = "search" /\ call'[u].seen = {} /\ call'[u].loop_cnt = 0
      BY <3>1 DEF Idle
    <3>3. \A v : Looked(v, 0) = {}
      BY DEF Looked
    <3> QED BY <3>2, <3>3
  <2>2. CASE u # t
    BY <1>1, <1>b, <2>2 DEF ChooseRouter
  <2> QED BY <2>1, <2>2
<1>2. ASSUME NEW t \in Thread, TakeIndex(t) PROVE Fine(u)'
  <2>1. CASE call[t].loop_cnt = ClientCount /\ u = t
    <3>1. call[t].at = "search" /\ call' = [call EXCEPT ![t].at = "none"]
      BY <1>2, <2>1 DEF TakeIndex
    <3>2. /\ call'[u].at = "none" /\ call'[u].seen = call[u].seen
          /\ call'[u].undisturbed = call[u].undisturbed
      BY <1>d, <2>1, <3>1 DEF CallState
    <3>3. call[u].undisturbed => call[u].seen = Channels
      BY <1>0, <2>1, <3>1, AllLooked
    <3> QED BY <3>2, <3>3
  <2>2. CASE call[t].loop_cnt = ClientCount /\ u # t
    BY <1>2, <1>b, <2>2 DEF TakeIndex
  <2>3. CASE call[t].loop_cnt # ClientCount /\ u = t
    <3>1. /\ call[u].at = "search" /\ current_' = (current_ + 1) % Width
          /\ call'[u] = Counted(t)[u]
      BY <1>2, <2>3 DEF TakeIndex
    <3>2. /\ call'[u].at = "examine" /\ call'[u].loop_cnt = call[u].loop_cnt + 1
          /\ call'[u].cli = Index(current_)
          /\ call'[u].undisturbed => call[u].undisturbed /\ ~Turns(current_)
                                     /\ call'[u].seen = call[u].seen
      BY <2>3, <3>1, CountedFields
    <3>3. ASSUME call[u].undisturbed, ~Turns(current_)
          PROVE  call[u].seen \cup {Index(current_)} = Looked(current_', call[u].loop_cnt + 1)
      BY <1>0, <1>d, <3>1, <3>3, OneMoreLooked
    <3>4. call'[u].undisturbed =>
             call'[u].seen \cup {call'[u].cli} = Looked(current_', call'[u].loop_cnt)
      BY <3>2, <3>3
    <3> QED BY <3>2, <3>4
  <2>4. CASE call[t].loop_cnt # ClientCount /\ u # t
    <3>1. call'[u] = IF Searches(u) THEN [call[u] EXCEPT !.undisturbed = FALSE, !.seen = {}]
                                    ELSE call[u]
      BY <1>2, <2>4 DEF TakeIndex, Counted
    <3>2. CASE Searches(u)
      <4>1. ~ call'[u].undisturbed
        BY <1>d, <3>1, <3>2 DEF CallState
      <4> QED BY <4>1
    <3>3. CASE ~ Searches(u)
      BY <1>0, <3>1, <3>3 DEF Searches
    <3> QED BY <3>2, <3>3
  <2> QED BY <2>1, <2>2, <2>3, <2>4
<1>p. ASSUME call[u].at \in {"examine", "try"}, call'[u] = Passed(u), current_' = current_
      PROVE  Fine(u)'
  <2>1. /\ call'[u].at = "search" /\ call'[u].undisturbed = call[u].undisturbed
        /\ call'[u].loop_cnt = call[u].loop_cnt
        /\ call[u].undisturbed => call'[u].seen = call[u].seen \cup {call[u].cli}
    BY <1>d, <1>p DEF CallState, Passed
  <2> QED BY <1>0, <1>p, <2>1
<1>3. ASSUME NEW t \in Thread, Examine(t) PROVE Fine(u)'
  <2>1. CASE u # t
    BY <1>3, <1>b, <2>1 DEF Examine
  <2>2. CASE u = t /\ call' = [call EXCEPT ![t].at = "try"]
    <3>1. /\ call'[u].at = "try" /\ call'[u].undisturbed = call[u].undisturbed
          /\ call'[u].loop_cnt = call[u].loop_cnt
          /\ call'[u].seen = call[u].seen /\ call'[u].cli = call[u].cli
      BY <1>d, <2>2 DEF CallState
    <3>2. call[u].at = "examine" /\ current_' = current_
      BY <1>3, <2>2 DEF Examine
    <3> QED BY <1>0, <3>1, <3>2
  <2>3. CASE u = t /\ call' = [call EXCEPT ![t] = Passed(t)]
    BY <1>3, <1>p, <2>3 DEF Examine
  <2> QED BY <1>3, <2>1, <2>2, <2>3 DEF Examine
<1>7. ASSUME NEW t \in Thread, Try(t) PROVE Fine(u)'
  <2>1. CASE u # t
    BY <1>7, <1>b, <2>1 DEF Try
  <2>2. CASE u = t /\ call'[u].at \in {"taken", "crash"}
    BY <1>c, <2>2
  <2>3. CASE u = t /\ call' = [call EXCEPT ![t] = Passed(t)]
    BY <1>7, <1>p, <2>3 DEF Try
  <2>4. [Idle EXCEPT !.at = "crash"].at = "crash"
        /\ [Idle EXCEPT !.at = "taken", !.cli = call[t].cli].at = "taken"
    BY DEF Idle
  <2> QED BY <1>7, <2>1, <2>2, <2>3, <2>4 DEF Try
<1>4. ASSUME NEW t \in Thread, Submit(t) PROVE Fine(u)'
  <2>1. CASE u # t
    BY <1>4, <1>b, <2>1 DEF Submit
  <2>2. CASE u = t
    <3>1. call'[u].at \in {"idle", "crash"}
      BY <1>4, <1>d, <2>2 DEF Submit, Idle, CallState
    <3> QED BY <1>c, <3>1
  <2> QED BY <2>1, <2>2
<1>5. ASSUME NEW c \in Channels,
             Answered(c) \/ Refused(c) \/ FreedEarly(c) \/ SetStatus(c) \/ StopClient(c)
      PROVE  Fine(u)'
  BY <1>5, <1>b DEF Answered, Refused, FreedEarly, SetStatus, StopClient
<1>6. CASE UNCHANGED routingVars
  BY <1>6, <1>b DEF routingVars
<1> QED BY <1>1, <1>2, <1>3, <1>4, <1>5, <1>6, <1>7 DEF RoutingNext

(* GetValidClient says that there is no valid client only after a look at  *)
(* every client, whatever the counter was, if no other thread counted      *)
(* meanwhile and the counter did not jump.                                 *)
THEOREM SearchCorrect == RoutingSpec => []UndisturbedSearchSeesAll
<1>1. RoutingInit => SearchOK
  BY DEF RoutingInit, Idle, SearchOK
<1>2. SearchOK => UndisturbedSearchSeesAll
  BY DEF SearchOK, UndisturbedSearchSeesAll
<1>3. RoutingTypeOK /\ SearchOK /\ [RoutingNext]_routingVars => SearchOK'
  BY SearchStep
<1> QED BY <1>1, <1>2, <1>3, RoutingTypes, PTL DEF RoutingSpec

----------------------------------------------------------------------------
(* ClientConnection.                                                       *)

Phases == {"idle", "queued", "sent", "failed", "answered", "mismatched"}
States == {"unmade", "connecting", "up", "fin", "refused", "shut", "closed"}
InHand == IF io \in Req THEN <<io>> ELSE <<>>
Joined(a, b, c, d) == (a \o b) \o (c \o d)
Empty == /\ sync_list_ = <<>> /\ inbuf_ = <<>> /\ back = <<>> /\ wire = <<>> /\ outbuf_ = <<>>
         /\ owed = NoSocket

(* The requests that were encoded and whose answer has not been taken, in  *)
(* the order in which answers are taken for them; the last may be one that *)
(* EncodeMsg has not put into the list yet.                                *)
Pipeline == Joined(inbuf_, back, wire, outbuf_)

(* Without heartbeats there are requests only, a timer belongs to a        *)
(* request in the list, and while there is no connection nothing is under  *)
(* way.                                                                    *)
FlowOK ==
    /\ inbuf_ \in Seq(Req) /\ back \in Seq(Req) /\ wire \in Seq(Req) /\ outbuf_ \in Seq(Req)
    /\ sync_list_ \in Seq(Req) /\ timed \subseteq Entries(sync_list_) /\ msgs_ \in Seq(Req)
    /\ io \in Req \cup {NoSocket} /\ owed \in Req \cup {NoSocket}
    /\ protocol \in {"redis", "http"}
    /\ phase \in [Req -> Phases]
    /\ io \in Req => phase[io] = "queued"
    /\ status_ # "kConnected" => Empty /\ io = NoSocket

(* While the protocol finds each answer, what is under way is what is in   *)
(* the list, in the same order: nothing was read that nobody waits for.    *)
MatchOK ==
    OneAnswerEach =>
        /\ inbuf_ = <<>> /\ msgs_ = <<>> /\ owed = NoSocket /\ parser # "middle"
        /\ Pipeline = sync_list_ \o InHand
        /\ \A r \in Req : phase[r] # "mismatched"

(* One socket at most is in use, a connected client has one, and while one *)
(* is to be made there is none.                                            *)
SocketOK ==
    /\ status_ \in {"kConnected", "kConnecting", "kBroken"}
    /\ socket \in [Sockets -> States]
    /\ fd_ \in Sockets \cup {NoSocket} /\ watched \subseteq Made
    /\ fd_ # NoSocket => fd_ \in Made
    /\ \A s \in Sockets : InUse(s) => s = fd_
    /\ status_ = "kConnected" => fd_ \in Sockets /\ socket[fd_] \in {"up", "fin", "shut"}
    /\ reconnect_timer_ =>
          status_ = "kBroken" /\ (\A s \in Sockets : ~ InUse(s)) /\ (re # Rest => fd_ = NoSocket)

(* Where the reconnect thread is: until it has added the socket to the     *)
(* driver the IO thread does not see it, and then it may have given it up. *)
ReconnectOK ==
    /\ beats = 0
    /\ re \in {Rest} \cup [at : {"register", "wait", "set"}, s : Sockets]
    /\ re.at = "register" => status_ = "kConnecting" /\ fd_ = re.s /\ fd_ \notin watched
    /\ re.at \in {"wait", "set"} => fd_ \in {re.s, NoSocket}
    /\ re.at = "set" /\ fd_ = re.s => socket[fd_] \in {"up", "fin", "shut"}

(* A single client that is free has nothing under way, and one that is     *)
(* busy one request: queued, or in the list.                               *)
SingleOK ==
    single /\ ~ damaged =>
        /\ \A r \in Req : phase[r] = "queued" => is_buzy_ /\ sync_list_ = <<>>
        /\ \A r, q \in Req : phase[r] = "queued" /\ phase[q] = "queued" => r = q
        /\ sync_list_ # <<>> => is_buzy_
        /\ Len(sync_list_) <= 1

ConnectionOK == FlowOK /\ MatchOK /\ SocketOK /\ ReconnectOK /\ SingleOK
ConnectionInv == Undisturbed => ConnectionOK

flowVars == <<bufferVars, sequenceVars, parserVars, phase, io, protocol, single>>

----------------------------------------------------------------------------
(* What the steps do to the sequences.                                     *)

Cat(x, y) == x \o y      \* concatenation, by its laws only
One(e) == <<e>>
Added(x, e) == Append(x, e)

LEMMA CatLaws ==
    ASSUME NEW S
    PROVE  /\ \A x, y \in Seq(S) : Cat(x, y) \in Seq(S)
           /\ \A x, y, z \in Seq(S) : Cat(Cat(x, y), z) = Cat(x, Cat(y, z))
           /\ \A e \in S : One(e) \in Seq(S)
           /\ \A x \in Seq(S), e \in S : Append(x, e) = Cat(x, One(e))
           /\ \A x \in Seq(S) : x # <<>> =>
                 /\ Head(x) \in S /\ Tail(x) \in Seq(S)
                 /\ x = Cat(One(Head(x)), Tail(x))
<1>1. \A x, y \in Seq(S) : Cat(x, y) \in Seq(S)
  BY ConcatProperties DEF Cat
<1>2. \A x, y, z \in Seq(S) : Cat(Cat(x, y), z) = Cat(x, Cat(y, z))
  BY ConcatAssociative DEF Cat
<1>3. \A e \in S : One(e) \in Seq(S)
  BY DEF One
<1>4. \A x \in Seq(S), e \in S : Append(x, e) = Cat(x, One(e))
  BY AppendIsConcat DEF Cat, One
<1>5. ASSUME NEW x \in Seq(S), x # <<>>
      PROVE  Head(x) \in S /\ Tail(x) \in Seq(S) /\ x = Cat(One(Head(x)), Tail(x))
  <2>1. Head(x) \in S /\ Tail(x) \in Seq(S) /\ Len(Tail(x)) = Len(x) - 1
        /\ \A i \in 1 .. Len(Tail(x)) : Tail(x)[i] = x[i + 1]
    BY <1>5, HeadTailProperties
  <2>2. <<Head(x)>> \in Seq(S) /\ Len(<<Head(x)>>) = 1 /\ <<Head(x)>>[1] = x[1]
    BY <2>1
  <2> DEFINE h == <<Head(x)>>
             t == Tail(x)
  <2> HIDE DEF h, t
  <2>3. h \o t \in Seq(S) /\ Len(h \o t) = Len(x)
        /\ \A i \in 1 .. Len(x) : (h \o t)[i] = IF i <= 1 THEN h[i] ELSE t[i - 1]
    BY <2>1, <2>2, ConcatProperties DEF h, t
  <2>4. \A i \in 1 .. Len(x) : (h \o t)[i] = x[i]
    BY <2>1, <2>2, <2>3 DEF h, t
  <2>5. h \o t = x
    BY <2>3, <2>4, SeqEqual
  <2> QED BY <2>1, <2>5 DEF Cat, One, h, t
<1> QED BY <1>1, <1>2, <1>3, <1>4, <1>5

LEMMA AppendLast ==
    ASSUME NEW S, NEW a \in Seq(S), NEW b \in Seq(S), NEW c \in Seq(S), NEW d \in Seq(S),
           NEW e \in S
    PROVE  Joined(a, b, c, Added(d, e)) = Added(Joined(a, b, c, d), e)
<1> DEFINE l == One(e)
<1>1. l \in Seq(S) /\ Append(d, e) = Cat(d, l)
  BY CatLaws
<1>2. Cat(Cat(a, b), Cat(c, d)) \in Seq(S)
  BY CatLaws
<1>3. Append(Cat(Cat(a, b), Cat(c, d)), e) = Cat(Cat(Cat(a, b), Cat(c, d)), l)
  BY <1>2, CatLaws
<1> HIDE DEF l
<1>4. Cat(c, Cat(d, l)) = Cat(Cat(c, d), l)
  BY <1>1, CatLaws
<1>5. Cat(Cat(a, b), Cat(Cat(c, d), l)) = Cat(Cat(Cat(a, b), Cat(c, d)), l)
  BY <1>1, CatLaws
<1>6. Cat(Cat(a, b), Cat(c, Append(d, e))) = Append(Cat(Cat(a, b), Cat(c, d)), e)
  BY <1>1, <1>3, <1>4, <1>5
<1> QED BY <1>6 DEF Cat, Joined, Added

LEMMA MoveHead ==
    ASSUME NEW S, NEW a \in Seq(S), NEW b \in Seq(S), NEW c \in Seq(S), NEW d \in Seq(S),
           c # <<>>
    PROVE  Joined(a, Added(b, Head(c)), Tail(c), d) = Joined(a, b, c, d)
<1> DEFINE h == One(Head(c))
           t == Tail(c)
<1>a. Head(c) \in S /\ t \in Seq(S) /\ c = Cat(h, t)
  BY CatLaws
<1>b. h \in Seq(S) /\ Append(b, Head(c)) = Cat(b, h)
  BY <1>a, CatLaws
<1>1. h \in Seq(S) /\ t \in Seq(S) /\ c = Cat(h, t) /\ Append(b, Head(c)) = Cat(b, h)
  BY <1>a, <1>b
<1> HIDE DEF h, t
<1>2. Cat(Cat(a, Cat(b, h)), Cat(t, d)) = Cat(Cat(a, b), Cat(Cat(h, t), d))
  BY <1>1, CatLaws
<1>3. Cat(Cat(a, Append(b, Head(c))), Cat(t, d)) = Cat(Cat(a, b), Cat(c, d))
  BY <1>1, <1>2
<1> QED BY <1>3 DEF Cat, t, Joined, Added

LEMMA TakePrefix ==
    ASSUME NEW S, NEW read \in Seq(S), NEW rest \in Seq(S)
    PROVE  LET list == read \o rest IN
           /\ Len(list) = Len(read) + Len(rest)
           /\ SubSeq(list, Len(read) + 1, Len(list)) = rest
           /\ SubSeq(read, Len(read) + 1, Len(read)) = <<>>
           /\ \A i \in 1 .. Len(read) : list[i] = read[i]
           /\ \A i \in 1 .. Len(list) : i > Len(read) => list[i] \in Entries(rest)
<1> DEFINE list == read \o rest
<1>1. list \in Seq(S) /\ Len(list) = Len(read) + Len(rest)
  BY ConcatProperties
<1>2. \A i \in 1 .. Len(list) : list[i] = IF i <= Len(read) THEN read[i] ELSE rest[i - Len(read)]
  BY ConcatProperties
<1>3. SubSeq(list, Len(read) + 1, Len(list)) = rest
  BY SubSeqOfConcat2, <1>1
<1>4. SubSeq(read, Len(read) + 1, Len(read)) = <<>>
  OBVIOUS
<1>5. ASSUME NEW i \in 1 .. Len(list), i > Len(read) PROVE list[i] \in Entries(rest)
  <2>1. i - Len(read) \in DOMAIN rest
    BY <1>1, <1>5
  <2> QED BY <1>2, <1>5, <2>1 DEF Entries
<1> QED BY <1>1, <1>2, <1>3, <1>4, <1>5

LEMMA PieceType ==
    ASSUME NEW S, NEW s \in Seq(S), NEW m \in Nat \ {0}, NEW n \in Int, n <= Len(s)
    PROVE  SubSeq(s, m, n) \in Seq(S)
<1>1. \A i \in m .. n : s[i] \in S
  OBVIOUS
<1> QED BY <1>1, SubSeqProperties

LEMMA EachType ==
    ASSUME NEW s \in Seq(Req)
    PROVE  /\ Each(s) \in Seq(SUBSET Req) /\ Len(Each(s)) = Len(s)
           /\ \A i \in 1 .. Len(s) : Each(s)[i] = {s[i]}
<1>1. Each(s) \in [1 .. Len(s) -> SUBSET Req] /\ \A i \in 1 .. Len(s) : Each(s)[i] = {s[i]}
  BY DEF Each
<1>2. Len(s) \in Nat
  OBVIOUS
<1> HIDE DEF Each
<1>3. Each(s) \in Seq(SUBSET Req)
  BY <1>1, <1>2
<1> QED BY <1>1, <1>2, <1>3

----------------------------------------------------------------------------
(* The steps.                                                              *)

LEMMA FlowFrame ==
    ASSUME FlowOK, UNCHANGED flowVars,
           status_' # "kConnected" => status_ # "kConnected" \/ (Empty /\ io = NoSocket)
    PROVE  FlowOK'
BY DEF FlowOK, flowVars, bufferVars, sequenceVars, parserVars, Empty, Entries

LEMMA MatchFrame ==
    ASSUME MatchOK, UNCHANGED flowVars, damaged => damaged' PROVE MatchOK'
BY DEF MatchOK, flowVars, bufferVars, sequenceVars, parserVars, OneAnswerEach, Pipeline, Joined,
       InHand

LEMMA SocketFrame ==
    ASSUME SocketOK, UNCHANGED socketVars, UNCHANGED reconnect_timer_, UNCHANGED re
    PROVE  SocketOK'
BY DEF SocketOK, socketVars, InUse, Made

LEMMA ReconnectFrame ==
    ASSUME ReconnectOK, UNCHANGED socketVars, UNCHANGED beats, UNCHANGED re
    PROVE  ReconnectOK'
BY DEF ReconnectOK, socketVars

LEMMA SingleFrame ==
    ASSUME SingleOK, UNCHANGED <<single, phase, is_buzy_, sync_list_>>, damaged => damaged'
    PROVE  SingleOK'
BY DEF SingleOK

(* The socket is shut down, and perhaps no longer watched.                 *)
LEMMA ShutStep ==
    ASSUME SocketOK, ReconnectOK, fd_ \in Sockets, InUse(fd_),
           socket' = socket \/ socket' = [socket EXCEPT ![fd_] = "shut"],
           watched' \subseteq watched,
           UNCHANGED <<status_, fd_, reconnect_timer_, re, beats>>
    PROVE  SocketOK' /\ ReconnectOK'
<1>1. DOMAIN socket' = Sockets /\ socket' \in [Sockets -> States]
      /\ (\A s \in Sockets : s # fd_ => socket'[s] = socket[s])
      /\ socket'[fd_] \in {socket[fd_], "shut"}
  BY DEF SocketOK, States
<1>2. Made' = Made /\ \A s \in Sockets : InUse(s)' => InUse(s)
  BY <1>1 DEF Made, InUse
<1>3. ~ reconnect_timer_
  BY DEF SocketOK
<1>4. SocketOK'
  BY <1>1, <1>2, <1>3 DEF SocketOK
<1>5. ReconnectOK'
  BY <1>1 DEF ReconnectOK
<1> QED BY <1>4, <1>5

(* The socket is closed, and fd_ is -1.                                    *)
LEMMA CloseStep ==
    ASSUME SocketOK, ReconnectOK, fd_ \in Sockets, InUse(fd_), re.at # "register",
           socket' = [socket EXCEPT ![fd_] = "closed"], fd_' = NoSocket, status_' = "kBroken",
           watched' \subseteq watched, UNCHANGED <<re, beats>>
    PROVE  SocketOK' /\ ReconnectOK'
<1>0. NoSocket \notin Sockets /\ \A s \in Sockets : InUse(s) => s = fd_
  BY ClientAssumption DEF SocketOK, ClientAssumption, Sockets
<1>1. DOMAIN socket' = Sockets /\ socket'[fd_] = "closed"
      /\ (\A s \in Sockets : s # fd_ => socket'[s] = socket[s])
      /\ socket' \in [Sockets -> States]
  BY DEF SocketOK, States
<1>2. \A s \in Sockets : ~ InUse(s)'
  BY <1>0, <1>1 DEF InUse
<1>3. Made' = Made
  BY <1>1 DEF Made, InUse
<1>4. SocketOK'
  BY <1>0, <1>1, <1>2, <1>3 DEF SocketOK
<1>5. re.at = "set" => fd_' # re.s
  BY <1>0 DEF ReconnectOK, Rest
<1>6. ReconnectOK'
  BY <1>5 DEF ReconnectOK
<1> QED BY <1>4, <1>6

LEMMA ConnectionInit == ASSUME ClientInit PROVE ConnectionOK
<1> USE ClientAssumption DEF ClientInit
<1>0. 1 \in Sockets
  BY DEF Sockets
<1>e. <<>> \o <<>> = <<>>
  OBVIOUS
<1>1. FlowOK
  BY <1>0 DEF FlowOK, Entries, ClientAssumption, Phases
<1>2. MatchOK
  <2>1. Pipeline = <<>> \o <<>>
    BY <1>e DEF Pipeline, Joined
  <2>2. InHand = <<>>
    BY <1>0 DEF InHand, ClientAssumption
  <2> QED BY <2>1, <2>2 DEF MatchOK
<1>3. SocketOK
  BY <1>0 DEF SocketOK, InUse, Made, Rest, Sockets, States
<1>4. ReconnectOK
  BY DEF ReconnectOK, Rest
<1>5. SingleOK
  BY DEF SingleOK
<1> QED BY <1>1, <1>2, <1>3, <1>4, <1>5 DEF ConnectionOK

LEMMA SendStep == ASSUME ConnectionOK, NEW r \in Req, Send(r) PROVE ConnectionOK'
<1> USE DEF ConnectionOK
<1>p. phase' \in [Req -> Phases] /\ phase'[r] = "queued" /\ phase[r] = "idle"
      /\ \A q \in Req : q # r => phase'[q] = phase[q]
  BY DEF Send, FlowOK, Phases
<1>0. UNCHANGED <<outbuf_, inbuf_, wire, back, owed, msgs_, parser, sync_list_, timed, io, status_,
                  protocol, single, damaged>>
  BY DEF Send, bufferVars, sequenceVars, parserVars, socketVars, configVars, history
<1>1. FlowOK'
  <2>1. io # r
    BY <1>p DEF FlowOK
  <2>2. UNCHANGED Empty /\ UNCHANGED Entries(sync_list_)
    BY <1>0 DEF Empty, Entries
  <2> QED BY <2>1, <2>2, <1>0, <1>p DEF FlowOK
<1>2. MatchOK'
  <2>1. UNCHANGED <<Pipeline, InHand>> /\ (OneAnswerEach' => OneAnswerEach)
    BY <1>0 DEF Pipeline, InHand, OneAnswerEach
  <2> QED BY <2>1, <1>0, <1>p DEF MatchOK
<1>3. SocketOK' /\ ReconnectOK'
  BY SocketFrame, ReconnectFrame DEF Send, timerVars
<1>4. SingleOK'
  <2>1. single => ~ is_buzy_ /\ is_buzy_' = TRUE
    BY DEF Send
  <2> QED BY <2>1, <1>0, <1>p DEF SingleOK
<1> QED BY <1>1, <1>2, <1>3, <1>4

(* A request that was queued is given back. *)
LEMMA Failed ==
    ASSUME ConnectionOK, NEW r \in Req, phase[r] = "queued", io = NoSocket,
           phase' = [phase EXCEPT ![r] = "failed"], is_buzy_' \in {is_buzy_, FALSE},
           UNCHANGED <<outbuf_, inbuf_, wire, back, owed, msgs_, parser, sync_list_, timed, io,
                       status_, protocol, single, damaged>>
    PROVE  FlowOK' /\ MatchOK' /\ SingleOK'
<1> USE DEF ConnectionOK
<1>p. phase' \in [Req -> Phases] /\ phase'[r] = "failed" /\ io \notin Req
      /\ \A q \in Req : q # r => phase'[q] = phase[q]
  BY ClientAssumption DEF FlowOK, Phases, ClientAssumption
<1>1. FlowOK'
  <2>1. UNCHANGED Empty /\ UNCHANGED Entries(sync_list_)
    BY DEF Empty, Entries
  <2> QED BY <2>1, <1>p DEF FlowOK
<1>2. MatchOK'
  <2>1. UNCHANGED <<Pipeline, InHand>> /\ (OneAnswerEach' => OneAnswerEach)
    BY DEF Pipeline, InHand, OneAnswerEach
  <2> QED BY <2>1, <1>p DEF MatchOK
<1>3. SingleOK'
  BY <1>p DEF SingleOK
<1> QED BY <1>1, <1>2, <1>3

LEMMA OverloadStep == ASSUME ConnectionOK, NEW r \in Req, Overload(r) PROVE ConnectionOK'
<1>1. FlowOK' /\ MatchOK' /\ SingleOK'
  BY Failed DEF Overload, bufferVars, sequenceVars, parserVars, socketVars, configVars, history
<1>2. SocketOK' /\ ReconnectOK'
  BY SocketFrame, ReconnectFrame DEF Overload, timerVars, ConnectionOK
<1> QED BY <1>1, <1>2 DEF ConnectionOK

LEMMA EncodeStep == ASSUME ConnectionOK, NEW r \in Req, Encode(r) PROVE ConnectionOK'
<1> USE DEF ConnectionOK
<1>0. io = NoSocket /\ phase[r] = "queued" /\ NoSocket \notin Req
      /\ UNCHANGED <<inbuf_, wire, back, owed, msgs_, parser, sync_list_, timed, status_, protocol,
                     single, damaged>>
  BY ClientAssumption
     DEF Encode, sequenceVars, parserVars, socketVars, configVars, history, ClientAssumption
<1>2. SocketOK' /\ ReconnectOK'
  BY SocketFrame, ReconnectFrame DEF Encode, timerVars
<1>3. ASSUME status_ = "kConnected", outbuf_' = Append(outbuf_, r), io' = r, UNCHANGED <<is_buzy_, phase>>
      PROVE  FlowOK' /\ MatchOK' /\ SingleOK'
  <2>0. inbuf_ \in Seq(Req) /\ back \in Seq(Req) /\ wire \in Seq(Req) /\ outbuf_ \in Seq(Req)
        /\ outbuf_' \in Seq(Req) /\ sync_list_ \in Seq(Req)
    BY <1>3 DEF FlowOK
  <2>1. FlowOK'
    BY <1>0, <1>3, <2>0 DEF FlowOK, Entries
  <2>2. MatchOK'
    <3>1. SUFFICES ASSUME OneAnswerEach' PROVE MatchOK'
      BY DEF MatchOK
    <3>2. /\ inbuf_ = <<>> /\ msgs_ = <<>> /\ owed = NoSocket /\ parser # "middle"
          /\ Pipeline = sync_list_ \o InHand /\ \A q \in Req : phase[q] # "mismatched"
      BY <1>0, <3>1 DEF MatchOK, OneAnswerEach
    <3>3. Pipeline = sync_list_ /\ InHand' = <<r>>
      BY <1>0, <1>3, <2>0, <3>2, ConcatEmptySeq DEF InHand
    <3>4. \A a, b, c, d \in Seq(Req), e \in Req :
             Joined(a, b, c, Added(d, e)) = Added(Joined(a, b, c, d), e)
      BY AppendLast
    <3>a. Joined(inbuf_, back, wire, Added(outbuf_, r)) = Added(Joined(inbuf_, back, wire, outbuf_), r)
      BY <2>0, <3>4
    <3>5. Pipeline' = Append(sync_list_, r)
      BY <1>0, <1>3, <3>3, <3>a DEF Pipeline, Added
    <3>6. Append(sync_list_, r) = sync_list_ \o <<r>>
      BY <2>0, AppendIsConcat
    <3> QED BY <1>0, <1>3, <3>2, <3>3, <3>5, <3>6 DEF MatchOK
  <2>3. SingleOK'
    BY <1>0, <1>3, SingleFrame
  <2> QED BY <2>1, <2>2, <2>3
<1>4. ASSUME is_buzy_' = FALSE, phase' = [phase EXCEPT ![r] = "failed"], UNCHANGED <<outbuf_, io>>
      PROVE  FlowOK' /\ MatchOK' /\ SingleOK'
  BY <1>0, <1>4, Failed
<1> QED BY <1>2, <1>3, <1>4 DEF Encode

(* What OnWrite does with the buffer: nothing is lost unless it says so.   *)
LEMMA WriteOutFlow ==
    ASSUME FlowOK, WriteOut
    PROVE  /\ wire' \in Seq(Req) /\ outbuf_' \in Seq(Req) /\ (damaged => damaged')
           /\ ~ damaged' => wire' \o outbuf_' = wire \o outbuf_
           /\ UNCHANGED <<fd_, inbuf_, back, owed>>
           /\ \/ socket' = socket
              \/ Now = "fin" /\ socket' = [socket EXCEPT ![fd_] = "shut"]
<1>0. wire \in Seq(Req) /\ outbuf_ \in Seq(Req) /\ <<>> \in Seq(Req)
  BY DEF FlowOK
<1>1. wire \o outbuf_ \in Seq(Req) /\ (wire \o outbuf_) \o <<>> = wire \o outbuf_
  BY <1>0, ConcatProperties, ConcatEmptySeq
<1>2. CASE outbuf_' = <<>> /\ wire' = wire \o outbuf_ /\ UNCHANGED <<socket, damaged>>
  BY <1>0, <1>1, <1>2 DEF WriteOut
<1>3. CASE outbuf_' = <<>> /\ damaged' = (damaged \/ outbuf_ # <<>>) /\ UNCHANGED <<wire, socket>>
  BY <1>0, <1>3 DEF WriteOut
<1>4. CASE /\ socket' = IF Now = "fin" /\ outbuf_ # <<>> THEN [socket EXCEPT ![fd_] = "shut"] ELSE socket
           /\ UNCHANGED <<outbuf_, wire, damaged>>
  BY <1>0, <1>4 DEF WriteOut
<1> QED BY <1>2, <1>3, <1>4 DEF WriteOut

LEMMA PutStep == ASSUME ConnectionOK, Put PROVE ConnectionOK'
<1> USE DEF ConnectionOK
<1>0. io \in Req /\ phase[io] = "queued" /\ status_ = "kConnected" /\ fd_ \in Sockets
      /\ InUse(fd_) /\ NoSocket \notin Req
  BY ClientAssumption DEF Put, FlowOK, SocketOK, InUse, ClientAssumption
<1>1. /\ sync_list_' = Append(sync_list_, io) /\ timed' = timed \cup {io} /\ io' = NoSocket
      /\ phase' = [phase EXCEPT ![io] = "sent"]
      /\ WriteOut
      /\ UNCHANGED <<status_, watched, beats, is_buzy_, msgs_, parser, reconnect_timer_, re, single,
                     protocol>>
  BY <1>0 DEF Put, parserVars, configVars
<1>w. /\ wire' \in Seq(Req) /\ outbuf_' \in Seq(Req) /\ (damaged => damaged')
      /\ ~ damaged' => wire' \o outbuf_' = wire \o outbuf_
      /\ UNCHANGED <<fd_, inbuf_, back, owed>>
      /\ socket' = socket \/ socket' = [socket EXCEPT ![fd_] = "shut"]
  BY <1>1, WriteOutFlow
<1>2. SocketOK' /\ ReconnectOK'
  BY <1>0, <1>1, <1>w, ShutStep
<1>p. phase' \in [Req -> Phases] /\ phase'[io] = "sent"
      /\ \A q \in Req : q # io => phase'[q] = phase[q]
  BY <1>0, <1>1 DEF FlowOK, Phases
<1>s. sync_list_' \in Seq(Req) /\ Len(sync_list_') = Len(sync_list_) + 1
      /\ sync_list_' = sync_list_ \o <<io>> /\ sync_list_' # <<>>
      /\ DOMAIN sync_list_ = 1 .. Len(sync_list_) /\ DOMAIN sync_list_' = 1 .. (Len(sync_list_) + 1)
      /\ sync_list_'[Len(sync_list_) + 1] = io
      /\ \A i \in 1 .. Len(sync_list_) : sync_list_'[i] = sync_list_[i]
  BY <1>0, <1>1, AppendProperties, AppendIsConcat DEF FlowOK
<1>3. FlowOK'
  <2>1. timed' \subseteq Entries(sync_list_')
    <3>1. Entries(sync_list_) \subseteq Entries(sync_list_') /\ io \in Entries(sync_list_')
      <4>1. Len(sync_list_) \in Nat
        BY DEF FlowOK
      <4> QED BY <1>s, <4>1 DEF Entries
    <3> QED BY <3>1, <1>1 DEF FlowOK
  <2> QED BY <2>1, <1>0, <1>1, <1>w, <1>p, <1>s DEF FlowOK
<1>4. MatchOK'
  <2>1. SUFFICES ASSUME OneAnswerEach' PROVE MatchOK'
    BY DEF MatchOK
  <2>2. /\ inbuf_ = <<>> /\ msgs_ = <<>> /\ owed = NoSocket /\ parser # "middle" /\ ~ damaged'
        /\ Pipeline = sync_list_ \o InHand /\ \A q \in Req : phase[q] # "mismatched"
    BY <1>1, <1>w, <2>1 DEF MatchOK, OneAnswerEach
  <2>3. Pipeline' = Pipeline
    BY <1>w, <2>2 DEF Pipeline, Joined
  <2>4. InHand = <<io>> /\ InHand' = <<>>
    BY <1>0, <1>1 DEF InHand
  <2>5. sync_list_' \o <<>> = sync_list_'
    BY <1>s, ConcatEmptySeq
  <2>6. \A q \in Req : phase'[q] # "mismatched"
    BY <1>p, <2>2
  <2> QED BY <1>1, <1>w, <1>s, <2>2, <2>3, <2>4, <2>5, <2>6 DEF MatchOK
<1>5. SingleOK'
  <2>1. single /\ ~ damaged => sync_list_ = <<>> /\ is_buzy_ /\ \A q \in Req : phase[q] = "queued" => q = io
    BY <1>0 DEF SingleOK
  <2> QED BY <2>1, <1>0, <1>1, <1>w, <1>p, <1>s DEF SingleOK
<1> QED BY <1>2, <1>3, <1>4, <1>5

(* The first requests in the list are given what was read.                 *)
LEMMA DeliverTypes ==
    ASSUME FlowOK, NEW messages, Len(messages) \in Nat, Deliver(messages)
    PROVE  /\ sync_list_' \in Seq(Req) /\ timed' \subseteq Entries(sync_list_')
           /\ phase' \in [Req -> Phases]
           /\ \A r \in Req : phase'[r] = "queued" => phase[r] = "queued"
<1> DEFINE n == Len(messages)
           taken == {sync_list_[i] : i \in 1 .. n}
<1>0. sync_list_ \in Seq(Req) /\ Len(sync_list_) \in Nat /\ n \in Nat
      /\ timed \subseteq Entries(sync_list_) /\ phase \in [Req -> Phases]
      /\ DOMAIN sync_list_ = 1 .. Len(sync_list_)
  BY DEF FlowOK
<1>1. sync_list_' = SubSeq(sync_list_, n + 1, Len(sync_list_)) /\ timed' = timed \ taken
  BY DEF Deliver
<1>p. phase' \in [Req -> Phases] /\ \A r \in Req : phase'[r] = "queued" => phase[r] = "queued"
  <2> DEFINE own == {r \in taken : \E i \in 1 .. n : sync_list_[i] = r /\ messages[i] = {r}}
  <2>1. phase' = [r \in Req |-> IF r \in own THEN "answered"
                                ELSE IF r \in taken THEN "mismatched" ELSE phase[r]]
    BY DEF Deliver
  <2> HIDE DEF own, taken
  <2> QED BY <2>1, <1>0 DEF Phases
<1> HIDE DEF n
<1>2. \A i \in n + 1 .. Len(sync_list_) : sync_list_[i] \in Req
  BY <1>0
<1>3. /\ sync_list_' \in Seq(Req)
      /\ Len(sync_list_') = IF n + 1 <= Len(sync_list_) THEN Len(sync_list_) - n ELSE 0
      /\ \A i \in 1 .. Len(sync_list_) - n : sync_list_'[i] = sync_list_[i + n]
  <2>1. n + 1 \in Int /\ Len(sync_list_) \in Int
    BY <1>0
  <2>2. /\ SubSeq(sync_list_, n + 1, Len(sync_list_)) \in Seq(Req)
        /\ Len(SubSeq(sync_list_, n + 1, Len(sync_list_))) =
              (IF n + 1 <= Len(sync_list_) THEN Len(sync_list_) - (n + 1) + 1 ELSE 0)
        /\ \A i \in 1 .. Len(sync_list_) - (n + 1) + 1 :
              SubSeq(sync_list_, n + 1, Len(sync_list_))[i] = sync_list_[(n + 1) + i - 1]
    BY <1>2, <2>1, SubSeqProperties
  <2>3. Len(sync_list_) - (n + 1) + 1 = Len(sync_list_) - n
        /\ \A i \in Int : (n + 1) + i - 1 = i + n
    BY <1>0
  <2>4. sync_list_' = SubSeq(sync_list_, n + 1, Len(sync_list_))
    BY <1>1
  <2>5. \A i \in 1 .. Len(sync_list_) - n : sync_list_'[i] = sync_list_[i + n]
    BY <1>0, <2>2, <2>3, <2>4
  <2>6. Len(sync_list_') = IF n + 1 <= Len(sync_list_) THEN Len(sync_list_) - n ELSE 0
    BY <2>2, <2>3, <2>4
  <2> QED BY <2>2, <2>4, <2>5, <2>6
<1>4. timed' \subseteq Entries(sync_list_')
  <2> SUFFICES ASSUME NEW m \in timed, m \notin taken PROVE m \in Entries(sync_list_')
    BY <1>1
  <2>1. PICK i \in 1 .. Len(sync_list_) : sync_list_[i] = m
    BY <1>0 DEF Entries
  <2>2. i \notin 1 .. n
    BY <2>1 DEF n
  <2>3. i - n \in 1 .. Len(sync_list_) - n /\ (i - n) + n = i /\ n + 1 <= Len(sync_list_)
    BY <1>0, <2>1, <2>2
  <2>4. sync_list_'[i - n] = m /\ i - n \in DOMAIN sync_list_'
    BY <1>3, <2>1, <2>3
  <2> QED BY <2>4 DEF Entries
<1> QED BY <1>3, <1>4, <1>p

(* What is read is a sequence of answers, whatever becomes of it.          *)
LEMMA DecodeTypes ==
    ASSUME FlowOK, NEW read \in Seq(Req), NEW cut \in BOOLEAN, NEW failed \in BOOLEAN,
           cut => read # <<>>, DecodeMsg(read, cut, failed)
    PROVE  /\ sync_list_' \in Seq(Req) /\ timed' \subseteq Entries(sync_list_')
           /\ phase' \in [Req -> Phases]
           /\ \A r \in Req : phase'[r] = "queued" => phase[r] = "queued"
           /\ inbuf_' \in Seq(Req) /\ msgs_' \in Seq(Req) /\ owed' \in Req \cup {NoSocket}
           /\ (damaged => damaged')
<1> DEFINE Delivered == \E messages : Len(messages) \in Nat /\ Deliver(messages)
<1>0. msgs_ \in Seq(Req) /\ sync_list_ \in Seq(Req) /\ <<>> \in Seq(Req)
      /\ Len(msgs_) \in Nat /\ Len(read) \in Nat /\ Len(sync_list_) \in Nat
  BY DEF FlowOK
<1>1. owed' \in Req \cup {NoSocket}
  <2>1. cut => read[Len(read)] \in Req
    BY <1>0
  <2> QED BY <2>1 DEF DecodeMsg
<1>e. \A s \in Seq(Req) : Len(Each(s)) \in Nat /\ Each(s) \in Seq(SUBSET Req)
  BY EachType
<1>2. CASE /\ inbuf_' = read /\ damaged' = (damaged \/ cut)
           /\ UNCHANGED <<phase, parserVars, sequenceVars>>
  BY <1>1, <1>2 DEF FlowOK, parserVars, sequenceVars, Entries
<1>3. CASE DecodeRedis(read, cut)
  <2>1. inbuf_' \in Seq(Req) /\ msgs_' \in Seq(Req) /\ (damaged => damaged')
    BY <1>0, <1>3 DEF DecodeRedis, parserVars
  <2>2. Deliver(<<Entries(read)>>) \/ Deliver(<<>>)
    BY <1>3 DEF DecodeRedis
  <2>3. Len(<<Entries(read)>>) \in Nat /\ Len(<<>>) \in Nat
    OBVIOUS
  <2> QED BY <1>1, <2>1, <2>2, <2>3, DeliverTypes
<1>4. CASE DecodeHttp(read, cut, failed)
  <2>0. damaged => damaged'
    BY <1>4 DEF DecodeHttp
  <2>1. CASE /\ Len(sync_list_) <= Len(msgs_)
             /\ Deliver(Each(SubSeq(msgs_, 1, Len(sync_list_))))
             /\ msgs_' = SubSeq(msgs_, Len(sync_list_) + 1, Len(msgs_)) /\ inbuf_' = read
    <3>1. SubSeq(msgs_, 1, Len(sync_list_)) \in Seq(Req)
      BY <1>0, <2>1, PieceType
    <3>2. msgs_' \in Seq(Req)
      BY <1>0, <2>1, PieceType
    <3> QED BY <1>1, <1>e, <2>0, <2>1, <3>1, <3>2, DeliverTypes
  <2>2. CASE ParseWhole(read)
    <3> DEFINE ready == msgs_ \o read
               n == IF Len(ready) < Len(sync_list_) THEN Len(ready) ELSE Len(sync_list_)
    <3>1. ready \in Seq(Req) /\ Len(ready) \in Nat
      BY <1>0, ConcatProperties
    <3>2. Deliver(Each(SubSeq(ready, 1, n))) /\ msgs_' = SubSeq(ready, n + 1, Len(ready))
          /\ inbuf_' = <<>>
      BY <2>2 DEF ParseWhole
    <3>3. n \in Nat /\ n <= Len(ready)
      BY <1>0, <3>1
    <3> HIDE DEF ready, n
    <3>4. SubSeq(ready, 1, n) \in Seq(Req)
      BY <3>1, <3>3, PieceType
    <3>5. msgs_' \in Seq(Req)
      BY <3>1, <3>2, <3>3, PieceType
    <3> QED BY <1>0, <1>1, <1>e, <2>0, <3>2, <3>4, <3>5, DeliverTypes
  <2>3. CASE ParseCut(read)
    <3>1. Deliver(Each(msgs_)) /\ msgs_' = SubSeq(read, 2, Len(read) - 1) /\ inbuf_' \in {read, <<>>}
      BY <2>3 DEF ParseCut
    <3>2. msgs_' \in Seq(Req)
      BY <1>0, <3>1, PieceType
    <3> QED BY <1>0, <1>1, <1>e, <2>0, <3>1, <3>2, DeliverTypes
  <2>4. CASE ParseWrong(read, failed)
    <3>1. msgs_' = <<>> /\ inbuf_' \in {read, <<>>}
          /\ (Deliver(Each(msgs_)) \/ Deliver(Append(Each(msgs_), {})))
      BY <2>4 DEF ParseWrong
    <3>2. {} \in SUBSET Req
      OBVIOUS
    <3>3. Len(Append(Each(msgs_), {})) \in Nat /\ Len(Each(msgs_)) \in Nat
      BY <1>0, <1>e, <3>2, AppendProperties
    <3> QED BY <1>0, <1>1, <2>0, <3>1, <3>3, DeliverTypes
  <2> QED BY <1>4, <2>1, <2>2, <2>3, <2>4 DEF DecodeHttp
<1> QED BY <1>2, <1>3, <1>4 DEF DecodeMsg

(* Each message is the answer to the request it is given to.               *)
LEMMA DeliverOwn ==
    ASSUME NEW read \in Seq(Req), NEW rest \in Seq(Req), sync_list_ = read \o rest,
           NEW messages, Len(messages) = Len(read),
           \A i \in 1 .. Len(read) : messages[i] = {read[i]}, Deliver(messages),
           \A r \in Req : phase[r] # "mismatched"
    PROVE  sync_list_' = rest /\ \A r \in Req : phase'[r] # "mismatched"
<1> DEFINE n == Len(messages)
           taken == {sync_list_[i] : i \in 1 .. n}
           own == {r \in taken : \E i \in 1 .. n : sync_list_[i] = r /\ messages[i] = {r}}
<1>1. /\ SubSeq(sync_list_, Len(read) + 1, Len(sync_list_)) = rest
      /\ \A i \in 1 .. Len(read) : sync_list_[i] = read[i]
  BY TakePrefix
<1>2. sync_list_' = rest
  BY <1>1 DEF Deliver
<1>3. taken = own
  BY <1>1
<1>4. phase' = [r \in Req |-> IF r \in own THEN "answered"
                              ELSE IF r \in taken THEN "mismatched" ELSE phase[r]]
  BY DEF Deliver
<1> HIDE DEF taken, own
<1>5. \A r \in Req : phase'[r] = IF r \in own THEN "answered" ELSE phase[r]
  BY <1>3, <1>4
<1> QED BY <1>2, <1>5

(* What arrives, while each answer is found, is answers to the first       *)
(* requests in the list, and each is taken for the one it belongs to.      *)
LEMMA DecodeOwn ==
    ASSUME ConnectionOK, OneAnswerEach, io = NoSocket, back # <<>>,
           NEW cut \in BOOLEAN, NEW failed \in BOOLEAN, DecodeMsg(back, cut, failed), ~ damaged'
    PROVE  /\ sync_list_ = back \o (wire \o outbuf_) /\ sync_list_' = wire \o outbuf_
           /\ \A r \in Req : phase'[r] # "mismatched"
           /\ inbuf_' = <<>> /\ msgs_' = <<>> /\ owed' = NoSocket /\ parser' # "middle"
<1> DEFINE rest == wire \o outbuf_
<1>0. /\ inbuf_ = <<>> /\ msgs_ = <<>> /\ owed = NoSocket /\ parser # "middle"
      /\ Pipeline = sync_list_ \o InHand /\ (\A r \in Req : phase[r] # "mismatched")
      /\ back \in Seq(Req) /\ wire \in Seq(Req) /\ outbuf_ \in Seq(Req) /\ sync_list_ \in Seq(Req)
      /\ InHand = <<>>
  BY ClientAssumption DEF ConnectionOK, MatchOK, FlowOK, InHand, ClientAssumption
<1>1. rest \in Seq(Req) /\ Len(rest) \in Nat /\ Len(back) \in Nat /\ Len(back) >= 1
  BY <1>0, ConcatProperties
<1>2. sync_list_ = back \o rest
  <2>1. <<>> \o back = back /\ sync_list_ \o <<>> = sync_list_
    BY <1>0, ConcatEmptySeq
  <2> QED BY <1>0, <2>1 DEF Pipeline, Joined
<1> HIDE DEF rest
<1>3. Len(sync_list_) = Len(back) + Len(rest) /\ sync_list_ # <<>>
  <2>1. Len(sync_list_) = Len(back) + Len(rest)
    BY <1>0, <1>1, <1>2, TakePrefix
  <2> QED BY <1>1, <2>1
<1>4. ~ cut /\ ~ failed
  BY <1>3 DEF DecodeMsg, DecodeRedis, DecodeHttp
<1>5. owed' = NoSocket
  BY <1>4 DEF DecodeMsg
<1>6. CASE protocol = "redis"
  <2>1. Deliver(<<Entries(back)>>) /\ inbuf_' = <<>> /\ UNCHANGED <<msgs_, parser>>
    BY <1>3, <1>4, <1>6 DEF DecodeMsg, DecodeRedis, parserVars
  <2>2. Len(sync_list_) <= 1
    BY <1>6 DEF ConnectionOK, SingleOK, OneAnswerEach
  <2>3. Len(back) = 1
    <3> DEFINE a == Len(back)
               b == Len(rest)
    <3>1. a \in Nat /\ b \in Nat /\ a >= 1 /\ a + b <= 1
      BY <1>1, <1>3, <2>2
    <3> HIDE DEF a, b
    <3>2. a = 1
      BY <3>1
    <3> QED BY <3>2 DEF a
  <2>4. Entries(back) = {back[1]}
    BY <1>0, <2>3 DEF Entries
  <2>5. Len(<<Entries(back)>>) = Len(back) /\ \A i \in 1 .. Len(back) : <<Entries(back)>>[i] = {back[i]}
    BY <2>3, <2>4
  <2>6. sync_list_' = rest /\ \A r \in Req : phase'[r] # "mismatched"
    BY <1>0, <1>1, <1>2, <2>1, <2>5, DeliverOwn
  <2> QED BY <1>0, <1>2, <1>5, <2>1, <2>6 DEF rest
<1>7. CASE protocol # "redis"
  <2>1. DecodeHttp(back, cut, failed) /\ Len(msgs_) = 0 /\ Len(sync_list_) > 0
    BY <1>0, <1>1, <1>3, <1>7 DEF DecodeMsg
  <2>2. ParseWhole(back)
    BY <1>0, <1>4, <2>1 DEF DecodeHttp, ParseWrong
  <2>3. msgs_ \o back = back
    BY <1>0, ConcatEmptySeq
  <2>4. (IF Len(back) < Len(sync_list_) THEN Len(back) ELSE Len(sync_list_)) = Len(back)
    BY <1>1, <1>3
  <2>5. /\ Deliver(Each(SubSeq(back, 1, Len(back))))
        /\ msgs_' = SubSeq(back, Len(back) + 1, Len(back)) /\ inbuf_' = <<>>
        /\ parser' \in {"start", "dead"}
    BY <2>2, <2>3, <2>4 DEF ParseWhole
  <2>6. SubSeq(back, 1, Len(back)) = back /\ SubSeq(back, Len(back) + 1, Len(back)) = <<>>
    BY <1>0, SubSeqFull, TakePrefix
  <2>7. Len(Each(back)) = Len(back) /\ \A i \in 1 .. Len(back) : Each(back)[i] = {back[i]}
    BY <1>0, EachType
  <2>8. sync_list_' = rest /\ \A r \in Req : phase'[r] # "mismatched"
    BY <1>0, <1>1, <1>2, <2>5, <2>6, <2>7, DeliverOwn
  <2> QED BY <1>2, <1>5, <2>5, <2>6, <2>8 DEF rest
<1> QED BY <1>6, <1>7

LEMMA OnReadStep ==
    ASSUME ConnectionOK, io = NoSocket, OnRead,
           UNCHANGED <<wire, outbuf_, io, status_, protocol, single>>
    PROVE  /\ FlowOK' /\ MatchOK' /\ SingleOK' /\ status_ = "kConnected"
           /\ socket' = socket \/ socket' = [socket EXCEPT ![fd_] = "shut"]
<1> USE DEF ConnectionOK
<1>0. /\ inbuf_ \in Seq(Req) /\ back \in Seq(Req) /\ owed \in Req \cup {NoSocket}
      /\ back' = <<>> /\ status_ = "kConnected" /\ NoSocket \notin Req
      /\ wire \in Seq(Req) /\ outbuf_ \in Seq(Req) /\ Arrived
  BY ClientAssumption DEF OnRead, FlowOK, Empty, Arrived, ClientAssumption
<1>1. PICK cut \in BOOLEAN, failed \in BOOLEAN :
         /\ cut => back # <<>>
         /\ DecodeMsg(Received, cut, failed)
         /\ socket' = IF failed THEN [socket EXCEPT ![fd_] = "shut"] ELSE socket
  BY DEF OnRead
<1>2. Received \in Seq(Req)
  <2>1. inbuf_ \o back \in Seq(Req)
    BY <1>0, ConcatProperties
  <2>2. CASE owed # NoSocket
    <3>1. Append(inbuf_, owed) \in Seq(Req)
      BY <1>0, <2>2
    <3>2. Append(inbuf_, owed) \o back \in Seq(Req)
      BY <1>0, <3>1, ConcatProperties
    <3> QED BY <2>1, <3>2 DEF Received
  <2>3. CASE owed = NoSocket
    BY <2>1, <2>3 DEF Received
  <2> QED BY <2>2, <2>3
<1>3. cut => Received # <<>>
  <2> SUFFICES ASSUME back # <<>> PROVE Received # <<>>
    BY <1>1
  <2>1. \A x \in Seq(Req) : x \o back # <<>>
    <3> SUFFICES ASSUME NEW x \in Seq(Req), x \o back = <<>> PROVE FALSE
      OBVIOUS
    <3>1. Len(x \o back) = Len(x) + Len(back) /\ Len(x) \in Nat /\ Len(back) >= 1
      BY <1>0, ConcatProperties
    <3> QED BY <3>1
  <2>2. owed # NoSocket => Append(inbuf_, owed) \in Seq(Req)
    BY <1>0
  <2> QED BY <1>0, <2>1, <2>2 DEF Received
<1>4. /\ sync_list_' \in Seq(Req) /\ timed' \subseteq Entries(sync_list_')
      /\ phase' \in [Req -> Phases]
      /\ \A r \in Req : phase'[r] = "queued" => phase[r] = "queued"
      /\ inbuf_' \in Seq(Req) /\ msgs_' \in Seq(Req) /\ owed' \in Req \cup {NoSocket}
      /\ (damaged => damaged')
  BY <1>1, <1>2, <1>3, DecodeTypes
<1>5. FlowOK'
  BY <1>0, <1>4 DEF FlowOK
<1>6. ASSUME OneAnswerEach, ~ damaged'
      PROVE  /\ sync_list_ = back \o (wire \o outbuf_) /\ sync_list_' = wire \o outbuf_
             /\ (\A r \in Req : phase'[r] # "mismatched") /\ back # <<>>
             /\ inbuf_' = <<>> /\ msgs_' = <<>> /\ owed' = NoSocket /\ parser' # "middle"
  <2>1. inbuf_ = <<>> /\ owed = NoSocket
    BY <1>6 DEF MatchOK
  <2>2. back # <<>> /\ Received = back
    BY <1>0, <2>1, ConcatEmptySeq DEF Arrived, Received
  <2> QED BY <1>1, <1>6, <2>2, DecodeOwn
<1>7. MatchOK'
  <2>1. SUFFICES ASSUME OneAnswerEach' PROVE MatchOK'
    BY DEF MatchOK
  <2>2. OneAnswerEach /\ ~ damaged'
    BY <1>4, <2>1 DEF OneAnswerEach
  <2>3. <<>> \o <<>> = <<>>
    OBVIOUS
  <2>4. Pipeline' = <<>> \o (wire \o outbuf_) /\ InHand' = <<>>
    BY <1>0, <1>6, <2>2, <2>3 DEF Pipeline, Joined, InHand
  <2>5. wire \o outbuf_ \in Seq(Req)
    BY <1>0, ConcatProperties
  <2>6. <<>> \o (wire \o outbuf_) = wire \o outbuf_ /\ (wire \o outbuf_) \o <<>> = wire \o outbuf_
    BY <2>5, ConcatEmptySeq
  <2> QED BY <1>6, <2>2, <2>4, <2>6 DEF MatchOK
<1>8. SingleOK'
  <2>1. SUFFICES ASSUME single, ~ damaged'
                 PROVE  sync_list_' = <<>> /\ \A r \in Req : phase'[r] # "queued"
    BY DEF SingleOK
  <2>2. OneAnswerEach /\ ~ damaged
    BY <1>4, <2>1 DEF OneAnswerEach
  <2>3. wire \o outbuf_ \in Seq(Req) /\ Len(back) >= 1 /\ Len(back) \in Nat
    BY <1>0, <1>6, <2>1, <2>2, ConcatProperties
  <2>4. Len(sync_list_) = Len(back) + Len(wire \o outbuf_) /\ Len(sync_list_) <= 1
        /\ sync_list_ # <<>>
    <3>1. Len(back \o (wire \o outbuf_)) = Len(back) + Len(wire \o outbuf_)
      BY <1>0, <2>3, ConcatProperties
    <3>2. Len(sync_list_) = Len(back) + Len(wire \o outbuf_)
      BY <3>1, <1>6, <2>1, <2>2
    <3> QED BY <2>1, <2>2, <2>3, <3>2 DEF SingleOK
  <2>5. wire \o outbuf_ = <<>>
    BY <2>3, <2>4
  <2>6. \A r \in Req : phase[r] # "queued"
    BY <2>1, <2>2, <2>4 DEF SingleOK
  <2> QED BY <1>4, <1>6, <2>1, <2>2, <2>5, <2>6
<1> QED BY <1>0, <1>1, <1>5, <1>7, <1>8

(* The connection is read while it is open.                                *)
LEMMA ReadStep == ASSUME ConnectionOK, Read PROVE ConnectionOK'
<1> USE DEF ConnectionOK
<1>0. /\ io = NoSocket /\ fd_ \in Sockets /\ InUse(fd_) /\ OnRead
      /\ UNCHANGED <<status_, fd_, watched, outbuf_, wire, reconnect_timer_, beats, io, re, protocol,
                     single>>
  BY DEF Read, SocketOK, Made, Now, InUse, timerVars, configVars
<1>1. /\ FlowOK' /\ MatchOK' /\ SingleOK'
      /\ socket' = socket \/ socket' = [socket EXCEPT ![fd_] = "shut"]
  BY <1>0, OnReadStep
<1>2. SocketOK' /\ ReconnectOK'
  BY <1>0, <1>1, ShutStep
<1> QED BY <1>1, <1>2

LEMMA HangUpStep == ASSUME ConnectionOK, Undisturbed, HangUpEvent PROVE ConnectionOK'
<1> USE DEF ConnectionOK
<1>0. /\ io = NoSocket /\ fd_ \in watched /\ fd_ \in Sockets /\ fd_ # NoSocket /\ InUse(fd_)
      /\ re.at # "register"
      /\ UNCHANGED <<reconnect_timer_, io, re, single, protocol>>
  BY ClientAssumption
     DEF HangUpEvent, Now, ReconnectOK, SocketOK, Made, configVars, InUse, ClientAssumption, Sockets
<1>b. beats = 0 /\ BeatsAfter(1) = 0
  BY DEF ReconnectOK, Undisturbed, BeatsAfter
<1>1. CASE status_ = "kConnecting"
  <2>1. /\ CleanClient /\ beats' = BeatsAfter(1) /\ watched' = watched \ {fd_}
        /\ UNCHANGED <<damaged, is_buzy_, msgs_, parser, sync_list_, timed, phase>>
    BY <1>1 DEF HangUpEvent, GiveUp, sequenceVars, parserVars
  <2>2. Empty
    BY <1>1 DEF FlowOK
  <2>3. /\ socket' = [socket EXCEPT ![fd_] = "closed"] /\ fd_' = NoSocket /\ status_' = "kBroken"
        /\ UNCHANGED <<outbuf_, inbuf_, wire, back, owed, beats>>
    BY <1>0, <1>b, <2>1, <2>2 DEF CleanClient, Empty
  <2>4. UNCHANGED flowVars
    BY <1>0, <2>1, <2>3 DEF flowVars, bufferVars, sequenceVars, parserVars
  <2>5. FlowOK' /\ MatchOK' /\ SingleOK'
    BY <1>0, <1>1, <2>1, <2>4, FlowFrame, MatchFrame, SingleFrame
  <2>6. SocketOK' /\ ReconnectOK'
    BY <1>0, <2>1, <2>3, CloseStep
  <2> QED BY <2>5, <2>6
<1>2. CASE status_ # "kConnecting"
  <2>1. watched' = watched \ {fd_} /\ UNCHANGED <<status_, fd_, outbuf_, wire, beats>>
    BY <1>2 DEF HangUpEvent
  <2>2. CASE OnRead
    <3>1. /\ FlowOK' /\ MatchOK' /\ SingleOK'
          /\ socket' = socket \/ socket' = [socket EXCEPT ![fd_] = "shut"]
      BY <1>0, <2>1, <2>2, OnReadStep
    <3>2. SocketOK' /\ ReconnectOK'
      BY <1>0, <2>1, <3>1, ShutStep
    <3> QED BY <3>1, <3>2
  <2>3. CASE /\ socket' = IF Now = "fin" THEN [socket EXCEPT ![fd_] = "shut"] ELSE socket
             /\ UNCHANGED <<is_buzy_, inbuf_, back, owed, parserVars, sequenceVars, phase, damaged>>
    <3>1. UNCHANGED flowVars
      BY <1>0, <2>1, <2>3 DEF flowVars, bufferVars, sequenceVars, parserVars
    <3>2. FlowOK' /\ MatchOK' /\ SingleOK'
      BY <1>0, <2>1, <2>3, <3>1, FlowFrame, MatchFrame, SingleFrame DEF sequenceVars
    <3>3. SocketOK' /\ ReconnectOK'
      BY <1>0, <2>1, <2>3, ShutStep
    <3> QED BY <3>2, <3>3
  <2> QED BY <1>2, <2>2, <2>3 DEF HangUpEvent
<1> QED BY <1>1, <1>2

(* All that was under way is dropped. *)
LEMMA EmptyFlow ==
    ASSUME FlowOK, sync_list_' = <<>>, inbuf_' = <<>>, back' = <<>>, wire' = <<>>, outbuf_' = <<>>,
           owed' = NoSocket, timed' = {}, io' = NoSocket, UNCHANGED <<msgs_, protocol>>,
           phase' \in [Req -> Phases]
    PROVE  FlowOK' /\ Pipeline' = <<>> /\ InHand' = <<>>
<1>1. <<>> \o <<>> = <<>> /\ NoSocket \notin Req
  BY ClientAssumption DEF ClientAssumption
<1>2. Pipeline' = <<>> /\ InHand' = <<>>
  BY <1>1 DEF Pipeline, Joined, InHand
<1> QED BY <1>1, <1>2 DEF FlowOK, Empty, Entries

LEMMA TimeOutStep ==
    ASSUME ConnectionOK, NEW m \in Req \cup {HB}, TimeOut(m) PROVE ConnectionOK'
<1> USE DEF ConnectionOK
<1>0. io = NoSocket /\ m \in timed /\ sync_list_ # <<>> /\ status_ = "kConnected"
  BY DEF TimeOut, FlowOK, Entries, Empty
<1>1. fd_ \in Sockets /\ fd_ # NoSocket /\ InUse(fd_) /\ re.at # "register"
  BY <1>0, ClientAssumption DEF SocketOK, ReconnectOK, InUse, ClientAssumption, Sockets
<1>2. /\ watched' = watched \ {fd_} /\ sync_list_' = <<>> /\ timed' = timed \ (Entries(sync_list_) \cup {m})
      /\ phase' = Become(Entries(sync_list_), "failed")
      /\ is_buzy_' = FALSE /\ CleanClient
      /\ UNCHANGED <<beats, msgs_, parser, io, re, single, protocol, damaged>>
  BY <1>0 DEF TimeOut, configVars, history, parserVars
<1>3. /\ socket' = [socket EXCEPT ![fd_] = "closed"] /\ fd_' = NoSocket /\ status_' = "kBroken"
      /\ outbuf_' = <<>> /\ inbuf_' = <<>> /\ wire' = <<>> /\ back' = <<>> /\ owed' = NoSocket
  BY <1>1, <1>2 DEF CleanClient
<1>p. phase' \in [Req -> Phases]
      /\ \A r \in Req : phase'[r] \in {phase[r], "failed"}
  BY <1>2 DEF Become, FlowOK, Phases
<1>4. FlowOK' /\ Pipeline' = <<>> /\ InHand' = <<>>
  <2>1. timed' = {}
    BY <1>2 DEF FlowOK
  <2> QED BY <2>1, <1>0, <1>2, <1>3, <1>p, EmptyFlow
<1>5. MatchOK'
  <2>1. sync_list_' \o InHand' = <<>>
    BY <1>2, <1>4
  <2> QED BY <2>1, <1>2, <1>3, <1>4, <1>p DEF MatchOK, OneAnswerEach
<1>6. SocketOK' /\ ReconnectOK'
  BY <1>1, <1>2, <1>3, CloseStep
<1>7. SingleOK'
  <2>1. single /\ ~ damaged => \A r \in Req : phase[r] # "queued"
    BY <1>0 DEF SingleOK
  <2> QED BY <2>1, <1>p, <1>2 DEF SingleOK
<1> QED BY <1>4, <1>5, <1>6, <1>7

LEMMA RobTimerStep ==
    ASSUME ConnectionOK, NEW m \in Req \cup {HB}, RobTimer(m) PROVE ConnectionOK'
<1> USE DEF ConnectionOK
<1>1. /\ timed' \subseteq timed
      /\ UNCHANGED <<outbuf_, inbuf_, wire, back, owed, sync_list_, msgs_, parser, phase, io,
                     is_buzy_, status_, protocol, single, damaged>>
  BY DEF RobTimer, socketVars, bufferVars, parserVars, configVars
<1>2. FlowOK'
  BY <1>1 DEF FlowOK, Empty, Entries
<1>3. MatchOK'
  BY <1>1 DEF MatchOK, OneAnswerEach, Pipeline, Joined, InHand
<1>4. SingleOK'
  BY <1>1, SingleFrame
<1>5. SocketOK' /\ ReconnectOK'
  BY SocketFrame, ReconnectFrame DEF RobTimer, timerVars
<1> QED BY <1>2, <1>3, <1>4, <1>5

LEMMA TryConnectStep == ASSUME ConnectionOK, TryConnect PROVE ConnectionOK'
<1> USE DEF ConnectionOK
<1>0. re = Rest /\ reconnect_timer_ /\ status_ = "kBroken" /\ (\A s \in Sockets : ~ InUse(s))
      /\ NoSocket \notin Sockets
  BY ClientAssumption DEF TryConnect, SocketOK, ClientAssumption, Sockets
<1>1. /\ status_' \in {"kBroken", "kConnecting"}
      /\ UNCHANGED <<is_buzy_, watched, sync_list_, timed, outbuf_, inbuf_, msgs_, parser, beats,
                     phase, io, single, protocol, damaged>>
      /\ wire' = <<>> /\ back' = <<>> /\ owed' = NoSocket
  BY DEF TryConnect, sequenceVars, parserVars, configVars, history
<1>2. UNCHANGED <<wire, back, owed>>
  BY <1>0, <1>1 DEF FlowOK, Empty
<1>3. FlowOK' /\ MatchOK' /\ SingleOK'
  <2>1. UNCHANGED flowVars
    BY <1>1, <1>2 DEF flowVars, bufferVars, sequenceVars, parserVars
  <2> QED BY <1>0, <1>1, <2>1, FlowFrame, MatchFrame, SingleFrame
<1>4. CASE status_' = "kBroken" /\ fd_' = NoSocket /\ UNCHANGED <<socket, re, reconnect_timer_>>
  <2>1. SocketOK'
    BY <1>0, <1>1, <1>4 DEF SocketOK, InUse, Made
  <2>2. ReconnectOK'
    BY <1>0, <1>1, <1>4 DEF ReconnectOK, Rest
  <2> QED BY <1>3, <2>1, <2>2
<1>5. ASSUME NEW s \in Sockets \ Made, NEW what \in {"connecting", "up"},
             socket' = [socket EXCEPT ![s] = what], fd_' = s, status_' = "kConnecting",
             reconnect_timer_' = FALSE, re' = [at |-> "register", s |-> s]
      PROVE  ConnectionOK'
  <2>1. DOMAIN socket' = Sockets /\ socket'[s] = what
        /\ (\A t \in Sockets : t # s => socket'[t] = socket[t])
        /\ socket' \in [Sockets -> States]
    BY <1>5 DEF SocketOK, States
  <2>2. \A t \in Sockets : InUse(t)' => t = s
    BY <2>1, <1>0 DEF InUse
  <2>3. Made \subseteq Made' /\ s \in Made'
    BY <2>1 DEF Made
  <2>4. SocketOK'
    BY <1>1, <1>5, <2>1, <2>2, <2>3 DEF SocketOK
  <2>5. s \notin watched
    BY DEF SocketOK
  <2>6. ReconnectOK'
    BY <1>1, <1>5, <2>5 DEF ReconnectOK
  <2> QED BY <1>3, <2>4, <2>6
<1> QED BY <1>4, <1>5 DEF TryConnect

LEMMA RegisterStep == ASSUME ConnectionOK, Register PROVE ConnectionOK'
<1> USE DEF ConnectionOK
<1>0. /\ re.at = "register" /\ status_ = "kConnecting" /\ fd_ = re.s /\ fd_ \notin watched
      /\ re \in [at : {"register", "wait", "set"}, s : Sockets] /\ re # Rest /\ re.s \in Sockets
      /\ NoSocket \notin Sockets /\ fd_ # NoSocket
  BY ClientAssumption DEF Register, ReconnectOK, SocketOK, Rest, ClientAssumption, Sockets
<1>1. /\ UNCHANGED flowVars /\ status_' # "kConnected"
      /\ UNCHANGED <<is_buzy_, fd_, sync_list_, phase, single, beats, damaged>>
  BY <1>0 DEF Register, flowVars, bufferVars, sequenceVars, parserVars, configVars, history
<1>2. FlowOK' /\ MatchOK' /\ SingleOK'
  BY <1>0, <1>1, FlowFrame, MatchFrame, SingleFrame
<1>4. CASE /\ watched' = watched \cup {re.s}
           /\ \E at \in {"wait", "rest"} : re' = IF at = "rest" THEN Rest ELSE [re EXCEPT !.at = at]
           /\ UNCHANGED <<status_, socket, reconnect_timer_>>
  <2>1. re' = Rest \/ (re' = [re EXCEPT !.at = "wait"] /\ re'.at = "wait" /\ re'.s = re.s
                       /\ re' \in [at : {"register", "wait", "set"}, s : Sockets])
    BY <1>0, <1>4
  <2>2. SocketOK'
    BY <1>0, <1>1, <1>4 DEF SocketOK, InUse, Made
  <2>3. ReconnectOK'
    BY <1>0, <1>1, <1>4, <2>1 DEF ReconnectOK, Rest
  <2> QED BY <1>2, <2>2, <2>3
<1>5. CASE /\ socket' = [socket EXCEPT ![re.s] = "closed"]
           /\ status_' = "kBroken" /\ reconnect_timer_' = TRUE /\ re' = Rest
           /\ UNCHANGED watched
  <2>1. DOMAIN socket' = Sockets /\ socket'[fd_] = "closed"
        /\ (\A t \in Sockets : t # fd_ => socket'[t] = socket[t])
        /\ socket' \in [Sockets -> States]
    BY <1>0, <1>5 DEF SocketOK, States
  <2>2. \A t \in Sockets : ~ InUse(t)'
    BY <2>1 DEF InUse, SocketOK
  <2>3. Made \subseteq Made'
    BY <2>1 DEF Made
  <2>4. SocketOK'
    BY <1>0, <1>1, <1>5, <2>1, <2>2, <2>3 DEF SocketOK, Made
  <2>5. ReconnectOK'
    BY <1>1, <1>5 DEF ReconnectOK, Rest
  <2> QED BY <1>2, <2>4, <2>5
<1> QED BY <1>4, <1>5 DEF Register

LEMMA WaitConnectedStep == ASSUME ConnectionOK, WaitConnected PROVE ConnectionOK'
<1> USE DEF ConnectionOK
<1>0. /\ re.at = "wait" /\ fd_ \in {re.s, NoSocket} /\ re # Rest
      /\ re \in [at : {"register", "wait", "set"}, s : Sockets]
      /\ NoSocket \notin Sockets
  BY ClientAssumption DEF WaitConnected, ReconnectOK, Rest, ClientAssumption, Sockets
<1>1. UNCHANGED flowVars
      /\ UNCHANGED <<status_, is_buzy_, fd_, socket, watched, sync_list_, phase, single,
                     reconnect_timer_, beats, damaged>>
  BY DEF WaitConnected, flowVars, bufferVars, sequenceVars, parserVars, configVars, history, timerVars
<1>2. FlowOK' /\ MatchOK' /\ SingleOK'
  BY <1>1, FlowFrame, MatchFrame, SingleFrame
<1>4. SocketOK'
  BY <1>0, <1>1 DEF SocketOK, InUse, Made
<1>5. CASE re' = Rest
  <2>1. ReconnectOK'
    BY <1>1, <1>5 DEF ReconnectOK, Rest
  <2> QED BY <1>2, <1>4, <2>1
<1>6. CASE Now \in {"up", "fin"} /\ re' = [re EXCEPT !.at = "set"]
  <2>1. re'.at = "set" /\ re'.s = re.s /\ re' \in [at : {"register", "wait", "set"}, s : Sockets]
    BY <1>0, <1>6
  <2>2. fd_ = re.s /\ socket[fd_] \in {"up", "fin", "shut"}
    BY <1>0, <1>6 DEF Now
  <2>3. ReconnectOK'
    BY <1>1, <2>1, <2>2 DEF ReconnectOK
  <2> QED BY <1>2, <1>4, <2>3
<1> QED BY <1>5, <1>6 DEF WaitConnected

(* The socket is still there.                                              *)
LEMMA SetConnectedStep == ASSUME ConnectionOK, SetConnected, ~ overtaken' PROVE ConnectionOK'
<1> USE DEF ConnectionOK
<1>a. re.at = "set" /\ fd_ = re.s
  BY DEF SetConnected
<1>0. /\ re.at = "set" /\ fd_ = re.s /\ socket[fd_] \in {"up", "fin", "shut"} /\ fd_ \in Sockets
      /\ re # Rest /\ NoSocket \notin Sockets
  BY <1>a, ClientAssumption DEF ReconnectOK, Rest, ClientAssumption, Sockets
<1>1. status_' = "kConnected" /\ re' = Rest /\ UNCHANGED flowVars
      /\ UNCHANGED <<is_buzy_, fd_, socket, watched, sync_list_, phase, single, reconnect_timer_,
                     beats, damaged>>
  BY DEF SetConnected, flowVars, bufferVars, sequenceVars, parserVars, configVars, timerVars
<1>2. FlowOK' /\ MatchOK' /\ SingleOK'
  BY <1>1, FlowFrame, MatchFrame, SingleFrame
<1>4. ~ reconnect_timer_
  BY <1>0 DEF SocketOK
<1>5. SocketOK'
  BY <1>0, <1>1, <1>4 DEF SocketOK, InUse, Made
<1>6. ReconnectOK'
  BY <1>1 DEF ReconnectOK, Rest
<1> QED BY <1>2, <1>5, <1>6

(* Without heartbeats there is none to encode, to put or to write.         *)
LEMMA NoBeats == ASSUME ConnectionOK PROVE ~ BeatEncode /\ ~ BeatPut /\ ~ BeatWrite
BY DEF ConnectionOK, ReconnectOK, BeatEncode, BeatPut, BeatWrite, Rest

LEMMA AnswerStep == ASSUME ConnectionOK, Answer PROVE ConnectionOK'
<1> USE DEF ConnectionOK
<1>0. back' = Append(back, Head(wire)) /\ wire' = Tail(wire) /\ wire # <<>>
      /\ UNCHANGED <<is_buzy_, outbuf_, inbuf_, owed, msgs_, parser, sync_list_, timed, phase, io,
                     single, protocol, damaged, status_>>
  BY DEF Answer, sequenceVars, parserVars, configVars, history, socketVars
<1>1. /\ inbuf_ \in Seq(Req) /\ back \in Seq(Req) /\ wire \in Seq(Req) /\ outbuf_ \in Seq(Req)
      /\ Head(wire) \in Req
  BY <1>0 DEF FlowOK
<1>2. back' \in Seq(Req) /\ wire' \in Seq(Req)
  BY <1>0, <1>1
<1>3. Joined(inbuf_, Added(back, Head(wire)), Tail(wire), outbuf_) = Joined(inbuf_, back, wire, outbuf_)
  BY <1>0, <1>1, MoveHead
<1>4. Pipeline' = Pipeline /\ UNCHANGED InHand
  BY <1>0, <1>3 DEF Pipeline, Added, InHand
<1>5. FlowOK'
  <2>1. status_ = "kConnected"
    BY <1>0 DEF FlowOK, Empty
  <2>2. UNCHANGED Entries(sync_list_)
    BY <1>0 DEF Entries
  <2> QED BY <1>0, <1>1, <1>2, <2>1, <2>2 DEF FlowOK
<1>6. MatchOK'
  BY <1>0, <1>4 DEF MatchOK, OneAnswerEach
<1>7. SingleOK'
  BY <1>0, SingleFrame
<1>8. SocketOK' /\ ReconnectOK'
  BY SocketFrame, ReconnectFrame DEF Answer, timerVars
<1> QED BY <1>5, <1>6, <1>7, <1>8

LEMMA PeerStep == ASSUME ConnectionOK, NEW s \in Sockets, Peer(s) PROVE ConnectionOK'
<1> USE DEF ConnectionOK
<1>1. UNCHANGED flowVars
      /\ UNCHANGED <<status_, is_buzy_, fd_, watched, sync_list_, phase, single, reconnect_timer_,
                     beats, re, damaged>>
  BY DEF Peer, flowVars, bufferVars, sequenceVars, parserVars, configVars, history, timerVars
<1>2. FlowOK' /\ MatchOK' /\ SingleOK'
  BY <1>1, FlowFrame, MatchFrame, SingleFrame
<1>4. PICK what \in {"up", "refused", "fin"} :
         /\ socket' = [socket EXCEPT ![s] = what]
         /\ (socket[s] = "connecting" /\ what # "fin") \/ (socket[s] = "up" /\ what = "fin")
  BY DEF Peer
<1>5. DOMAIN socket' = Sockets /\ socket'[s] = what
      /\ (\A t \in Sockets : t # s => socket'[t] = socket[t])
      /\ socket' \in [Sockets -> States]
  BY <1>4 DEF SocketOK, States
<1>6. InUse(s) /\ fd_ = s
  BY <1>4 DEF InUse, SocketOK
<1>7. Made' = Made
  BY <1>4, <1>5 DEF Made
<1>8. \A t \in Sockets : InUse(t)' => t = fd_
  BY <1>5, <1>6 DEF InUse, SocketOK
<1>9. ~ reconnect_timer_
  BY <1>6 DEF SocketOK
<1>10. SocketOK'
  BY <1>1, <1>4, <1>5, <1>6, <1>7, <1>8, <1>9 DEF SocketOK
<1>11. ReconnectOK'
  BY <1>1, <1>4, <1>5, <1>6 DEF ReconnectOK
<1> QED BY <1>2, <1>10, <1>11

LEMMA Stutter == ASSUME ConnectionOK, UNCHANGED clientVars PROVE ConnectionOK'
<1> USE DEF ConnectionOK
<1>1. UNCHANGED flowVars /\ UNCHANGED socketVars
      /\ UNCHANGED <<status_, is_buzy_, sync_list_, phase, single, reconnect_timer_, beats, re,
                     damaged>>
  BY DEF clientVars, flowVars, bufferVars, sequenceVars, parserVars, socketVars
<1>2. FlowOK' /\ MatchOK' /\ SingleOK'
  BY <1>1, FlowFrame, MatchFrame, SingleFrame
<1>3. SocketOK' /\ ReconnectOK'
  BY <1>1, SocketFrame, ReconnectFrame
<1> QED BY <1>2, <1>3

----------------------------------------------------------------------------
(* The theorem.                                                            *)

LEMMA ConnectionStep == ConnectionInv /\ [ClientNext]_clientVars => ConnectionInv'
<1> SUFFICES ASSUME ConnectionInv, [ClientNext]_clientVars, Undisturbed' PROVE ConnectionOK'
  BY DEF ConnectionInv
<1>a. UNCHANGED heartbeat_ms_
  BY DEF ClientNext, clientVars, configVars, Send, Overload, IoStep, ReconnectStep, Put, Read,
         HangUpEvent, Encode, TimeOut, RobTimer, TryConnect, Register, WaitConnected,
         SetConnected, BeatEncode, BeatPut, BeatWrite, Answer, Peer
<1>b. UNCHANGED overtaken \/ SetConnected
  BY DEF ClientNext, clientVars, history, Send, Overload, IoStep, ReconnectStep, Put, Read,
         HangUpEvent, Encode, TimeOut, RobTimer, TryConnect, Register, WaitConnected,
         BeatEncode, BeatPut, BeatWrite, Answer, Peer
<1>c. ~ overtaken
  <2>1. ASSUME SetConnected PROVE ~ overtaken
    BY <2>1 DEF SetConnected, Undisturbed
  <2> QED BY <1>b, <2>1 DEF Undisturbed
<1>2. Undisturbed /\ ConnectionOK /\ ~ overtaken'
  BY <1>a, <1>c DEF Undisturbed, ConnectionInv
<1>3. ASSUME NEW r \in Req, Send(r) \/ Overload(r) PROVE ConnectionOK'
  BY <1>2, <1>3, SendStep, OverloadStep
<1>4. CASE IoStep
  BY <1>2, <1>4, PutStep, ReadStep, HangUpStep, EncodeStep, TimeOutStep DEF IoStep
<1>5. ASSUME NEW m \in Req \cup {HB}, RobTimer(m) PROVE ConnectionOK'
  BY <1>2, <1>5, RobTimerStep
<1>6. CASE ReconnectStep
  BY <1>2, <1>6, TryConnectStep, RegisterStep, WaitConnectedStep, SetConnectedStep, NoBeats
     DEF ReconnectStep
<1>7. CASE Answer
  BY <1>2, <1>7, AnswerStep
<1>8. ASSUME NEW s \in Sockets, Peer(s) PROVE ConnectionOK'
  BY <1>2, <1>8, PeerStep
<1>9. CASE UNCHANGED clientVars
  BY <1>2, <1>9, Stutter
<1> QED BY <1>3, <1>4, <1>5, <1>6, <1>7, <1>8, <1>9 DEF ClientNext

LEMMA ConnectionGivesInv == ConnectionInv => ClientInv
<1> SUFFICES ASSUME ConnectionInv PROVE ClientInv
  OBVIOUS
<1>1. AnswersMatch
  BY DEF AnswersMatch, ConnectionInv, ConnectionOK, MatchOK
<1>2. OneOutstanding
  <2> SUFFICES ASSUME single, ~ damaged, Undisturbed
               PROVE  Cardinality({i \in DOMAIN sync_list_ : sync_list_[i] # HB}) <= 1
    BY DEF OneOutstanding
  <2> DEFINE D == {i \in DOMAIN sync_list_ : sync_list_[i] # HB}
  <2>1. D \subseteq {1}
    BY DEF ConnectionInv, ConnectionOK, SingleOK, FlowOK
  <2>2. IsFiniteSet({1}) /\ Cardinality({1}) = 1
    BY FS_Singleton
  <2>3. Cardinality(D) <= Cardinality({1})
    BY <2>1, <2>2, FS_Subset
  <2> QED BY <2>2, <2>3
<1>3. NoSocketLost
  BY DEF NoSocketLost, ConnectionInv, ConnectionOK, SocketOK
<1> QED BY <1>1, <1>2, <1>3 DEF ClientInv

(* In every state, for any set of requests and any number of sockets, with *)
(* any interleaving of service threads, IO thread and reconnect thread,    *)
(* whatever SyncClientConnect::DecodeMsg reads in parts, discards or cannot*)
(* parse, and whichever timers are lost to other connections: while no     *)
(* heartbeat uses the connection and no socket is called connected after   *)
(* it was given up, there is one open socket at most and nothing is under  *)
(* way without it; and while the protocol finds each answer, what is under *)
(* way is what the list waits for, in the same order.                      *)
THEOREM ConnectionInvariant == ClientSpec => []ConnectionInv
<1>1. ClientInit => ConnectionInv
  BY ConnectionInit DEF ConnectionInv
<1> QED BY <1>1, ConnectionStep, PTL DEF ClientSpec

(* Under the same conditions no request is given the answer to another     *)
(* (net/sync_sequence.cpp, Get), and a single client has one request under *)
(* way; TryConnect loses no open socket when it overwrites fd_, whatever   *)
(* was read from it.                                                       *)
THEOREM ClientCorrect == ClientSpec => []ClientInv
BY ConnectionInvariant, ConnectionGivesInv, PTL

=============================================================================
