---------------------------- MODULE ClientRouting -----------------------------
(***************************************************************************)
(* How service threads find a connection for a request: client/client_mgr, *)
(* client_routers, client_router and client.                               *)
(*                                                                         *)
(* A ClientRouters gives each call to one of its routers, in turn or by    *)
(* hash; this is one of them, ClientRouter, and the calls it is given.  It *)
(* takes its clients in turn too, with an atomic counter that all threads  *)
(* share.  A client is taken if it is connected and, where it may have     *)
(* only one request at a time, not busy.  The IO thread frees it when it   *)
(* has read anything or given the request up, but not when it refuses the  *)
(* request as too old; ClientMgr::Stop takes its connection away.          *)
(***************************************************************************)
EXTENDS Integers, FiniteSets

CONSTANTS
    Thread,         \* service threads
    ClientCount,    \* clients of the router
    Width, Wide     \* uint32_t and size_t have the values 0 .. Width - 1, 0 .. Wide - 1

ASSUME RoutingAssumption ==
    /\ IsFiniteSet(Thread) /\ ClientCount \in Nat \ {0}
    /\ Width \in Nat \ {0} /\ Wide \in Nat /\ Width <= Wide /\ Width % 2 = 0

VARIABLES
    current_,       \* the counter
    connect_,       \* client -> its connection: "kConnected", "kBroken" or "null"
    held_,          \* clients that are busy (is_buzy_)
    onlyOne,        \* sigle_send_sigle_recv_
    call,           \* what each thread does: see Idle
    underway,       \* only-one clients: their requests on the IO thread
    leaked,         \* history: clients whose request was refused as too old
    early           \* history: clients freed by what was read before their request was done

routingVars == <<current_, connect_, held_, onlyOne, call, underway, leaked, early>>
freedVars == <<leaked, early>>

Channels == 0 .. ClientCount - 1

(* at: where the thread is; cli: the client it looks at or has; loop_cnt:  *)
(* how many it has looked at; and of the search, for the properties:       *)
(* whether it has the counter to itself, and while it has, which clients   *)
(* it has seen.                                                            *)
Idle == [at |-> "idle", cli |-> 0, loop_cnt |-> 0, seen |-> {}, undisturbed |-> TRUE]

RoutingInit ==
    /\ current_ = 0
    /\ connect_ = [c \in Channels |-> "kConnected"]
    /\ held_ = {} /\ onlyOne \in BOOLEAN
    /\ call = [t \in Thread |-> Idle]
    /\ underway = [c \in Channels |-> 0] /\ leaked = {} /\ early = {}

(* ClientMgr and ClientRouters have given the call to this router. *)
ChooseRouter(t) ==
    /\ call[t].at \in {"idle", "none"}
    /\ call' = [call EXCEPT ![t] = [Idle EXCEPT !.at = "search"]]
    /\ UNCHANGED <<current_, connect_, held_, onlyOne, underway, freedVars>>

(* Where current_ points: uint32_t converted to int, and that to size_t. *)
Index(value) == (IF value < Width \div 2 THEN value ELSE value + Wide - Width) % ClientCount

(* The counter goes from the last int to the first, or from -1 to 0. *)
Turns(value) == (value + 1) % Width \in {0, Width \div 2}

Searches(t) == call[t].at \in {"search", "examine", "try"}

(* The counter is used by t: what becomes of each thread's search. *)
Counted(t) ==
    [u \in Thread |->
        IF u = t
        THEN LET alone == call[t].undisturbed /\ ~Turns(current_) IN
             [call[t] EXCEPT !.at = "examine", !.loop_cnt = @ + 1, !.cli = Index(current_),
                             !.undisturbed = alone, !.seen = IF alone THEN @ ELSE {}]
        ELSE IF Searches(u) THEN [call[u] EXCEPT !.undisturbed = FALSE, !.seen = {}] ELSE call[u]]

(* The client is not taken, the search goes on. *)
Passed(t) ==
    [call[t] EXCEPT !.at = "search", !.cli = 0,
                    !.seen = IF call[t].undisturbed THEN @ \cup {call[t].cli} ELSE {}]

(* Slip: the search ends one client early. *)
TakeIndexShort(t) ==
    /\ call[t].at = "search"
    /\ IF call[t].loop_cnt + 1 >= ClientCount
       THEN call' = [call EXCEPT ![t].at = "none"] /\ UNCHANGED current_
       ELSE current_' = (current_ + 1) % Width /\ call' = Counted(t)
    /\ UNCHANGED <<connect_, held_, onlyOne, underway, freedVars>>

(* ClientRouter::GetValidClient: one turn of the loop, up to the client;   *)
(* or, after as many turns as there are clients, none: the message is      *)
(* destroyed or given to its callback with kInvokeError.                   *)
TakeIndex(t) ==
    /\ call[t].at = "search"
    /\ IF call[t].loop_cnt = ClientCount
       THEN call' = [call EXCEPT ![t].at = "none"] /\ UNCHANGED current_
       ELSE current_' = (current_ + 1) % Width /\ call' = Counted(t)
    /\ UNCHANGED <<connect_, held_, onlyOne, underway, freedVars>>

(* ... its status (connect_ is read once) ... *)
Examine(t) ==
    /\ call[t].at = "examine"
    /\ call' = IF connect_[call[t].cli] = "kConnected"
               THEN [call EXCEPT ![t].at = "try"]
               ELSE [call EXCEPT ![t] = Passed(t)]
    /\ UNCHANGED <<current_, connect_, held_, onlyOne, underway, freedVars>>

(* Slip: TrySetBuzy sets without looking. *)
TryBlind(t) ==
    /\ call[t].at = "try"
    /\ LET c == call[t].cli IN
       \/ /\ onlyOne /\ connect_[c] = "null"
          /\ call' = [call EXCEPT ![t] = [Idle EXCEPT !.at = "crash"]] /\ UNCHANGED held_
       \/ /\ ~(onlyOne /\ connect_[c] = "null")
          /\ call' = [call EXCEPT ![t] = [Idle EXCEPT !.at = "taken", !.cli = c]]
          /\ held_' = IF onlyOne THEN held_ \cup {c} ELSE held_
    /\ UNCHANGED <<current_, connect_, onlyOne, underway, freedVars>>

(* ... and TrySetBuzy, under its lock, of the connection if it may have    *)
(* only one request: ClientMgr::Stop may have taken it away meanwhile.     *)
Try(t) ==
    /\ call[t].at = "try"
    /\ LET c == call[t].cli IN
       \/ /\ onlyOne /\ connect_[c] = "null"
          /\ call' = [call EXCEPT ![t] = [Idle EXCEPT !.at = "crash"]] /\ UNCHANGED held_
       \/ /\ onlyOne /\ connect_[c] # "null" /\ c \in held_
          /\ call' = [call EXCEPT ![t] = Passed(t)] /\ UNCHANGED held_
       \/ /\ onlyOne => connect_[c] # "null" /\ c \notin held_
          /\ call' = [call EXCEPT ![t] = [Idle EXCEPT !.at = "taken", !.cli = c]]
          /\ held_' = IF onlyOne THEN held_ \cup {c} ELSE held_
    /\ UNCHANGED <<current_, connect_, onlyOne, underway, freedVars>>

(* Client::Send, Invoke and DoSendRecieve: the status again, then DoSend   *)
(* queues the message; otherwise the message is disposed of and the client *)
(* freed.  With the connection taken away, SetNoBuzy uses a null pointer,  *)
(* and the log line before it, if the level is low enough, in any mode.    *)
Submit(t) ==
    /\ call[t].at = "taken"
    /\ LET c == call[t].cli IN
       \/ /\ connect_[c] = "kConnected"
          /\ underway' = IF onlyOne THEN [underway EXCEPT ![c] = @ + 1] ELSE underway
          /\ call' = [call EXCEPT ![t] = Idle] /\ UNCHANGED held_
       \/ /\ connect_[c] = "kBroken"
          /\ call' = [call EXCEPT ![t] = Idle] /\ held_' = held_ \ {c}
          /\ UNCHANGED underway
       \/ /\ connect_[c] = "null"
          /\ \/ call' = [call EXCEPT ![t] = [Idle EXCEPT !.at = "crash"]]
             \/ ~onlyOne /\ call' = [call EXCEPT ![t] = Idle]
          /\ UNCHANGED <<held_, underway>>
    /\ UNCHANGED <<current_, connect_, onlyOne, freedVars>>

(* The IO thread is done with a request and frees the client: DecodeMsg of *)
(* its answer, EncodeMsg's failure, or CleanSyncClient after a timeout.    *)
Answered(c) ==
    /\ underway[c] > 0
    /\ underway' = [underway EXCEPT ![c] = @ - 1] /\ held_' = held_ \ {c}
    /\ UNCHANGED <<current_, connect_, onlyOne, call, freedVars>>

(* HandleIoMessageEvent sends a message back that is older than 100 ms,    *)
(* and nobody frees the client.  Bound: no client was freed early.         *)
Refused(c) ==
    /\ underway[c] > 0 /\ early = {}
    /\ underway' = [underway EXCEPT ![c] = @ - 1] /\ leaked' = leaked \cup {c}
    /\ UNCHANGED <<current_, connect_, held_, onlyOne, call, early>>

(* DecodeMsg frees the client whatever it has read: a part of an answer,   *)
(* or a heartbeat's.  Bound: once, and no message was refused before.      *)
FreedEarly(c) ==
    /\ c \in held_ /\ early = {} /\ leaked = {}
    /\ held_' = held_ \ {c} /\ early' = {c}
    /\ UNCHANGED <<current_, connect_, onlyOne, call, underway, leaked>>

(* External: the connection breaks, and is made again. *)
SetStatus(c) ==
    /\ connect_[c] # "null"
    /\ connect_' = [connect_ EXCEPT ![c] = IF @ = "kBroken" THEN "kConnected" ELSE "kBroken"]
    /\ UNCHANGED <<current_, held_, onlyOne, call, underway, freedVars>>

(* ClientMgr, ClientRouters, ClientRouter and Client::Stop: in order. *)
StopClient(c) ==
    /\ connect_[c] # "null" /\ \A b \in Channels : b < c => connect_[b] = "null"
    /\ connect_' = [connect_ EXCEPT ![c] = "null"]
    /\ UNCHANGED <<current_, held_, onlyOne, call, underway, freedVars>>

NullUsed == \E t \in Thread : call[t].at = "crash"

RoutingNext ==
    /\ ~NullUsed
    /\ \/ \E t \in Thread :
             ChooseRouter(t) \/ TakeIndex(t) \/ Examine(t) \/ Try(t) \/ Submit(t)
       \/ \E c \in Channels :
             Answered(c) \/ Refused(c) \/ FreedEarly(c) \/ SetStatus(c) \/ StopClient(c)

RoutingSpec == RoutingInit /\ [][RoutingNext]_routingVars

----------------------------------------------------------------------------
(* Properties.                                                             *)

(* A client's owners: the threads that have taken it, and the IO thread. *)
Holders(c) == {t \in Thread : call[t].at = "taken" /\ call[t].cli = c}
Owners(c) == Cardinality(Holders(c)) + underway[c]

(* Threads search, find the client broken or stopped after they have taken *)
(* it, and give it back, while the IO thread frees it.  A client that may  *)
(* have one request has one owner at most, a thread or the IO thread,      *)
(* unless a read freed it before its request was done (then two may have   *)
(* it).  It is busy while it has an owner; and busy without one, lost to   *)
(* the search until a read frees it, only if a request of its was refused  *)
(* as too old, or if it has been stopped.                                  *)
BusyHasOneOwner ==
    onlyOne => \A c \in Channels :
        c \notin early =>
            /\ Owners(c) <= 1
            /\ Owners(c) = 1 => c \in held_
            /\ c \in held_ /\ Owners(c) = 0 => c \in leaked \/ connect_[c] = "null"

(* "No valid client" (client/client_router.cpp:54) is said after a look at *)
(* every client, if the search had the counter to itself.  (Two searches   *)
(* at once share the turns, and each may miss what the other looked at;    *)
(* where the counter turns, ClientCount need not divide the jump.)         *)
UndisturbedSearchSeesAll ==
    \A t \in Thread : call[t].at = "none" /\ call[t].undisturbed => call[t].seen = Channels
=============================================================================
