-------------------------- MODULE ServerConnections --------------------------
(***************************************************************************)
(* The connections a server has accepted: net_thread_mgr/acceptor_thread,  *)
(* net/server_connect and net/connect_manager.                             *)
(*                                                                         *)
(* The acceptor thread makes a connection, gives it to its IO thread and   *)
(* only then numbers and lists it.  The IO thread decodes requests, which  *)
(* carry the connection's address to the service threads and back; on the  *)
(* application's request it moves the connection to a list of deferred     *)
(* deletions, which the acceptor thread sweeps when it accepts another.    *)
(***************************************************************************)
EXTENDS Integers, FiniteSets

CONSTANTS
    Con,                    \* addresses of ServerConnect objects
    delay_delete_times,     \* how long a released connection is kept
    delete_interval_times,  \* the least time between two sweeps
    ReplyWithin             \* how long a message and its answer are under way

ASSUME ServerAssumption ==
    /\ delay_delete_times \in Nat /\ delete_interval_times \in Nat /\ ReplyWithin \in Nat
    /\ ReplyWithin <= delay_delete_times

VARIABLES
    alive,              \* objects that exist
    connected_list_,    \* numbered objects (connect_id_ is -1 before)
    delayed,            \* delay_delete_connect_list_: object -> how long ago
    swept,              \* how long ago del_time_ is
    accepting,          \* the object AcceptClient is working on, as a set
    releasing,          \* objects between SetRelease's two locks
    hung,               \* the peer has hung up, and the IO thread has seen it
    pending,            \* [con, kind] -> age of a message that holds an address
    quiet               \* released after their peer hung up

serverVars == <<alive, connected_list_, delayed, swept, accepting, releasing, hung, pending,
                quiet>>
listVars == <<connected_list_, delayed, swept>>

(* How long a released connection is kept, if one is accepted then. *)
Longest == delay_delete_times + delete_interval_times
Kinds == {"request", "close"}
Older(age, limit) == IF age < limit THEN age + 1 ELSE age
Under(c, kind) == <<c, kind>> \in DOMAIN pending
Less(f, S) == [x \in DOMAIN f \ S |-> f[x]]

ServerInit ==
    /\ alive = {} /\ connected_list_ = {}
    /\ delayed = [c \in {} |-> 0] /\ swept = delete_interval_times + 1
    /\ accepting = {} /\ releasing = {} /\ hung = {} /\ quiet = {}
    /\ pending = [m \in {} |-> 0]

----------------------------------------------------------------------------
(* The acceptor thread.                                                    *)

(* Slip: a connection that comes puts the next sweep off. *)
AcceptTouches(c) ==
    /\ accepting = {} /\ c \notin alive
    /\ accepting' = {c} /\ alive' = alive \cup {c}
    /\ swept' = 0
    /\ UNCHANGED <<connected_list_, delayed, releasing, hung, pending, quiet>>

(* AcceptClient up to AddModr: the IO thread can use the object from here. *)
Accept(c) ==
    /\ accepting = {} /\ c \notin alive
    /\ accepting' = {c} /\ alive' = alive \cup {c}
    /\ UNCHANGED <<listVars, releasing, hung, pending, quiet>>

(* AddModr fails when the peer hung up before it ended: the object is      *)
(* deleted.                                                                *)
AddModrFails(c) ==
    /\ accepting = {c} /\ c \in hung
    /\ accepting' = {} /\ alive' = alive \ {c} /\ hung' = hung \ {c}
    /\ UNCHANGED <<listVars, releasing, pending, quiet>>

(* Slip: the sweep does not look at how old an entry is. *)
ExpiredAll == DOMAIN delayed

(* What DeleteDalayCon deletes. *)
Expired ==
    IF swept > delete_interval_times
    THEN {c \in DOMAIN delayed : delayed[c] > delay_delete_times}
    ELSE {}

(* AddConnect: the sweep, then the number and the list. *)
AddConnect(c) ==
    /\ accepting = {c}
    /\ accepting' = {}
    /\ alive' = alive \ Expired /\ hung' = hung \ Expired /\ quiet' = quiet \ Expired
    /\ delayed' = Less(delayed, Expired)
    /\ swept' = IF swept > delete_interval_times /\ delayed # <<>> THEN 0 ELSE swept
    /\ connected_list_' = connected_list_ \cup {c}
    /\ UNCHANGED <<releasing, pending>>

----------------------------------------------------------------------------
(* The IO thread and the application.                                      *)

(* OnDecodeMessage: a request takes the connection's address with it. *)
DecodeRequest(c) ==
    /\ c \in alive \ hung /\ ~Under(c, "request")
    /\ pending' = [m \in DOMAIN pending \cup {<<c, "request">>} |->
                    IF m = <<c, "request">> THEN 0 ELSE pending[m]]
    /\ UNCHANGED <<alive, listVars, accepting, releasing, hung, quiet>>

(* The peer's end: the descriptor is watched no more, and nothing else. *)
HangUp(c) ==
    /\ c \in alive \ hung
    /\ hung' = hung \cup {c}
    /\ UNCHANGED <<alive, listVars, accepting, releasing, pending, quiet>>

(* Reply, and HandleIoMessageEvent with what it sends: the address is used *)
(* for the last time. *)
Reply(c) ==
    /\ Under(c, "request")
    /\ pending' = Less(pending, {<<c, "request">>})
    /\ UNCHANGED <<alive, listVars, accepting, releasing, hung, quiet>>

(* SendCloseToNetThread, by a service that has a request of c in hand. *)
SendClose(c) ==
    /\ Under(c, "request") /\ ~Under(c, "close")
    /\ pending' = [m \in DOMAIN pending \cup {<<c, "close">>} |->
                    IF m = <<c, "close">> THEN pending[<<c, "request">>] ELSE pending[m]]
    /\ UNCHANGED <<alive, listVars, accepting, releasing, hung, quiet>>

(* Slip: SetRelease leaves the object in the list of the connected. *)
StartReleaseKeeps(c) ==
    /\ Under(c, "close") /\ releasing = {}
    /\ pending' = Less(pending, {<<c, "close">>})
    /\ IF c \in connected_list_
       THEN releasing' = {c} /\ quiet' = quiet \cup ({c} \cap hung)
       ELSE UNCHANGED <<releasing, quiet>>
    /\ UNCHANGED <<alive, listVars, accepting, hung>>

(* HandleIoActiveCloseEvent, Destroy, and SetRelease up to its second      *)
(* lock.  An object with no number, or released before, is not found.      *)
StartRelease(c) ==
    /\ Under(c, "close") /\ releasing = {}
    /\ pending' = Less(pending, {<<c, "close">>})
    /\ IF c \in connected_list_
       THEN /\ connected_list_' = connected_list_ \ {c}
            /\ releasing' = {c} /\ quiet' = quiet \cup ({c} \cap hung)
       ELSE UNCHANGED <<connected_list_, releasing, quiet>>
    /\ UNCHANGED <<alive, delayed, swept, accepting, hung>>

(* The rest of SetRelease. *)
EndRelease(c) ==
    /\ c \in releasing
    /\ releasing' = {}
    /\ delayed' = [x \in DOMAIN delayed \cup {c} |-> IF x = c THEN 0 ELSE delayed[x]]
    /\ UNCHANGED <<alive, connected_list_, swept, accepting, hung, pending, quiet>>

(* Time passes; no message is under way for longer than ReplyWithin. *)
Second ==
    /\ \A m \in DOMAIN pending : pending[m] < ReplyWithin
    /\ releasing = {}
    /\ pending' = [m \in DOMAIN pending |-> pending[m] + 1]
    /\ delayed' = [c \in DOMAIN delayed |-> Older(delayed[c], Longest + 1)]
    /\ swept' = Older(swept, delete_interval_times + 1)
    /\ UNCHANGED <<alive, connected_list_, accepting, releasing, hung, quiet>>

ServerNext ==
    \/ Second
    \/ \E c \in Con :
        \/ Accept(c) \/ AddModrFails(c) \/ AddConnect(c)
        \/ DecodeRequest(c) \/ HangUp(c) \/ Reply(c) \/ SendClose(c)
        \/ StartRelease(c) \/ EndRelease(c)

ServerSpec == ServerInit /\ [][ServerNext]_serverVars

----------------------------------------------------------------------------
(* Properties.                                                             *)

(* The two lists are guarded by two locks and SetRelease takes one after   *)
(* the other; a connection may be closed twice, or before it is listed.    *)
(* Still no list holds an object that was deleted, and no object is in     *)
(* two lists: the sweep and the final Release delete each of them once.    *)
DeletedOnce ==
    /\ connected_list_ \cup DOMAIN delayed \cup releasing \cup accepting \subseteq alive
    /\ connected_list_ \cap DOMAIN delayed = {}
    /\ releasing \cap (connected_list_ \cup DOMAIN delayed) = {}

(* Requests and answers carry a connection's bare address through the      *)
(* queues, so an object must outlive them.  It does if its peer had hung   *)
(* up before it was released: what was under way then is over before the   *)
(* sweep may delete it.  (A peer that goes on sending can still have a     *)
(* request under way then: the descriptor stays registered.)               *)
QuietOutlivesMessages ==
    [][\A c \in quiet : c \notin alive' => \A kind \in Kinds : ~Under(c, kind)]_serverVars

(* Only the acceptor sweeps, and not each time; the interval between two   *)
(* sweeps is counted from one that had something to look at.  Still, when  *)
(* a connection is accepted none is left that was released longer ago than *)
(* the delay and the interval together.                                    *)
ReleasedIsDeleted ==
    [][\A x, c \in Con :
          AddConnect(x) /\ c \in DOMAIN delayed /\ c \in alive' => delayed[c] <= Longest]_serverVars
=============================================================================
