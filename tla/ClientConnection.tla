--------------------------- MODULE ClientConnection ---------------------------
(***************************************************************************)
(* One connection of a synchronous client (http, redis): net/client_connect,*)
(* net/client_reconnect_thread, net/sync_client_connect and                *)
(* net/sync_sequence, and the calls that client/client and                 *)
(* client/client_router make on it.                                        *)
(*                                                                         *)
(* Three threads work on it.  Service threads take the client and queue a  *)
(* message; the IO thread encodes, writes, decodes and runs the requests'  *)
(* timers; the reconnect thread connects and sends heartbeats.  Answers    *)
(* carry no number: what the protocol takes for the n-th message is given  *)
(* to the n-th request in sync_sequence_.  Redis takes all that was read   *)
(* for one message, and discards what it does not understand; http finds   *)
(* the answers, and fails if the last is not there to its end.             *)
(***************************************************************************)
EXTENDS Integers, Sequences, FiniteSets

CONSTANTS
    Req,            \* requests, each sent once
    MaxConnect,     \* bound: how many sockets are ever made
    NoSocket, HB    \* -1; a heartbeat

ASSUME ClientAssumption ==
    /\ MaxConnect \in Nat \ {0}
    /\ HB \notin Req /\ NoSocket \notin Req /\ NoSocket \notin 1 .. MaxConnect

VARIABLES
    status_, is_buzy_,
    fd_,                \* the socket, or NoSocket
    socket,             \* external: what each socket is
    watched,            \* sockets in the IO thread's driver
    outbuf_, inbuf_,    \* messages encoded, answers read
    wire, back,         \* external: messages and answers under way
    owed,               \* external: the answer of which only a part was read, or NoSocket
    msgs_, parser,      \* http: answers parsed and not taken; http_parser's state
    sync_list_,         \* SyncSequence::list_
    timed,              \* messages with a timer on the IO thread
    protocol,           \* "redis" or "http"
    reconnect_timer_,   \* set, as is its entry in the reconnect thread's heap
    beats,              \* heartbeat timers in that heap
    phase,              \* what became of each request
    io, re,             \* where the IO and the reconnect thread are
    single,             \* sigle_send_sigle_recv_
    heartbeat_ms_,      \* 0 or more
    damaged,            \* history: a message was not sent whole, or an answer read in
                        \* parts, discarded or not parsed
    overtaken,          \* history: a socket was called connected after it was given up
    robbed              \* history: requests whose timer another connection has taken

clientVars == <<status_, is_buzy_, fd_, socket, watched, outbuf_, inbuf_, wire, back, owed,
                msgs_, parser, sync_list_, timed, reconnect_timer_, beats, phase, io, re,
                protocol, single, heartbeat_ms_, damaged, overtaken, robbed>>
configVars == <<protocol, single, heartbeat_ms_>>
history == <<damaged, overtaken, robbed>>
bufferVars == <<outbuf_, inbuf_, wire, back, owed>>
parserVars == <<msgs_, parser>>
sequenceVars == <<sync_list_, timed>>
socketVars == <<status_, fd_, socket, watched>>
timerVars == <<reconnect_timer_, beats>>

Sockets == 1 .. MaxConnect
Made == {s \in Sockets : socket[s] # "unmade"}
Now == IF fd_ = NoSocket THEN "none" ELSE socket[fd_]
Rest == [at |-> "rest", s |-> NoSocket]         \* the reconnect thread waits
InUse(s) == socket[s] \in {"connecting", "up", "fin", "refused", "shut"}
Entries(seq) == {seq[i] : i \in DOMAIN seq}
Become(S, what) == [r \in Req |-> IF r \in S THEN what ELSE phase[r]]
BeatsAfter(n) == IF heartbeat_ms_ = 0 THEN beats ELSE IF beats + n > 1 THEN 1 ELSE beats + n

(* The first connection has been made (ClientRouter::Start). *)
ClientInit ==
    /\ status_ = "kConnected" /\ is_buzy_ = FALSE
    /\ fd_ = 1 /\ socket = [s \in Sockets |-> IF s = 1 THEN "up" ELSE "unmade"]
    /\ watched = {1}
    /\ outbuf_ = <<>> /\ inbuf_ = <<>> /\ wire = <<>> /\ back = <<>> /\ owed = NoSocket
    /\ msgs_ = <<>> /\ parser = "start"
    /\ sync_list_ = <<>> /\ timed = {}
    /\ reconnect_timer_ = FALSE /\ beats = 0
    /\ phase = [r \in Req |-> "idle"]
    /\ io = NoSocket /\ re = Rest
    /\ damaged = FALSE /\ overtaken = FALSE /\ robbed = {}
    /\ protocol \in {"redis", "http"} /\ single \in BOOLEAN /\ heartbeat_ms_ \in {0, 1}

----------------------------------------------------------------------------
(* A service thread.                                                       *)

(* ClientRouter::GetValidClient and Client::DoSend: a connected client is  *)
(* taken, if single ones are not busy, and the message queued.             *)
Send(r) ==
    /\ phase[r] = "idle"
    /\ status_ = "kConnected" /\ (single => ~is_buzy_)
    /\ is_buzy_' = single
    /\ phase' = [phase EXCEPT ![r] = "queued"]
    /\ UNCHANGED <<socketVars, bufferVars, parserVars, sequenceVars, timerVars, io, re, configVars,
                   history>>

----------------------------------------------------------------------------
(* Both threads.                                                           *)

(* Connecting::Clean and kBroken; the kernel stops watching what is closed.*)
CleanClient ==
    /\ socket' = IF fd_ = NoSocket THEN socket ELSE [socket EXCEPT ![fd_] = "closed"]
    /\ fd_' = NoSocket /\ status_' = "kBroken"
    /\ outbuf_' = <<>> /\ inbuf_' = <<>> /\ wire' = <<>> /\ back' = <<>> /\ owed' = NoSocket

(* Connecting::OnWrite: the whole buffer goes out; or, while the kernel    *)
(* takes no more, a part of it stays there or all is dropped; or it stays  *)
(* as the socket has failed, and is shut down.                             *)
WriteOut ==
    /\ \/ /\ Now \in {"up", "fin"}
          /\ outbuf_' = <<>> /\ wire' = wire \o outbuf_
          /\ UNCHANGED <<socket, damaged>>
       \/ /\ Now \in {"up", "connecting"}
          /\ outbuf_' = <<>> /\ damaged' = (damaged \/ outbuf_ # <<>>)
          /\ UNCHANGED <<wire, socket>>
       \/ /\ Now # "connecting"
          /\ socket' = IF Now = "fin" /\ outbuf_ # <<>> THEN [socket EXCEPT ![fd_] = "shut"] ELSE socket
          /\ UNCHANGED <<outbuf_, wire, damaged>>
    /\ UNCHANGED <<fd_, inbuf_, back, owed>>

(* OnConnectWrite of a socket that is not connected, or cannot be added to *)
(* the driver: a heartbeat timer is started, not the reconnect timer.      *)
GiveUp ==
    /\ CleanClient /\ beats' = BeatsAfter(1) /\ watched' = watched \ {fd_}
    /\ UNCHANGED damaged

(* OnConnectWrite.  Adding a socket that is still watched is refused. *)
OnConnectWrite ==
    IF Now \in {"up", "fin"} /\ fd_ \notin watched
    THEN /\ status_' = "kConnected" /\ watched' = watched \cup {fd_}
         /\ beats' = BeatsAfter(1)
         /\ WriteOut
    ELSE GiveUp

----------------------------------------------------------------------------
(* The IO thread.                                                          *)

(* HandleIoMessageEvent: a message older than 100 ms is sent back, and the *)
(* client stays busy.                                                      *)
Overload(r) ==
    /\ io = NoSocket /\ phase[r] = "queued"
    /\ phase' = [phase EXCEPT ![r] = "failed"]
    /\ UNCHANGED <<is_buzy_, socketVars, bufferVars, parserVars, sequenceVars, timerVars, io, re,
                   configVars, history>>

(* Slip: EncodeMsg does not look at the status. *)
EncodeAlways(r) ==
    /\ io = NoSocket /\ phase[r] = "queued"
    /\ outbuf_' = Append(outbuf_, r) /\ io' = r
    /\ UNCHANGED <<is_buzy_, phase, socketVars, inbuf_, wire, back, owed, parserVars, sequenceVars,
                   timerVars, re, configVars, history>>

(* SyncClientConnect::EncodeMsg up to Put; a failure frees the client. *)
Encode(r) ==
    /\ io = NoSocket /\ phase[r] = "queued"
    /\ \/ /\ status_ = "kConnected"
          /\ outbuf_' = Append(outbuf_, r) /\ io' = r
          /\ UNCHANGED <<is_buzy_, phase>>
       \/ /\ is_buzy_' = FALSE
          /\ phase' = [phase EXCEPT ![r] = "failed"]
          /\ UNCHANGED <<outbuf_, io>>
    /\ UNCHANGED <<socketVars, inbuf_, wire, back, owed, parserVars, sequenceVars, timerVars, re,
                   configVars, history>>

(* Slip: the message is listed and its timer is not started. *)
PutNoTimer ==
    /\ io \in Req
    /\ sync_list_' = Append(sync_list_, io)
    /\ phase' = [phase EXCEPT ![io] = "sent"]
    /\ io' = NoSocket
    /\ IF status_ = "kConnecting"
       THEN OnConnectWrite
       ELSE WriteOut /\ UNCHANGED <<status_, watched, beats>>
    /\ UNCHANGED <<is_buzy_, timed, parserVars, reconnect_timer_, re, configVars, overtaken, robbed>>

(* The rest of EncodeMsg, and OnWrite. *)
Put ==
    /\ io \in Req
    /\ sync_list_' = Append(sync_list_, io) /\ timed' = timed \cup {io}
    /\ phase' = [phase EXCEPT ![io] = "sent"]
    /\ io' = NoSocket
    /\ IF status_ = "kConnecting"
       THEN OnConnectWrite
       ELSE WriteOut /\ UNCHANGED <<status_, watched, beats>>
    /\ UNCHANGED <<is_buzy_, parserVars, reconnect_timer_, re, configVars, overtaken, robbed>>

(* OnDecodeMessage of one message after the other: each belongs to the     *)
(* first request in the list.  A message is given by the answers it was    *)
(* made of; a request is "answered" if that is (a part of) its own.        *)
Deliver(messages) ==
    LET n == Len(messages)
        taken == {sync_list_[i] : i \in 1 .. n}
        own == {r \in taken : \E i \in 1 .. n : sync_list_[i] = r /\ messages[i] = {r}} IN
    /\ sync_list_' = SubSeq(sync_list_, n + 1, Len(sync_list_))
    /\ timed' = timed \ taken
    /\ phase' = [r \in Req |-> IF r \in own THEN "answered"
                               ELSE IF r \in taken THEN "mismatched" ELSE phase[r]]

Each(answers) == [i \in DOMAIN answers |-> {answers[i]}]

(* RedisProtocol::Decode: the whole buffer is one message.  It is emptied  *)
(* and no message made of it, if it ends with a PONG or is not understood  *)
(* ("$0", "*0", a reply cut off anywhere but in a string); the head of a   *)
(* string waits for the rest.                                              *)
DecodeRedis(read, cut) ==
    /\ UNCHANGED parserVars
    /\ \/ /\ Deliver(<<Entries(read)>>) /\ inbuf_' = <<>>
          /\ damaged' = (damaged \/ cut)
       \/ /\ Deliver(<<>>) /\ inbuf_' = <<>>
          /\ damaged' = TRUE
       \/ /\ cut /\ Deliver(<<>>) /\ inbuf_' = read
          /\ damaged' = TRUE

(* HttpProtocol::Decode: the answers parsed before and then those in the   *)
(* buffer, as many as there are requests.  After an answer that says       *)
(* "Connection: close" the parser takes nothing.                           *)
ParseWhole(read) ==
    LET ready == msgs_ \o read
        n == IF Len(ready) < Len(sync_list_) THEN Len(ready) ELSE Len(sync_list_) IN
    /\ parser = "start"
    /\ Deliver(Each(SubSeq(ready, 1, n)))
    /\ msgs_' = SubSeq(ready, n + 1, Len(ready)) /\ inbuf_' = <<>>
    /\ parser' \in {"start", "dead"}

(* The last answer is not there to its end: Decode fails, the first of     *)
(* those parsed with it is destroyed, and the buffer is kept (or emptied,  *)
(* above 256 kB) while the parser stays in the middle of the answer.       *)
ParseCut(read) ==
    /\ parser = "start"
    /\ Deliver(Each(msgs_))
    /\ msgs_' = SubSeq(read, 2, Len(read) - 1) /\ inbuf_' \in {read, <<>>}
    /\ parser' = "middle"

(* The parser lives as long as the client: from the middle of an answer it *)
(* reads on, in the same bytes again or in those of another connection,    *)
(* fails or makes up a message that is nobody's.                           *)
ParseWrong(read, failed) ==
    /\ msgs_' = <<>>
    /\ \/ /\ parser \in {"middle", "dead"} /\ failed
          /\ Deliver(Each(msgs_)) /\ inbuf_' = <<>> /\ parser' = "dead"
       \/ /\ parser = "middle" /\ failed
          /\ Deliver(Each(msgs_)) /\ inbuf_' \in {read, <<>>} /\ parser' = "middle"
       \/ /\ parser = "middle" /\ ~failed
          /\ Deliver(Append(Each(msgs_), {})) /\ inbuf_' = <<>> /\ parser' \in {"start", "dead"}

DecodeHttp(read, cut, failed) ==
    /\ damaged' = (damaged \/ cut \/ failed)
    /\ \/ /\ Len(sync_list_) <= Len(msgs_) /\ ~failed
          /\ Deliver(Each(SubSeq(msgs_, 1, Len(sync_list_))))
          /\ msgs_' = SubSeq(msgs_, Len(sync_list_) + 1, Len(msgs_)) /\ inbuf_' = read
          /\ UNCHANGED parser
       \/ /\ Len(sync_list_) > Len(msgs_)
          /\ \/ ~cut /\ ~failed /\ ParseWhole(read)
             \/ cut /\ failed /\ ParseCut(read)
             \/ ParseWrong(read, failed)

(* SyncClientConnect::DecodeMsg: nothing is decoded while nobody waits, and *)
(* the client is free whatever was read.                                   *)
DecodeMsg(read, cut, failed) ==
    /\ is_buzy_' = FALSE
    /\ owed' = IF cut THEN read[Len(read)] ELSE NoSocket
    /\ \/ /\ sync_list_ = <<>> /\ ~failed /\ inbuf_' = read /\ damaged' = (damaged \/ cut)
          /\ UNCHANGED <<phase, parserVars, sequenceVars>>
       \/ sync_list_ # <<>> /\ protocol = "redis" /\ ~failed /\ DecodeRedis(read, cut)
       \/ sync_list_ # <<>> /\ protocol = "http" /\ DecodeHttp(read, cut, failed)

(* The buffer with all that has come, the rest of an answer first. *)
Arrived == back # <<>> \/ owed # NoSocket
Received ==
    IF owed = NoSocket \/ (inbuf_ # <<>> /\ inbuf_[Len(inbuf_)] = owed)
    THEN inbuf_ \o back
    ELSE Append(inbuf_, owed) \o back

(* OnRead of what has arrived; of the last answer it may be the head only. *)
(* Bound: an answer comes in two parts at most.  If decoding fails the     *)
(* socket is shut down, and nothing else.                                  *)
OnRead ==
    /\ Arrived
    /\ \E cut, failed \in BOOLEAN :
          /\ cut => back # <<>>
          /\ DecodeMsg(Received, cut, failed)
          /\ socket' = IF failed THEN [socket EXCEPT ![fd_] = "shut"] ELSE socket
    /\ back' = <<>>

Read ==
    /\ io = NoSocket /\ fd_ \in watched /\ Now = "up"
    /\ OnRead
    /\ UNCHANGED <<status_, fd_, watched, outbuf_, wire, timerVars, io, re, configVars, overtaken,
                   robbed>>

(* OnEvent of a hangup: the descriptor is deleted, and OnRead reads what   *)
(* has arrived, or nothing and shuts the socket down.  OnWrite then gives  *)
(* up a connection that is being made, on which nothing can have arrived;  *)
(* of one that was up nobody is told.                                      *)
HangUpEvent ==
    /\ io = NoSocket /\ fd_ \in watched /\ Now \in {"fin", "refused", "shut"}
    /\ IF status_ = "kConnecting"
       THEN GiveUp /\ UNCHANGED <<is_buzy_, parserVars, sequenceVars, phase>>
       ELSE /\ watched' = watched \ {fd_}
            /\ \/ OnRead
               \/ /\ back = <<>>
                  /\ socket' = IF Now = "fin" THEN [socket EXCEPT ![fd_] = "shut"] ELSE socket
                  /\ UNCHANGED <<is_buzy_, inbuf_, back, owed, parserVars, sequenceVars, phase,
                                 damaged>>
            /\ UNCHANGED <<status_, fd_, outbuf_, wire, beats>>
    /\ UNCHANGED <<reconnect_timer_, io, re, configVars, overtaken, robbed>>

(* ProcessTimer and SyncSequence::OnTimer, of any message that has waited  *)
(* too long: the connection is closed, every waiting request sent back,    *)
(* and the reconnect timer started.  CleanSequenceQueue cancels the timer  *)
(* that has fired with all others of the connection; ProcessTimer's Pop    *)
(* then takes one of another connection of the thread, see RobTimer.       *)
TimeOut(m) ==
    /\ io = NoSocket /\ m \in timed
    /\ watched' = watched \ {fd_}
    /\ sync_list_' = <<>> /\ timed' = timed \ (Entries(sync_list_) \cup {m})
    /\ phase' = Become(Entries(sync_list_), "failed")
    /\ is_buzy_' = FALSE
    /\ reconnect_timer_' = TRUE
    /\ IF status_ = "kConnected" THEN CleanClient ELSE UNCHANGED <<status_, fd_, socket, bufferVars>>
    /\ UNCHANGED <<beats, parserVars, io, re, configVars, history>>

(* Another connection of this IO thread times out, and ProcessTimer's Pop  *)
(* takes a timer of this one, which never fires.                           *)
RobTimer(m) ==
    /\ io = NoSocket /\ m \in timed
    /\ timed' = timed \ {m} /\ robbed' = robbed \cup {m}
    /\ UNCHANGED <<is_buzy_, sync_list_, socketVars, bufferVars, parserVars, timerVars, phase, io, re,
                   configVars, damaged, overtaken>>

----------------------------------------------------------------------------
(* The reconnect thread.                                                   *)

(* TryConnect: the socket; a failure tries again in 300 ms. *)
TryConnect ==
    /\ re = Rest /\ reconnect_timer_
    /\ wire' = <<>> /\ back' = <<>> /\ owed' = NoSocket
    /\ \/ /\ status_' = "kBroken" /\ fd_' = NoSocket
          /\ UNCHANGED <<socket, re, reconnect_timer_>>
       \/ \E s \in Sockets \ Made, what \in {"connecting", "up"} :
            /\ \A t \in Sockets : t < s => t \in Made
            /\ socket' = [socket EXCEPT ![s] = what]
            /\ fd_' = s /\ status_' = "kConnecting"
            /\ reconnect_timer_' = FALSE
            /\ re' = [at |-> "register", s |-> s]
    /\ UNCHANGED <<is_buzy_, watched, outbuf_, inbuf_, parserVars, sequenceVars, beats, phase, io,
                   configVars, history>>

(* RegisterAddModr, which may fail: the socket is closed. *)
Register ==
    /\ re.at = "register"
    /\ \/ /\ watched' = watched \cup {re.s}
          /\ \E at \in {"wait", "rest"} : re' = IF at = "rest" THEN Rest ELSE [re EXCEPT !.at = at]
          /\ UNCHANGED <<status_, socket, reconnect_timer_>>
       \/ /\ socket' = [socket EXCEPT ![re.s] = "closed"]
          /\ status_' = "kBroken" /\ reconnect_timer_' = TRUE /\ re' = Rest
          /\ UNCHANGED watched
    /\ UNCHANGED <<is_buzy_, fd_, bufferVars, parserVars, sequenceVars, beats, phase, io, configVars,
                   history>>

(* IsConnected: at most 180 ms. *)
WaitConnected ==
    /\ re.at = "wait"
    /\ \/ /\ Now \in {"up", "fin"}
          /\ re' = [re EXCEPT !.at = "set"]
       \/ /\ Now \in {"none", "connecting", "refused", "shut", "closed"}
          /\ re' = Rest
    /\ UNCHANGED <<status_, is_buzy_, fd_, socket, watched, bufferVars, parserVars, sequenceVars,
                   timerVars, phase, io, configVars, history>>

(* ... and then sets the status, whatever the IO thread has done with the  *)
(* connection since. *)
SetConnected ==
    /\ re.at = "set"
    /\ status_' = "kConnected" /\ re' = Rest
    /\ overtaken' = (overtaken \/ fd_ # re.s)
    /\ UNCHANGED <<is_buzy_, fd_, socket, watched, bufferVars, parserVars, sequenceVars, timerVars,
                   phase, io, configVars, damaged, robbed>>

(* OnHeartBeat: EncodeMsg up to Put, on this thread ...  Redis cannot      *)
(* encode a heartbeat.  Bound: one heartbeat is under way at a time.       *)
BeatEncode ==
    /\ re = Rest /\ beats > 0
    /\ HB \notin Entries(outbuf_ \o inbuf_ \o wire \o back \o sync_list_ \o <<owed>> \o msgs_)
    /\ beats' = beats - 1
    /\ IF status_ = "kConnected" /\ protocol = "http"
       THEN outbuf_' = Append(outbuf_, HB) /\ re' = [Rest EXCEPT !.at = "put"] /\ UNCHANGED is_buzy_
       ELSE is_buzy_' = FALSE /\ re' = [Rest EXCEPT !.at = "write"] /\ UNCHANGED outbuf_
    /\ UNCHANGED <<socketVars, inbuf_, wire, back, owed, parserVars, sequenceVars, reconnect_timer_,
                   phase, io, configVars, history>>

(* ... Put ... *)
BeatPut ==
    /\ re.at = "put"
    /\ sync_list_' = Append(sync_list_, HB) /\ timed' = timed \cup {HB}
    /\ re' = [Rest EXCEPT !.at = "write"]
    /\ UNCHANGED <<is_buzy_, socketVars, bufferVars, parserVars, timerVars, phase, io, configVars,
                   history>>

(* ... OnWrite, and the next heartbeat timer. *)
BeatWrite ==
    /\ re.at = "write"
    /\ re' = Rest
    /\ \/ /\ status_ = "kConnecting" /\ OnConnectWrite
       \/ /\ status_ # "kConnecting" /\ beats' = BeatsAfter(1)
          /\ WriteOut /\ UNCHANGED <<status_, watched>>
    /\ UNCHANGED <<is_buzy_, parserVars, sequenceVars, reconnect_timer_, phase, io, configVars,
                   overtaken, robbed>>

----------------------------------------------------------------------------
(* External: the peer answers in order, or ends the connection.            *)

Answer ==
    /\ wire # <<>> /\ Now = "up"
    /\ back' = Append(back, Head(wire)) /\ wire' = Tail(wire)
    /\ UNCHANGED <<is_buzy_, socketVars, outbuf_, inbuf_, owed, parserVars, sequenceVars, timerVars,
                   phase, io, re, configVars, history>>

Peer(s) ==
    /\ \/ /\ socket[s] = "connecting"
          /\ \E what \in {"up", "refused"} : socket' = [socket EXCEPT ![s] = what]
       \/ /\ socket[s] = "up" /\ socket' = [socket EXCEPT ![s] = "fin"]
    /\ UNCHANGED <<status_, is_buzy_, fd_, watched, bufferVars, parserVars, sequenceVars, timerVars,
                   phase, io, re, configVars, history>>

IoStep ==
    \/ Put \/ Read \/ HangUpEvent
    \/ \E r \in Req : Encode(r)
    \/ \E m \in Req \cup {HB} : TimeOut(m)

ReconnectStep ==
    \/ TryConnect \/ Register \/ WaitConnected \/ SetConnected
    \/ BeatEncode \/ BeatPut \/ BeatWrite

ClientNext ==
    \/ \E r \in Req : Send(r) \/ Overload(r)
    \/ IoStep \/ ReconnectStep \/ Answer
    \/ \E m \in Req \cup {HB} : RobTimer(m)
    \/ \E s \in Sockets : Peer(s)

ClientSpec == ClientInit /\ [][ClientNext]_clientVars

(* Every turn of the IO loop runs the timers that are due and the whole    *)
(* queue; the reconnect thread goes on.                                    *)
ClientFairness ==
    /\ WF_clientVars(IoStep) /\ WF_clientVars(ReconnectStep)
    /\ \A r \in Req : SF_clientVars(Encode(r)) /\ SF_clientVars(TimeOut(r))

ClientFairSpec == ClientSpec /\ ClientFairness

----------------------------------------------------------------------------
(* Properties.                                                             *)

(* The reconnect thread has kept away from the connection: no heartbeats,  *)
(* and no status set after the IO thread had given the socket up.          *)
Undisturbed == heartbeat_ms_ = 0 /\ ~overtaken

(* Each message is made of one answer: the protocol finds where an answer  *)
(* ends, or no two are under way.                                          *)
OneAnswerEach == ~damaged /\ (single \/ protocol = "http")

(* Nothing but the order tells which answer belongs to which request,      *)
(* while connections break, requests time out and the list is cleared by   *)
(* another thread than the one that connects.  No request is given the     *)
(* answer to another, if every request was sent whole, every answer read   *)
(* whole and understood, and, of redis, there is one request at a time.    *)
(* (Redis makes one message of two answers; what is left of an answer is   *)
(* taken for the next; a new connection does not reset http's parser.      *)
(* Heartbeats are put into the same buffer and list by the reconnect       *)
(* thread.  A client that is called connected without a socket encodes     *)
(* requests that the next connection sends, after they have timed out.)    *)
AnswersMatch == Undisturbed /\ OneAnswerEach => \A r \in Req : phase[r] # "mismatched"

(* "Only for sending one and receiving one" (net/sync_client_connect.h:31):*)
(* a single client has one request under way, as long as every answer is   *)
(* read whole and understood: DecodeMsg frees the client after any read.   *)
(* (When a heartbeat times out, it is freed too.)                          *)
OneOutstanding ==
    single /\ ~damaged /\ Undisturbed =>
        Cardinality({i \in DOMAIN sync_list_ : sync_list_[i] # HB}) <= 1

(* The reconnect thread overwrites fd_ without looking at it: no socket    *)
(* that is still open is lost that way, whatever was read from it.         *)
NoSocketLost == Undisturbed => \A s \in Sockets : InUse(s) => s = fd_

(* What three threads may rely on about one connection.                    *)
ClientInv == AnswersMatch /\ OneOutstanding /\ NoSocketLost

(* Every request handed to the IO thread comes back, with an answer or as  *)
(* failed, whatever happens to the connection and whatever is read from    *)
(* it, unless a connection that timed out on the same thread has taken its *)
(* timer.                                                                  *)
RequestsReleased ==
    \A r \in Req :
        [](phase[r] = "queued" => <>(phase[r] \notin {"queued", "sent"} \/ r \in robbed))

(* "Starts a thread that sends heartbeats and reconnects the clients"      *)
(* (net/client_reconnect_thread.h:11): a broken client is tried again.     *)
BrokenIsRetried == [](status_ = "kBroken" => <>(reconnect_timer_ \/ status_ # "kBroken"))

=============================================================================
