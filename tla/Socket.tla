-------------------------------- MODULE Socket --------------------------------
(***************************************************************************)
(* The socket calls of net/socket.cpp over the kernel's.  A call is an     *)
(* operator of what the kernel will answer: "fails" is the set of the      *)
(* system calls that fail, "fd" the descriptor that the kernel would open, *)
(* "kernel" the results of the reads or writes that follow each other: a    *)
(* number of bytes, 0, Again (EAGAIN, EINTR) or Error.  The result has what *)
(* the call returns, and the descriptors it leaves open or the bytes that   *)
(* have gone through.                                                      *)
(***************************************************************************)
EXTENDS Integers, Sequences, SequencesExt

Again == -1
Error == -2

Step == {"fcntl", "reuseaddr", "nodelay", "linger"}

(* Slip: a socket that refuses an option is left. *)
CreateSocketLeaves(fails, fd) ==
    IF "socket" \in fails THEN [ret |-> -1, open |-> {}]
    ELSE IF fails \cap Step # {} THEN [ret |-> -2, open |-> {fd}]
    ELSE [ret |-> fd, open |-> {fd}]

(* CreateSocket(true): the options one by one; the first that fails closes *)
(* the socket (-2 to -5; the callers test the sign). *)
CreateSocket(fails, fd) ==
    IF "socket" \in fails THEN [ret |-> -1, open |-> {}]
    ELSE IF fails \cap Step # {} THEN [ret |-> -2, open |-> {}]
    ELSE [ret |-> fd, open |-> {fd}]

(* Listen(addr, port, backlog). *)
Listen(fails, fd) ==
    LET socket == CreateSocket(fails, fd) IN
    IF "inet_aton" \in fails THEN [ret |-> -1, open |-> {}]
    ELSE IF socket.ret < 0 THEN [socket EXCEPT !.ret = -2]
    ELSE IF fails \cap {"bind", "listen"} # {} THEN [ret |-> -3, open |-> {}]
    ELSE socket

(* Accept: an accepted socket that cannot be made non-blocking is not       *)
(* closed; that TCP_NODELAY fails is logged. *)
Accept(fails, fd) ==
    IF "accept" \in fails THEN [ret |-> -1, open |-> {}]
    ELSE IF "fcntl" \in fails THEN [ret |-> -2, open |-> {fd}]
    ELSE [ret |-> fd, open |-> {fd}]

(* Accept4 sets the flags with the call. *)
Accept4(fails, fd) ==
    IF "accept" \in fails THEN [ret |-> -1, open |-> {}] ELSE [ret |-> fd, open |-> {fd}]

(* Connect: whether it is connected, and the descriptor; "connects" are the *)
(* answers of connect(), the last of them not an interruption.  A name that *)
(* does not resolve leaves INADDR_ANY as the address. *)
Connect(fails, fd, connects) ==
    LET socket == CreateSocket(fails, fd)
        answer == connects[Len(connects)] IN
    IF "inet_aton" \in fails THEN [ret |-> -1, connected |-> FALSE, open |-> {}]
    ELSE IF socket.ret < 0 THEN [ret |-> -1, connected |-> TRUE, open |-> socket.open]
    ELSE CASE answer = "connected" -> [ret |-> fd, connected |-> TRUE, open |-> {fd}]
           [] answer = "in progress" -> [ret |-> fd, connected |-> FALSE, open |-> {fd}]
           [] answer = "refused" -> [ret |-> -1, connected |-> TRUE, open |-> {}]

----------------------------------------------------------------------------

Smaller(a, b) == IF a < b THEN a ELSE b

(* WriteNonBlock: to the end, until it would block, or until it fails. *)
WriteNonBlock(buf, kernel) ==
    LET count == Len(buf)
        from[k \in 1 .. Len(kernel), done \in 0 .. count] ==
            LET wrote == Smaller(kernel[k], count - done) IN
            IF kernel[k] > 0
            THEN IF done + wrote = count THEN [ret |-> count, wire |-> buf]
                 ELSE from[k + 1, done + wrote]
            ELSE [ret |-> IF kernel[k] = Error THEN -2 ELSE done, wire |-> SubSeq(buf, 1, done)] IN
    from[1, 0]

(* ReadNonBlock of at most count bytes of what the peer sent: the end of    *)
(* the stream is -3, whatever was read before it. *)
ReadNonBlock(sent, count, kernel) ==
    LET from[k \in 1 .. Len(kernel), done \in 0 .. count] ==
            LET read == Smaller(kernel[k], count - done) IN
            IF kernel[k] > 0
            THEN IF done + read = count THEN [ret |-> count, buf |-> SubSeq(sent, 1, count)]
                 ELSE from[k + 1, done + read]
            ELSE [ret |-> CASE kernel[k] = Again -> done [] kernel[k] = Error -> -2
                            [] OTHER -> -3,
                  buf |-> SubSeq(sent, 1, done)] IN
    from[1, 0]

(* The vectors a writev of n bytes has written whole. *)
WholeVectors(iov, n) ==
    LET whole == {p \in 0 .. Len(iov) : Len(FlattenSeq(SubSeq(iov, 1, p))) <= n} IN
    CHOOSE p \in whole : \A q \in whole : q <= p

(* What is left of them: those behind the ones written whole are moved to   *)
(* the front, and then the one at the place "pos_iov" among them, not the   *)
(* first, is shortened by what was written of the first. *)
RestOfVectors(iov, n) ==
    LET pos == WholeVectors(iov, n)
        part == n - Len(FlattenSeq(SubSeq(iov, 1, pos)))
        rest == SubSeq(iov, pos + 1, Len(iov)) IN
    [i \in DOMAIN rest |->
        IF i = pos + 1 THEN SubSeq(rest[i], part + 1, Len(rest[i])) ELSE rest[i]]

WriteVecNonBlock(iov, kernel) ==
    LET from[k \in 1 .. Len(kernel) + 1] ==
            IF k = 1 THEN [ret |-> 0, iov |-> iov, wire |-> <<>>, ended |-> FALSE]
            ELSE LET before == from[k - 1]
                     all == FlattenSeq(before.iov)
                     wrote == Smaller(kernel[k - 1], Len(all)) IN
                 IF before.ended THEN before
                 ELSE IF kernel[k - 1] > 0
                 THEN [ret |-> before.ret + wrote, wire |-> before.wire \o SubSeq(all, 1, wrote),
                       iov |-> RestOfVectors(before.iov, wrote), ended |-> wrote = Len(all)]
                 ELSE [before EXCEPT !.ended = TRUE,
                                     !.ret = IF kernel[k - 1] = Error THEN -2 ELSE @] IN
    from[Len(kernel) + 1]

----------------------------------------------------------------------------
(* A call that fails leaves no descriptor open, whichever of its system     *)
(* calls fails, and one that succeeds leaves the one that it returns        *)
(* (Accept is the exception, socket.cpp:108). *)
NoDescriptorLost(fails, fd, connects) ==
    /\ \A call \in {CreateSocket(fails, fd), Listen(fails, fd), Accept4(fails, fd)} :
          call.open = IF call.ret < 0 THEN {} ELSE {call.ret}
    /\ LET call == Connect(fails, fd, connects) IN
       call.open = IF call.ret < 0 THEN {} ELSE {call.ret}
    /\ Accept(fails, fd).ret # -2 =>
          Accept(fails, fd).open = Accept4(fails, fd).open

(* However the kernel cuts a transfer, the bytes that have gone through are *)
(* the first of the buffer, and their number is what the call returns; and *)
(* a vector of one piece goes out like a buffer (one of several that is cut *)
(* after its first piece does not, socket.cpp:228). *)
TransferIsPrefix(buf, kernel) ==
    \A call \in {WriteNonBlock(buf, kernel),
                 [ret |-> ReadNonBlock(buf, Len(buf), kernel).ret,
                  wire |-> ReadNonBlock(buf, Len(buf), kernel).buf],
                 [ret |-> WriteVecNonBlock(<<buf>>, kernel).ret,
                  wire |-> WriteVecNonBlock(<<buf>>, kernel).wire]} :
        IsPrefix(call.wire, buf) /\ (call.ret >= 0 => call.ret = Len(call.wire))
=============================================================================
