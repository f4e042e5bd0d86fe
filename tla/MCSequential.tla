---------------------------- MODULE MCSequential ----------------------------
(***************************************************************************)
(* The parts of the program that run on one thread at a time, in one run:  *)
(* the heap with its loops, the byte buffer, the streams of frames and of  *)
(* HTTP messages, the ini files, and the pure functions, whose inputs grow *)
(* step by step.  The first state says which part moves; the others stay   *)
(* where they began.                                                       *)
(***************************************************************************)
EXTENDS HeapLoops, Buffer, RapidStream, HttpStream, IniFile, HttpUtil, RedisCodec, Socket,
        MatrixStat

CONSTANT SmallHeap      \* bound: the container's size while any call may follow any other

VARIABLES
    part,
    called_,            \* the heap's calls other than Insert are over
    input               \* of what, and the input

seqVars == <<part, called_, input, vars, bufferState, streamVars, httpVars, iniVars>>

(* What the functions are given. *)
Base(of) ==
    CASE of = "bytes" -> {<<>>} \cup {[i \in 1 .. n |-> (37 * i) % 256] : n \in {19, 48, 109}}
      [] of = "command" -> {<<>>}
      [] of = "reply" -> Replies({<<97>>, <<80, 79, 78, 71>>},
                                 {<<97>>, <<13, 10>>, <<80, 79, 78, 71>>, <<49, 50>>})
      [] of = "pairs" -> {<<>>}
      [] of = "domain" -> {<<97>>}
      [] of = "kernel" -> {<<>>}
      [] of = "fails" -> SUBSET {"socket", "fcntl", "reuseaddr", "nodelay", "linger",
                                 "inet_aton", "bind", "listen", "accept"}
      [] of = "times" -> {<<>>}

Functions_ == {"bytes", "command", "reply", "pairs", "domain", "kernel", "fails", "times"}

Word == {<<>>} \cup {<<b>> : b \in {97, 38, 61, 63, 47, 32, 37}}

Longer(of, is) ==
    CASE of = "bytes" -> IF Len(is) >= 5 THEN {} ELSE {Append(is, b) : b \in {0, 37, 43, 97, 255}}
      [] of = "command" -> IF Len(is) = 4 THEN {} ELSE {Append(is, b) : b \in {1, 97, 98}}
      [] of = "pairs" -> IF Len(is) = 2 THEN {} ELSE {Append(is, <<k, v>>) : k, v \in Word}
      [] of = "domain" -> IF Len(is) >= 9 THEN {}
                          ELSE {is \o label : label \in {<<46>>, <<97>>, <<99, 111, 109>>}}
      [] of = "kernel" -> IF Len(is) = 3 THEN {} ELSE {Append(is, n) : n \in {-2, -1, 0, 1, 2, 3}}
      [] of = "times" -> IF Len(is) = 4 THEN {} ELSE {Append(is, t) : t \in 0 .. 6}
      [] OTHER -> {}

Nothing == [of |-> "nothing"]

SeqInit ==
    /\ part \in {"heap", "deep", "input", "buffer", "stream", "http", "ini"}
    /\ called_ = FALSE
    /\ IF part = "input"
       THEN \E of \in Functions_ : \E is \in Base(of) : input = [of |-> of, is |-> is]
       ELSE input = Nothing
    /\ Init /\ BufferInit /\ StreamInit /\ HttpInit /\ IniInit
    /\ part # "ini" => file = CHOOSE lines \in File : TRUE
    /\ part # "http" => sent = CHOOSE texts \in Stream : TRUE

(* Any calls on a small heap; on a deep one Inserts, and then one call     *)
(* more.  A heap of three levels is needed for an Erase whose replacement  *)
(* has to rise: it comes from the other side of the tree.                  *)
HeapStep ==
    \/ /\ part = "heap" /\ Next /\ size_container_' <= SmallHeap /\ UNCHANGED called_
    \/ /\ part = "deep"
       /\ \/ Sift /\ UNCHANGED called_
          \/ ~called_ /\ (\E k \in Key : Insert(k)) /\ UNCHANGED called_
          \/ ~called_ /\ Call /\ called_' = TRUE

SeqNext ==
    /\ part' = part
    /\ \/ /\ HeapStep
          /\ UNCHANGED <<input, bufferState, streamVars, httpVars, iniVars>>
       \/ /\ part = "input" /\ \E is \in Longer(input.of, input.is) : input' = [input EXCEPT !.is = is]
          /\ UNCHANGED <<called_, vars, bufferState, streamVars, httpVars, iniVars>>
       \/ /\ part = "buffer" /\ BufferNext
          /\ UNCHANGED <<called_, input, vars, streamVars, httpVars, iniVars>>
       \/ /\ part = "stream" /\ StreamNext
          /\ UNCHANGED <<called_, input, vars, bufferState, httpVars, iniVars>>
       \/ /\ part = "http" /\ HttpNext
          /\ UNCHANGED <<called_, input, vars, bufferState, streamVars, iniVars>>
       \/ /\ part = "ini" /\ IniNext
          /\ UNCHANGED <<called_, input, vars, bufferState, streamVars, httpVars>>

SeqSpec == SeqInit /\ [][SeqNext]_seqVars /\ WF_vars(part \in {"heap", "deep"} /\ Sift)

----------------------------------------------------------------------------
Given(of) == IF input.of = of THEN {input.is} ELSE {}

(* What common/string_util.h and protocol/http/http_util.cpp encode, join  *)
(* or cut is what they decode, split or read of it, for every text.        *)
TextReadsBack ==
    /\ \A bytes \in Given("bytes") :
          SplitsBack(bytes, 37) /\ \A n \in (0 .. 10) \cup {64, 600} : Inverts(bytes, n)
    /\ \A pairs \in Given("pairs"), host \in {<<>>, <<97>>},
          path \in {<<47>>, <<47, 99>>, <<47, 97, 47, 98>>} : UrlReadsBack(host, path, pairs)
    /\ \A domain \in Given("domain") : DomainHasRoot(domain, <<98>>)

(* A redis reply ends where its length says, whatever follows, and a       *)
(* command is one array of its words (protocol/redis).                     *)
RedisReadsBack ==
    /\ \A reply \in Given("reply"), rest \in {<<>>, <<36>>, <<10>>, <<13, 10>>} :
          RepliesDelimit(reply, rest)
    /\ \A command \in Given("command") : CommandsReadBack(command, <<97, 1, 98, 98>>)

(* No call of net/socket.cpp loses a descriptor when one of its system     *)
(* calls fails, and none loses a byte when the kernel takes a part.        *)
SocketsKeepPromises ==
    /\ \A fails \in Given("fails"), answer \in {"connected", "in progress", "refused"} :
          NoDescriptorLost(fails, 3, <<answer>>)
    /\ \A kernel \in Given("kernel") : TransferIsPrefix(<<1, 2, 3, 4, 5>>, kernel \o <<1, 2, -1>>)

(* GetTimeDistribute gives the bucket of the value of the rank asked for   *)
(* (monitor/matrix_stat.cpp).                                              *)
PercentileIsRank ==
    \A times \in Given("times"), percent \in {0, 25, 50, 90, 100} :
        LET stat == FoldLeft(LAMBDA s, t : TimeDistribute(s, "", t), NewStat(FALSE), times) IN
        times # <<>> => PercentileIsRankOf(stat, times, percent)

----------------------------------------------------------------------------
(* Values of the constants.                                                *)
FrameSizes == <<3, 2, 4, 2, 3>>
Writes == {<<1>>, <<2, 1>>, <<2, 1, 1>>}

Message(direction, start, headers, body, alive) ==
    [direction |-> direction, major |-> 1, minor |-> 1, start |-> start, keep_alive |-> alive,
     headers |-> headers, body |-> body]
Chunked(direction, start) ==
    <<Token(direction, start), Token("field", "transfer-encoding"), Token("value", "chunked"),
      Token("end", ""), Token("size", "1"), Token("body", "x"), Token("size", "2"),
      Token("body", "y"), Token("body", "x"), Token("size", "0")>>
Requests ==
    <<EncodeHttp(Message("request", "/a", <<<<"Content-Type", "t">>>>, <<"x", "y">>, TRUE)),
      EncodeHttp(HeartBeat("request", "1")), Chunked("request", "/c"),
      EncodeHttp(Message("request", "/a", <<>>, <<>>, FALSE))>>
Answers ==
    <<EncodeHttp(Message("response", "200", <<<<"Content-Type", "t">>>>, <<"x">>, TRUE)),
      EncodeHttp(HeartBeat("response", "1")), Chunked("response", "200"),
      EncodeHttp(Message("response", "304", <<>>, <<>>, TRUE)),
      EncodeHttp(Message("response", "200", <<>>, <<"x", "y">>, FALSE))>>
Streams == {Requests, Answers}

Line(name) == [kind |-> "section", name |-> name]
Pair(key, value) == [kind |-> "pair", key |-> key, value |-> value]
Remark == [kind |-> "comment", text |-> "#"]
Other == [kind |-> "other"]
Files ==
    {<<Remark, Line(1), Pair(1, 2), Line(2), Remark, Pair(1, 1), Pair(1, 2), Remark, Line(1),
       Pair(2, 1)>>,
     <<Remark, Pair(1, 1), Line(1), Other, Pair(2, 2)>>,
     <<Line(1), Pair(1, 1), Pair(1, 2), Line(2), Other>>,
     <<Line(2), Remark, Other, Pair(1, 1), Remark, Remark>>}
Comments == {<<"#">>, <<"x">>}
=============================================================================
