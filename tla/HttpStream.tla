------------------------------ MODULE HttpStream ------------------------------
(***************************************************************************)
(* HTTP messages over one direction of a server's connection: what         *)
(* protocol/http writes for a message and what it makes of the pieces that *)
(* OnRead gives it: the vendored parser (third/http_parser.c) piece by     *)
(* piece, the callbacks of http_helper.cpp, Decode of http_protocol.cpp and *)
(* net/connect's DecodeMsg, which calls it.  Messages are HTTP/1.1, chunked *)
(* ones without trailers.                                                  *)
(*                                                                         *)
(* Text is a sequence of pieces, each with what it "is" and its value: the *)
(* start line, the name and the value of a header, the empty line, the     *)
(* size line of a chunk, a piece of a body.                                *)
(***************************************************************************)
EXTENDS Integers, Sequences, TLC

CONSTANTS
    Stream,         \* what peers send: sequences of texts, each a sequence of pieces
    MaxParse,       \* 1024 * 1024: what one call of the parser is given
    MaxChunk        \* what arrives between two calls of OnRead

ASSUME HttpAssumption == MaxParse \in Nat \ {0} /\ MaxChunk \in Nat \ {0}

Token(is, v) == [is |-> is, v |-> v]
Lengths == 0 .. 9
Favicon == "/favicon.ico"

----------------------------------------------------------------------------
(* Writing a message: a record of direction ("request" or "response"),     *)
(* major, minor, start (the url or the status), keep_alive, headers (pairs *)
(* of a name and a value) and body.                                        *)

(* tolower of the header names that the code and its handlers use. *)
ToLower(name) ==
    CASE name = "Content-Length" -> "content-length"
      [] name = "Connection" -> "connection"
      [] name = "Content-Type" -> "content-type"
      [] name = "LoadAvg" -> "loadavg"
      [] OTHER -> name

GetHeaderStr(headers) ==
    [i \in 1 .. 2 * Len(headers) |->
        LET header == headers[(i + 1) \div 2] IN
        IF i % 2 = 1 THEN Token("field", ToLower(header[1])) ELSE Token("value", header[2])]

GetHeader(msg, name) == \E i \in DOMAIN msg.headers : msg.headers[i][1] = name

Header(name, value) == <<Token("field", name), Token("value", value)>>

(* What WirteToBuf appends to the buffer.  The names that were set by the  *)
(* handler are looked up as they are, and written in lower case. *)
Written(msg) ==
    <<Token(msg.direction, msg.start)>> \o GetHeaderStr(msg.headers)
    \o (IF GetHeader(msg, "Content-Length") \/ msg.body = <<>> THEN <<>>
        ELSE Header("Content-Length", ToString(Len(msg.body))))
    \o (IF GetHeader(msg, "Connection") THEN <<>>
        ELSE Header("Connection", IF msg.keep_alive THEN "keep-alive" ELSE "close"))
    \o <<Token("end", "")>> \o [i \in DOMAIN msg.body |-> Token("body", msg.body[i])]

(* Encode: nothing for a version it does not know. *)
EncodeHttp(msg) == IF msg.major = 1 /\ msg.minor \in {0, 1} THEN Written(msg) ELSE <<>>

(* The message that Encode makes of a heartbeat. *)
HeartBeat(direction, load_avg) ==
    [direction |-> direction, major |-> 1, minor |-> 1, keep_alive |-> TRUE,
     start |-> IF direction = "response" THEN "200" ELSE Favicon,
     headers |-> (IF direction = "response" THEN <<<<"Content-Type", "image/x-icon">>>> ELSE <<>>)
                 \o <<<<"LoadAvg", load_avg>>>>,
     body |-> IF direction = "response" THEN <<"icon">> ELSE <<>>]

----------------------------------------------------------------------------
(* Reading.  The agent is the parser ("is": what it takes; "at":           *)
(* what it expects; "left": of the body or chunk; flags; upgrade; "error"), *)
(* http_request_ and msgs_.                                                *)

NoRequest == [start |-> "", headers |-> <<>>, new_field |-> "", body |-> <<>>]

NewAgent == [is |-> "both", at |-> "start", left |-> 0, flags |-> {}, error |-> FALSE,
             upgrade |-> FALSE, request |-> NoRequest, is_parsed_complete |-> FALSE,
             msgs |-> <<>>]

Number(text) == CHOOSE n \in Lengths : ToString(n) = text

(* http_message_needs_eof: an answer that does not say how long it is. *)
NeedsEof(agent) ==
    /\ agent.is = "response" /\ agent.request.start \notin {"100", "204", "304"}
    /\ agent.flags \cap {"chunked", "length"} = {}

KeepsAlive(agent) == "close" \notin agent.flags /\ ~NeedsEof(agent)

OnMessageComplete(agent) ==
    [agent EXCEPT !.msgs = Append(@, [start |-> agent.request.start,
                                      headers |-> agent.request.headers,
                                      body |-> agent.request.body]),
                  !.request = NoRequest, !.is_parsed_complete = TRUE,
                  !.at = IF KeepsAlive(agent) THEN "start" ELSE "dead"]

(* OnMessageBegin and OnUrl (or the status). *)
OnStart(agent, piece) ==
    [NewAgent EXCEPT !.msgs = agent.msgs, !.is = piece.is, !.at = "headers",
                     !.request.start = piece.v]

OnHeaderField(agent, piece) == [agent EXCEPT !.request.new_field = piece.v]

(* The parser looks at four headers itself ... *)
Flagged(agent, name, value) ==
    CASE name = "content-length" /\ "length" \in agent.flags -> [agent EXCEPT !.error = TRUE]
      [] name = "content-length" /\ "length" \notin agent.flags ->
            [agent EXCEPT !.left = Number(value), !.flags = @ \cup {"length"}]
      [] name \in {"connection", "transfer-encoding"} -> [agent EXCEPT !.flags = @ \cup {value}]
      [] name = "upgrade" -> [agent EXCEPT !.flags = @ \cup {"other protocol"}]
      [] OTHER -> agent

(* ... and headers[new_field] = value. *)
OnHeaderValue(agent, piece) ==
    LET name == agent.request.new_field
        others == SelectSeq(agent.request.headers, LAMBDA header : header[1] # name) IN
    [Flagged(agent, ToLower(name), piece.v) EXCEPT !.request.headers =
        Append(others, <<name, piece.v>>)]

(* The empty line.  A message without a body is complete, except one that  *)
(* ends with the connection. *)
OnHeadersComplete(agent) ==
    LET read == [agent EXCEPT !.upgrade = {"upgrade", "other protocol"} \subseteq agent.flags] IN
    CASE {"chunked", "length"} \subseteq agent.flags -> [agent EXCEPT !.error = TRUE]
      [] "chunked" \in agent.flags /\ "length" \notin agent.flags -> [read EXCEPT !.at = "size"]
      [] "chunked" \notin agent.flags /\ agent.left > 0 -> [read EXCEPT !.at = "body"]
      [] NeedsEof(agent) -> [read EXCEPT !.at = "eof"]
      [] OTHER -> OnMessageComplete(read)

(* Slip: each piece of a body takes the place of the one before. *)
OnBodyAssigns(agent, piece) == [agent EXCEPT !.request.body = <<piece.v>>]

OnBody(agent, piece) == [agent EXCEPT !.request.body = Append(@, piece.v)]

(* One piece less to come; one that ends with the connection has no end. *)
AfterBody(agent) ==
    CASE agent.at = "eof" -> agent
      [] agent.at # "eof" /\ agent.left > 1 -> [agent EXCEPT !.left = @ - 1]
      [] agent.at # "eof" /\ agent.left <= 1 ->
            IF "chunked" \in agent.flags THEN [agent EXCEPT !.left = 0, !.at = "size"]
            ELSE OnMessageComplete(agent)

OnChunkSize(agent, piece) ==
    IF piece.v = "0" THEN OnMessageComplete(agent)
    ELSE [agent EXCEPT !.at = "body", !.left = Number(piece.v)]

(* http_parser_execute of one piece: a piece that is not what the parser   *)
(* expects is an error, and every call after that is one too. *)
Feed(agent, piece) ==
    CASE /\ ~agent.error /\ agent.at = "start" /\ piece.is \in {"request", "response"}
         /\ agent.is \in {"both", piece.is} ->
            OnStart(agent, piece)
      [] ~agent.error /\ agent.at = "headers" /\ piece.is = "field" -> OnHeaderField(agent, piece)
      [] ~agent.error /\ agent.at = "headers" /\ piece.is = "value" -> OnHeaderValue(agent, piece)
      [] ~agent.error /\ agent.at = "headers" /\ piece.is = "end" -> OnHeadersComplete(agent)
      [] ~agent.error /\ agent.at = "size" /\ piece.is = "size" -> OnChunkSize(agent, piece)
      [] ~agent.error /\ (agent.at = "eof" \/ (agent.at = "body" /\ piece.is = "body")) ->
            AfterBody(OnBody(agent, piece))
      [] OTHER -> [agent EXCEPT !.error = TRUE]

HttpParseRequest(agent, text) ==
    LET fed[i \in 0 .. Len(text)] == IF i = 0 THEN agent ELSE Feed(fed[i - 1], text[i]) IN
    fed[Len(text)]

----------------------------------------------------------------------------
(* The connection.                                                         *)

VARIABLES
    sent,       \* a stream
    arriving,   \* what the peer has still to send
    inbuf_, agent_,
    handed,     \* the messages given to OnDecodeMessage
    shut        \* OnReadWriteClose

httpVars == <<sent, arriving, inbuf_, agent_, handed, shut>>

Flattened(texts) ==
    LET upto[k \in 0 .. Len(texts)] == IF k = 0 THEN <<>> ELSE upto[k - 1] \o texts[k] IN
    upto[Len(texts)]

Rest(text, n) == SubSeq(text, n + 1, Len(text))

HttpInit ==
    /\ sent \in Stream /\ arriving = Flattened(sent) /\ inbuf_ = <<>> /\ agent_ = NewAgent
    /\ handed = <<>> /\ shut = FALSE

(* Decode when msgs_ is empty and there is something to read: the rest of  *)
(* the buffer, the agent, and "failed".  What was parsed is drained, unless *)
(* the last message is not complete (256 K of it are drained all the same, *)
(* to the same end: the connection has failed). *)
ParseOnce(buffer, agent) ==
    LET size == IF Len(buffer) > MaxParse THEN MaxParse ELSE Len(buffer)
        parsed == HttpParseRequest(agent, SubSeq(buffer, 1, size)) IN
    IF parsed.upgrade \/ parsed.error
    THEN [rest |-> Rest(buffer, size), agent |-> parsed, failed |-> TRUE]
    ELSE [rest |-> IF parsed.is_parsed_complete THEN Rest(buffer, size) ELSE buffer,
          agent |-> parsed, failed |-> ~parsed.is_parsed_complete]

(* What Decode makes of a message: one for the icon is a heartbeat. *)
Kind(msg) == IF msg.start = Favicon THEN "heartbeat" ELSE "http"

(* DecodeMsg: Decode until it fails or has no message.  Messages come out  *)
(* of msgs_ first; once it has failed, the first of them is destroyed and  *)
(* the others stay.  A call that does not fail drains all it was given. *)
DecodeMsg(buffer, agent) ==
    LET calls == (Len(buffer) + MaxParse - 1) \div MaxParse
        decode[n \in 0 .. calls] ==
            LET before == IF n = 0 THEN [rest |-> buffer, agent |-> agent, failed |-> FALSE,
                                         out |-> <<>>]
                          ELSE decode[n - 1] IN
            IF before.failed \/ before.rest = <<>> THEN before
            ELSE LET once == ParseOnce(before.rest, before.agent) IN
                 [rest |-> once.rest, failed |-> once.failed,
                  agent |-> IF once.failed THEN once.agent ELSE [once.agent EXCEPT !.msgs = <<>>],
                  out |-> IF once.failed THEN before.out ELSE before.out \o once.agent.msgs] IN
    decode[calls]

(* OnRead of the next n pieces. *)
OnReadHttp(n) ==
    LET result == DecodeMsg(inbuf_ \o SubSeq(arriving, 1, n), agent_) IN
    /\ ~shut /\ n \in 1 .. Len(arriving)
    /\ arriving' = Rest(arriving, n)
    /\ inbuf_' = result.rest
    /\ agent_' = result.agent
    /\ handed' = handed \o [i \in DOMAIN result.out |->
                                [kind |-> Kind(result.out[i]), msg |-> result.out[i]]]
    /\ shut' = result.failed
    /\ UNCHANGED sent

HttpNext == \E n \in 1 .. MaxChunk : OnReadHttp(n)

HttpSpec == HttpInit /\ [][HttpNext]_httpVars

----------------------------------------------------------------------------
(* Properties.                                                             *)

(* What a text says: its start, its headers and all of its body. *)
Values(text, is) == LET its == SelectSeq(text, LAMBDA p : p.is = is) IN
                    [i \in DOMAIN its |-> its[i].v]
Meaning(text) ==
    [start |-> text[1].v, body |-> Values(text, "body"),
     headers |-> [i \in DOMAIN Values(text, "field") |->
                    <<Values(text, "field")[i], Values(text, "value")[i]>>]]

ReadSoFar == Len(Flattened(sent)) - Len(arriving)

(* However the bytes of a connection are cut into reads, and whatever      *)
(* messages are in one read, what the handlers are given is the messages   *)
(* that were sent, whole, once each and in order; and as long as the       *)
(* connection is not given up, nothing that was read is still owed to      *)
(* them. *)
HttpReadAsSent ==
    /\ Len(handed) <= Len(sent)
    /\ \A i \in DOMAIN handed : handed[i].msg = Meaning(sent[i])
    /\ ~shut => ReadSoFar = Len(Flattened(SubSeq(sent, 1, Len(handed))))
=============================================================================
