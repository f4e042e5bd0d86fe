---------------------------- MODULE RedisCodec ----------------------------
(***************************************************************************)
(* The Redis protocol as protocol/redis speaks it: RedisParser turns a     *)
(* command's words into a request and a reply's bytes into a body, and     *)
(* RedisProtocol takes whatever the input buffer holds as replies.         *)
(* Characters are their codes, a text a sequence of them.                  *)
(***************************************************************************)
EXTENDS Integers, Sequences, SequencesExt

kSep == 1
CR == 13
LF == 10
CRLF == <<CR, LF>>
Digit == 48 .. 57

Drop(s, n) == SubSeq(s, n + 1, Len(s))
CharAt(s, i) == IF i \in DOMAIN s THEN s[i] ELSE 0
EndsAt(s, i) == CharAt(s, i) = CR /\ CharAt(s, i + 1) = LF

(* Where the first line break from position i on begins; 0 without one. *)
Find(s, i) ==
    LET breaks == {b \in i .. Len(s) - 1 : EndsAt(s, b)}
    IN IF breaks = {} THEN 0 ELSE CHOOSE b \in breaks : \A c \in breaks : b <= c

(* strtoll from position i: the number there, and where it ends. *)
Strtoll(s, i) ==
    LET minus == CharAt(s, i) = 45
        first == IF minus THEN i + 1 ELSE i
        end == CHOOSE e \in first .. Len(s) + 1 :
                  /\ CharAt(s, e) \notin Digit
                  /\ \A k \in first .. e - 1 : s[k] \in Digit
        value == FoldLeft(LAMBDA n, c : n * 10 + (c - 48), 0, SubSeq(s, first, end - 1))
    IN [n |-> IF minus THEN -value ELSE value, end |-> end]

(* "%u" *)
Decimal(n) ==
    LET text[k \in Nat] == IF k < 10 THEN <<k + 48>>
                           ELSE Append(text[k \div 10], (k % 10) + 48)
    IN text[n]

----------------------------------------------------------------------------
Result(ret, read, out) == [ret |-> ret, read |-> read, out |-> out]

(* What follows the line with the length, which ends before head. *)
StringOf(line, head, len) ==
    LET from == len.end + 2 IN
    IF len.n > 0
    THEN IF len.n > Len(line) - head - 2 THEN Result(2, head, <<>>)
         ELSE IF EndsAt(line, from + len.n)
         THEN Result(0, head + len.n + 2, SubSeq(line, from, from + len.n - 1))
         ELSE Result(-1, head, <<>>)
    ELSE IF len.n = -1 THEN Result(1, head, <<>>)
    ELSE Result(-1, head, <<>>)

(* ParseSingleStr: ret is 0 for a string, 1 for the one that is not there  *)
(* (length -1), 2 if the rest has not come, -1 otherwise - which the empty *)
(* string is too.                                                          *)
ParseSingleStr(line) ==
    IF CharAt(line, 1) # 36 \/ Find(line, 2) = 0 THEN Result(-1, 0, <<>>)
    ELSE StringOf(line, Find(line, 2) + 1, Strtoll(line, 2))

(* Slip: a string of an array that is not there leaves no place. *)
WithElementSkips(r, one) ==
    CASE one.ret = 0 -> [r EXCEPT !.size = @ + one.read, !.out = @ \o <<kSep>> \o one.out]
      [] one.ret = 1 -> [r EXCEPT !.size = @ + one.read]
      [] one.ret = 2 -> [r EXCEPT !.ret = 1]
      [] OTHER -> [r EXCEPT !.ret = -1]

(* The next element of an array. *)
WithElement(r, one) ==
    CASE one.ret = 0 -> [r EXCEPT !.size = @ + one.read, !.out = @ \o <<kSep>> \o one.out]
      [] one.ret = 1 -> [r EXCEPT !.size = @ + one.read, !.out = @ \o <<kSep, 45, 49>>]
      [] one.ret = 2 -> [r EXCEPT !.ret = 1]
      [] OTHER -> [r EXCEPT !.ret = -1]

Ok(out, size) == [ret |-> 0, size |-> size, out |-> out]
Fail(ret) == [ret |-> ret, size |-> 0, out |-> <<>>]

StringReply(string) ==
    CASE string.ret = 0 -> Ok(<<49, kSep>> \o string.out, string.read)
      [] string.ret = 1 -> Ok(<<48>>, string.read)
      [] string.ret = 2 -> Fail(1)
      [] OTHER -> Fail(-1)

ArrayReply(array) == IF array.ret = 0 THEN Ok(array.out, array.size) ELSE Fail(array.ret)

(* The elements, one string after the other. *)
ParseElements(reply, size, text, number) ==
    IF number > 0
    THEN ArrayReply(FoldLeft(
            LAMBDA r, i : IF r.ret # 0 THEN r
                          ELSE WithElement(r, ParseSingleStr(Drop(reply, r.size))),
            [ret |-> 0, size |-> size, out |-> text], [i \in 1 .. number |-> i]))
    ELSE IF number = -1 THEN Ok(<<48>>, size) ELSE Fail(-1)

(* A reply whose first line has so many characters, the break included. *)
ReplyOf(reply, size) ==
    LET text == SubSeq(reply, 2, size - 2)
        kind == CharAt(reply, 1) IN
    CASE kind = 45 -> Ok(<<45, 49>>, size)
      [] kind = 43 -> Ok(<<48>>, size)
      [] kind = 58 -> Ok(<<49, kSep>> \o text, size)
      [] kind = 36 -> StringReply(ParseSingleStr(reply))
      [] kind = 42 -> ParseElements(reply, size, text, Strtoll(reply, 2).n)
      [] OTHER -> Fail(-1)

(* ParseReply: ret 0 with the body and the length of the reply, 1 if the   *)
(* rest is to come, -1 if it is no reply.                                  *)
ParseReply(reply) ==
    IF Find(reply, 1) = 0 THEN Fail(-1) ELSE ReplyOf(reply, Find(reply, 1) + 1)

(* Whether a reply is "+PONG". *)
IsPong(reply) ==
    SubSeq(reply, 1, 5) = <<43, 80, 79, 78, 71>> /\ Find(reply, 1) = 6

(* Decode: every reply the input holds goes into one message.  If one is   *)
(* no reply the whole input is thrown away; if one is not complete all is  *)
(* read again later.  A message that ends in a PONG is not passed on.      *)
Decode(input) ==
    LET Reply(one, at, rest) ==
            IF one.ret # 0 THEN [ret |-> one.ret, bodys |-> <<>>, pong |-> FALSE]
            ELSE [ret |-> rest[at + one.size].ret, bodys |-> <<one.out>> \o rest[at + one.size].bodys,
                  pong |-> IF at + one.size > Len(input) THEN IsPong(Drop(input, at - 1))
                           ELSE rest[at + one.size].pong]
        Message(all) ==
            IF input = <<>> \/ all.ret = 1 THEN [rest |-> input, bodys |-> <<>>]
            ELSE IF all.ret # 0 \/ all.pong THEN [rest |-> <<>>, bodys |-> <<>>]
            ELSE [rest |-> <<>>, bodys |-> all.bodys]
        from[i \in 1 .. Len(input) + 1] ==
            IF i > Len(input) THEN [ret |-> 0, bodys |-> <<>>, pong |-> FALSE]
            ELSE Reply(ParseReply(Drop(input, i - 1)), i, from)
    IN Message(from[1])

(* ParseCmd: the words of a command, between separators.  <<>> stands for  *)
(* a command it refuses: none, or one with an empty word before another.   *)
ParseCmd(in) ==
    LET seps == {i \in DOMAIN in : in[i] = kSep}
        trailing == seps # {} /\ Len(in) \in seps
        body == IF trailing THEN SubSeq(in, 1, Len(in) - 1) ELSE in
        starts == {0} \cup (seps \cap DOMAIN body)
        end(s) == CHOOSE e \in (seps \cap DOMAIN body) \cup {Len(body) + 1} :
                      e > s /\ \A f \in seps \cap DOMAIN body : f > s => e <= f
        word(s) == SubSeq(body, s + 1, end(s) - 1)
        order == SetToSortSeq(starts, <)
    IN IF in = <<>> \/ \E s \in starts : word(s) = <<>> THEN <<>>
       ELSE <<42>> \o Decimal(Len(order)) \o CRLF
            \o FlattenSeq([i \in DOMAIN order |->
                   <<36>> \o Decimal(Len(word(order[i]))) \o CRLF \o word(order[i]) \o CRLF])

(* Encode: all the commands of a message, or none if one is refused. *)
Encode(bodys) ==
    IF bodys = <<>> \/ \E i \in DOMAIN bodys : ParseCmd(bodys[i]) = <<>> THEN <<>>
    ELSE FlattenSeq([i \in DOMAIN bodys |-> ParseCmd(bodys[i])])

----------------------------------------------------------------------------
(* Replies a server sends: [text, and the body it stands for].  A line     *)
(* holds no line break, a string may.                                      *)
Bulk(s) == <<36>> \o Decimal(Len(s)) \o CRLF \o s \o CRLF
Replies(lines, words) ==
    {[text |-> <<43>> \o w \o CRLF, body |-> <<48>>] : w \in lines}
    \cup {[text |-> <<45>> \o w \o CRLF, body |-> <<45, 49>>] : w \in lines}
    \cup {[text |-> <<58>> \o Decimal(n) \o CRLF, body |-> <<49, kSep>> \o Decimal(n)] : n \in {0, 12}}
    \cup {[text |-> Bulk(w), body |-> <<49, kSep>> \o w] : w \in words}
    \cup {[text |-> <<36, 45, 49>> \o CRLF, body |-> <<48>>]}
    \cup {[text |-> <<42, 50>> \o CRLF \o Bulk(w) \o Bulk(v),
           body |-> <<50, kSep>> \o w \o <<kSep>> \o v] : w, v \in words}
    \cup {[text |-> <<42, 50>> \o CRLF \o <<36, 45, 49>> \o CRLF \o Bulk(w),
           body |-> <<50, kSep, 45, 49, kSep>> \o w] : w \in words}

(* A reply ends where it ends: whatever follows it in the input, it gives  *)
(* its own body, and no beginning of it is taken for a reply, so that what *)
(* was not complete is never passed on.                                    *)
RepliesDelimit(reply, rest) ==
    /\ LET got == ParseReply(reply.text \o rest)
       IN got.ret = 0 /\ got.out = reply.body /\ got.size = Len(reply.text)
    /\ \A n \in 0 .. Len(reply.text) - 1 : ParseReply(SubSeq(reply.text, 1, n)).ret # 0

(* A command that is accepted is one array of strings to its reader, with  *)
(* the words it was given, and a message of commands is them in order.     *)
CommandsReadBack(in, next) ==
    LET whole(c) == IF CharAt(c, Len(c)) = kSep THEN SubSeq(c, 1, Len(c) - 1) ELSE c
        words(c) == Len(SelectSeq(whole(c), LAMBDA x : x = kSep)) + 1
        Read(c) == Decimal(words(c)) \o <<kSep>> \o whole(c)
        text == Encode(<<in, next>>)
    IN text # <<>> => Decode(text).bodys = <<Read(in), Read(next)>>

=============================================================================
