----------------------------- MODULE TextCodec -----------------------------
(***************************************************************************)
(* The conversions of common/string_util.h, .cpp that the HTTP side of a   *)
(* program uses, on sequences of bytes: base64 in its two alphabets, URL   *)
(* escapes, hexadecimal, and Split.                                        *)
(*                                                                         *)
(* A character of base64 text is its value 0 .. 63, whatever the alphabet, *)
(* PAD for '=' and NL for a line break.  Characters of other texts are     *)
(* their codes.  Conversions between character sets (iconv) are left out.  *)
(***************************************************************************)
EXTENDS Integers, Sequences, SequencesExt

PAD == 64
NL == 65

(* Characters of s from i, at most n of them. *)
Piece(s, i, n) == SubSeq(s, i, IF i + n - 1 > Len(s) THEN Len(s) ELSE i + n - 1)

(* _base64_encode: one to three bytes, as one character more than bytes. *)
EncodeGroup(in) ==
    LET at(i) == IF i <= Len(in) THEN in[i] ELSE 0
    IN SubSeq(<<at(1) \div 4, (at(1) % 4) * 16 + at(2) \div 16,
                (at(2) % 16) * 4 + at(3) \div 64, at(3) % 64>>, 1, Len(in) + 1)

(* _base64_decode: two to four characters. *)
DecodeGroup(buf) ==
    LET at(i) == IF i <= Len(buf) THEN buf[i] ELSE 0
    IN SubSeq(<<(at(1) * 4 + at(2) \div 16) % 256,
                (at(2) % 16) * 16 + at(3) \div 4,
                (at(3) % 4) * 64 + at(4)>>, 1, Len(buf) - 1)

(* go_base64_encode: a line break comes after the group that fills a line  *)
(* up to `wraps`, the last group is filled up with '='.                    *)
Base64Lines(src, wraps) ==
    LET groups == Len(src) \div 3
        width == IF wraps > 508 THEN 508 ELSE wraps
        perLine == (width + 3) \div 4
        rest == Piece(src, 3 * groups + 1, 2)
        Line(i) == IF wraps > 0 /\ i % perLine = 0 THEN <<NL>> ELSE <<>>
    IN FlattenSeq([i \in 1 .. groups |-> EncodeGroup(Piece(src, 3 * i - 2, 3)) \o Line(i)])
       \o (IF rest = <<>> THEN <<>>
           ELSE EncodeGroup(rest) \o [i \in 1 .. 3 - Len(rest) |-> PAD])

(* The room Base64Encode makes; a text that does not fit in it gives the   *)
(* length -1, at which resize throws.                                      *)
DstLen(len, wraps) ==
    (4 * len + 2) \div 3 + 3
    + IF wraps > 0 THEN len \div (IF wraps > 64 THEN 64 ELSE wraps) ELSE 0

Base64Encode(src, wraps) ==
    LET text == Base64Lines(src, wraps)
    IN [throws |-> Len(text) > DstLen(Len(src), wraps), text |-> text]

(* go_base64_decode, one character at a time.  Without a '=' a last group  *)
(* of less than four characters is dropped.                                *)
DecodeChar(d, c) ==
    LET stop == d.stop \/ c = PAD
        buf == IF c \in {PAD, NL} THEN d.buf ELSE Append(d.buf, c)
    IN IF d.stop THEN d
       ELSE IF Len(buf) = 4 \/ (stop /\ Len(buf) > 1)
       THEN [out |-> d.out \o DecodeGroup(buf), buf |-> <<>>, stop |-> stop]
       ELSE [out |-> d.out, buf |-> buf, stop |-> stop]

Base64Decode(str) ==
    FoldLeft(DecodeChar, [out |-> <<>>, buf |-> <<>>, stop |-> FALSE], str).out

FillLen(len) == (4 - (len % 4)) % 4

(* The two characters the alphabets differ in have the same value here. *)
SafeBase64ToBase64(url64) == url64 \o [i \in 1 .. FillLen(Len(url64)) |-> PAD]

UrlSafeBase64Encode(src) ==
    FlattenSeq([i \in 1 .. (Len(src) + 2) \div 3 |-> EncodeGroup(Piece(src, 3 * i - 2, 3))])

(* Refused (-1, -2) are bits that no encoder leaves behind and a length it *)
(* cannot have.                                                            *)
UrlSafeBase64Decode(src) ==
    LET rest == Piece(src, 4 * (Len(src) \div 4) + 1, 3)
        spare == IF Len(rest) = 3 THEN rest[3] % 4 ELSE rest[2] % 16
        refused == Len(rest) = 1 \/ (rest # <<>> /\ spare # 0)
        groups == (Len(src) + 3) \div 4
    IN [refused |-> refused,
        bytes |-> IF refused THEN <<>>
                  ELSE FlattenSeq([i \in 1 .. groups |-> DecodeGroup(Piece(src, 4 * i - 3, 4))])]

----------------------------------------------------------------------------
(* URL escapes. *)
ToHex(x) == IF x > 9 THEN x + 55 ELSE x + 48
FromHex(x) == IF x \in 65 .. 90 THEN x - 65 + 10
              ELSE IF x \in 97 .. 122 THEN x - 97 + 10
              ELSE IF x \in 48 .. 57 THEN x - 48 ELSE 0

Unreserved == (48 .. 57) \cup (65 .. 90) \cup (97 .. 122) \cup {45, 95, 46, 126}

(* A slip: the plus sign, which stands for a blank, passes as it is. *)
UrlCharPlus(c) ==
    IF c \in Unreserved \cup {43} THEN <<c>>
    ELSE IF c = 32 THEN <<43>>
    ELSE <<37, ToHex(c \div 16), ToHex(c % 16)>>

UrlChar(c) ==
    IF c \in Unreserved THEN <<c>>
    ELSE IF c = 32 THEN <<43>>
    ELSE <<37, ToHex(c \div 16), ToHex(c % 16)>>

UrlEncode(str) == FlattenSeq([i \in DOMAIN str |-> UrlChar(str[i])])

(* For browsers a blank is %20. *)
UrlEncode_ext(str) ==
    FlattenSeq([i \in DOMAIN str |->
                   IF str[i] = 32 THEN <<37, 50, 48>> ELSE UrlChar(str[i])])

(* From character i on: what it stands for, then the rest. *)
UrlDecode(str) ==
    LET at(i) == IF i <= Len(str) THEN str[i] ELSE 0
        from[i \in 1 .. Len(str) + 3] ==
            IF i > Len(str) THEN <<>>
            ELSE IF str[i] = 43 THEN <<32>> \o from[i + 1]
            ELSE IF str[i] = 37
            THEN <<(FromHex(at(i + 1)) * 16 + FromHex(at(i + 2))) % 256>> \o from[i + 3]
            ELSE <<str[i]>> \o from[i + 1]
    IN from[1]

BinaryTo16Hex(src) ==
    LET digit(x) == IF x > 9 THEN x + 87 ELSE x + 48
    IN FlattenSeq([i \in DOMAIN src |-> <<digit(src[i] \div 16), digit(src[i] % 16)>>])

----------------------------------------------------------------------------
(* Split cuts at every delimiter and at the end of the text, a piece at a  *)
(* time.  An empty text leaves what the caller's vector held.              *)
Split(ret, str, delim, ignoreEmpty) ==
    LET ends == {i \in 1 .. Len(str) : str[i] = delim} \cup {Len(str) + 1}
        from[s \in 1 .. Len(str) + 2] ==
            IF s > Len(str) + 1 THEN <<>>
            ELSE LET end == CHOOSE e \in ends : e >= s /\ \A f \in ends : f >= s => e <= f
                     piece == SubSeq(str, s, end - 1)
                 IN (IF ignoreEmpty /\ piece = <<>> THEN <<>> ELSE <<piece>>) \o from[end + 1]
    IN IF str = <<>> THEN ret ELSE from[1]

----------------------------------------------------------------------------
(* A line break is put no more often than Base64Encode counts on: once for *)
(* `wraps` bytes of the source, at most 64, where a line is the groups of  *)
(* three bytes, each four characters long, that reach `wraps` characters.  *)
BreaksFit(wraps) ==
    wraps = 0 \/ 3 * (((IF wraps > 508 THEN 508 ELSE wraps) + 3) \div 4)
                     >= (IF wraps > 64 THEN 64 ELSE wraps)

(* Whatever is encoded is decoded to the bytes it was: base64, unless it   *)
(* throws, which it does for long texts only and only with a line width    *)
(* whose breaks take more room than it makes (19 bytes, broken every 4);   *)
(* the URL-safe form by its own decoder and, once padded, by the other     *)
(* one; and both forms of URL escapes.                                     *)
Inverts(bytes, wraps) ==
    /\ LET text == Base64Encode(bytes, wraps)
       IN IF text.throws
          THEN ~BreaksFit(wraps) /\ Len(bytes) > 18
          ELSE Base64Decode(text.text) = bytes
    /\ UrlSafeBase64Decode(UrlSafeBase64Encode(bytes)) = [refused |-> FALSE, bytes |-> bytes]
    /\ Base64Decode(SafeBase64ToBase64(UrlSafeBase64Encode(bytes))) = bytes
    /\ UrlDecode(UrlEncode(bytes)) = bytes
    /\ UrlDecode(UrlEncode_ext(bytes)) = bytes

(* The pieces of Split, put together with the delimiter, are the text; and *)
(* ignoreEmpty drops the empty ones and no other.                          *)
SplitsBack(str, delim) ==
    LET pieces == Split(<<>>, str, delim, FALSE)
        joined == FlattenSeq([i \in DOMAIN pieces |->
                                 IF i = 1 THEN pieces[i] ELSE <<delim>> \o pieces[i]])
    IN /\ joined = str
       /\ \A i \in DOMAIN pieces : delim \notin ToSet(pieces[i])
       /\ Split(<<>>, str, delim, TRUE) = SelectSeq(pieces, LAMBDA p : p # <<>>)
=============================================================================
