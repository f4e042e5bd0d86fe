------------------------------- MODULE HttpUtil -------------------------------
(***************************************************************************)
(* What protocol/http/http_util.cpp and protocol_helper.h read out of urls, *)
(* cookies and addresses.  Text is a sequence of character codes; a         *)
(* dictionary is a function from texts to texts, where insert keeps what is *)
(* already there.                                                          *)
(***************************************************************************)
EXTENDS TextCodec

SLASH == 47
COLON == 58
Scheme == <<58, 47, 47>>                    \* "://"
Http == <<104, 116, 116, 112>> \o Scheme    \* "http://"

(* find: the first place of a text from a place on, 0 if there is none. *)
FirstAt(text, what, from) ==
    LET places == {i \in from .. Len(text) - Len(what) + 1 :
                      SubSeq(text, i, i + Len(what) - 1) = what} IN
    IF places = {} THEN 0 ELSE CHOOSE i \in places : \A j \in places : i <= j

From(text, place) == SubSeq(text, place, Len(text))
Before(text, place) == SubSeq(text, 1, place - 1)

EmptyDict == [key \in {} |-> <<>>]
Inserted(dict, key, value) ==
    IF key \in DOMAIN dict THEN dict
    ELSE [k \in DOMAIN dict \cup {key} |-> IF k = key THEN value ELSE dict[k]]

(* Trim of blanks. *)
Trim(text) ==
    LET inside == {i \in DOMAIN text : text[i] \notin {9, 10, 11, 12, 13, 32}} IN
    IF inside = {} THEN <<>>
    ELSE SubSeq(text, CHOOSE i \in inside : \A j \in inside : i <= j,
                      CHOOSE i \in inside : \A j \in inside : i >= j)

(* The pieces of a text that have a "=": what is before and after it. *)
Pairs(text, delim) ==
    LET pieces == SelectSeq(Split(<<>>, text, delim, TRUE), LAMBDA p : 61 \in ToSet(p))
        at(i) == FirstAt(pieces[i], <<61>>, 1) IN
    [i \in DOMAIN pieces |-> <<Before(pieces[i], at(i)), From(pieces[i], at(i) + 1)>>]

HttpCookieDecode(dict, cookie) ==
    FoldLeft(LAMBDA d, p : Inserted(d, Trim(p[1]), Trim(p[2])), dict, Pairs(cookie, 59))
SplitToMap(dict, text) ==
    FoldLeft(LAMBDA d, p : Inserted(d, UrlDecode(p[1]), UrlDecode(p[2])), dict, Pairs(text, 38))

Click == <<38, 99, 108, 105, 99, 107, 61>>          \* "&click="

(* The url to be visited stands last and is not cut at its own "&". *)
HandleTrackUrl(dict, text) ==
    LET at == FirstAt(text, Click, 1) IN
    IF at = 0 THEN SplitToMap(dict, text)
    ELSE SplitToMap(Inserted(dict, SubSeq(Click, 2, 6), UrlDecode(From(text, at + 7))),
                    Before(text, at))

TrackPath == {<<47, 97, 99>>, <<47, 97, 115>>, <<47, 99>>, <<47, 119>>}  \* /ac /as /c /w

(* Where the path of a url starts: after the host of "http://". *)
PathStart(url) ==
    LET slash == FirstAt(url, <<SLASH>>, 9) IN
    IF FirstAt(url, Http, 1) = 1 /\ slash # 0 THEN slash ELSE 1

(* BuildHttpRequest of a url: its path and its parameters.  Without a "?"   *)
(* the parameters are what follows the second "/". *)
UrlInfo(url) ==
    LET start == PathStart(url)
        question == FirstAt(url, <<63>>, 1)
        param == IF question # 0 THEN question ELSE FirstAt(url, <<SLASH>>, 2)
        path == IF param < start THEN From(url, start) ELSE SubSeq(url, start, param - 1)
        raw == From(url, param + 1) IN
    IF param = 0 THEN [path |-> From(url, start), url_param |-> EmptyDict]
    ELSE [path |-> path,
          url_param |-> IF path \in TrackPath THEN HandleTrackUrl(EmptyDict, raw)
                        ELSE SplitToMap(EmptyDict, raw)]

Post == <<80, 79, 83, 84>>
Madx == <<109, 97, 100, 120>>
Adxid == <<97, 100, 120, 105, 100>>

(* SplitHttpPostBody: the parameters in the body of a POST, unless it is an *)
(* exchange's. *)
WithBody(info, method, body) ==
    IF method = Post /\ Adxid \notin DOMAIN info.url_param /\ FirstAt(info.path, Madx, 1) = 0
    THEN [info EXCEPT !.url_param = SplitToMap(@, body)]
    ELSE info

Uid == <<117, 105, 100>>

(* BuildHttpRequest, with GetUserId. *)
BuildHttpRequest(url, method, cookie, body) ==
    LET info == WithBody(UrlInfo(url), method, body)
        cookies == HttpCookieDecode(EmptyDict, cookie) IN
    [path |-> info.path, url_param |-> info.url_param, cookies |-> cookies,
     request_uid |-> IF Uid \in DOMAIN info.url_param THEN info.url_param[Uid] ELSE <<>>,
     user_id_str |-> IF Uid \in DOMAIN cookies THEN cookies[Uid] ELSE <<>>]

----------------------------------------------------------------------------
(* Domains. *)

AfterScheme(url) == LET at == FirstAt(url, Scheme, 1) IN IF at = 0 THEN 1 ELSE at + 3

(* From a place up to the first of some characters, or to the end. *)
UpTo(text, from, chars) ==
    LET ends == {i \in from .. Len(text) : text[i] \in chars} IN
    IF ends = {} THEN From(text, from)
    ELSE SubSeq(text, from, (CHOOSE i \in ends : \A j \in ends : i <= j) - 1)

GetDomain(url) == UpTo(url, AfterScheme(url), {SLASH, COLON})
GetDomainPort(url) == UpTo(url, AfterScheme(url), {SLASH})

Known == {<<99, 111, 109>>, <<110, 101, 116>>, <<111, 114, 103>>}       \* com net org

(* The last two fields of a domain, or the last three of one of more than  *)
(* three fields under a "com.", "net." or "org.". *)
GetRootDomain(domain) ==
    LET fields == Split(<<>>, GetDomain(domain), 46, TRUE)
        n == Len(fields)
        last == fields[n - 1] \o <<46>> \o fields[n] IN
    IF n < 2 THEN <<>>
    ELSE IF n > 3 /\ fields[n - 1] \in Known THEN fields[n - 2] \o <<46>> \o last
    ELSE last

CheckRootDomainMatch(base_str, check_str) ==
    LET base == Split(<<>>, base_str, 46, TRUE)
        check == Split(<<>>, check_str, 46, TRUE) IN
    Len(base) <= Len(check) /\ base = From(check, Len(check) - Len(base) + 1)

(* ParseDomainUrl: whether it has a scheme, up to the path, and the path,   *)
(* which begins with "/" even if it is only a query. *)
ParseDomainUrl(addr) ==
    LET at == FirstAt(addr, Scheme, 1)
        path == FirstAt(addr, <<SLASH>>, at + 3)
        arg == FirstAt(addr, <<63>>, at + 3)
        end == IF path # 0 THEN path ELSE arg IN
    IF at = 0 THEN [ok |-> FALSE, domain |-> <<>>, url |-> <<>>]
    ELSE [ok |-> TRUE, domain |-> IF end = 0 THEN addr ELSE Before(addr, end),
          url |-> IF end = 0 THEN <<>>
                  ELSE IF path # 0 THEN From(addr, path) ELSE <<SLASH>> \o From(addr, arg)]

(* ParseSpecDomain: the host to be resolved, and the port, 80 by default. *)
ParseSpecDomain(spec) ==
    LET from == AfterScheme(spec)
        at == FirstAt(spec, <<COLON>>, from) IN
    IF at = 0 THEN [domain |-> From(spec, from), port |-> <<56, 48>>]
    ELSE [domain |-> SubSeq(spec, from, at - 1), port |-> From(spec, at + 1)]

----------------------------------------------------------------------------
(* A url that was put together from a host, a path and escaped parameters  *)
(* is taken apart into the same path and parameters, whatever is in their  *)
(* names and values, and so are the parameters in the body of a POST. *)
Escaped(pairs) ==
    FlattenSeq([i \in DOMAIN pairs |->
        (IF i = 1 THEN <<>> ELSE <<38>>)
        \o UrlEncode(pairs[i][1]) \o <<61>> \o UrlEncode(pairs[i][2])])
FirstOf(pairs) ==
    [key \in {pairs[i][1] : i \in DOMAIN pairs} |->
        pairs[CHOOSE i \in DOMAIN pairs :
                pairs[i][1] = key /\ \A j \in DOMAIN pairs : pairs[j][1] = key => i <= j][2]]

UrlReadsBack(host, path, pairs) ==
    LET dict == FirstOf(pairs)
        base == (IF host = <<>> THEN <<>> ELSE Http \o host) \o path
        get == BuildHttpRequest(base \o <<63>> \o Escaped(pairs), <<71, 69, 84>>, <<>>, <<>>)
        post == BuildHttpRequest(base \o <<63>>, Post, <<>>, Escaped(pairs)) IN
    /\ get.path = path /\ get.url_param = dict
    /\ post.path = path /\ post.url_param = dict

(* A domain belongs to its own root domain, and a sub-domain to both; and  *)
(* what ParseDomainUrl cuts an address into has the address's domain. *)
DomainHasRoot(domain, sub) ==
    LET root == GetRootDomain(domain)
        addr == Http \o domain IN
    /\ root # <<>> => /\ CheckRootDomainMatch(root, domain)
                      /\ CheckRootDomainMatch(root, sub \o <<46>> \o domain)
    /\ \A url \in {<<>>, <<SLASH>>, <<SLASH, 97>> \o Scheme, <<63, 97>>} :
          LET cut == ParseDomainUrl(addr \o url) IN
          /\ cut.ok
          /\ SLASH \notin ToSet(url) => cut.domain = addr
          /\ GetDomain(cut.domain) = GetDomain(addr)
          /\ ParseSpecDomain(addr \o <<COLON, 56>>) = [domain |-> domain, port |-> <<56>>]
=============================================================================
