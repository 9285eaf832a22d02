----------------------------- MODULE UrlParser -----------------------------
(***************************************************************************)
(* url_view and its parser (url_view.hpp, detail/url_parser.hpp,           *)
(* detail/impl/url_parser.cpp).  A string_view of the input is a pair of   *)
(* positions, the second one past its end.  The characters of the input    *)
(* are a sample of every class the parser tells apart: letters are in      *)
(* lower case, as the predicates fold the case, "NUL" is one of the        *)
(* control characters and DEL, and "0x80" one of the bytes above them.     *)
(***************************************************************************)
EXTENDS Naturals, Sequences, FiniteSets

CONSTANTS Schemes, Users, Hosts, Ports, Paths, Queries, Fragments

ASSUME UrlAssumption ==
  \A S \in {Schemes, Users, Hosts, Ports, Paths, Queries, Fragments} : S \subseteq Seq(STRING)

VARIABLES
  input,         \* the string, put together from
  url,           \* these parts, each with the delimiters it comes with
  it, s, first, current_part, has_userinfo,   \* the locals of parse_url
  out,           \* parsed_url: the view of each part, and port_value
  ec, done,
  spec_          \* url_view::spec_: TRUE when it is not empty

vars == <<input, url, it, s, first, current_part, has_userinfo, out, ec, done, spec_>>

Parts == {"scheme", "userinfo", "host", "port", "path", "query", "fragment"}
Text(v) == SubSeq(input, v[1], v[2] - 1)
NoView == <<1, 1>>

-----------------------------------------------------------------------------
(* The classes of characters.                                              *)

Digits == <<"0", "1", "2", "3", "4", "5", "6", "7", "8", "9">>
is_digit(ch) == \E i \in DOMAIN Digits : Digits[i] = ch
HexLetters == {"a", "b", "c", "d", "e", "f"}
Letters == HexLetters \cup {"g", "h", "i", "j", "k", "l", "m", "n", "o", "p", "q", "r", "s",
                            "t", "u", "v", "w", "x", "y", "z"}
isalpha_ascii(ch) == ch \in Letters
isalnum_ascii(ch) == isalpha_ascii(ch) \/ is_digit(ch)
is_mark(ch) == ch \in {"-", "_", ".", "!", "~", "*", "'", "(", ")"}
is_user_char(ch) ==
  \/ ch \in {"%", ";", ":", "&", "=", "+", "$", ","}
  \/ isalnum_ascii(ch) \/ is_mark(ch)
is_hex(ch) == is_digit(ch) \/ ch \in HexLetters
\* Of the control characters, the table has only tab and form feed.
is_url_char(ch) == ch \notin {" ", "?", "#", "\n", "\r", "NUL", "0x80"}

-----------------------------------------------------------------------------
(* The state machine.                                                      *)

\* Mutant of AuthorityState: a query needs a path before it.
AuthorityNoQuery(ch) ==
  CASE ch = "/" -> "path"
    [] ch = "@" -> "authority_with_at"
    [] ch \in {"[", "]"} \/ is_user_char(ch) -> "authority"
    [] OTHER -> "invalid"

AuthorityState(ch) ==
  CASE ch = "/" -> "path"
    [] ch = "?" -> "query_string_start"
    [] ch = "@" -> "authority_with_at"
    [] ch \in {"[", "]"} \/ is_user_char(ch) -> "authority"
    [] OTHER -> "invalid"

\* Mutant of PathState: the state that rewinds stays.
PathStateStays(st, ch) ==
  CASE is_url_char(ch) -> st
    [] ch = "?" -> "query_string_start"
    [] ch = "#" -> "fragment_start"
    [] OTHER -> "invalid"

PathState(st, ch) ==
  CASE is_url_char(ch) -> "path"
    [] ch = "?" -> "query_string_start"
    [] ch = "#" -> "fragment_start"
    [] OTHER -> "invalid"

get_state_for(st, ch) ==
  CASE st = "initial" ->
         IF ch \in {"/", "*"} THEN "path"
         ELSE IF isalpha_ascii(ch) THEN "scheme" ELSE "invalid"
    [] st = "scheme" ->
         IF isalnum_ascii(ch) \/ ch \in {"+", "-", "."} THEN "scheme"
         ELSE IF ch = ":" THEN "scheme_suffix" ELSE "invalid"
    [] st = "scheme_suffix" ->
         IF ch = "/" THEN "scheme_suffix_slash"
         ELSE IF is_url_char(ch) THEN "path" ELSE "invalid"
    [] st = "scheme_suffix_slash" ->
         IF ch = "/" THEN "authority_start"
         ELSE IF is_url_char(ch) THEN "path_after_scheme" ELSE "invalid"
    [] st = "authority_with_at" -> IF ch = "@" THEN "invalid" ELSE AuthorityState(ch)
    [] st \in {"authority_start", "authority"} -> AuthorityState(ch)
    [] st \in {"path_after_scheme", "path"} -> PathState(st, ch)
    [] st \in {"query_string_start", "query_string"} ->
         CASE is_url_char(ch) \/ ch = "?" -> "query_string"
           [] ch = "#" -> "fragment_start"
           [] OTHER -> "invalid"
    [] st = "fragment_start" ->
         CASE is_url_char(ch) \/ ch = "?" -> "fragment"
           [] ch = "#" -> "fragment_start"
           [] OTHER -> "invalid"
    [] st = "fragment" ->
         IF is_url_char(ch) \/ ch \in {"?", "#"} THEN "fragment" ELSE "invalid"

part_from_state(st) ==
  CASE st \in {"scheme", "fragment"} -> st
    [] st \in {"authority", "authority_with_at"} -> "host"
    [] st \in {"path_after_scheme", "path"} -> "path"
    [] st = "query_string" -> "query"
    [] OTHER -> "none"

-----------------------------------------------------------------------------
(* parse_authority: its three loops, and what they make of the view of the *)
(* authority.  Positions of a bracket that does not parse are 0.           *)

FirstNot(P(_), i, last) ==
  CHOOSE k \in i .. last :
    (k = last \/ ~P(input[k])) /\ \A m \in i .. k - 1 : P(input[m])

HostChar(ch) == isalnum_ascii(ch) \/ ch \in {".", "-", "_"}
ZoneChar(ch) == isalnum_ascii(ch) \/ ch \in {"%", ".", "-", "_", "~"}
AddressChar(ch) == is_hex(ch) \/ ch \in {":", "."}

\* The end of a host in brackets: an address, and after "%25" a zone.
BracketEnd(i, last) ==
  LET Closing[e \in i .. last] ==
        IF e = last THEN last ELSE IF input[e] = "]" THEN e + 1 ELSE 0
      AfterAddress[a \in i .. last] ==
        IF last - a > 3 /\ SubSeq(input, a, a + 2) = <<"%", "2", "5">>
          THEN Closing[FirstNot(ZoneChar, a + 3, last)] ELSE Closing[a]
  IN AfterAddress[FirstNot(AddressChar, i, last)]

MaxPortDigits == 5
MaxPort == 65535

DigitValue(ch) == CHOOSE d \in 0 .. 9 : Digits[d + 1] = ch

\* The number that n digits from the i-th character on make.
Number(i, n) ==
  LET Upto[k \in 0 .. n] ==
        IF k = 0 THEN 0 ELSE Upto[k - 1] * 10 + DigitValue(input[i + k - 1])
  IN Upto[n]

PortParsed(o, p, last) ==
  LET n == IF last - p < MaxPortDigits THEN last - p ELSE MaxPortDigits IN
  IF \E i \in p .. p + n - 1 : ~is_digit(input[i])
    THEN [out |-> o, ec |-> "invalid_character"]
  ELSE IF Number(p, n) > MaxPort \/ p + n # last
    THEN [out |-> o, ec |-> "port_overflow"]
  ELSE [out |-> [o EXCEPT !.port = <<p, last>>, !.port_value = Number(p, n)],
        ec |-> "none"]

\* The host from h on, and the port after it.
HostParsed(o, h, last) ==
  LET bracket == input[h] = "["
      e == IF bracket THEN BracketEnd(h + 1, last) ELSE FirstNot(HostChar, h, last)
      hosted == [o EXCEPT !.host = <<h, e>>]
  IN IF e = 0 \/ (~bracket /\ e # last /\ input[e] # ":")
       THEN [out |-> o, ec |-> "invalid_character"]
     ELSE IF e = last THEN [out |-> hosted, ec |-> "none"]
     ELSE IF input[e] = ":" THEN PortParsed(hosted, e + 1, last)
     ELSE [out |-> hosted, ec |-> "invalid_character"]

parse_authority(o, start, last) ==
  LET u == IF has_userinfo THEN FirstNot(is_user_char, start, last) ELSE start
      h == IF has_userinfo THEN u + 1 ELSE start
      named == IF has_userinfo THEN [o EXCEPT !.userinfo = <<start, u>>] ELSE o
  IN IF has_userinfo /\ (u = last \/ input[u] # "@")
       THEN [out |-> o, ec |-> "invalid_character"]
     ELSE IF h = last THEN [out |-> named, ec |-> "missing_host"]
     ELSE HostParsed(named, h, last)

-----------------------------------------------------------------------------
\* url_view(s) and url_view(s, ec), about to parse
Init ==
  /\ \E sc \in Schemes, u \in Users, h \in Hosts, po \in Ports, pa \in Paths,
        q \in Queries, f \in Fragments :
       /\ url = [scheme |-> sc, user |-> u, host |-> h, port |-> po,
                 path |-> pa, query |-> q, fragment |-> f]
       /\ input = sc \o u \o h \o po \o pa \o q \o f
  /\ it = 1 /\ s = "initial" /\ first = 1
  /\ current_part = "none" /\ has_userinfo = FALSE
  /\ out = [p \in Parts \cup {"port_value"} |-> IF p = "port_value" THEN 0 ELSE NoView]
  /\ ec = "none" /\ done = FALSE /\ spec_ = (input # <<>>)

\* Mutant of Rewound: the slash is not read again.
RewoundNot(st) == it

\* --it, for the slash that turned out to be the start of the path
Rewound(st) == IF st = "path_after_scheme" THEN it - 1 ELSE it

\* *current_part = string_view(first, it - first)
Closed(at) ==
  IF current_part = "none" THEN out ELSE [out EXCEPT ![current_part] = <<first, at>>]

\* url_view's constructors drop spec_ when parse_url fails.
finish(error) ==
  /\ ec' = error /\ done' = TRUE
  /\ spec_' = (spec_ /\ error = "none")
  /\ UNCHANGED <<input, url, has_userinfo>>

\* One iteration of the loop of parse_url.
parse_char ==
  /\ ~done /\ it <= Len(input)
  /\ LET st == get_state_for(s, input[it]) IN
     IF st = "invalid"
       THEN /\ finish("invalid_character") /\ s' = st
            /\ UNCHANGED <<it, first, current_part, out>>
       ELSE /\ s' = st
            /\ has_userinfo' = (has_userinfo \/ st = "authority_with_at")
            /\ IF part_from_state(st) # current_part
                 THEN /\ out' = Closed(Rewound(st))
                      /\ current_part' = part_from_state(st)
                      /\ first' = Rewound(st)
                 ELSE UNCHANGED <<out, current_part, first>>
            /\ it' = Rewound(st) + 1
            /\ UNCHANGED <<input, url, ec, done, spec_>>

\* The end of parse_url.
parse_end ==
  /\ ~done /\ it > Len(input)
  /\ LET o == Closed(it)
         r == IF o.host[1] = o.host[2] THEN [out |-> o, ec |-> "none"]
              ELSE parse_authority(o, o.host[1], o.host[2])
     IN out' = r.out /\ finish(r.ec)
  /\ UNCHANGED <<it, s, first, current_part>>

Next == parse_char \/ parse_end

Spec == Init /\ [][Next]_vars /\ WF_vars(Next)

\* url_view::port_value and, as a number, url_view::port
port_value ==
  LET scheme == Text(out.scheme) IN
  IF out.port[1] # out.port[2] THEN out.port_value
  ELSE CASE scheme = <<"h", "t", "t", "p">> -> 80
         [] scheme = <<"h", "t", "t", "p", "s">> -> 443
         [] scheme = <<"f", "t", "p">> -> 21
         [] OTHER -> 0

-----------------------------------------------------------------------------
\* Positions lie within the text, parts do not end before they begin, and the
\* port has 16 bits.
TypeOK ==
  /\ it \in 1 .. Len(input) + 1 /\ first \in 1 .. Len(input) + 1
  /\ \A p \in Parts : out[p] \in (1 .. Len(input) + 1) \X (1 .. Len(input) + 1)
  /\ \A p \in Parts : out[p][1] <= out[p][2]
  /\ out.port_value \in 0 .. MaxPort
  /\ ec \in {"none", "invalid_character", "missing_host", "port_overflow"}

Valid == done /\ ec = "none"

\* Where the first character of S is, from i on, or the end.
EndFrom(i, S) ==
  CHOOSE k \in i .. Len(input) + 1 :
    /\ k = Len(input) + 1 \/ input[k] \in S
    /\ \A m \in i .. k - 1 : input[m] \notin S
End(S) == EndFrom(1, S)

\* The regular expression of RFC 3986, appendix B:
\*   ^(([^:/?#]+):)?(//([^/?#]*))?([^?#]*)(\?([^#]*))?(#(.*))?
\* Where its scheme is over, and where its path begins.
SchemeEnd == End({":", "/", "?", "#"})
Body == IF 1 < SchemeEnd /\ SchemeEnd <= Len(input) /\ input[SchemeEnd] = ":"
          THEN SchemeEnd + 1 ELSE 1
Slashes(body) == body < Len(input) /\ input[body] = "/" /\ input[body + 1] = "/"
PathStart(body) == IF Slashes(body) THEN EndFrom(body + 2, {"/", "?", "#"}) ELSE body

\* Where a host is over: at its "]" when it starts with "[", else at the first ":".
HostOver(host, last) ==
  LET over == IF input[host] = "[" THEN EndFrom(host, {"]"}) + 1 ELSE EndFrom(host, {":"})
  IN IF over < last THEN over ELSE last

\* authority = [ userinfo "@" ] host [ ":" port ]
AuthorityAsGrammar(start, last) ==
  LET host == IF EndFrom(start, {"@"}) < last THEN EndFrom(start, {"@"}) + 1 ELSE start
      over == HostOver(host, last)
  IN /\ Text(out.userinfo) = SubSeq(input, start, host - 2)
     /\ Text(out.host) = SubSeq(input, host, over - 1)
     /\ Text(out.port) = SubSeq(input, over + 1, last - 1)

\* The parts of a text whose body begins at body and whose path at path.  More
\* number signs after the first one are not in the fragment.
AsGrammar(body, path) ==
  LET query == End({"?"})
      fragment == End({"#"})
  IN /\ Text(out.scheme) = SubSeq(input, 1, body - 2)
     /\ IF path > body + 2 THEN AuthorityAsGrammar(body + 2, path)
        ELSE \A p \in {"userinfo", "host", "port"} : Text(out[p]) = <<>>
     /\ Text(out.path) = SubSeq(input, path, End({"?", "#"}) - 1)
     /\ Text(out.query) = IF query < fragment THEN SubSeq(input, query + 1, fragment - 1)
                          ELSE <<>>
     /\ \E i \in fragment .. Len(input) + 1 :
          /\ \A k \in fragment .. i - 1 : input[k] = "#"
          /\ Text(out.fragment) = SubSeq(input, i, Len(input))
          /\ Text(out.fragment) # <<>> => i > fragment /\ input[i] # "#"

OnlyScheme(n) ==
  /\ Text(out.scheme) = SubSeq(input, 1, n)
  /\ \A p \in Parts \ {"scheme"} : Text(out[p]) = <<>>

\* The texts that parse_url accepts and takes apart in another way: two slashes, or
\* a "*", at the beginning; a text in which there is no scheme; and a slash with
\* which the text ends right after the scheme.
Rooted == input[1] = "*" \/ Slashes(1)
Bare == Body = 1 /\ input[1] \notin {"/", "*"}
LoneSlash == Body > 1 /\ Body = Len(input) /\ input[Body] = "/" /\ input[1] # "*"

\* The parts of a valid URL are the ones that the regular expression of RFC 3986
\* has and its authority is divided by the grammar there, with these exceptions, in
\* which parse_url differs from the RFC: after a slash or "*" with which the text
\* begins everything is path, where the RFC has an authority after two slashes and
\* a scheme before a ":"; a text without ":" is a scheme, where the RFC has a path;
\* a lone slash after the scheme is in no part, where it is the RFC's path; and the
\* number signs after the first are dropped, where they begin the RFC's fragment.
SplitAsGrammar ==
  Valid /\ input # <<>> =>
    /\ ~(Rooted \/ Bare \/ LoneSlash) => AsGrammar(Body, PathStart(Body))
    /\ Rooted => AsGrammar(1, 1)
    /\ Bare => OnlyScheme(Len(input))
    /\ LoneSlash => OnlyScheme(Body - 2)

\* The number of the digits in a view, by their places.
PlaceValue(v) ==
  LET digit(k) == IF v[1] + k < v[2] THEN DigitValue(input[v[2] - 1 - k]) ELSE 0
  IN digit(0) + 10 * digit(1) + 100 * digit(2) + 1000 * digit(3) + 10000 * digit(4)

\* The port has at most five digits, and port_value is their number; without digits
\* it is one of the schemes'.
PortAsDigits ==
  Valid => /\ out.port[2] - out.port[1] <= 5
           /\ \A k \in out.port[1] .. out.port[2] - 1 : is_digit(input[k])
           /\ IF out.port[1] # out.port[2] THEN port_value = PlaceValue(out.port)
              ELSE port_value \in {0, 21, 80, 443}

\* The parts of a valid URL are views into it: those of RFC 3986, but for the four
\* exceptions above, and the port is the number that its digits make, below 2^16.
PartsExact == TypeOK /\ SplitAsGrammar /\ PortAsDigits

\* The parts that a URL can be put together from, each with its delimiters.
GoodScheme(t) ==
  /\ Len(t) > 3 /\ t[Len(t) - 2] = ":" /\ t[Len(t) - 1] = "/" /\ t[Len(t)] = "/"
  /\ isalpha_ascii(t[1])
  /\ \A k \in 2 .. Len(t) - 3 : isalnum_ascii(t[k]) \/ t[k] \in {"+", "-", "."}
GoodUser(t) ==
  t # <<>> => t[Len(t)] = "@" /\ \A k \in 1 .. Len(t) - 1 : is_user_char(t[k])
\* An address in brackets, maybe with a zone from z on.
GoodAddress(t) ==
  /\ t[1] = "[" /\ t[Len(t)] = "]"
  /\ \E z \in 2 .. Len(t) :
       /\ \A k \in 2 .. z - 1 : AddressChar(t[k])
       /\ z < Len(t) => /\ z + 3 <= Len(t)
                        /\ t[z] = "%" /\ t[z + 1] = "2" /\ t[z + 2] = "5"
                        /\ \A k \in z + 3 .. Len(t) - 1 : ZoneChar(t[k])
GoodHost(t) == t # <<>> /\ (GoodAddress(t) \/ \A k \in 1 .. Len(t) : HostChar(t[k]))
\* The number is below 2^16; at is where its digits are in the input.
GoodPort(t, at) ==
  t # <<>> => /\ t[1] = ":" /\ Len(t) <= MaxPortDigits + 1
              /\ \A k \in 2 .. Len(t) : is_digit(t[k])
              /\ Number(at, Len(t) - 1) <= MaxPort
GoodPath(t) == t # <<>> => t[1] = "/" /\ \A k \in 1 .. Len(t) : is_url_char(t[k])
GoodQuery(t) ==
  t # <<>> => t[1] = "?" /\ \A k \in 2 .. Len(t) : is_url_char(t[k]) \/ t[k] = "?"
GoodFragment(t) ==
  t # <<>> => /\ t[1] = "#" /\ (Len(t) > 1 => t[2] # "#")
              /\ \A k \in 2 .. Len(t) : is_url_char(t[k]) \/ t[k] \in {"?", "#"}

\* A fragment right after an authority is not accepted.
GoodParts ==
  /\ GoodScheme(url.scheme) /\ GoodUser(url.user) /\ GoodHost(url.host)
  /\ GoodPort(url.port, Len(url.scheme) + Len(url.user) + Len(url.host) + 2)
  /\ GoodPath(url.path) /\ GoodQuery(url.query) /\ GoodFragment(url.fragment)
  /\ url.path # <<>> \/ url.query # <<>> \/ url.fragment = <<>>

\* Good parts are put together to a URL that is valid and taken apart into the same
\* ones, without their delimiters.
RoundTrip ==
  LET Inner(t) == SubSeq(t, 2, Len(t)) IN
  done /\ GoodParts =>
    /\ ec = "none" /\ spec_
    /\ Text(out.scheme) = SubSeq(url.scheme, 1, Len(url.scheme) - 3)
    /\ Text(out.userinfo) = SubSeq(url.user, 1, Len(url.user) - 1)
    /\ Text(out.host) = url.host
    /\ Text(out.port) = Inner(url.port)
    /\ Text(out.path) = url.path
    /\ Text(out.query) = Inner(url.query)
    /\ Text(out.fragment) = Inner(url.fragment)

\* The rewinding of the input does not keep the parser from its end.
ParserEnds == <>done

=============================================================================
