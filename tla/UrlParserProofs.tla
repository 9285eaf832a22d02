-------------------------- MODULE UrlParserProofs --------------------------
(***************************************************************************)
(* Proofs about UrlParser, for inputs of any length.                       *)
(*                                                                         *)
(* Inv is inductive: Cursors bounds the positions, and Reading says, for   *)
(* each state of the parser, which parts of the grammar lie before the     *)
(* position it and which views have been taken of them; UserSeen, that a    *)
(* user is looked for exactly when the authority has an "@".  At the end   *)
(* they give PartsExact, with what parse_authority makes of the view of    *)
(* the authority.  Trip adds, for good parts, in which state the parser is *)
(* at each position; with Inv it is inductive and gives RoundTrip.         *)
(***************************************************************************)
EXTENDS UrlParser, SequenceTheorems, WellFoundedInduction, TLAPS

(* What each character can lead to.                                         *)

LEMMA SchemeChars ==
  ASSUME NEW ch, isalnum_ascii(ch) \/ ch \in {"+", "-", "."}
  PROVE  ch \notin {"/", "*", ":", "?", "#"}
  BY DEF isalnum_ascii, isalpha_ascii, Letters, HexLetters, is_digit, Digits

LEMMA AlnumChars ==
  ASSUME NEW ch, isalnum_ascii(ch)
  PROVE  ch \notin {"/", "*", ":", "?", "#", "@", "[", "]"}
  BY DEF isalnum_ascii, isalpha_ascii, Letters, HexLetters, is_digit, Digits

LEMMA HexAlnum ==
  ASSUME NEW ch, is_hex(ch)
  PROVE  isalnum_ascii(ch)
  BY DEF is_hex, isalnum_ascii, isalpha_ascii, Letters

LEMMA NotAt ==
  ASSUME NEW ch, is_user_char(ch) \/ ch \in {"[", "]"}
  PROVE  ch \notin {"/", "?", "#", "@"}
  BY AlnumChars DEF is_user_char, is_mark

Authority == {"authority_start", "authority", "authority_with_at"}

\* The states after a character that is accepted.
LEMMA NextState ==
  ASSUME NEW from, NEW ch, NEW st, st = get_state_for(from, ch), st # "invalid"
  PROVE  /\ from = "initial" =>
              \/ st = "path" /\ ch \in {"/", "*"}
              \/ st = "scheme" /\ ch \notin {"/", "*", ":", "?", "#"}
         /\ from = "scheme" =>
              \/ st = "scheme" /\ ch \notin {"/", "*", ":", "?", "#"}
              \/ st = "scheme_suffix" /\ ch = ":"
         /\ from = "scheme_suffix" =>
              \/ st = "scheme_suffix_slash" /\ ch = "/"
              \/ st = "path" /\ ch \notin {"/", "?", "#"}
         /\ from = "scheme_suffix_slash" =>
              \/ st = "authority_start" /\ ch = "/"
              \/ st = "path_after_scheme" /\ ch \notin {"/", "?", "#"}
         /\ from \in Authority =>
              \/ st = "path" /\ ch = "/"
              \/ st = "query_string_start" /\ ch = "?"
              \/ st = "authority_with_at" /\ ch = "@"
              \/ st = "authority" /\ ch \notin {"/", "?", "#", "@"}
         /\ from \in {"path_after_scheme", "path"} =>
              \/ st = "path" /\ ch \notin {"?", "#"}
              \/ st = "query_string_start" /\ ch = "?"
              \/ st = "fragment_start" /\ ch = "#"
         /\ from \in {"query_string_start", "query_string"} =>
              \/ st = "query_string" /\ ch # "#"
              \/ st = "fragment_start" /\ ch = "#"
         /\ from = "fragment_start" =>
              \/ st = "fragment" /\ ch # "#"
              \/ st = "fragment_start" /\ ch = "#"
         /\ from = "fragment" => st = "fragment"
<1>1. CASE from = "initial"
  <2>1. st = IF ch \in {"/", "*"} THEN "path"
             ELSE IF isalpha_ascii(ch) THEN "scheme" ELSE "invalid"
    BY <1>1 DEF get_state_for
  <2> QED  BY <1>1, <2>1, SchemeChars DEF isalnum_ascii, Authority
<1>2. CASE from = "scheme"
  <2>1. st = IF isalnum_ascii(ch) \/ ch \in {"+", "-", "."} THEN "scheme"
             ELSE IF ch = ":" THEN "scheme_suffix" ELSE "invalid"
    BY <1>2 DEF get_state_for
  <2> QED  BY <1>2, <2>1, SchemeChars DEF Authority
<1>3. CASE from = "scheme_suffix"
  <2>1. st = IF ch = "/" THEN "scheme_suffix_slash"
             ELSE IF is_url_char(ch) THEN "path" ELSE "invalid"
    BY <1>3 DEF get_state_for
  <2> QED  BY <1>3, <2>1 DEF is_url_char, Authority
<1>4. CASE from = "scheme_suffix_slash"
  <2>1. st = IF ch = "/" THEN "authority_start"
             ELSE IF is_url_char(ch) THEN "path_after_scheme" ELSE "invalid"
    BY <1>4 DEF get_state_for
  <2> QED  BY <1>4, <2>1 DEF is_url_char, Authority
<1>5. CASE from \in Authority
  <2>1. st = AuthorityState(ch)
    BY <1>5 DEF get_state_for, Authority
  <2> QED  BY <1>5, <2>1, NotAt DEF AuthorityState, Authority
<1>6. CASE from \in {"path_after_scheme", "path"}
  <2>1. st = PathState(from, ch)
    BY <1>6 DEF get_state_for
  <2> QED  BY <1>6, <2>1 DEF PathState, is_url_char, Authority
<1>7. CASE from \in {"query_string_start", "query_string"}
  <2>1. st = CASE is_url_char(ch) \/ ch = "?" -> "query_string"
               [] ch = "#" -> "fragment_start"
               [] OTHER -> "invalid"
    BY <1>7 DEF get_state_for
  <2> QED  BY <1>7, <2>1 DEF is_url_char, Authority
<1>8. CASE from = "fragment_start"
  <2>1. st = CASE is_url_char(ch) \/ ch = "?" -> "fragment"
               [] ch = "#" -> "fragment_start"
               [] OTHER -> "invalid"
    BY <1>8 DEF get_state_for
  <2> QED  BY <1>8, <2>1 DEF is_url_char, Authority
<1>9. CASE from = "fragment"
  <2>1. st = IF is_url_char(ch) \/ ch \in {"?", "#"} THEN "fragment" ELSE "invalid"
    BY <1>9 DEF get_state_for
  <2> QED  BY <1>9, <2>1 DEF Authority
<1> QED  BY <1>1, <1>2, <1>3, <1>4, <1>5, <1>6, <1>7, <1>8, <1>9 DEF Authority

-----------------------------------------------------------------------------
(* Where the parts are: o is the parsed_url, b where the scheme is over, p    *)
(* where the path begins, e where it ends and f where the fragment begins.    *)

Clean(S, i, j) == \A k \in i .. j - 1 : input[k] \notin S

\* v is the view from i to j.
Viewed(v, i, j) == v = <<i, j>> \/ (i = j /\ v = NoView)

\* The parts outside of P have not been met.
Only(o, P) == \A q \in Parts \ P : o[q] = NoView

Begun(o, b) ==
  \/ b = 1 /\ input[1] \in {"/", "*"} /\ o.scheme = NoView
  \/ /\ b \in 3 .. Len(input) + 1
     /\ input[b - 1] = ":" /\ Clean({"/", "*", ":", "?", "#"}, 1, b - 1)
     /\ o.scheme = <<1, b - 1>>

\* Two slashes after a scheme.
Cut(b) == b \in 2 .. Len(input) - 1 /\ input[b] = "/" /\ input[b + 1] = "/"

\* A lone slash after a scheme is not taken to be a path.
PathAt(o, b, p) ==
  /\ b \in Nat /\ p \in b .. Len(input) + 1 /\ Begun(o, b)
  /\ Cut(b) => /\ b + 2 <= p /\ Clean({"/", "?", "#"}, b + 2, p)
               /\ p = Len(input) + 1 \/ input[p] \in {"/", "?", "#"}
               /\ Viewed(o.host, b + 2, p)
  /\ ~Cut(b) => p = b /\ o.host = NoView
  /\ b = 1 \/ b # Len(input) \/ input[b] # "/"

QueryAt(o, b, p, e) ==
  /\ PathAt(o, b, p)
  /\ e \in p .. Len(input) + 1 /\ Clean({"?", "#"}, p, e)
  /\ e = Len(input) + 1 \/ input[e] \in {"?", "#"}
  /\ Viewed(o.path, p, e)

FragmentAt(o, b, p, e, f) ==
  /\ QueryAt(o, b, p, e)
  /\ f \in e .. Len(input) + 1 /\ Clean({"#"}, e, f)
  /\ f = Len(input) + 1 \/ input[f] = "#"
  /\ e < f => Viewed(o.query, e + 1, f)
  /\ e = f => o.query = NoView

\* What is known in each state of the parser.
AtInitial == it = 1 /\ current_part = "none" /\ Only(out, {})
AtScheme == /\ current_part = "scheme" /\ first = 1 /\ it > 1
            /\ Clean({"/", "*", ":", "?", "#"}, 1, it) /\ Only(out, {})
AtSuffix == current_part = "none" /\ it > 1 /\ Begun(out, it) /\ Only(out, {"scheme"})
AtSlash == /\ current_part = "none" /\ it > 2 /\ Begun(out, it - 1) /\ input[it - 1] = "/"
           /\ Only(out, {"scheme"})
AtAuthorityStart == /\ current_part = "none" /\ it > 3 /\ Begun(out, it - 2) /\ Cut(it - 2)
                    /\ Only(out, {"scheme"})
AtAuthority == /\ current_part = "host" /\ first > 3 /\ first < it
               /\ Begun(out, first - 2) /\ Cut(first - 2)
               /\ Clean({"/", "?", "#"}, first, it) /\ Only(out, {"scheme"})
AtPath == /\ current_part = "path" /\ first < it /\ Clean({"?", "#"}, first, it)
          /\ \E b \in Nat : PathAt(out, b, first)
          /\ Only(out, {"scheme", "host"})
AtQueryStart == /\ current_part = "none" /\ it > 1 /\ input[it - 1] = "?"
                /\ \E b, p \in Nat : QueryAt(out, b, p, it - 1)
                /\ Only(out, {"scheme", "host", "path"})
AtQuery == /\ current_part = "query" /\ first > 1 /\ first < it /\ input[first - 1] = "?"
           /\ Clean({"#"}, first, it)
           /\ \E b, p \in Nat : QueryAt(out, b, p, first - 1)
           /\ Only(out, {"scheme", "host", "path"})
AtFragmentStart ==
  /\ current_part = "none"
  /\ \E b, p, e, f \in Nat : /\ FragmentAt(out, b, p, e, f) /\ f < it
                             /\ \A k \in f .. it - 1 : input[k] = "#"
  /\ Only(out, {"scheme", "host", "path", "query"})
AtFragment ==
  /\ current_part = "fragment" /\ first < it /\ input[first] # "#"
  /\ \E b, p, e, f \in Nat : /\ FragmentAt(out, b, p, e, f) /\ f < first
                             /\ \A k \in f .. first - 1 : input[k] = "#"
  /\ Only(out, {"scheme", "host", "path", "query"})

States == {"initial", "scheme", "scheme_suffix", "scheme_suffix_slash", "path_after_scheme",
           "path", "query_string_start", "query_string", "fragment_start", "fragment"}
          \cup Authority

Reading ==
  /\ s \in States
  /\ s = "initial" => AtInitial
  /\ s = "scheme" => AtScheme
  /\ s = "scheme_suffix" => AtSuffix
  /\ s = "scheme_suffix_slash" => AtSlash
  /\ s = "authority_start" => AtAuthorityStart
  /\ s \in {"authority", "authority_with_at"} => AtAuthority
  /\ s \in {"path_after_scheme", "path"} => AtPath
  /\ s = "query_string_start" => AtQueryStart
  /\ s = "query_string" => AtQuery
  /\ s = "fragment_start" => AtFragmentStart
  /\ s = "fragment" => AtFragment

\* The variables of the parser, before its end.
Cursors ==
  /\ input \in Seq(STRING)
  /\ it \in 1 .. Len(input) + 1 /\ first \in 1 .. it
  /\ has_userinfo \in BOOLEAN
  /\ DOMAIN out = Parts \cup {"port_value"}
  /\ out.port_value = 0
  /\ \A q \in Parts : /\ out[q] \in (1 .. Len(input) + 1) \X (1 .. Len(input) + 1)
                      /\ out[q][1] <= out[q][2]

\* The userinfo is known by an "@" in the authority, read or being read.
Seen == IF current_part = "host" THEN <<first, it>> ELSE out.host
UserSeen == has_userinfo <=> \E k \in Seen[1] .. Seen[2] - 1 : input[k] = "@"

Inv == /\ ec \in {"none", "invalid_character", "missing_host", "port_overflow"}
       /\ ~done => ec = "none" /\ Cursors /\ Reading /\ UserSeen
       /\ done => PartsExact

-----------------------------------------------------------------------------
(* One character.                                                           *)

\* What is done with a character that is accepted; at is where a part ends.
Moves(st, at) ==
  /\ s' = st /\ it' = at + 1
  /\ UNCHANGED <<input, ec, done>>
  /\ part_from_state(st) = current_part => UNCHANGED <<out, current_part, first>>
  /\ part_from_state(st) # current_part =>
       /\ out' = IF current_part = "none" THEN out
                 ELSE [out EXCEPT ![current_part] = <<first, at>>]
       /\ current_part' = part_from_state(st) /\ first' = at

LEMMA CharAccepted ==
  ASSUME parse_char, NEW st, st = get_state_for(s, input[it]), st # "invalid"
  PROVE  /\ Moves(st, IF st = "path_after_scheme" THEN it - 1 ELSE it)
         /\ has_userinfo' = (has_userinfo \/ st = "authority_with_at")
  BY DEF parse_char, Moves, Closed, Rewound

LEMMA InputOK == Init => input \in Seq(STRING)
<1> SUFFICES ASSUME Init  PROVE input \in Seq(STRING)
  OBVIOUS
<1>1. PICK sc \in Schemes, u \in Users, h \in Hosts, po \in Ports, pa \in Paths,
        q \in Queries, f \in Fragments :
          /\ url = [scheme |-> sc, user |-> u, host |-> h, port |-> po,
                    path |-> pa, query |-> q, fragment |-> f]
          /\ input = sc \o u \o h \o po \o pa \o q \o f
  BY Zenon DEF Init
<1>2. /\ sc \in Seq(STRING) /\ u \in Seq(STRING) /\ h \in Seq(STRING) /\ po \in Seq(STRING)
      /\ pa \in Seq(STRING) /\ q \in Seq(STRING) /\ f \in Seq(STRING)
  BY UrlAssumption
<1> QED  BY <1>1, <1>2, ConcatProperties

LEMMA InvInit == Init => Inv
<1> SUFFICES ASSUME Init  PROVE Inv
  OBVIOUS
<1>1. input \in Seq(STRING) /\ Len(input) \in Nat
  BY InputOK, LenProperties
<1>2. /\ DOMAIN out = Parts \cup {"port_value"} /\ out["port_value"] = 0
      /\ \A q \in Parts : out[q] = <<1, 1>>
  <2>1. "port_value" \notin Parts
    BY DEF Parts
  <2> QED  BY <2>1 DEF Init, NoView
<1>3. Cursors
  <2>1. it = 1 /\ first = 1 /\ has_userinfo = FALSE
    BY DEF Init
  <2>2. 1 \in 1 .. Len(input) + 1
    BY <1>1
  <2>3. 1 \in 1 .. 1
    OBVIOUS
  <2>4. \A q \in Parts : /\ out[q] \in (1 .. Len(input) + 1) \X (1 .. Len(input) + 1)
                         /\ out[q][1] <= out[q][2]
    <3>1. <<1, 1>> \in (1 .. Len(input) + 1) \X (1 .. Len(input) + 1)
      BY <2>2, Zenon
    <3>2. <<1, 1>>[1] <= <<1, 1>>[2]
      OBVIOUS
    <3> QED  BY <1>2, <3>1, <3>2, Zenon
  <2> QED  BY <1>1, <1>2, <2>1, <2>2, <2>3, <2>4, Zenon DEF Cursors
<1>4. Reading
  BY <1>2 DEF Init, Reading, AtInitial, Only, States, Parts, NoView, Authority
<1>5. UserSeen
  <2>1. Seen = <<1, 1>> /\ has_userinfo = FALSE
    BY <1>2 DEF Init, Seen, Parts
  <2> QED  BY <2>1 DEF UserSeen
<1> QED  BY <1>3, <1>4, <1>5 DEF Init, Inv

LEMMA CursorsNext ==
  ASSUME Cursors, it <= Len(input), NEW st, NEW at, Moves(st, at),
         \/ at = it
         \/ at = it - 1 /\ it > 1 /\ current_part = "none" /\ part_from_state(st) # "none",
         current_part \in Parts \cup {"none"}, has_userinfo' \in BOOLEAN
  PROVE  Cursors'
<1>1. /\ input' = input /\ Len(input) \in Nat /\ it \in 1 .. Len(input) + 1 /\ first \in 1 .. it
      /\ it' = at + 1
  BY LenProperties DEF Cursors, Moves
<1>2. at \in 1 .. Len(input) /\ it' \in 1 .. Len(input) + 1
  BY <1>1
<1>3. first' \in 1 .. it'
  BY <1>1, <1>2 DEF Moves
<1>4. current_part # "none" => at = it /\ first <= at
  BY <1>1
<1>5. DOMAIN out' = DOMAIN out /\ out'["port_value"] = out["port_value"]
  BY DEF Moves, Parts, Cursors
<1>6. ASSUME NEW q \in Parts
      PROVE  /\ out'[q] \in (1 .. Len(input) + 1) \X (1 .. Len(input) + 1)
             /\ out'[q][1] <= out'[q][2]
  <2>1. out'[q] = out[q] \/ (out'[q] = <<first, at>> /\ current_part # "none")
    BY <1>6 DEF Moves, Cursors
  <2>2. CASE out'[q] = out[q]
    BY <2>2, <1>6 DEF Cursors
  <2>3. CASE out'[q] = <<first, at>> /\ current_part # "none"
    BY <2>3, <1>1, <1>2, <1>4
  <2> QED  BY <2>1, <2>2, <2>3
<1> QED  BY <1>1, <1>2, <1>3, <1>5, <1>6 DEF Cursors

LEMMA PartOf ==
  /\ part_from_state("scheme") = "scheme" /\ part_from_state("fragment") = "fragment"
  /\ part_from_state("authority") = "host" /\ part_from_state("authority_with_at") = "host"
  /\ part_from_state("path_after_scheme") = "path" /\ part_from_state("path") = "path"
  /\ part_from_state("query_string") = "query"
  /\ \A st \in {"scheme_suffix", "scheme_suffix_slash", "authority_start",
                "query_string_start", "fragment_start"} : part_from_state(st) = "none"
  BY DEF part_from_state

LEMMA MaxPortNat == MaxPort \in Nat
  BY DEF MaxPort

LEMMA Bounds ==
  ASSUME Cursors
  PROVE  Len(input) \in Nat /\ it \in Nat /\ first \in Nat /\ 1 <= first /\ first <= it
  BY LenProperties DEF Cursors

\* The first position outside of G, or the end.
LEMMA FirstExists ==
  ASSUME NEW i \in Nat, NEW n \in Nat, i <= n, NEW G
  PROVE  \E k \in i .. n : (k = n \/ k \notin G) /\ \A m \in i .. k - 1 : m \in G
<1> DEFINE R == {p \in Nat \X Nat : p[1] < p[2]}
           T == {k \in i .. n : k = n \/ k \notin G}
<1>1. IsWellFoundedOn(R, Nat)
  BY NatLessThanWellFounded DEF OpToRel
<1>2. n \in T /\ T \subseteq Nat
  OBVIOUS
<1> HIDE DEF R, T
<1>3. PICK k \in T : \A m \in T : <<m, k>> \notin R
  BY <1>1, <1>2, WFMin
<1>4. ASSUME NEW m \in T PROVE k <= m
  <2>1. <<m, k>> \notin R /\ k \in Nat /\ m \in Nat
    BY <1>2, <1>3
  <2> QED
    BY <2>1 DEF R
<1>5. k \in i .. n /\ (k = n \/ k \notin G)
  BY DEF T
<1>6. ASSUME NEW m \in i .. k - 1  PROVE m \in G
  BY <1>4, <1>5 DEF T
<1> QED  BY <1>5, <1>6

LEMMA CleanMore ==
  ASSUME NEW S, NEW i \in Nat, NEW j \in Nat, i <= j, Clean(S, i, j), input[j] \notin S
  PROVE  Clean(S, i, j + 1)
  BY DEF Clean

\* The text does not change: what is known of the new parts is known after the step.
LEMMA Frame ==
  ASSUME input' = input
  PROVE  /\ \A S, i, j : Clean(S, i, j)' <=> Clean(S, i, j)
         /\ \A b : Cut(b)' <=> Cut(b)
         /\ \A o, b : Begun(o, b)' <=> Begun(o, b)
         /\ \A o, b, p : PathAt(o, b, p)' <=> PathAt(o, b, p)
         /\ \A o, b, p, e : QueryAt(o, b, p, e)' <=> QueryAt(o, b, p, e)
         /\ \A o, b, p, e, f : FragmentAt(o, b, p, e, f)' <=> FragmentAt(o, b, p, e, f)
<1>1. \A S, i, j : Clean(S, i, j)' <=> Clean(S, i, j)
  BY DEF Clean
<1>2. \A b : Cut(b)' <=> Cut(b)
  BY DEF Cut
<1>3. \A o, b : Begun(o, b)' <=> Begun(o, b)
  BY DEF Begun, Clean, NoView
<1>4. \A o, b, p : PathAt(o, b, p)' <=> PathAt(o, b, p)
  BY DEF PathAt, Begun, Clean, NoView, Cut, Viewed
<1>5. \A o, b, p, e : QueryAt(o, b, p, e)' <=> QueryAt(o, b, p, e)
  BY <1>1, <1>4 DEF QueryAt, PathAt, Begun, Clean, NoView, Cut, Viewed
<1>6. \A o, b, p, e, f : FragmentAt(o, b, p, e, f)' <=> FragmentAt(o, b, p, e, f)
  BY <1>1, <1>5 DEF FragmentAt, QueryAt, PathAt, Begun, Clean, NoView, Cut, Viewed
<1> QED  BY <1>1, <1>2, <1>3, <1>4, <1>5, <1>6

LEMMA FromInitial ==
  ASSUME Cursors, it <= Len(input), AtInitial, NEW st, Moves(st, it),
         \/ st = "path" /\ input[it] \in {"/", "*"}
         \/ st = "scheme" /\ input[it] \notin {"/", "*", ":", "?", "#"}
  PROVE  (st = "path" => AtPath') /\ (st = "scheme" => AtScheme')
<1>1. /\ it = 1 /\ it' = 2 /\ first' = 1 /\ out' = out /\ current_part' = part_from_state(st)
      /\ input' = input
  BY PartOf DEF AtInitial, Moves
<1>2. Len(input) \in Nat
  BY Bounds
<1>3. ASSUME st = "path"  PROVE AtPath'
  <2>1. PathAt(out', 1, 1)
    BY <1>1, <1>2, <1>3 DEF PathAt, Begun, Cut, AtInitial, Only, Parts
  <2>2. Clean({"?", "#"}, 1, 2)
    BY <1>1, <1>3 DEF Clean
  <2> QED  BY <1>1, <1>3, <2>1, <2>2, PartOf, Frame DEF AtPath, AtInitial, Only
<1>4. ASSUME st = "scheme"  PROVE AtScheme'
  <2>1. Clean({"/", "*", ":", "?", "#"}, 1, 2)
    BY <1>1, <1>4 DEF Clean
  <2> QED  BY <1>1, <1>4, <2>1, PartOf, Frame DEF AtScheme, AtInitial, Only
<1> QED  BY <1>3, <1>4

LEMMA FromScheme ==
  ASSUME Cursors, it <= Len(input), AtScheme, NEW st, Moves(st, it),
         \/ st = "scheme" /\ input[it] \notin {"/", "*", ":", "?", "#"}
         \/ st = "scheme_suffix" /\ input[it] = ":"
  PROVE  (st = "scheme" => AtScheme') /\ (st = "scheme_suffix" => AtSuffix')
<1>1. input' = input /\ it' = it + 1 /\ current_part = "scheme" /\ first = 1 /\ it > 1
  BY DEF AtScheme, Moves
<1>2. Len(input) \in Nat /\ it \in Nat
  BY Bounds
<1>3. ASSUME st = "scheme"  PROVE AtScheme'
  <2>1. out' = out /\ first' = first /\ current_part' = current_part
    BY <1>1, <1>3, PartOf DEF Moves
  <2>2. Clean({"/", "*", ":", "?", "#"}, 1, it + 1)
    BY <1>1, <1>2, <1>3, CleanMore DEF AtScheme
  <2> QED  BY <1>1, <1>2, <2>1, <2>2, Frame DEF AtScheme, Only
<1>4. ASSUME st = "scheme_suffix"  PROVE AtSuffix'
  <2>1. out' = [out EXCEPT !["scheme"] = <<1, it>>] /\ current_part' = "none"
    BY <1>1, <1>4, PartOf DEF Moves
  <2>2. "scheme" \in DOMAIN out
    BY DEF Cursors, Parts
  <2>3. Begun(out', it + 1)
    BY <1>1, <1>2, <1>4, <2>1, <2>2 DEF Begun, AtScheme
  <2>4. Only(out', {"scheme"})
    BY <2>1 DEF AtScheme, Only, Parts, Cursors
  <2> QED  BY <1>1, <1>2, <2>1, <2>3, <2>4, Frame DEF AtSuffix, Only, NoView
<1> QED  BY <1>3, <1>4

LEMMA FromSuffix ==
  ASSUME Cursors, it <= Len(input), AtSuffix, NEW st, Moves(st, it),
         \/ st = "scheme_suffix_slash" /\ input[it] = "/"
         \/ st = "path" /\ input[it] \notin {"/", "?", "#"}
  PROVE  (st = "scheme_suffix_slash" => AtSlash') /\ (st = "path" => AtPath')
<1>1. input' = input /\ it' = it + 1 /\ current_part = "none" /\ it > 1 /\ out' = out
  BY DEF AtSuffix, Moves
<1>2. Len(input) \in Nat /\ it \in Nat
  BY Bounds
<1>3. ASSUME st = "scheme_suffix_slash"  PROVE AtSlash'
  <2>1. current_part' = "none"
    BY <1>1, <1>3, PartOf DEF Moves
  <2>2. Begun(out', it) /\ it' - 1 = it
    BY <1>1, <1>2 DEF AtSuffix
  <2> QED  BY <1>1, <1>2, <1>3, <2>1, <2>2, Frame DEF AtSlash, AtSuffix, Only, NoView
<1>4. ASSUME st = "path"  PROVE AtPath'
  <2>1. current_part' = "path" /\ first' = it
    BY <1>1, <1>4, PartOf DEF Moves
  <2>2. ~Cut(it)
    BY <1>4 DEF Cut
  <2>3. PathAt(out', it, it)
    BY <1>1, <1>2, <1>4, <2>2 DEF PathAt, AtSuffix, Only, Parts
  <2>4. Clean({"?", "#"}, it, it + 1)
    BY <1>2, <1>4 DEF Clean
  <2>5. Only(out', {"scheme", "host"})
    BY <1>1 DEF AtSuffix, Only
  <2> QED  BY <1>1, <1>2, <2>1, <2>3, <2>4, <2>5, Frame DEF AtPath, Only, NoView
<1> QED  BY <1>3, <1>4

LEMMA FromSlash ==
  ASSUME Cursors, it <= Len(input), AtSlash, NEW st,
         \/ st = "authority_start" /\ input[it] = "/" /\ Moves(st, it)
         \/ st = "path_after_scheme" /\ input[it] \notin {"/", "?", "#"} /\ Moves(st, it - 1)
  PROVE  (st = "authority_start" => AtAuthorityStart') /\ (st = "path_after_scheme" => AtPath')
<1>1. input' = input /\ current_part = "none" /\ it > 2 /\ out' = out
  BY DEF AtSlash, Moves
<1>2. Len(input) \in Nat /\ it \in Nat
  BY Bounds
<1>3. ASSUME st = "authority_start"  PROVE AtAuthorityStart'
  <2>1. current_part' = "none" /\ it' = it + 1
    BY <1>1, <1>3, PartOf DEF Moves
  <2>2. Begun(out', it - 1) /\ it' - 2 = it - 1
    BY <1>1, <1>2, <2>1 DEF AtSlash
  <2>3. Cut(it - 1)
    BY <1>1, <1>2, <1>3 DEF Cut, AtSlash
  <2> QED  BY <1>1, <1>2, <2>1, <2>2, <2>3, Frame DEF AtAuthorityStart, AtSlash, Only, NoView
<1>4. ASSUME st = "path_after_scheme"  PROVE AtPath'
  <2>1. current_part' = "path" /\ first' = it - 1 /\ it' = it
    BY <1>1, <1>2, <1>4, PartOf DEF Moves
  <2>2. ~Cut(it - 1)
    BY <1>2, <1>4 DEF Cut
  <2>3. PathAt(out', it - 1, it - 1)
    BY <1>1, <1>2, <2>2 DEF PathAt, AtSlash, Only, Parts
  <2>4. Clean({"?", "#"}, it - 1, it)
    BY <1>2 DEF Clean, AtSlash
  <2>5. Only(out', {"scheme", "host"})
    BY <1>1 DEF AtSlash, Only
  <2> QED  BY <1>1, <1>2, <2>1, <2>3, <2>4, <2>5, Frame DEF AtPath, Only, NoView
<1> QED  BY <1>3, <1>4

\* The slash, the question mark or the first character of an authority.
LEMMA FromAuthorityStart ==
  ASSUME Cursors, it <= Len(input), AtAuthorityStart, NEW st, Moves(st, it),
         \/ st = "path" /\ input[it] = "/"
         \/ st = "query_string_start" /\ input[it] = "?"
         \/ st \in {"authority", "authority_with_at"} /\ input[it] \notin {"/", "?", "#"}
  PROVE  /\ st = "path" => AtPath'
         /\ st = "query_string_start" => AtQueryStart'
         /\ st \in {"authority", "authority_with_at"} => AtAuthority'
<1>1. input' = input /\ current_part = "none" /\ it > 3 /\ out' = out /\ it' = it + 1
  BY DEF AtAuthorityStart, Moves
<1>2. Len(input) \in Nat /\ it \in Nat
  BY Bounds
<1>3. ASSUME input[it] \in {"/", "?"}  PROVE PathAt(out', it - 2, it)
  <2>1. Clean({"/", "?", "#"}, it, it)
    BY <1>2 DEF Clean
  <2> QED  BY <1>1, <1>2, <1>3, <2>1 DEF PathAt, AtAuthorityStart, Only, Parts, Viewed
<1>4. ASSUME st = "path"  PROVE AtPath'
  <2>1. current_part' = "path" /\ first' = it
    BY <1>1, <1>4, PartOf DEF Moves
  <2>2. PathAt(out', it - 2, it) /\ it - 2 \in Nat
    BY <1>1, <1>2, <1>3, <1>4
  <2>3. Clean({"?", "#"}, it, it + 1)
    BY <1>2, <1>4 DEF Clean
  <2>4. Only(out', {"scheme", "host"})
    BY <1>1 DEF AtAuthorityStart, Only
  <2> QED  BY <1>1, <1>2, <2>1, <2>2, <2>3, <2>4, Frame DEF AtPath, Only, NoView
<1>5. ASSUME st = "query_string_start"  PROVE AtQueryStart'
  <2>1. current_part' = "none"
    BY <1>1, <1>5, PartOf DEF Moves
  <2>2. PathAt(out', it - 2, it) /\ it - 2 \in Nat
    BY <1>1, <1>2, <1>3, <1>5
  <2>3. Clean({"?", "#"}, it, it) /\ out'["path"] = NoView
    BY <1>1, <1>2 DEF Clean, AtAuthorityStart, Only, Parts
  <2>4. QueryAt(out', it - 2, it, it) /\ it' - 1 = it
    BY <1>1, <1>2, <1>5, <2>2, <2>3 DEF QueryAt, Viewed
  <2>5. Only(out', {"scheme", "host", "path"})
    BY <1>1 DEF AtAuthorityStart, Only
  <2> QED  BY <1>1, <1>2, <1>5, <2>1, <2>2, <2>4, <2>5, Frame DEF AtQueryStart, Only, NoView
<1>6. ASSUME st \in {"authority", "authority_with_at"}  PROVE AtAuthority'
  <2>1. current_part' = "host" /\ first' = it
    BY <1>1, <1>6, PartOf DEF Moves
  <2>2. Clean({"/", "?", "#"}, it, it + 1)
    BY <1>2, <1>6 DEF Clean
  <2>3. Only(out', {"scheme"}) /\ Begun(out', it - 2) /\ Cut(it - 2)
    BY <1>1 DEF AtAuthorityStart, Only
  <2> QED  BY <1>1, <1>2, <2>1, <2>2, <2>3, Frame DEF AtAuthority, Only, NoView
<1> QED  BY <1>4, <1>5, <1>6

LEMMA FromAuthority ==
  ASSUME Cursors, it <= Len(input), AtAuthority, NEW st, Moves(st, it),
         \/ st = "path" /\ input[it] = "/"
         \/ st = "query_string_start" /\ input[it] = "?"
         \/ st \in {"authority", "authority_with_at"} /\ input[it] \notin {"/", "?", "#"}
  PROVE  /\ st = "path" => AtPath'
         /\ st = "query_string_start" => AtQueryStart'
         /\ st \in {"authority", "authority_with_at"} => AtAuthority'
<1>1. /\ input' = input /\ current_part = "host" /\ it' = it + 1 /\ first > 3 /\ first < it
      /\ Begun(out, first - 2) /\ Cut(first - 2) /\ Clean({"/", "?", "#"}, first, it)
      /\ Only(out, {"scheme"})
  BY DEF AtAuthority, Moves
<1>2. Len(input) \in Nat /\ it \in Nat /\ first \in Nat
  BY Bounds
<1>3. ASSUME input[it] \in {"/", "?"}, out' = [out EXCEPT !["host"] = <<first, it>>]
      PROVE  PathAt(out', first - 2, it) /\ Only(out', {"scheme", "host"})
  <2>1. out'["host"] = <<first, it>> /\ out'["scheme"] = out["scheme"]
    BY <1>3 DEF Cursors, Parts
  <2>2. Begun(out', first - 2)
    BY <1>1, <2>1 DEF Begun
  <2>3. PathAt(out', first - 2, it)
    BY <1>1, <1>2, <1>3, <2>1, <2>2 DEF PathAt, Viewed
  <2> QED  BY <1>1, <1>3, <2>3 DEF Only, Cursors
<1>4. ASSUME st = "path"  PROVE AtPath'
  <2>1. /\ current_part' = "path" /\ first' = it
        /\ out' = [out EXCEPT !["host"] = <<first, it>>]
    BY <1>1, <1>4, PartOf DEF Moves
  <2>2. PathAt(out', first - 2, it) /\ first - 2 \in Nat /\ Only(out', {"scheme", "host"})
    BY <1>1, <1>2, <1>3, <1>4, <2>1
  <2>3. Clean({"?", "#"}, it, it + 1)
    BY <1>2, <1>4 DEF Clean
  <2> QED  BY <1>1, <1>2, <2>1, <2>2, <2>3, Frame DEF AtPath, Only, NoView
<1>5. ASSUME st = "query_string_start"  PROVE AtQueryStart'
  <2>1. current_part' = "none" /\ out' = [out EXCEPT !["host"] = <<first, it>>]
    BY <1>1, <1>5, PartOf DEF Moves
  <2>2. PathAt(out', first - 2, it) /\ first - 2 \in Nat /\ Only(out', {"scheme", "host"})
    BY <1>1, <1>2, <1>3, <1>5, <2>1
  <2>3. Clean({"?", "#"}, it, it) /\ out'["path"] = NoView
    BY <1>2, <2>2 DEF Clean, Only, Parts
  <2>4. QueryAt(out', first - 2, it, it) /\ it' - 1 = it
    BY <1>1, <1>2, <1>5, <2>2, <2>3 DEF QueryAt, Viewed
  <2>5. Only(out', {"scheme", "host", "path"})
    BY <2>2 DEF Only
  <2> QED  BY <1>1, <1>2, <1>5, <2>1, <2>2, <2>4, <2>5, Frame DEF AtQueryStart, Only, NoView
<1>6. ASSUME st \in {"authority", "authority_with_at"}  PROVE AtAuthority'
  <2>1. current_part' = "host" /\ first' = first /\ out' = out
    BY <1>1, <1>6, PartOf DEF Moves
  <2>2. Clean({"/", "?", "#"}, first, it + 1)
    BY <1>1, <1>2, <1>6, CleanMore
  <2> QED  BY <1>1, <1>2, <2>1, <2>2, Frame DEF AtAuthority, Only, NoView
<1> QED  BY <1>4, <1>5, <1>6

LEMMA FromPath ==
  ASSUME Cursors, it <= Len(input), AtPath, NEW st, Moves(st, it),
         \/ st = "path" /\ input[it] \notin {"?", "#"}
         \/ st = "query_string_start" /\ input[it] = "?"
         \/ st = "fragment_start" /\ input[it] = "#"
  PROVE  /\ st = "path" => AtPath'
         /\ st = "query_string_start" => AtQueryStart'
         /\ st = "fragment_start" => AtFragmentStart'
<1>1. /\ input' = input /\ current_part = "path" /\ it' = it + 1 /\ first < it
      /\ Clean({"?", "#"}, first, it) /\ Only(out, {"scheme", "host"})
  BY DEF AtPath, Moves
<1>2. Len(input) \in Nat /\ it \in Nat /\ first \in Nat
  BY Bounds
<1> PICK b \in Nat : PathAt(out, b, first)
  BY DEF AtPath
<1>3. ASSUME input[it] \in {"?", "#"}, out' = [out EXCEPT !["path"] = <<first, it>>]
      PROVE  QueryAt(out', b, first, it) /\ Only(out', {"scheme", "host", "path"})
  <2>1. /\ out'["path"] = <<first, it>> /\ out'["scheme"] = out["scheme"]
        /\ out'["host"] = out["host"]
    BY <1>3 DEF Cursors, Parts
  <2>2. PathAt(out', b, first)
    BY <2>1 DEF PathAt, Begun
  <2>3. QueryAt(out', b, first, it)
    BY <1>1, <1>2, <1>3, <2>1, <2>2 DEF QueryAt, Viewed
  <2> QED  BY <1>1, <1>3, <2>3 DEF Only, Cursors
<1>4. ASSUME st = "path"  PROVE AtPath'
  <2>1. current_part' = "path" /\ first' = first /\ out' = out
    BY <1>1, <1>4, PartOf DEF Moves
  <2>2. Clean({"?", "#"}, first, it + 1)
    BY <1>1, <1>2, <1>4, CleanMore
  <2>3. PathAt(out', b, first')
    BY <2>1
  <2> QED  BY <1>1, <1>2, <2>1, <2>2, <2>3, Frame DEF AtPath, Only, NoView
<1>5. ASSUME st = "query_string_start"  PROVE AtQueryStart'
  <2>1. current_part' = "none" /\ out' = [out EXCEPT !["path"] = <<first, it>>]
    BY <1>1, <1>5, PartOf DEF Moves
  <2>2. QueryAt(out', b, first, it) /\ Only(out', {"scheme", "host", "path"}) /\ it' - 1 = it
    BY <1>1, <1>2, <1>3, <1>5, <2>1
  <2> QED  BY <1>1, <1>2, <1>5, <2>1, <2>2, Frame DEF AtQueryStart, Only, NoView
<1>6. ASSUME st = "fragment_start"  PROVE AtFragmentStart'
  <2>1. current_part' = "none" /\ out' = [out EXCEPT !["path"] = <<first, it>>]
    BY <1>1, <1>6, PartOf DEF Moves
  <2>2. QueryAt(out', b, first, it) /\ Only(out', {"scheme", "host", "path"})
    BY <1>1, <1>2, <1>3, <1>6, <2>1
  <2>3. FragmentAt(out', b, first, it, it)
    BY <1>2, <1>6, <2>2 DEF FragmentAt, Clean, Only, Parts
  <2>4. \A k \in it .. it' - 1 : input[k] = "#"
    BY <1>1, <1>2, <1>6
  <2>5. Only(out', {"scheme", "host", "path", "query"})
    BY <2>2 DEF Only
  <2> QED  BY <1>1, <1>2, <2>1, <2>3, <2>4, <2>5, Frame DEF AtFragmentStart, Only, NoView
<1> QED  BY <1>4, <1>5, <1>6

LEMMA FromQuery ==
  ASSUME Cursors, it <= Len(input), NEW st, Moves(st, it), AtQueryStart \/ AtQuery,
         \/ st = "query_string" /\ input[it] # "#"
         \/ st = "fragment_start" /\ input[it] = "#"
  PROVE  /\ st = "query_string" => AtQuery'
         /\ st = "fragment_start" => AtFragmentStart'
<1>1. input' = input /\ it' = it + 1 /\ Only(out, {"scheme", "host", "path"})
  BY DEF AtQueryStart, AtQuery, Moves
<1>2. Len(input) \in Nat /\ it \in Nat /\ first \in Nat
  BY Bounds
<1> DEFINE from == IF current_part = "none" THEN it ELSE first
<1>3. /\ from \in Nat /\ from > 1 /\ from <= it /\ input[from - 1] = "?"
      /\ Clean({"#"}, from, it) /\ current_part \in {"none", "query"}
  BY <1>2 DEF AtQueryStart, AtQuery, Clean
<1>4. PICK b \in Nat, p \in Nat : QueryAt(out, b, p, from - 1)
  BY DEF AtQueryStart, AtQuery
<1> HIDE DEF from
<1>5. ASSUME st = "query_string"  PROVE AtQuery'
  <2>1. current_part' = "query" /\ first' = from /\ out' = out
    BY <1>3, <1>5, PartOf DEF Moves, from
  <2>2. Clean({"#"}, from, it + 1)
    BY <1>2, <1>3, <1>5, CleanMore
  <2>3. QueryAt(out', b, p, first' - 1)
    BY <2>1, <1>4
  <2>4. first' > 1 /\ first' < it' /\ input[first' - 1] = "?"
    BY <1>1, <1>2, <1>3, <2>1
  <2> QED  BY <1>1, <1>2, <1>3, <2>1, <2>2, <2>3, <2>4, Frame DEF AtQuery, Only, NoView
<1>6. ASSUME st = "fragment_start"  PROVE AtFragmentStart'
  <2>1. current_part' = "none"
    BY <1>3, <1>6, PartOf DEF Moves
  <2>2. \/ out' = out /\ from = it
        \/ out' = [out EXCEPT !["query"] = <<from, it>>]
    BY <1>3, <1>6, PartOf DEF Moves, from
  <2>3. /\ out'["path"] = out["path"] /\ out'["scheme"] = out["scheme"]
        /\ out'["host"] = out["host"] /\ Viewed(out'["query"], from, it)
    BY <1>1, <2>2 DEF Cursors, Parts, Only, Viewed
  <2>4. QueryAt(out', b, p, from - 1)
    BY <1>4, <2>3 DEF QueryAt, PathAt, Begun
  <2>5. Clean({"#"}, from - 1, it)
    BY <1>2, <1>3 DEF Clean
  <2>6. FragmentAt(out', b, p, from - 1, it)
    BY <1>2, <1>3, <1>6, <2>3, <2>4, <2>5 DEF FragmentAt
  <2>7. \A k \in it .. it' - 1 : input[k] = "#"
    BY <1>1, <1>2, <1>6
  <2>8. Only(out', {"scheme", "host", "path", "query"})
    BY <1>1, <2>2 DEF Only, Cursors
  <2>9. from - 1 \in Nat
    BY <1>3
  <2> QED  BY <1>1, <1>2, <2>1, <2>6, <2>7, <2>8, <2>9, Frame DEF AtFragmentStart, Only, NoView
<1> QED  BY <1>5, <1>6

LEMMA FromFragmentStart ==
  ASSUME Cursors, it <= Len(input), NEW st, Moves(st, it), AtFragmentStart,
         \/ st = "fragment" /\ input[it] # "#"
         \/ st = "fragment_start" /\ input[it] = "#"
  PROVE  /\ st = "fragment" => AtFragment'
         /\ st = "fragment_start" => AtFragmentStart'
<1>1. /\ input' = input /\ it' = it + 1 /\ Only(out, {"scheme", "host", "path", "query"})
      /\ current_part = "none" /\ out' = out
  BY DEF AtFragmentStart, Moves
<1>2. Len(input) \in Nat /\ it \in Nat /\ first \in Nat
  BY Bounds
<1>3. PICK b \in Nat, p \in Nat, e \in Nat, f \in Nat :
        /\ FragmentAt(out, b, p, e, f) /\ f < it
        /\ \A k \in f .. it - 1 : input[k] = "#"
  BY DEF AtFragmentStart
<1>4. FragmentAt(out', b, p, e, f)
  BY <1>1, <1>3
<1>5. ASSUME st = "fragment"  PROVE AtFragment'
  <2>1. current_part' = "fragment" /\ first' = it
    BY <1>1, <1>5, PartOf DEF Moves
  <2> QED  BY <1>1, <1>2, <1>3, <1>4, <1>5, <2>1, Frame DEF AtFragment, Only, NoView
<1>6. ASSUME st = "fragment_start"  PROVE AtFragmentStart'
  <2>1. current_part' = "none"
    BY <1>1, <1>6, PartOf DEF Moves
  <2>2. \A k \in f .. it' - 1 : input[k] = "#"
    BY <1>1, <1>2, <1>3, <1>6
  <2>3. f < it'
    BY <1>1, <1>2, <1>3
  <2> QED  BY <1>1, <1>4, <2>1, <2>2, <2>3, Frame DEF AtFragmentStart, Only, NoView
<1> QED  BY <1>5, <1>6

LEMMA FromFragment ==
  ASSUME Cursors, it <= Len(input), Moves("fragment", it), AtFragment
  PROVE  AtFragment'
<1>1. /\ input' = input /\ it' = it + 1 /\ current_part = "fragment" /\ out' = out
      /\ first' = first /\ current_part' = current_part
  BY PartOf DEF AtFragment, Moves
<1>2. it \in Nat /\ first \in Nat
  BY Bounds
<1>3. PICK b \in Nat, p \in Nat, e \in Nat, f \in Nat :
        /\ FragmentAt(out, b, p, e, f) /\ f < first
        /\ \A k \in f .. first - 1 : input[k] = "#"
  BY DEF AtFragment
<1>4. FragmentAt(out', b, p, e, f)
  BY <1>1, <1>3
<1> QED  BY <1>1, <1>2, <1>3, <1>4, Frame DEF AtFragment, Only, NoView

LEMMA ReadingNext ==
  ASSUME Cursors, Reading, it <= Len(input), NEW st, st = get_state_for(s, input[it]),
         st # "invalid", Moves(st, IF st = "path_after_scheme" THEN it - 1 ELSE it)
  PROVE  Reading' /\ (st = "path_after_scheme" => s = "scheme_suffix_slash" /\ AtSlash)
<1> DEFINE ch == input[it]
<1>1. s' = st
  BY DEF Moves
<1>2. st # "path_after_scheme" => Moves(st, it)
  OBVIOUS
<1>3. CASE s = "initial"
  <2>1. \/ st = "path" /\ ch \in {"/", "*"}
        \/ st = "scheme" /\ ch \notin {"/", "*", ":", "?", "#"}
    BY <1>3, NextState
  <2> QED  BY <1>1, <1>2, <1>3, <2>1, FromInitial DEF Reading, States, Authority
<1>4. CASE s = "scheme"
  <2>1. \/ st = "scheme" /\ ch \notin {"/", "*", ":", "?", "#"}
        \/ st = "scheme_suffix" /\ ch = ":"
    BY <1>4, NextState
  <2> QED  BY <1>1, <1>2, <1>4, <2>1, FromScheme DEF Reading, States, Authority
<1>5. CASE s = "scheme_suffix"
  <2>1. \/ st = "scheme_suffix_slash" /\ ch = "/"
        \/ st = "path" /\ ch \notin {"/", "?", "#"}
    BY <1>5, NextState
  <2> QED  BY <1>1, <1>2, <1>5, <2>1, FromSuffix DEF Reading, States, Authority
<1>6. CASE s = "scheme_suffix_slash"
  <2>1. \/ st = "authority_start" /\ ch = "/" /\ Moves(st, it)
        \/ st = "path_after_scheme" /\ ch \notin {"/", "?", "#"} /\ Moves(st, it - 1)
    BY <1>2, <1>6, NextState
  <2> QED  BY <1>1, <1>6, <2>1, FromSlash DEF Reading, States, Authority
<1>7. CASE s \in Authority
  <2>1. \/ st = "path" /\ ch = "/"
        \/ st = "query_string_start" /\ ch = "?"
        \/ st \in {"authority", "authority_with_at"} /\ ch \notin {"/", "?", "#"}
    BY <1>7, NextState
  <2>2. AtAuthorityStart \/ AtAuthority
    BY <1>7 DEF Reading, Authority
  <2>3. /\ st = "path" => AtPath'
        /\ st = "query_string_start" => AtQueryStart'
        /\ st \in {"authority", "authority_with_at"} => AtAuthority'
    BY <1>2, <2>1, <2>2, FromAuthorityStart, FromAuthority
  <2> QED  BY <1>1, <2>1, <2>3 DEF Reading, States, Authority
<1>8. CASE s \in {"path_after_scheme", "path"}
  <2>1. \/ st = "path" /\ ch \notin {"?", "#"}
        \/ st = "query_string_start" /\ ch = "?"
        \/ st = "fragment_start" /\ ch = "#"
    BY <1>8, NextState
  <2> QED  BY <1>1, <1>2, <1>8, <2>1, FromPath DEF Reading, States, Authority
<1>9. CASE s \in {"query_string_start", "query_string"}
  <2>1. \/ st = "query_string" /\ ch # "#"
        \/ st = "fragment_start" /\ ch = "#"
    BY <1>9, NextState
  <2> QED  BY <1>1, <1>2, <1>9, <2>1, FromQuery DEF Reading, States, Authority
<1>10. CASE s = "fragment_start"
  <2>1. \/ st = "fragment" /\ ch # "#"
        \/ st = "fragment_start" /\ ch = "#"
    BY <1>10, NextState
  <2> QED  BY <1>1, <1>2, <1>10, <2>1, FromFragmentStart DEF Reading, States, Authority
<1>11. CASE s = "fragment"
  <2>1. st = "fragment"
    BY <1>11, NextState
  <2> QED  BY <1>1, <1>2, <1>11, <2>1, FromFragment DEF Reading, States, Authority
<1> QED  BY <1>3, <1>4, <1>5, <1>6, <1>7, <1>8, <1>9, <1>10, <1>11 DEF Reading, States

LEMMA PartKnown == Reading => current_part \in Parts \cup {"none"}
  BY DEF Reading, States, Authority, AtInitial, AtScheme, AtSuffix, AtSlash, AtAuthorityStart,
         AtAuthority, AtPath, AtQueryStart, AtQuery, AtFragmentStart, AtFragment, Parts

LEMMA UserSeenNext ==
  ASSUME Cursors, Reading, UserSeen, it <= Len(input), NEW st, st = get_state_for(s, input[it]),
         st # "invalid", Moves(st, IF st = "path_after_scheme" THEN it - 1 ELSE it),
         has_userinfo' = (has_userinfo \/ st = "authority_with_at")
  PROVE  UserSeen'
<1>1. input' = input /\ it \in Nat /\ first \in Nat /\ first <= it
  BY Bounds DEF Moves
<1>2. current_part' = part_from_state(st)
  BY DEF Moves
<1>5. has_userinfo' <=> has_userinfo \/ st = "authority_with_at"
  BY DEF Cursors
<1>6. UserSeen' <=> (has_userinfo' <=> \E k \in Seen'[1] .. Seen'[2] - 1 : input[k] = "@")
  BY <1>1 DEF UserSeen
<1>3. CASE st \in {"authority", "authority_with_at"}
  <2>1. s \in Authority /\ (st = "authority_with_at" <=> input[it] = "@")
    BY <1>3, NextState DEF Reading, States, Authority
  <2>2. Moves(st, it) /\ current_part' = "host" /\ it' = it + 1
    BY <1>2, <1>3, PartOf DEF Moves
  <2>3. Seen' = <<first', it + 1>>
    BY <2>2 DEF Seen
  <2>4. CASE current_part = "host"
    <3>1. first' = first /\ Seen = <<first, it>>
      BY <2>2, <2>4 DEF Moves, Seen
    <3>2. \A k : k \in first .. it <=> k \in first .. it - 1 \/ k = it
      BY <1>1
    <3>3. Seen'[1] = first /\ Seen'[2] - 1 = it /\ Seen[1] = first /\ Seen[2] - 1 = it - 1
      BY <1>1, <2>3, <3>1
    <3> QED  BY <1>5, <1>6, <2>1, <3>2, <3>3 DEF UserSeen
  <2>5. CASE current_part # "host"
    <3>1. AtAuthorityStart /\ first' = it
      BY <1>2, <2>1, <2>2, <2>5 DEF Reading, Authority, AtAuthority, Moves
    <3>2. Seen = <<1, 1>>
      BY <2>5, <3>1 DEF Seen, AtAuthorityStart, Only, Parts, NoView
    <3>3. ~has_userinfo
      <4>1. Seen[1] .. Seen[2] - 1 = {}
        BY <3>2
      <4> QED  BY <4>1 DEF UserSeen
    <3>4. Seen'[1] = it /\ Seen'[2] - 1 = it
      BY <1>1, <2>3, <3>1
    <3> QED  BY <1>1, <1>5, <1>6, <2>1, <3>3, <3>4
  <2> QED  BY <2>4, <2>5
<1>4. CASE st \notin {"authority", "authority_with_at"}
  <2>1. current_part' # "host"
    BY <1>2, <1>4 DEF part_from_state
  <2>2. Seen' = out'["host"]
    BY <2>1 DEF Seen
  <2>3. Seen' = Seen
    <3>1. CASE current_part = "host"
      <4>1. st # "path_after_scheme"
        BY <3>1, ReadingNext DEF AtSlash
      <4>2. out' = [out EXCEPT !["host"] = <<first, it>>]
        BY <1>2, <2>1, <3>1, <4>1 DEF Moves
      <4> QED  BY <2>2, <3>1, <4>2 DEF Seen, Cursors, Parts
    <3>2. CASE current_part # "host"
      <4>1. out'["host"] = out["host"]
        BY <3>2 DEF Moves, Cursors, Parts
      <4> QED  BY <2>2, <3>2, <4>1 DEF Seen
    <3> QED  BY <3>1, <3>2
  <2> QED  BY <1>4, <1>5, <1>6, <2>3 DEF UserSeen
<1> QED  BY <1>3, <1>4

LEMMA ParseChar == Inv /\ parse_char => Inv'
<1> SUFFICES ASSUME Inv, parse_char  PROVE Inv'
  OBVIOUS
<1>1. ec = "none" /\ Cursors /\ Reading /\ UserSeen /\ ~done /\ it <= Len(input)
  BY DEF Inv, parse_char
<1> DEFINE st == get_state_for(s, input[it])
<1>2. CASE st = "invalid"
  <2>1. /\ done' /\ ec' = "invalid_character" /\ UNCHANGED <<input, it, first, out, has_userinfo>>
    BY <1>2 DEF parse_char, finish
  <2>2. Cursors'
    BY <1>1, <2>1 DEF Cursors
  <2>3. TypeOK'
    BY <2>1, <2>2, LenProperties, MaxPortNat DEF Cursors, TypeOK
  <2>4. PartsExact'
    BY <2>1, <2>3 DEF PartsExact, SplitAsGrammar, PortAsDigits, Valid
  <2> QED  BY <2>1, <2>4 DEF Inv
<1>3. CASE st # "invalid"
  <2> DEFINE at == IF st = "path_after_scheme" THEN it - 1 ELSE it
  <2>1. Moves(st, at) /\ has_userinfo' = (has_userinfo \/ st = "authority_with_at")
    BY <1>3, CharAccepted
  <2>6. UserSeen'
    BY <1>1, <1>3, <2>1, UserSeenNext
  <2>7. has_userinfo' \in BOOLEAN
    BY <1>1, <2>1 DEF Cursors
  <2>2. Reading' /\ (st = "path_after_scheme" => AtSlash)
    BY <1>1, <1>3, <2>1, ReadingNext
  <2>3. \/ at = it
        \/ at = it - 1 /\ it > 1 /\ current_part = "none" /\ part_from_state(st) # "none"
    BY <1>1, <2>2, PartOf, Bounds DEF AtSlash
  <2> HIDE DEF st, at
  <2>4. Cursors'
    BY <1>1, <2>1, <2>3, <2>7, PartKnown, CursorsNext
  <2>5. ec' = ec /\ done' = done
    BY <2>1 DEF Moves
  <2> QED  BY <1>1, <2>2, <2>4, <2>5, <2>6 DEF Inv
<1> QED  BY <1>2, <1>3

-----------------------------------------------------------------------------
(* The end of the text: where the parts are.                                *)

LEMMA EndFromIs ==
  ASSUME Len(input) \in Nat, NEW S, NEW i \in Nat, NEW k \in i .. Len(input) + 1,
         k = Len(input) + 1 \/ input[k] \in S, Clean(S, i, k)
  PROVE  EndFrom(i, S) = k
<1> DEFINE P(j) == /\ j = Len(input) + 1 \/ input[j] \in S
                   /\ \A m \in i .. j - 1 : input[m] \notin S
<1>1. P(k)
  BY DEF Clean
<1>2. ASSUME NEW j \in i .. Len(input) + 1, P(j)  PROVE j = k
  BY <1>2 DEF Clean
<1> QED  BY <1>1, <1>2 DEF EndFrom

LEMMA EndFromIn ==
  ASSUME Len(input) \in Nat, NEW S, NEW i \in 1 .. Len(input) + 1
  PROVE  /\ EndFrom(i, S) \in i .. Len(input) + 1 /\ Clean(S, i, EndFrom(i, S))
         /\ EndFrom(i, S) = Len(input) + 1 \/ input[EndFrom(i, S)] \in S
<1> DEFINE P(k) == /\ k = Len(input) + 1 \/ input[k] \in S
                   /\ \A m \in i .. k - 1 : input[m] \notin S
           G == {k \in i .. Len(input) + 1 : input[k] \notin S}
<1> HIDE DEF G
<1>1. i \in Nat /\ Len(input) + 1 \in Nat /\ i <= Len(input) + 1
  OBVIOUS
<1>2. \E k \in i .. Len(input) + 1 :
        (k = Len(input) + 1 \/ k \notin G) /\ \A m \in i .. k - 1 : m \in G
  BY <1>1, FirstExists, Zenon
<1>3. \E k \in i .. Len(input) + 1 : P(k)
  BY <1>2 DEF G
<1>4. EndFrom(i, S) \in i .. Len(input) + 1 /\ P(EndFrom(i, S))
  BY <1>3 DEF EndFrom
<1> QED  BY <1>4 DEF Clean

\* No character of S comes before n.
LEMMA EndBeyond ==
  ASSUME Len(input) \in Nat, NEW S, NEW i \in 1 .. Len(input) + 1, NEW n \in Nat,
         n <= Len(input) + 1, Clean(S, i, n)
  PROVE  EndFrom(i, S) >= n
<1> DEFINE e == EndFrom(i, S)
<1>1. e \in i .. Len(input) + 1 /\ (e = Len(input) + 1 \/ input[e] \in S)
  BY EndFromIn
<1> HIDE DEF e
<1>2. ASSUME e < n  PROVE FALSE
  <2>1. input[e] \in S /\ e \in i .. n - 1
    BY <1>1, <1>2
  <2> QED  BY <2>1 DEF Clean
<1> QED  BY <1>1, <1>2 DEF e

LEMMA TextsFrame ==
  ASSUME input' = input
  PROVE  /\ \A i, S : EndFrom(i, S)' = EndFrom(i, S)
         /\ \A S : End(S)' = End(S)
         /\ \A b : Slashes(b)' <=> Slashes(b)
         /\ \A b : PathStart(b)' = PathStart(b)
         /\ Body' = Body
         /\ \A h, n : HostOver(h, n)' = HostOver(h, n)
         /\ \A v : Text(v)' = Text(v)
         /\ \A v : PlaceValue(v)' = PlaceValue(v)
         /\ \A i, n : Number(i, n)' = Number(i, n)
<1>1. \A i, S : EndFrom(i, S)' = EndFrom(i, S)
  BY DEF EndFrom
<1>2. \A S : End(S)' = End(S)
  BY <1>1 DEF End
<1>7. \A b : Slashes(b)' <=> Slashes(b)
  BY DEF Slashes
<1>3. \A b : PathStart(b)' = PathStart(b)
  BY <1>1, <1>7 DEF PathStart
<1>4. Body' = Body
  BY <1>2 DEF Body, SchemeEnd
<1>8. \A h, n : HostOver(h, n)' = HostOver(h, n)
  BY <1>1 DEF HostOver
<1>9. \A v : PlaceValue(v)' = PlaceValue(v)
  BY DEF PlaceValue
<1>5. \A v : Text(v)' = Text(v)
  BY DEF Text
<1>6. \A i, n : Number(i, n)' = Number(i, n)
  BY SMT DEF Number
<1> QED  BY <1>1, <1>2, <1>3, <1>4, <1>5, <1>6, <1>7, <1>8, <1>9

\* The view of the fragment, after the number signs from f on.
FragmentView(o, f) ==
  \E i \in f .. Len(input) + 1 :
    /\ \A k \in f .. i - 1 : input[k] = "#"
    /\ \/ i = Len(input) + 1 /\ o.fragment = NoView
       \/ f < i /\ i <= Len(input) /\ input[i] # "#" /\ o.fragment = <<i, Len(input) + 1>>

\* The parts of a text with more than a scheme.
Whole(o) == \E b, p, e, f \in Nat : FragmentAt(o, b, p, e, f) /\ FragmentView(o, f)

LEMMA PathToWhole ==
  ASSUME NEW o, NEW b \in Nat, NEW p \in Nat, Len(input) \in Nat, PathAt(o, b, p),
         Clean({"?", "#"}, p, Len(input) + 1), Viewed(o.path, p, Len(input) + 1),
         o.query = NoView, o.fragment = NoView
  PROVE  Whole(o)
<1> DEFINE n == Len(input) + 1
<1>1. n \in Nat /\ p <= n
  BY DEF PathAt
<1>2. QueryAt(o, b, p, n)
  BY <1>1 DEF QueryAt
<1>3. FragmentAt(o, b, p, n, n)
  BY <1>1, <1>2 DEF FragmentAt, Clean
<1>4. FragmentView(o, n)
  BY <1>1 DEF FragmentView
<1> QED  BY <1>1, <1>3, <1>4 DEF Whole

LEMMA EndWhole ==
  ASSUME Cursors, Reading, it = Len(input) + 1, s \notin {"initial", "scheme", "scheme_suffix_slash"}
  PROVE  Whole(Closed(it))
<1> DEFINE o == Closed(it)
           n == Len(input) + 1
<1> SUFFICES Whole(o)
  OBVIOUS
<1>1. /\ Len(input) \in Nat /\ it = n /\ n \in Nat /\ first \in Nat /\ first >= 1
      /\ DOMAIN out = Parts \cup {"port_value"}
  BY Bounds DEF Cursors
<1>2. CASE s = "scheme_suffix"
  <2>1. o = out /\ AtSuffix
    BY <1>2 DEF Reading, AtSuffix, Closed
  <2>2. ~Cut(it)
    BY <1>1 DEF Cut
  <2>3. PathAt(o, it, it)
    BY <1>1, <2>1, <2>2 DEF PathAt, AtSuffix, Only, Parts
  <2>4. Clean({"?", "#"}, it, n) /\ Viewed(o.path, it, n) /\ o.query = NoView /\ o.fragment = NoView
    BY <1>1, <2>1 DEF Clean, AtSuffix, Viewed, Only, Parts
  <2> HIDE DEF o
  <2> QED  BY <1>1, <2>3, <2>4, PathToWhole
<1>3. CASE s = "authority_start"
  <2>1. o = out /\ AtAuthorityStart
    BY <1>3 DEF Reading, AtAuthorityStart, Closed
  <2>2. PathAt(o, it - 2, it) /\ it - 2 \in Nat
    BY <1>1, <2>1 DEF PathAt, AtAuthorityStart, Only, Parts, Viewed, Clean
  <2>3. Clean({"?", "#"}, it, n) /\ Viewed(o.path, it, n) /\ o.query = NoView /\ o.fragment = NoView
    BY <1>1, <2>1 DEF Clean, AtAuthorityStart, Viewed, Only, Parts
  <2> HIDE DEF o
  <2> QED  BY <1>1, <2>2, <2>3, PathToWhole
<1>4. CASE s \in {"authority", "authority_with_at"}
  <2>1. AtAuthority /\ o = [out EXCEPT !["host"] = <<first, it>>]
    BY <1>4 DEF Reading, AtAuthority, Closed
  <2>2. /\ o["host"] = <<first, it>> /\ o["scheme"] = out["scheme"] /\ o["path"] = NoView
        /\ o["query"] = NoView /\ o["fragment"] = NoView
    BY <1>1, <2>1 DEF Parts, AtAuthority, Only
  <2>3. Begun(o, first - 2)
    BY <2>1, <2>2 DEF Begun, AtAuthority
  <2> HIDE DEF o
  <2>4. PathAt(o, first - 2, it) /\ first - 2 \in Nat
    BY <1>1, <2>1, <2>2, <2>3 DEF PathAt, Viewed, AtAuthority
  <2>5. Clean({"?", "#"}, it, n) /\ Viewed(o.path, it, n)
    BY <1>1, <2>2 DEF Clean, Viewed
  <2> QED  BY <1>1, <2>2, <2>4, <2>5, PathToWhole
<1>5. CASE s \in {"path_after_scheme", "path"}
  <2>1. AtPath /\ o = [out EXCEPT !["path"] = <<first, it>>]
    BY <1>5 DEF Reading, AtPath, Closed
  <2>2. /\ o["path"] = <<first, it>> /\ o["scheme"] = out["scheme"] /\ o["host"] = out["host"]
        /\ o["query"] = NoView /\ o["fragment"] = NoView
    BY <1>1, <2>1 DEF Parts, AtPath, Only
  <2>3. PICK b \in Nat : PathAt(out, b, first)
    BY <2>1 DEF AtPath
  <2>4. PathAt(o, b, first)
    BY <2>2, <2>3 DEF PathAt, Begun
  <2>5. Clean({"?", "#"}, first, n) /\ Viewed(o.path, first, n)
    BY <1>1, <2>1, <2>2 DEF AtPath, Viewed
  <2> HIDE DEF o
  <2> QED  BY <1>1, <2>2, <2>4, <2>5, PathToWhole
<1>6. CASE s \in {"query_string_start", "query_string"}
  <2> DEFINE from == IF current_part = "none" THEN it ELSE first
  <2>1. AtQueryStart \/ AtQuery
    BY <1>6 DEF Reading
  <2>2. /\ from \in Nat /\ from > 1 /\ from <= it /\ input[from - 1] = "?"
        /\ Clean({"#"}, from, it) /\ current_part \in {"none", "query"}
        /\ Only(out, {"scheme", "host", "path"})
    BY <1>1, <2>1 DEF AtQueryStart, AtQuery, Clean
  <2>3. PICK b \in Nat, p \in Nat : QueryAt(out, b, p, from - 1)
    BY <2>1 DEF AtQueryStart, AtQuery
  <2>4. (o = out /\ from = it) \/ o = [out EXCEPT !["query"] = <<from, it>>]
    BY <2>2 DEF Closed
  <2> HIDE DEF o, from
  <2>5. /\ o["path"] = out["path"] /\ o["scheme"] = out["scheme"] /\ o["host"] = out["host"]
        /\ Viewed(o["query"], from, it) /\ o["fragment"] = NoView
    BY <1>1, <2>2, <2>4 DEF Parts, Viewed, Only
  <2>6. QueryAt(o, b, p, from - 1)
    BY <2>3, <2>5 DEF QueryAt, PathAt, Begun
  <2>7. Clean({"#"}, from - 1, it)
    BY <1>1, <2>2 DEF Clean
  <2>8. FragmentAt(o, b, p, from - 1, it)
    BY <1>1, <2>2, <2>5, <2>6, <2>7 DEF FragmentAt
  <2>9. FragmentView(o, it)
    BY <1>1, <2>5 DEF FragmentView
  <2>10. from - 1 \in Nat
    BY <2>2
  <2> QED  BY <1>1, <2>8, <2>9, <2>10 DEF Whole
<1>7. CASE s = "fragment_start"
  <2>1. AtFragmentStart /\ o = out
    BY <1>7 DEF Reading, AtFragmentStart, Closed
  <2>2. PICK b \in Nat, p \in Nat, e \in Nat, f \in Nat :
          /\ FragmentAt(out, b, p, e, f) /\ f < it
          /\ \A k \in f .. it - 1 : input[k] = "#"
    BY <2>1 DEF AtFragmentStart
  <2>3. out["fragment"] = NoView
    BY <2>1 DEF AtFragmentStart, Only, Parts
  <2>4. FragmentView(o, f)
    BY <1>1, <2>1, <2>2, <2>3 DEF FragmentView
  <2> HIDE DEF o
  <2> QED  BY <2>1, <2>2, <2>4 DEF Whole
<1>8. CASE s = "fragment"
  <2>1. AtFragment /\ o = [out EXCEPT !["fragment"] = <<first, it>>]
    BY <1>8 DEF Reading, AtFragment, Closed
  <2>2. PICK b \in Nat, p \in Nat, e \in Nat, f \in Nat :
          /\ FragmentAt(out, b, p, e, f) /\ f < first
          /\ \A k \in f .. first - 1 : input[k] = "#"
    BY <2>1 DEF AtFragment
  <2>3. first < it /\ input[first] # "#"
    BY <2>1 DEF AtFragment
  <2>4. /\ o["path"] = out["path"] /\ o["scheme"] = out["scheme"] /\ o["host"] = out["host"]
        /\ o["query"] = out["query"] /\ o["fragment"] = <<first, it>>
    BY <1>1, <2>1 DEF Parts
  <2> HIDE DEF o
  <2>5. FragmentAt(o, b, p, e, f)
    BY <2>2, <2>4 DEF FragmentAt, QueryAt, PathAt, Begun
  <2>6. FragmentView(o, f)
    BY <1>1, <2>2, <2>3, <2>4 DEF FragmentView
  <2> QED  BY <2>5, <2>6 DEF Whole
<1> QED  BY <1>2, <1>3, <1>4, <1>5, <1>6, <1>7, <1>8 DEF Reading, States, Authority

LEMMA EmptySub ==
  ASSUME NEW i \in Nat, NEW j \in Int, j < i
  PROVE  SubSeq(input, i, j) = << >>
  OBVIOUS

LEMMA TextOf ==
  ASSUME NEW i, NEW j
  PROVE  Text(<<i, j>>) = SubSeq(input, i, j - 1)
  BY DEF Text

LEMMA ViewedText ==
  ASSUME NEW v, NEW i \in Nat, NEW j \in Nat, Viewed(v, i, j)
  PROVE  Text(v) = SubSeq(input, i, j - 1)
<1>1. CASE v = <<i, j>>
  BY <1>1 DEF Text
<1>2. CASE i = j /\ v = NoView
  <2>1. SubSeq(input, i, j - 1) = << >> /\ SubSeq(input, 1, 1 - 1) = << >>
    BY <1>2, EmptySub
  <2> QED  BY <1>2, <2>1 DEF Text, NoView
<1> QED  BY <1>1, <1>2 DEF Viewed

LEMMA NoText == Text(NoView) = << >>
<1>1. Viewed(NoView, 1, 1)
  BY DEF Viewed
<1>2. Text(NoView) = SubSeq(input, 1, 1 - 1)
  BY <1>1, ViewedText
<1>3. SubSeq(input, 1, 1 - 1) = << >>
  BY EmptySub
<1> QED  BY <1>2, <1>3

\* AsGrammar without the authority.
Grammar(o, b, p) ==
  /\ Text(o.scheme) = SubSeq(input, 1, b - 2)
  /\ Text(o.path) = SubSeq(input, p, End({"?", "#"}) - 1)
  /\ Text(o.query) = IF End({"?"}) < End({"#"})
                       THEN SubSeq(input, End({"?"}) + 1, End({"#"}) - 1) ELSE <<>>
  /\ \E i \in End({"#"}) .. Len(input) + 1 :
       /\ \A k \in End({"#"}) .. i - 1 : input[k] = "#"
       /\ Text(o.fragment) = SubSeq(input, i, Len(input))
       /\ Text(o.fragment) # <<>> => i > End({"#"}) /\ input[i] # "#"

\* The view of the authority is the part between the slashes and the path.
HostView(o, b, p) == IF p > b + 2 THEN o.host = <<b + 2, p>> ELSE o.host[1] = o.host[2]

LEMMA PathView ==
  ASSUME Len(input) \in Nat, NEW o, NEW b \in Nat, NEW p \in Nat, PathAt(o, b, p)
  PROVE  HostView(o, b, p)
<1>1. CASE Cut(b)
  <2>1. b + 2 <= p /\ Viewed(o.host, b + 2, p)
    BY <1>1 DEF PathAt
  <2>2. CASE p > b + 2
    BY <2>1, <2>2 DEF HostView, Viewed
  <2>3. CASE p = b + 2
    BY <2>1, <2>3 DEF HostView, Viewed, NoView
  <2> QED  BY <2>1, <2>2, <2>3
<1>2. CASE ~Cut(b)
  <2>1. p = b /\ o.host = NoView
    BY <1>2 DEF PathAt
  <2> QED  BY <2>1 DEF HostView, NoView
<1> QED  BY <1>1, <1>2

LEMMA WholeSplits ==
  ASSUME Len(input) \in Nat, NEW o, Whole(o)
  PROVE  \E b, p \in Nat : PathAt(o, b, p) /\ Grammar(o, b, p) /\ HostView(o, b, p)
<1>1. PICK b \in Nat, p \in Nat, e \in Nat, f \in Nat :
        FragmentAt(o, b, p, e, f) /\ FragmentView(o, f)
  BY DEF Whole
<1>2. PathAt(o, b, p) /\ QueryAt(o, b, p, e)
  BY <1>1 DEF FragmentAt, QueryAt
<1>3. HostView(o, b, p)
  BY <1>2, PathView
<1>4. /\ b <= p /\ p <= e /\ e <= f /\ f <= Len(input) + 1 /\ b >= 1
      /\ Clean({"?", "#"}, p, e) /\ Clean({"#"}, e, f)
      /\ Viewed(o.path, p, e)
      /\ e = Len(input) + 1 \/ input[e] \in {"?", "#"}
      /\ f = Len(input) + 1 \/ input[f] = "#"
  BY <1>1, <1>2 DEF FragmentAt, QueryAt, PathAt, Begun
<1>5. Clean({"?", "#"}, 1, p)
  <2>1. CASE b = 1
    <3>1. ~Cut(b) /\ p = b
      BY <2>1, <1>2 DEF Cut, PathAt
    <3> QED  BY <2>1, <3>1 DEF Clean
  <2>2. CASE b # 1
    <3>1. /\ b \in 3 .. Len(input) + 1 /\ input[b - 1] = ":"
          /\ Clean({"/", "*", ":", "?", "#"}, 1, b - 1)
      BY <1>2, <2>2 DEF PathAt, Begun
    <3>2. Clean({"?", "#"}, 1, b)
      BY <3>1 DEF Clean
    <3>3. CASE Cut(b)
      <4>1. Clean({"/", "?", "#"}, b + 2, p) /\ input[b] = "/" /\ input[b + 1] = "/"
        BY <1>2, <3>3 DEF PathAt, Cut
      <4> QED  BY <3>2, <4>1 DEF Clean
    <3>4. CASE ~Cut(b)
      BY <1>2, <3>2, <3>4 DEF PathAt
    <3> QED  BY <3>3, <3>4
  <2> QED  BY <2>1, <2>2
<1>6. Clean({"?", "#"}, 1, e)
  BY <1>4, <1>5 DEF Clean
<1>7. End({"?", "#"}) = e
  BY <1>4, <1>6, EndFromIs DEF End
<1>8. End({"#"}) = f
  <2>1. Clean({"#"}, 1, f)
    BY <1>4, <1>6 DEF Clean
  <2> QED  BY <1>4, <2>1, EndFromIs DEF End
<1>9. Text(o.path) = SubSeq(input, p, e - 1)
  BY <1>4, ViewedText
<1>10. Text(o.scheme) = SubSeq(input, 1, b - 2)
  <2>1. CASE b = 1 /\ o.scheme = NoView
    BY <2>1, NoText, EmptySub
  <2>2. CASE o.scheme = <<1, b - 1>>
    BY <2>2 DEF Text
  <2> QED  BY <2>1, <2>2, <1>2 DEF PathAt, Begun
<1>11. Text(o.query) = IF End({"?"}) < End({"#"})
                         THEN SubSeq(input, End({"?"}) + 1, End({"#"}) - 1) ELSE <<>>
  <2>1. CASE e < f
    <3>1. input[e] = "?" /\ Clean({"?"}, 1, e)
      BY <1>4, <1>6, <2>1 DEF Clean
    <3>2. End({"?"}) = e
      BY <1>4, <3>1, EndFromIs DEF End
    <3>3. Viewed(o.query, e + 1, f)
      BY <1>1, <2>1 DEF FragmentAt
    <3> QED  BY <1>8, <2>1, <3>2, <3>3, ViewedText
  <2>2. CASE e = f
    <3>1. Text(o.query) = <<>>
      BY <1>1, <2>2, NoText DEF FragmentAt
    <3>2. ASSUME End({"?"}) < f  PROVE FALSE
      \* the first question mark comes after the number sign, if there is one
      <4>1. Clean({"?"}, 1, f) /\ 1 \in 1 .. Len(input) + 1
        BY <1>4, <1>6, <2>2 DEF Clean
      <4>2. End({"?"}) >= f /\ End({"?"}) \in Int
        BY <1>4, <4>1, EndBeyond, EndFromIn DEF End
      <4> QED  BY <3>2, <4>2
    <3> QED  BY <1>8, <3>1, <3>2
  <2> QED  BY <1>4, <2>1, <2>2
<1>12. PICK i \in f .. Len(input) + 1 :
         /\ \A k \in f .. i - 1 : input[k] = "#"
         /\ \/ i = Len(input) + 1 /\ o.fragment = NoView
            \/ f < i /\ i <= Len(input) /\ input[i] # "#" /\ o.fragment = <<i, Len(input) + 1>>
  BY <1>1 DEF FragmentView
<1>13. /\ Text(o.fragment) = SubSeq(input, i, Len(input))
       /\ Text(o.fragment) # <<>> => i > f /\ input[i] # "#"
  <2>1. CASE i = Len(input) + 1 /\ o.fragment = NoView
    BY <2>1, NoText, EmptySub
  <2>2. CASE f < i /\ i <= Len(input) /\ input[i] # "#" /\ o.fragment = <<i, Len(input) + 1>>
    <3>1. Len(input) + 1 - 1 = Len(input)
      OBVIOUS
    <3> QED  BY <2>2, <3>1 DEF Text
  <2> QED  BY <1>12, <2>1, <2>2
<1>14. Grammar(o, b, p)
  BY <1>7, <1>8, <1>9, <1>10, <1>11, <1>12, <1>13 DEF Grammar
<1> QED  BY <1>2, <1>3, <1>14

-----------------------------------------------------------------------------
(* The parts of an authority.                                               *)

LEMMA UserFirst ==
  ASSUME NEW i \in Nat, NEW n \in Nat, i <= n
  PROVE  /\ FirstNot(is_user_char, i, n) \in i .. n
         /\ FirstNot(is_user_char, i, n) = n \/ ~is_user_char(input[FirstNot(is_user_char, i, n)])
         /\ \A m \in i .. FirstNot(is_user_char, i, n) - 1 : is_user_char(input[m])
<1> DEFINE G == {k \in i .. n : is_user_char(input[k])}
<1> HIDE DEF G
<1>1. \E k \in i .. n : (k = n \/ k \notin G) /\ \A m \in i .. k - 1 : m \in G
  BY FirstExists
<1>2. \E k \in i .. n :
        (k = n \/ ~is_user_char(input[k])) /\ \A m \in i .. k - 1 : is_user_char(input[m])
  BY <1>1 DEF G
<1> QED  BY <1>2 DEF FirstNot

LEMMA HostFirst ==
  ASSUME NEW i \in Nat, NEW n \in Nat, i <= n
  PROVE  /\ FirstNot(HostChar, i, n) \in i .. n
         /\ FirstNot(HostChar, i, n) = n \/ ~HostChar(input[FirstNot(HostChar, i, n)])
         /\ \A m \in i .. FirstNot(HostChar, i, n) - 1 : HostChar(input[m])
<1> DEFINE G == {k \in i .. n : HostChar(input[k])}
<1> HIDE DEF G
<1>1. \E k \in i .. n : (k = n \/ k \notin G) /\ \A m \in i .. k - 1 : m \in G
  BY FirstExists
<1>2. \E k \in i .. n :
        (k = n \/ ~HostChar(input[k])) /\ \A m \in i .. k - 1 : HostChar(input[m])
  BY <1>1 DEF G
<1> QED  BY <1>2 DEF FirstNot

LEMMA AddressFirst ==
  ASSUME NEW i \in Nat, NEW n \in Nat, i <= n
  PROVE  /\ FirstNot(AddressChar, i, n) \in i .. n
         /\ FirstNot(AddressChar, i, n) = n \/ ~AddressChar(input[FirstNot(AddressChar, i, n)])
         /\ \A m \in i .. FirstNot(AddressChar, i, n) - 1 : AddressChar(input[m])
<1> DEFINE G == {k \in i .. n : AddressChar(input[k])}
<1> HIDE DEF G
<1>1. \E k \in i .. n : (k = n \/ k \notin G) /\ \A m \in i .. k - 1 : m \in G
  BY FirstExists
<1>2. \E k \in i .. n :
        (k = n \/ ~AddressChar(input[k])) /\ \A m \in i .. k - 1 : AddressChar(input[m])
  BY <1>1 DEF G
<1> QED  BY <1>2 DEF FirstNot

LEMMA ZoneFirst ==
  ASSUME NEW i \in Nat, NEW n \in Nat, i <= n
  PROVE  /\ FirstNot(ZoneChar, i, n) \in i .. n
         /\ FirstNot(ZoneChar, i, n) = n \/ ~ZoneChar(input[FirstNot(ZoneChar, i, n)])
         /\ \A m \in i .. FirstNot(ZoneChar, i, n) - 1 : ZoneChar(input[m])
<1> DEFINE G == {k \in i .. n : ZoneChar(input[k])}
<1> HIDE DEF G
<1>1. \E k \in i .. n : (k = n \/ k \notin G) /\ \A m \in i .. k - 1 : m \in G
  BY FirstExists
<1>2. \E k \in i .. n :
        (k = n \/ ~ZoneChar(input[k])) /\ \A m \in i .. k - 1 : ZoneChar(input[m])
  BY <1>1 DEF G
<1> QED  BY <1>2 DEF FirstNot

\* The end of a bracket is after the first "]", or there is none.
Bracketed(e, i, n) ==
  /\ e \in i .. n
  /\ \/ e = n /\ Clean({"]"}, i, n)
     \/ i < e /\ input[e - 1] = "]" /\ Clean({"]"}, i, e - 1)

LEMMA AddressChars ==
  ASSUME NEW ch, AddressChar(ch) \/ ZoneChar(ch)
  PROVE  ch # "]"
  BY AlnumChars, HexAlnum DEF AddressChar, ZoneChar

LEMMA BracketBounds ==
  ASSUME input \in Seq(STRING), NEW i \in Nat, NEW n \in Nat, 1 <= i, i <= n,
         n <= Len(input) + 1
  PROVE  BracketEnd(i, n) = 0 \/ Bracketed(BracketEnd(i, n), i, n)
<1> DEFINE Closing == [e \in i .. n |->
             IF e = n THEN n ELSE IF input[e] = "]" THEN e + 1 ELSE 0]
           AfterAddress == [a \in i .. n |->
             IF n - a > 3 /\ SubSeq(input, a, a + 2) = <<"%", "2", "5">>
               THEN Closing[FirstNot(ZoneChar, a + 3, n)] ELSE Closing[a]]
           a == FirstNot(AddressChar, i, n)
           z == FirstNot(ZoneChar, a + 3, n)
<1>1. BracketEnd(i, n) = AfterAddress[a]
  BY DEF BracketEnd
<1>2. ASSUME NEW e \in i .. n, Clean({"]"}, i, e)
      PROVE  Closing[e] = 0 \/ Bracketed(Closing[e], i, n)
  <2>1. CASE e = n
    <3>1. Closing[e] = n
      BY <2>1
    <3> QED  BY <1>2, <2>1, <3>1 DEF Bracketed
  <2>2. CASE e # n /\ input[e] = "]"
    <3>1. Closing[e] = e + 1
      BY <2>2
    <3> QED  BY <1>2, <2>2, <3>1 DEF Bracketed
  <2>3. CASE e # n /\ input[e] # "]"
    BY <2>3
  <2> QED  BY <2>1, <2>2, <2>3
<1>3. a \in i .. n /\ Clean({"]"}, i, a)
  BY AddressFirst, AddressChars DEF Clean
<1>4. AfterAddress[a] = IF n - a > 3 /\ SubSeq(input, a, a + 2) = <<"%", "2", "5">>
                          THEN Closing[z] ELSE Closing[a]
  BY <1>3
<1> HIDE DEF Closing, AfterAddress
<1>5. CASE n - a > 3 /\ SubSeq(input, a, a + 2) = <<"%", "2", "5">>
  <2> HIDE DEF a
  <2>1. a + 3 \in Nat /\ a + 3 <= n /\ a \in Nat /\ i <= a
    BY <1>3, <1>5
  <2>2. z \in a + 3 .. n /\ \A m \in a + 3 .. z - 1 : input[m] # "]"
    BY <2>1, ZoneFirst, AddressChars
  <2> HIDE DEF z
  <2>3. \A m \in a .. a + 2 : input[m] # "]"
    <3>1. /\ Len(input) \in Nat /\ a \in 1 .. Len(input) + 1
          /\ a + 2 \in a - 1 .. Len(input) /\ a + 2 - a + 1 = 3
      BY <1>5, <2>1, LenProperties
    <3>2. \A m \in 1 .. 3 : SubSeq(input, a, a + 2)[m] = input[a + m - 1]
      <4>1. \A m \in 1 .. a + 2 - a + 1 : SubSeq(input, a, a + 2)[m] = input[a + m - 1]
        BY <3>1, SubSeqProperties
      <4> QED  BY <3>1, <4>1
    <3>5. a + 1 - 1 = a /\ a + 2 - 1 = a + 1 /\ a + 3 - 1 = a + 2
      BY <2>1
    <3>6. 1 \in 1 .. 3 /\ 2 \in 1 .. 3 /\ 3 \in 1 .. 3
      OBVIOUS
    <3>7. /\ <<"%", "2", "5">>[1] = input[a] /\ <<"%", "2", "5">>[2] = input[a + 1]
          /\ <<"%", "2", "5">>[3] = input[a + 2]
      BY <1>5, <3>2, <3>5, <3>6, Zenon
    <3>3. input[a] = "%" /\ input[a + 1] = "2" /\ input[a + 2] = "5"
      BY <3>7
    <3>4. \A m \in a .. a + 2 : m = a \/ m = a + 1 \/ m = a + 2
      BY <2>1
    <3> QED  BY <3>3, <3>4
  <2>4. z \in i .. n /\ Clean({"]"}, i, z)
    BY <1>3, <2>1, <2>2, <2>3 DEF Clean
  <2> QED  BY <1>1, <1>2, <1>4, <1>5, <2>4
<1>6. CASE ~(n - a > 3 /\ SubSeq(input, a, a + 2) = <<"%", "2", "5">>)
  BY <1>1, <1>2, <1>3, <1>4, <1>6
<1> QED  BY <1>5, <1>6

LEMMA DigitBounds ==
  ASSUME NEW ch, is_digit(ch)
  PROVE  DigitValue(ch) \in 0 .. 9
<1>1. \E d \in 0 .. 9 : Digits[d + 1] = ch
  <2>1. PICK i \in DOMAIN Digits : Digits[i] = ch
    BY DEF is_digit
  <2>2. DOMAIN Digits = 1 .. 10
    BY DEF Digits
  <2>3. i - 1 \in 0 .. 9 /\ (i - 1) + 1 = i
    BY <2>1, <2>2
  <2> QED  BY <2>1, <2>3
<1> QED  BY <1>1 DEF DigitValue

\* The number that at most five digits make.
LEMMA NumberNat ==
  ASSUME NEW i \in Nat, NEW n \in 0 .. 5, \A k \in i .. i + n - 1 : is_digit(input[k])
  PROVE  Number(i, n) \in Nat /\ Number(i, n) = PlaceValue(<<i, i + n>>)
<1> DEFINE d == [k \in 1 .. n |-> DigitValue(input[i + k - 1])]
           F(f) == [k \in 0 .. n |-> IF k = 0 THEN 0
                                     ELSE f[k - 1] * 10 + DigitValue(input[i + k - 1])]
<1>1. \A k \in 1 .. n : d[k] \in 0 .. 9 /\ d[k] = DigitValue(input[i + k - 1])
  <2>1. SUFFICES ASSUME NEW k \in 1 .. n  PROVE is_digit(input[i + k - 1])
    BY DigitBounds
  <2>2. i + k - 1 \in i .. i + n - 1
    OBVIOUS
  <2> QED  BY <2>2
<1> HIDE DEF d
<1>2. \E f : f = F(f)
  <2> DEFINE v1 == 0 * 10 + d[1]
             v2 == v1 * 10 + d[2]
             v3 == v2 * 10 + d[3]
             v4 == v3 * 10 + d[4]
             v5 == v4 * 10 + d[5]
             w == [k \in 0 .. n |-> CASE k = 0 -> 0 [] k = 1 -> v1 [] k = 2 -> v2
                                      [] k = 3 -> v3 [] k = 4 -> v4 [] k = 5 -> v5]
  <2>1. /\ w[0] = 0 /\ DOMAIN w = 0 .. n
        /\ n >= 1 => w[1] = v1
        /\ n >= 2 => w[2] = v2
        /\ n >= 3 => w[3] = v3
        /\ n >= 4 => w[4] = v4
        /\ n >= 5 => w[5] = v5
    OBVIOUS
  <2>2. ASSUME NEW k \in 1 .. n  PROVE w[k] = w[k - 1] * 10 + d[k]
    <3>1. k = 1 \/ k = 2 \/ k = 3 \/ k = 4 \/ k = 5
      OBVIOUS
    <3> HIDE DEF w
    <3> QED  BY <2>1, <3>1
  <2>3. w = F(w)
    <3>1. \A k \in 0 .. n : w[k] = F(w)[k]
      <4> HIDE DEF w
      <4>1. \A k \in 1 .. n : w[k] = w[k - 1] * 10 + DigitValue(input[i + k - 1])
        BY <1>1, <2>2
      <4>2. SUFFICES ASSUME NEW k \in 0 .. n  PROVE w[k] = F(w)[k]
        OBVIOUS
      <4>3. CASE k = 0
        BY <2>1, <4>3
      <4>4. CASE k # 0
        <5>1. k \in 1 .. n
          BY <4>4
        <5> QED  BY <4>1, <4>4, <5>1
      <4> QED  BY <4>3, <4>4
    <3>2. DOMAIN F(w) = 0 .. n
      OBVIOUS
    <3>3. w = [k \in 0 .. n |-> w[k]]
      BY <2>1
    <3> HIDE DEF w
    <3> QED  BY <3>1, <3>2, <3>3
  <2> QED  BY <2>3
<1> DEFINE Upto == CHOOSE f : f = F(f)
<1>3. Upto = F(Upto)
  BY <1>2
<1>4. Number(i, n) = Upto[n]
  BY DEF Number
<1> HIDE DEF Upto
<1>5. Upto[0] = 0
  BY <1>3
<1>6. ASSUME NEW k \in 1 .. n  PROVE Upto[k] = Upto[k - 1] * 10 + d[k]
  BY <1>1, <1>3
<1> DEFINE D(k) == IF k < n THEN d[n - k] ELSE 0
<1>7. PlaceValue(<<i, i + n>>) = D(0) + 10 * D(1) + 100 * D(2) + 1000 * D(3) + 10000 * D(4)
  <2> DEFINE v == <<i, i + n>>
             digit(k) == IF v[1] + k < v[2] THEN DigitValue(input[v[2] - 1 - k]) ELSE 0
  <2>1. ASSUME NEW k \in 0 .. 4  PROVE digit(k) = D(k)
    <3>1. v[1] = i /\ v[2] = i + n
      OBVIOUS
    <3>2. CASE k < n
      <4>1. n - k \in 1 .. n /\ i + (n - k) - 1 = i + n - 1 - k /\ i + k < i + n
        BY <3>2
      <4>2. d[n - k] = DigitValue(input[i + (n - k) - 1])
        BY <1>1, <4>1
      <4> QED  BY <3>1, <3>2, <4>1, <4>2
    <3>3. CASE ~(k < n)
      <4>1. ~(i + k < i + n)
        BY <3>3
      <4> QED  BY <3>1, <3>3, <4>1
    <3> QED  BY <3>2, <3>3
  <2>2. /\ digit(0) = D(0) /\ digit(1) = D(1) /\ digit(2) = D(2) /\ digit(3) = D(3)
        /\ digit(4) = D(4)
    BY <2>1
  <2>3. PlaceValue(v) = digit(0) + 10 * digit(1) + 100 * digit(2) + 1000 * digit(3)
                          + 10000 * digit(4)
    BY DEF PlaceValue
  <2> HIDE DEF digit, D, v
  <2>4. PlaceValue(v) = D(0) + 10 * D(1) + 100 * D(2) + 1000 * D(3) + 10000 * D(4)
    BY <2>2, <2>3
  <2> QED  BY <2>4 DEF v
<1>8. n = 0 \/ n = 1 \/ n = 2 \/ n = 3 \/ n = 4 \/ n = 5
  OBVIOUS
<1>9. \A k \in 1 .. n : d[k] \in Nat
  BY <1>1
<1>10. Upto[n] \in Nat
       /\ Upto[n] = D(0) + 10 * D(1) + 100 * D(2) + 1000 * D(3) + 10000 * D(4)
  <2>1. CASE n = 0
    BY <1>5, <2>1
  <2>2. CASE n = 1
    BY <1>5, <1>6, <1>9, <2>2
  <2>3. CASE n = 2
    BY <1>5, <1>6, <1>9, <2>3
  <2>4. CASE n = 3
    BY <1>5, <1>6, <1>9, <2>4
  <2>5. CASE n = 4
    BY <1>5, <1>6, <1>9, <2>5
  <2>6. CASE n = 5
    BY <1>5, <1>6, <1>9, <2>6
  <2> QED  BY <1>8, <2>1, <2>2, <2>3, <2>4, <2>5, <2>6
<1> QED  BY <1>4, <1>7, <1>10

Within(v) == v \in (1 .. Len(input) + 1) \X (1 .. Len(input) + 1) /\ v[1] <= v[2]

\* A parsed_url before its authority is taken apart.
Fresh(o) ==
  /\ DOMAIN o = Parts \cup {"port_value"} /\ \A q \in Parts : Within(o[q])
  /\ o.port = NoView /\ o.port_value = 0

Errors == {"none", "invalid_character", "missing_host", "port_overflow"}

PortExact(o) ==
  /\ o.port[2] - o.port[1] <= 5
  /\ \A k \in o.port[1] .. o.port[2] - 1 : is_digit(input[k])
  /\ o.port[1] # o.port[2] => o.port_value = PlaceValue(o.port)

LEMMA NoPort ==
  ASSUME NEW o, o.port = NoView
  PROVE  PortExact(o)
  BY DEF PortExact, NoView

\* What is made of the digits from p to n.
PortOK(r, o, p, n) ==
  /\ r.ec \in Errors
  /\ \A q \in Parts \ {"port"} : r.out[q] = o[q]
  /\ Within(r.out.port) /\ r.out.port_value \in 0 .. MaxPort
  /\ r.ec = "none" => r.out.port = <<p, n>> /\ PortExact(r.out)

LEMMA PortResult ==
  ASSUME Len(input) \in Nat, NEW o, Fresh(o), NEW p \in 2 .. Len(input) + 1,
         NEW n \in p .. Len(input) + 1
  PROVE  PortOK(PortParsed(o, p, n), o, p, n)
<1> SUFFICES ASSUME NEW r, r = PortParsed(o, p, n), NEW ro, ro = r.out, NEW err, err = r.ec
             PROVE  /\ err \in Errors
                    /\ \A q \in Parts \ {"port"} : ro[q] = o[q]
                    /\ Within(ro["port"]) /\ ro["port_value"] \in 0 .. MaxPort
                    /\ err = "none" => ro["port"] = <<p, n>> /\ PortExact(ro)
  BY DEF PortOK
<1> DEFINE k == IF n - p < 5 THEN n - p ELSE 5
<1>1. k \in 0 .. 5
  OBVIOUS
<1>2. CASE \E i \in p .. p + k - 1 : ~is_digit(input[i])
  <2>1. ro = o /\ err = "invalid_character"
    BY <1>2 DEF PortParsed, MaxPortDigits
  <2> QED  BY <2>1, MaxPortNat DEF Fresh, Errors, Parts
<1>3. CASE ~\E i \in p .. p + k - 1 : ~is_digit(input[i])
  <2>1. Number(p, k) \in Nat /\ Number(p, k) = PlaceValue(<<p, p + k>>)
    <3>1. p \in Nat /\ \A i \in p .. p + k - 1 : is_digit(input[i])
      BY <1>3
    <3> HIDE DEF k
    <3> QED  BY <1>1, <3>1, NumberNat, Zenon
  <2>5. k <= 5 /\ \A i \in p .. p + k - 1 : is_digit(input[i])
    BY <1>1, <1>3
  <2>2. r = IF Number(p, k) > MaxPort \/ p + k # n
              THEN [out |-> o, ec |-> "port_overflow"]
              ELSE [out |-> [o EXCEPT !.port = <<p, n>>, !.port_value = Number(p, k)],
                    ec |-> "none"]
    BY <1>3 DEF PortParsed, MaxPortDigits
  <2> HIDE DEF k
  <2>3. CASE Number(p, k) > MaxPort \/ p + k # n
    <3>1. ro = o /\ err = "port_overflow"
      BY <2>2, <2>3
    <3> QED  BY <3>1, MaxPortNat DEF Fresh, Errors, Parts
  <2>4. CASE ~(Number(p, k) > MaxPort \/ p + k # n)
    <3>1. ro = [o EXCEPT !.port = <<p, n>>, !.port_value = Number(p, k)] /\ err = "none"
      BY <2>2, <2>4
    <3>2. Number(p, k) \in 0 .. MaxPort /\ n - p = k /\ p + k = n
      BY <1>1, <2>1, <2>4, MaxPortNat
    <3>3. /\ err = "none" /\ ro["port"] = <<p, n>> /\ ro["port_value"] = Number(p, k)
          /\ \A q \in Parts \ {"port"} : ro[q] = o[q]
      BY <3>1 DEF Fresh, Parts
    <3>4. Within(ro["port"])
      BY <3>3 DEF Within
    <3>5. PortExact(ro)
      <4>1. ro["port"][1] = p /\ ro["port"][2] = n
        BY <3>3
      <4>2. ro["port_value"] = PlaceValue(ro["port"])
        BY <2>1, <3>2, <3>3
      <4>3. n - p <= 5 /\ \A i \in p .. n - 1 : is_digit(input[i])
        BY <2>5, <3>2
      <4> QED  BY <4>1, <4>2, <4>3 DEF PortExact
    <3> QED  BY <3>2, <3>3, <3>4, <3>5 DEF Errors
  <2> QED  BY <2>3, <2>4
<1> QED  BY <1>2, <1>3

\* What is made of the text from h to n, of a host and maybe a port.
HostOK(r, o, h, n) ==
  /\ r.ec \in Errors
  /\ \A q \in Parts \ {"port", "host"} : r.out[q] = o[q]
  /\ \A q \in {"host", "port"} : Within(r.out[q])
  /\ r.out.port_value \in 0 .. MaxPort
  /\ r.ec = "none" =>
       /\ PortExact(r.out) /\ r.out.host = <<h, HostOver(h, n)>>
       /\ Text(r.out.port) = SubSeq(input, HostOver(h, n) + 1, n - 1)

LEMMA HostResult ==
  ASSUME input \in Seq(STRING), NEW o, Fresh(o), NEW h \in 2 .. Len(input),
         NEW n \in h + 1 .. Len(input) + 1
  PROVE  HostOK(HostParsed(o, h, n), o, h, n)
<1> SUFFICES ASSUME NEW r, r = HostParsed(o, h, n), NEW ro, ro = r.out, NEW err, err = r.ec
             PROVE  /\ err \in Errors
                    /\ \A q \in Parts \ {"port", "host"} : ro[q] = o[q]
                    /\ \A q \in {"host", "port"} : Within(ro[q])
                    /\ ro["port_value"] \in 0 .. MaxPort
                    /\ err = "none" =>
                         /\ PortExact(ro) /\ ro["host"] = <<h, HostOver(h, n)>>
                         /\ Text(ro["port"]) = SubSeq(input, HostOver(h, n) + 1, n - 1)
  BY DEF HostOK
<1> DEFINE bracket == input[h] = "["
           e == IF bracket THEN BracketEnd(h + 1, n) ELSE FirstNot(HostChar, h, n)
           hosted == [o EXCEPT !.host = <<h, e>>]
<1>1. /\ Len(input) \in Nat /\ h \in Nat /\ n \in Nat /\ h < n /\ h <= n
      /\ n <= Len(input) + 1
  BY LenProperties
<1>2. e \in {0} \cup h .. n
  <2>1. BracketEnd(h + 1, n) \in {0} \cup h + 1 .. n
    BY <1>1, BracketBounds DEF Bracketed
  <2>2. FirstNot(HostChar, h, n) \in h .. n
    BY <1>1, HostFirst, Zenon
  <2> QED  BY <1>1, <2>1, <2>2
<1>3. r = IF e = 0 \/ (~bracket /\ e # n /\ input[e] # ":")
            THEN [out |-> o, ec |-> "invalid_character"]
          ELSE IF e = n THEN [out |-> hosted, ec |-> "none"]
          ELSE IF input[e] = ":" THEN PortParsed(hosted, e + 1, n)
          ELSE [out |-> hosted, ec |-> "invalid_character"]
  BY DEF HostParsed
<1>9. ASSUME e # 0, bracket \/ e = n \/ input[e] = ":"
      PROVE  e = HostOver(h, n)
  <2>1. CASE bracket
    <3>1. Bracketed(e, h + 1, n)
      BY <1>1, <1>9, <2>1, BracketBounds
    <3>2. /\ e \in h + 1 .. n /\ h \in 1 .. Len(input) + 1
          /\ \/ e = n /\ Clean({"]"}, h, n)
             \/ h + 1 < e /\ input[e - 1] = "]" /\ Clean({"]"}, h, e - 1)
      BY <1>1, <2>1, <3>1 DEF Bracketed, Clean
    <3> HIDE DEF e
    <3>3. CASE e = n /\ Clean({"]"}, h, n)
      <4>1. EndFrom(h, {"]"}) >= n /\ EndFrom(h, {"]"}) \in Int
        BY <1>1, <3>2, <3>3, EndBeyond, EndFromIn
      <4> QED  BY <1>1, <2>1, <3>3, <4>1 DEF HostOver
    <3>4. CASE h + 1 < e /\ input[e - 1] = "]" /\ Clean({"]"}, h, e - 1)
      <4>1. EndFrom(h, {"]"}) = e - 1
        BY <1>1, <3>2, <3>4, EndFromIs
      <4> QED  BY <1>1, <2>1, <3>2, <4>1 DEF HostOver
    <3> QED  BY <3>2, <3>3, <3>4
  <2>2. CASE ~bracket
    <3>1. e \in h .. n /\ h \in 1 .. Len(input) + 1 /\ Clean({":"}, h, e)
      <4>1. \A k : HostChar(k) => k # ":"
        BY AlnumChars DEF HostChar
      <4>2. e \in h .. n /\ \A k \in h .. e - 1 : HostChar(input[k])
        BY <1>1, <2>2, HostFirst, Zenon
      <4> HIDE DEF e
      <4> QED  BY <1>1, <4>1, <4>2 DEF Clean
    <3> HIDE DEF e
    <3>2. CASE e = n
      <4>1. EndFrom(h, {":"}) >= n /\ EndFrom(h, {":"}) \in Int
        BY <1>1, <3>1, <3>2, EndBeyond, EndFromIn
      <4> QED  BY <1>1, <2>2, <3>2, <4>1 DEF HostOver
    <3>3. CASE e # n
      <4>1. EndFrom(h, {":"}) = e
        BY <1>1, <1>9, <2>2, <3>1, <3>3, EndFromIs
      <4> QED  BY <1>1, <2>2, <3>1, <3>3, <4>1 DEF HostOver
    <3> QED  BY <3>2, <3>3
  <2> QED  BY <2>1, <2>2
<1> HIDE DEF e
<1>4. ASSUME e # 0
      PROVE  /\ e \in h .. n /\ Within(<<h, e>>) /\ Fresh(hosted) /\ hosted["host"] = <<h, e>>
             /\ \A q \in Parts \ {"host"} : hosted[q] = o[q]
             /\ hosted["port_value"] = 0
  <2>1. e \in h .. n
    BY <1>2, <1>4
  <2>2. Within(<<h, e>>)
    BY <1>1, <2>1 DEF Within
  <2>3. /\ DOMAIN hosted = Parts \cup {"port_value"} /\ hosted["host"] = <<h, e>>
        /\ \A q \in Parts \ {"host"} : hosted[q] = o[q]
        /\ hosted["port_value"] = o["port_value"] /\ hosted["port"] = o["port"]
    BY DEF Fresh, Parts
  <2> HIDE DEF hosted
  <2> QED  BY <2>1, <2>2, <2>3 DEF Fresh
<1> HIDE DEF hosted
<1>5. CASE e = 0 \/ (~bracket /\ e # n /\ input[e] # ":")
  <2>1. ro = o /\ err = "invalid_character"
    BY <1>3, <1>5
  <2>2. o["port_value"] = 0 /\ \A q \in {"host", "port"} : Within(o[q])
    BY DEF Fresh, Parts
  <2> QED  BY <2>1, <2>2, MaxPortNat DEF Errors
<1>6. CASE e = n
  <2>1. e # 0
    BY <1>1, <1>6
  <2>2. ro = hosted /\ err = "none"
    BY <1>3, <1>6, <2>1
  <2>3. hosted["port"] = NoView /\ hosted["port_value"] = 0 /\ "port" \in Parts
    BY <1>4, <2>1 DEF Fresh, Parts
  <2>4. PortExact(hosted) /\ Text(hosted["port"]) = <<>>
    BY <2>3, NoPort, NoText
  <2>5. SubSeq(input, e + 1, n - 1) = <<>>
    BY <1>1, <1>6, EmptySub
  <2>6. \A q \in {"host", "port"} : Within(hosted[q])
    BY <1>4, <2>1, <2>3 DEF Fresh
  <2>7. /\ err \in Errors
        /\ \A q \in Parts \ {"port", "host"} : ro[q] = o[q]
        /\ \A q \in {"host", "port"} : Within(ro[q])
        /\ ro["port_value"] \in 0 .. MaxPort
    BY <1>4, <2>1, <2>2, <2>3, <2>6, MaxPortNat DEF Errors
  <2>8. /\ PortExact(ro) /\ ro["host"] = <<h, e>>
        /\ Text(ro["port"]) = SubSeq(input, e + 1, n - 1)
    BY <1>4, <2>1, <2>2, <2>4, <2>5
  <2> QED  BY <1>6, <1>9, <2>1, <2>7, <2>8, Zenon
<1>7. CASE e # 0 /\ e # n /\ input[e] # ":" /\ bracket
  <2>1. ro = hosted /\ err = "invalid_character"
    BY <1>3, <1>7
  <2>2. hosted["port"] = NoView /\ hosted["port_value"] = 0 /\ "port" \in Parts
    BY <1>4, <1>7 DEF Fresh, Parts
  <2>3. \A q \in {"host", "port"} : Within(hosted[q])
    BY <1>4, <1>7, <2>2 DEF Fresh
  <2> QED  BY <1>4, <1>7, <2>1, <2>2, <2>3, MaxPortNat DEF Errors
<1>8. CASE e # 0 /\ e # n /\ input[e] = ":"
  <2>1. r = PortParsed(hosted, e + 1, n)
    BY <1>3, <1>8
  <2>2. e \in h .. n - 1 /\ e + 1 \in 2 .. Len(input) + 1 /\ n \in e + 1 .. Len(input) + 1
    BY <1>1, <1>4, <1>8
  <2>3. Fresh(hosted)
    BY <1>4, <1>8
  <2>4. /\ err \in Errors
        /\ \A q \in Parts \ {"port"} : ro[q] = hosted[q]
        /\ Within(ro["port"]) /\ ro["port_value"] \in 0 .. MaxPort
        /\ err = "none" => ro["port"] = <<e + 1, n>> /\ PortExact(ro)
    <3>1. PortOK(PortParsed(hosted, e + 1, n), hosted, e + 1, n)
      BY <1>1, <2>2, <2>3, PortResult, Zenon
    <3> QED  BY <2>1, <3>1 DEF PortOK
  <2>5. err = "none" => Text(ro["port"]) = SubSeq(input, e + 1, n - 1)
    BY <2>4, TextOf
  <2>6. ro["host"] = <<h, e>>
    BY <1>4, <1>8, <2>4 DEF Parts
  <2>7. /\ \A q \in Parts \ {"port", "host"} : ro[q] = o[q]
        /\ Within(ro["host"])
    BY <1>4, <1>8, <2>4, <2>6
  <2> QED  BY <1>8, <1>9, <2>4, <2>5, <2>6, <2>7, Zenon
<1> QED  BY <1>5, <1>6, <1>7, <1>8

\* AuthorityAsGrammar, of o.
HostFrom(i, n) == IF EndFrom(i, {"@"}) < n THEN EndFrom(i, {"@"}) + 1 ELSE i
Divided(o, i, n) ==
  /\ Text(o.userinfo) = SubSeq(input, i, HostFrom(i, n) - 2)
  /\ Text(o.host) = SubSeq(input, HostFrom(i, n), HostOver(HostFrom(i, n), n) - 1)
  /\ Text(o.port) = SubSeq(input, HostOver(HostFrom(i, n), n) + 1, n - 1)

\* What is made of the authority from i to n.
AuthorityOK(r, o, i, n) ==
  /\ r.ec \in Errors
  /\ \A q \in {"scheme", "path", "query", "fragment"} : r.out[q] = o[q]
  /\ \A q \in {"userinfo", "host", "port"} : Within(r.out[q])
  /\ r.out.port_value \in 0 .. MaxPort
  /\ r.ec = "none" => PortExact(r.out) /\ Divided(r.out, i, n)

LEMMA AuthorityResult ==
  ASSUME input \in Seq(STRING), has_userinfo \in BOOLEAN, NEW o, Fresh(o),
         NEW i \in 2 .. Len(input), NEW n \in i + 1 .. Len(input) + 1,
         o.userinfo = NoView, has_userinfo <=> \E k \in i .. n - 1 : input[k] = "@"
  PROVE  AuthorityOK(parse_authority(o, i, n), o, i, n)
<1> DEFINE u == IF has_userinfo THEN FirstNot(is_user_char, i, n) ELSE i
           h == IF has_userinfo THEN u + 1 ELSE i
           named == IF has_userinfo THEN [o EXCEPT !.userinfo = <<i, u>>] ELSE o
           r == parse_authority(o, i, n)
<1> SUFFICES AuthorityOK(r, o, i, n)
  OBVIOUS
<1>1. /\ Len(input) \in Nat /\ i \in Nat /\ n \in Nat /\ i < n /\ i <= n /\ i \in i .. n
      /\ n <= Len(input) + 1 /\ 2 <= i
  BY LenProperties
<1>2. u \in i .. n
  BY <1>1, UserFirst, Zenon
<1>3. r = IF has_userinfo /\ (u = n \/ input[u] # "@")
            THEN [out |-> o, ec |-> "invalid_character"]
          ELSE IF h = n THEN [out |-> named, ec |-> "missing_host"]
          ELSE HostParsed(named, h, n)
  BY DEF parse_authority
<1>4. (has_userinfo => h = u + 1) /\ (~has_userinfo => h = i)
  OBVIOUS
<1>5. Fresh(named) /\ \A q \in Parts \ {"userinfo"} : named[q] = o[q]
  <2>1. CASE has_userinfo
    <3>1. /\ DOMAIN named = Parts \cup {"port_value"} /\ named["userinfo"] = <<i, u>>
          /\ \A q \in Parts \ {"userinfo"} : named[q] = o[q]
          /\ named["port_value"] = o["port_value"] /\ named["port"] = o["port"]
      BY <2>1 DEF Fresh, Parts
    <3>2. Within(<<i, u>>)
      BY <1>1, <1>2 DEF Within
    <3> HIDE DEF named
    <3> QED  BY <3>1, <3>2 DEF Fresh
  <2>2. CASE ~has_userinfo
    BY <2>2
  <2> QED  BY <2>1, <2>2
<1>6. has_userinfo => named["userinfo"] = <<i, u>>
  BY DEF Fresh, Parts
<1>11. ~has_userinfo => named["userinfo"] = NoView
  OBVIOUS
<1>10. has_userinfo => Clean({"@"}, i, u)
  <2>1. has_userinfo => \A k \in i .. u - 1 : is_user_char(input[k])
    BY <1>1, UserFirst, Zenon
  <2> HIDE DEF u
  <2> QED  BY <1>1, <1>2, <2>1, NotAt DEF Clean
<1> HIDE DEF u, h, named, r
<1>7. CASE has_userinfo /\ (u = n \/ input[u] # "@")
  <2>1. r.out = o /\ r.ec = "invalid_character"
    BY <1>3, <1>7
  <2>2. o["port_value"] = 0 /\ \A q \in {"userinfo", "host", "port"} : Within(o[q])
    BY DEF Fresh, Parts
  <2> QED  BY <2>1, <2>2, MaxPortNat DEF AuthorityOK, Errors
<1>8. CASE h = n /\ ~(has_userinfo /\ (u = n \/ input[u] # "@"))
  <2>1. r.out = named /\ r.ec = "missing_host"
    BY <1>3, <1>8
  <2>2. /\ named["port_value"] = 0 /\ \A q \in {"userinfo", "host", "port"} : Within(named[q])
        /\ \A q \in {"scheme", "path", "query", "fragment"} : named[q] = o[q]
    BY <1>5 DEF Fresh, Parts
  <2> QED  BY <2>1, <2>2, MaxPortNat DEF AuthorityOK, Errors
<1>9. CASE h # n /\ ~(has_userinfo /\ (u = n \/ input[u] # "@"))
  <2>1. h \in 2 .. Len(input) /\ n \in h + 1 .. Len(input) + 1 /\ h \in i .. n
    BY <1>1, <1>2, <1>4, <1>9
  <2>2. r = HostParsed(named, h, n)
    BY <1>3, <1>9
  <2>3. HostOK(HostParsed(named, h, n), named, h, n)
    BY <1>5, <2>1, HostResult, Zenon
  <2>4. HostOK(r, named, h, n)
    BY <2>2, <2>3
  <2>5. /\ r.ec \in Errors
        /\ \A q \in {"scheme", "path", "query", "fragment"} : r.out[q] = o[q]
        /\ \A q \in {"host", "port"} : Within(r.out[q])
        /\ r.out["port_value"] \in 0 .. MaxPort
        /\ r.out["userinfo"] = named["userinfo"]
    BY <1>5, <2>4 DEF HostOK, Parts
  <2>6. Within(r.out["userinfo"])
    BY <1>5, <2>5 DEF Fresh, Parts
  <2>7. ASSUME r.ec = "none"  PROVE PortExact(r.out) /\ Divided(r.out, i, n)
    <3>1. /\ PortExact(r.out) /\ r.out.host = <<h, HostOver(h, n)>>
          /\ Text(r.out.port) = SubSeq(input, HostOver(h, n) + 1, n - 1)
      BY <2>4, <2>7 DEF HostOK
    <3>2. Text(r.out.host) = SubSeq(input, h, HostOver(h, n) - 1)
      BY <3>1, TextOf
    <3>3. h = HostFrom(i, n) /\ Text(r.out.userinfo) = SubSeq(input, i, h - 2)
      <4>1. CASE has_userinfo
        <5>1. h = u + 1 /\ input[u] = "@" /\ u \in i .. n - 1 /\ Clean({"@"}, i, u)
          BY <1>1, <1>2, <1>4, <1>9, <1>10, <4>1
        <5>2. EndFrom(i, {"@"}) = u
          BY <1>1, <5>1, EndFromIs
        <5>3. Text(r.out["userinfo"]) = SubSeq(input, i, u - 1)
          BY <1>6, <2>5, <4>1, TextOf
        <5>4. h - 2 = u - 1
          BY <5>1
        <5> QED  BY <1>1, <5>1, <5>2, <5>3, <5>4 DEF HostFrom
      <4>2. CASE ~has_userinfo
        <5>1. h = i /\ Clean({"@"}, i, n)
          BY <1>4, <4>2 DEF Clean
        <5>2. EndFrom(i, {"@"}) >= n /\ EndFrom(i, {"@"}) \in Int
          BY <1>1, <5>1, EndBeyond, EndFromIn
        <5>3. r.out["userinfo"] = NoView
          BY <1>11, <2>5, <4>2
        <5>4. Text(r.out["userinfo"]) = <<>> /\ SubSeq(input, i, i - 2) = <<>>
          BY <1>1, <5>3, NoText, EmptySub
        <5>5. ~(EndFrom(i, {"@"}) < n)
          BY <1>1, <5>2
        <5>6. HostFrom(i, n) = i
          BY <5>5 DEF HostFrom
        <5> QED  BY <5>1, <5>4, <5>6
      <4> QED  BY <4>1, <4>2
    <3> QED  BY <3>1, <3>2, <3>3 DEF Divided
  <2> QED  BY <2>5, <2>6, <2>7 DEF AuthorityOK
<1> QED  BY <1>7, <1>8, <1>9

-----------------------------------------------------------------------------
(* The end of the parser.                                                   *)

LEMMA ClosedFresh ==
  ASSUME Cursors, Reading
  PROVE  Fresh(Closed(it)) /\ Closed(it).userinfo = NoView
<1> DEFINE o == Closed(it)
<1> SUFFICES Fresh(o) /\ o.userinfo = NoView
  OBVIOUS
<1>1. /\ Only(out, {"scheme", "host", "path", "query"})
      /\ current_part \in {"none", "scheme", "host", "path", "query", "fragment"}
  BY DEF Reading, States, Authority, AtInitial, AtScheme, AtSuffix, AtSlash, AtAuthorityStart,
         AtAuthority, AtPath, AtQueryStart, AtQuery, AtFragmentStart, AtFragment, Only
<1>2. Within(<<first, it>>)
  BY Bounds DEF Within, Cursors
<1>3. /\ DOMAIN out = Parts \cup {"port_value"} /\ out["port_value"] = 0
      /\ out["port"] = NoView /\ out["userinfo"] = NoView
      /\ \A q \in Parts : Within(out[q])
  BY <1>1 DEF Cursors, Only, Parts, Within
<1>4. /\ DOMAIN o = DOMAIN out /\ o["port_value"] = out["port_value"] /\ o["port"] = out["port"]
      /\ o["userinfo"] = out["userinfo"]
      /\ \A q \in Parts : o[q] = out[q] \/ o[q] = <<first, it>>
  BY <1>1, <1>3 DEF Closed, Parts
<1> HIDE DEF o
<1> QED  BY <1>2, <1>3, <1>4 DEF Fresh

\* AsGrammar, OnlyScheme and SplitAsGrammar, of o.
Split(o, b, p) ==
  /\ Grammar(o, b, p)
  /\ IF p > b + 2 THEN Divided(o, b + 2, p)
     ELSE \A q \in {"userinfo", "host", "port"} : Text(o[q]) = <<>>

OnlySchemeOf(o, n) ==
  /\ Text(o.scheme) = SubSeq(input, 1, n)
  /\ \A q \in Parts \ {"scheme"} : Text(o[q]) = <<>>

Exact(o) ==
  /\ ~(Rooted \/ Bare \/ LoneSlash) => Split(o, Body, PathStart(Body))
  /\ Rooted => Split(o, 1, 1)
  /\ Bare => OnlySchemeOf(o, Len(input))
  /\ LoneSlash => OnlySchemeOf(o, Body - 2)

LEMMA SplitMeans ==
  /\ SplitAsGrammar <=> (Valid /\ input # <<>> => Exact(out))
  /\ SplitAsGrammar' <=> (Valid' /\ input' # <<>> => Exact(out)')
<1>1. SplitAsGrammar <=> (Valid /\ input # <<>> => Exact(out))
  BY Zenon DEF SplitAsGrammar, Exact, AsGrammar, OnlyScheme, OnlySchemeOf, Split, Grammar,
               Divided, HostFrom, AuthorityAsGrammar
<1>2. SplitAsGrammar' <=> (Valid' /\ input' # <<>> => Exact(out)')
  BY Zenon DEF SplitAsGrammar, Exact, AsGrammar, OnlyScheme, OnlySchemeOf, Split, Grammar,
               Divided, HostFrom, AuthorityAsGrammar
<1> QED  BY <1>1, <1>2

LEMMA SplitFrame ==
  ASSUME input' = input
  PROVE  Exact(out)' <=> Exact(out')
<1>1. /\ Body' = Body /\ PathStart(Body)' = PathStart(Body)
      /\ (Rooted' <=> Rooted) /\ (Bare' <=> Bare) /\ (LoneSlash' <=> LoneSlash)
  <2>1. Body' = Body /\ PathStart(Body)' = PathStart(Body) /\ (Slashes(1)' <=> Slashes(1))
    BY TextsFrame
  <2> QED  BY <2>1 DEF Rooted, Bare, LoneSlash
<1>2. /\ End({"?", "#"})' = End({"?", "#"})
      /\ End({"?"})' = End({"?"}) /\ End({"#"})' = End({"#"})
  BY TextsFrame
<1>3. \A q \in Parts : Text(out[q])' = Text(out'[q])
  BY TextsFrame
<1>4. ASSUME NEW b, NEW p  PROVE Grammar(out, b, p)' <=> Grammar(out', b, p)
  BY <1>2, <1>3 DEF Grammar, Parts
<1>5. ASSUME NEW i, NEW n  PROVE Divided(out, i, n)' <=> Divided(out', i, n)
  BY <1>3, TextsFrame DEF Divided, HostFrom, Parts
<1>6. ASSUME NEW b, NEW p  PROVE Split(out, b, p)' <=> Split(out', b, p)
  BY <1>3, <1>4, <1>5 DEF Split, Parts
<1>7. ASSUME NEW n  PROVE OnlySchemeOf(out, n)' <=> OnlySchemeOf(out', n)
  BY <1>3 DEF OnlySchemeOf, Parts
<1> QED  BY <1>1, <1>6, <1>7 DEF Exact

\* Where the scheme is over in a text that has one.
LEMMA SchemeIs ==
  ASSUME Len(input) \in Nat, NEW b \in 3 .. Len(input) + 1, input[b - 1] = ":",
         Clean({"/", "*", ":", "?", "#"}, 1, b - 1)
  PROVE  Body = b /\ ~Rooted /\ ~Bare
<1>1. Clean({":", "/", "?", "#"}, 1, b - 1) /\ b - 1 \in 1 .. Len(input) + 1
  BY DEF Clean
<1>2. SchemeEnd = b - 1
  BY <1>1, EndFromIs DEF SchemeEnd, End
<1>3. Body = b
  BY <1>2 DEF Body
<1>4. input[1] \notin {"/", "*"}
  BY DEF Clean
<1> QED  BY <1>3, <1>4 DEF Rooted, Slashes, Bare

LEMMA PathExact ==
  ASSUME Len(input) \in Nat, NEW o, NEW b \in Nat, NEW p \in Nat, PathAt(o, b, p),
         NEW w, Split(w, b, p), input \in Seq(STRING), input # <<>>
  PROVE  Exact(w)
<1>1. Begun(o, b)
  BY DEF PathAt
<1>2. CASE b = 1 /\ input[1] \in {"/", "*"}
  <2>1. ~Cut(b) /\ p = 1
    BY <1>2 DEF PathAt, Cut
  <2>2. 1 \in 1 .. Len(input)
    BY EmptySeq
  <2>3. CASE input[1] = "*"
    BY <1>2, <2>1, <2>3 DEF Exact, Rooted, Bare, LoneSlash
  <2>4. CASE input[1] = "/"
    <3>1. SchemeEnd = 1
      <4>1. Clean({":", "/", "?", "#"}, 1, 1)
        BY DEF Clean
      <4> QED  BY <2>2, <2>4, <4>1, EndFromIs DEF SchemeEnd, End
    <3>2. Body = 1
      BY <3>1 DEF Body
    <3>3. ~Bare /\ ~LoneSlash
      BY <2>4, <3>2 DEF Bare, LoneSlash
    <3>4. ~Slashes(1) => PathStart(1) = 1
      BY DEF PathStart
    <3> QED  BY <1>2, <2>1, <2>4, <3>2, <3>3, <3>4 DEF Exact, Rooted
  <2> QED  BY <1>2, <2>3, <2>4
<1>3. CASE /\ b \in 3 .. Len(input) + 1 /\ input[b - 1] = ":"
           /\ Clean({"/", "*", ":", "?", "#"}, 1, b - 1)
  <2>1. Body = b /\ ~Rooted /\ ~Bare
    BY <1>3, SchemeIs
  <2>2. ~LoneSlash
    BY <1>3, <2>1 DEF LoneSlash, PathAt
  <2>3. Slashes(b) <=> Cut(b)
    BY <1>3 DEF Slashes, Cut
  <2>4. PathStart(b) = p
    <3>1. CASE Cut(b)
      <4>1. /\ p \in b + 2 .. Len(input) + 1 /\ b + 2 \in Nat /\ Clean({"/", "?", "#"}, b + 2, p)
            /\ p = Len(input) + 1 \/ input[p] \in {"/", "?", "#"}
        BY <3>1 DEF PathAt
      <4>2. EndFrom(b + 2, {"/", "?", "#"}) = p
        BY <4>1, EndFromIs
      <4> QED  BY <2>3, <3>1, <4>2 DEF PathStart
    <3>2. CASE ~Cut(b)
      BY <2>3, <3>2 DEF PathStart, PathAt
    <3> QED  BY <3>1, <3>2
  <2> QED  BY <2>1, <2>2, <2>4 DEF Exact
<1> QED  BY <1>1, <1>2, <1>3 DEF Begun

LEMMA Finished ==
  ASSUME Cursors, done', ec' \in Errors, UNCHANGED <<input, it, first>>,
         \A q \in Parts : Within(out'[q]), out'["port_value"] \in 0 .. MaxPort,
         ec' = "none" => PortExact(out'),
         ec' = "none" /\ input # <<>> => Exact(out')
  PROVE  PartsExact'
<1>1. input' = input /\ it' = it /\ first' = first
  OBVIOUS
<1>2. TypeOK'
  BY <1>1, LenProperties DEF TypeOK, Cursors, Within, Errors
<1>3. SplitAsGrammar'
  <2>1. Exact(out)' <=> Exact(out')
    BY <1>1, SplitFrame
  <2> QED  BY <1>1, <2>1, SplitMeans DEF Valid
<1>4. PortAsDigits'
  <2>1. SUFFICES ASSUME ec' = "none", PortExact(out')
                 PROVE  (/\ out.port[2] - out.port[1] <= 5
                         /\ \A k \in out.port[1] .. out.port[2] - 1 : is_digit(input[k])
                         /\ IF out.port[1] # out.port[2] THEN port_value = PlaceValue(out.port)
                            ELSE port_value \in {0, 21, 80, 443})'
    BY DEF PortAsDigits, Valid
  <2>2. /\ out'["port"][2] - out'["port"][1] <= 5
        /\ \A k \in out'["port"][1] .. out'["port"][2] - 1 : is_digit(input[k])
    BY <2>1 DEF PortExact
  <2>3. CASE out'["port"][1] # out'["port"][2]
    <3>1. port_value' = PlaceValue(out'["port"])
      BY <2>1, <2>3 DEF port_value, PortExact
    <3>2. PlaceValue(out["port"])' = PlaceValue(out'["port"])
      BY <1>1, TextsFrame
    <3> QED  BY <1>1, <2>2, <2>3, <3>1, <3>2
  <2>4. CASE out'["port"][1] = out'["port"][2]
    <3>1. port_value' \in {0, 21, 80, 443}
      BY <2>4 DEF port_value
    <3> QED  BY <1>1, <2>2, <2>4, <3>1
  <2> QED  BY <2>3, <2>4
<1> QED  BY <1>2, <1>3, <1>4 DEF PartsExact

LEMMA ParseEnd == Inv /\ parse_end => Inv'
<1> SUFFICES ASSUME Inv, parse_end  PROVE Inv'
  OBVIOUS
<1> DEFINE o == Closed(it)
<1>1. /\ Cursors /\ Reading /\ UserSeen /\ Len(input) \in Nat /\ it = Len(input) + 1
      /\ input \in Seq(STRING) /\ has_userinfo \in BOOLEAN
  BY Bounds DEF Inv, parse_end, Cursors
<1>2. Fresh(o) /\ o.userinfo = NoView
  BY <1>1, ClosedFresh
<1>3. PICK r : /\ r = IF o.host[1] = o.host[2] THEN [out |-> o, ec |-> "none"]
                      ELSE parse_authority(o, o.host[1], o.host[2])
               /\ out' = r.out /\ ec' = r.ec /\ done'
               /\ UNCHANGED <<input, it, first, s, has_userinfo>>
  BY DEF parse_end, finish
<1>4. s \notin {"initial", "scheme", "scheme_suffix_slash"} =>
        \E b, p \in Nat : PathAt(o, b, p) /\ Grammar(o, b, p) /\ HostView(o, b, p)
  BY <1>1, EndWhole, WholeSplits
<1>5. s = "scheme" => Exact(o)
  <2>1. SUFFICES ASSUME s = "scheme"  PROVE Exact(o)
    OBVIOUS
  <2> DEFINE n == Len(input)
  <2>2. AtScheme /\ o = [out EXCEPT !["scheme"] = <<first, it>>]
    BY <1>1, <2>1 DEF Reading, AtScheme, Closed
  <2>3. o["scheme"] = <<1, n + 1>> /\ \A q \in Parts \ {"scheme"} : o[q] = NoView
    BY <1>1, <2>2 DEF AtScheme, Only, Parts, Cursors
  <2>4. Clean({"/", "*", ":", "?", "#"}, 1, n + 1) /\ n \in Nat /\ n >= 1
    BY <1>1, <2>2 DEF AtScheme
  <2> HIDE DEF o
  <2>5. SchemeEnd = n + 1
    <3>1. Clean({":", "/", "?", "#"}, 1, n + 1) /\ n + 1 \in 1 .. Len(input) + 1
      BY <2>4 DEF Clean
    <3> QED  BY <1>1, <3>1, EndFromIs DEF SchemeEnd, End
  <2>6. input[1] \notin {"/", "*"}
    BY <2>4 DEF Clean
  <2>7. Body = 1
    BY <2>4, <2>5 DEF Body
  <2>8. Bare /\ ~Rooted /\ ~LoneSlash
    BY <2>6, <2>7 DEF Bare, Rooted, Slashes, LoneSlash
  <2>9. OnlySchemeOf(o, n)
    <3>1. n + 1 - 1 = n
      BY <2>4
    <3>2. Text(o["scheme"]) = SubSeq(input, 1, n + 1 - 1)
      BY <2>3, TextOf
    <3> QED  BY <2>3, <3>1, <3>2, NoText DEF OnlySchemeOf
  <2> QED  BY <2>8, <2>9 DEF Exact
<1>10. s = "scheme_suffix_slash" => Exact(o)
  <2>1. SUFFICES ASSUME s = "scheme_suffix_slash"  PROVE Exact(o)
    OBVIOUS
  <2> DEFINE b == it - 1
  <2>2. AtSlash /\ o = out
    BY <1>1, <2>1 DEF Reading, AtSlash, Closed
  <2>3. /\ b \in 3 .. Len(input) + 1 /\ input[b - 1] = ":" /\ input[b] = "/" /\ b = Len(input)
        /\ Clean({"/", "*", ":", "?", "#"}, 1, b - 1) /\ o["scheme"] = <<1, b - 1>>
    BY <1>1, <2>2 DEF AtSlash, Begun
  <2>4. \A q \in Parts \ {"scheme"} : o[q] = NoView
    BY <2>2 DEF AtSlash, Only
  <2> HIDE DEF o, b
  <2>5. Body = b /\ ~Rooted /\ ~Bare
    BY <1>1, <2>3, SchemeIs
  <2>6. LoneSlash
    <3>1. input[1] # "*"
      BY <2>3 DEF Clean
    <3> QED  BY <2>3, <2>5, <3>1 DEF LoneSlash
  <2>7. OnlySchemeOf(o, b - 2)
    <3>1. Text(o["scheme"]) = SubSeq(input, 1, b - 1 - 1) /\ b - 1 - 1 = b - 2
      BY <2>3, TextOf
    <3> QED  BY <2>4, <3>1, NoText DEF OnlySchemeOf
  <2> QED  BY <2>5, <2>6, <2>7 DEF Exact
<1>6. s \in {"initial", "scheme", "scheme_suffix_slash"} => o.host = NoView
  BY <1>1 DEF Reading, AtInitial, AtScheme, AtSlash, Only, Parts, Closed, Cursors
<1>7. s = "initial" => input = <<>>
  BY <1>1, EmptySeq DEF Reading, AtInitial
<1>11. has_userinfo <=> \E k \in o.host[1] .. o.host[2] - 1 : input[k] = "@"
  <2>1. o["host"] = Seen
    BY <1>1 DEF Closed, Seen, Cursors, Parts
  <2> QED  BY <1>1, <2>1 DEF UserSeen
<1> HIDE DEF o
<1>8. CASE o.host[1] = o.host[2]
  <2>1. out' = o /\ ec' = "none"
    BY <1>3, <1>8
  <2>2. /\ \A q \in Parts : Within(out'[q])
        /\ out'["port_value"] \in 0 .. MaxPort /\ PortExact(out')
    BY <1>2, <2>1, MaxPortNat, NoPort DEF Fresh
  <2>3. ASSUME input # <<>>  PROVE Exact(out')
    <3>1. s \in {"scheme", "scheme_suffix_slash"}
          \/ s \notin {"initial", "scheme", "scheme_suffix_slash"}
      BY <1>7, <2>3
    <3>2. CASE s \in {"scheme", "scheme_suffix_slash"}
      BY <1>5, <1>10, <2>1, <3>2
    <3>3. CASE s \notin {"initial", "scheme", "scheme_suffix_slash"}
      <4>1. PICK b \in Nat, p \in Nat : PathAt(o, b, p) /\ Grammar(o, b, p) /\ HostView(o, b, p)
        BY <1>4, <3>3
      <4>2. ~(p > b + 2)
        BY <1>8, <4>1 DEF HostView
      <4>3. \A q \in {"userinfo", "host", "port"} : Text(o[q]) = <<>>
        <5>1. Text(o["userinfo"]) = <<>> /\ Text(o["port"]) = <<>>
          BY <1>2, NoText DEF Fresh
        <5>2. Text(o["host"]) = <<>>
          <6>1. o["host"] = <<o["host"][1], o["host"][1]>> /\ o["host"][1] \in Nat
            <7>1. Within(o["host"])
              BY <1>2 DEF Fresh, Parts
            <7> QED  BY <1>8, <7>1 DEF Within
          <6>2. Text(o["host"]) = SubSeq(input, o["host"][1], o["host"][1] - 1)
            BY <6>1, TextOf
          <6> QED  BY <6>1, <6>2, EmptySub
        <5> QED  BY <5>1, <5>2
      <4>4. Split(o, b, p)
        BY <4>1, <4>2, <4>3 DEF Split
      <4> QED  BY <1>1, <2>1, <2>3, <4>1, <4>4, PathExact
    <3> QED  BY <3>1, <3>2, <3>3
  <2> QED  BY <1>1, <1>3, <2>1, <2>2, <2>3, Finished DEF Errors, Inv
<1>9. CASE o.host[1] # o.host[2]
  <2>1. s \notin {"initial", "scheme", "scheme_suffix_slash"}
    BY <1>6, <1>9 DEF NoView
  <2>2. PICK b \in Nat, n \in Nat : PathAt(o, b, n) /\ Grammar(o, b, n) /\ HostView(o, b, n)
    BY <1>4, <2>1
  <2> DEFINE i == b + 2
  <2>10. n > i /\ o.host = <<i, n>>
    BY <1>9, <2>2 DEF HostView
  <2>3. i \in 2 .. Len(input) /\ n \in i + 1 .. Len(input) + 1
    <3>1. n <= Len(input) + 1
      BY <1>1, <2>2 DEF PathAt
    <3> QED  BY <1>1, <2>10, <3>1
  <2>4. r = parse_authority(o, i, n)
    BY <1>3, <1>9, <2>10
  <2>11. has_userinfo <=> \E k \in i .. n - 1 : input[k] = "@"
    BY <1>11, <2>10
  <2> HIDE DEF i
  <2>5. AuthorityOK(r, o, i, n)
    BY <1>1, <1>2, <2>3, <2>4, <2>11, AuthorityResult, Zenon
  <2>6. /\ ec' \in Errors
        /\ \A q \in {"scheme", "path", "query", "fragment"} : out'[q] = o[q]
        /\ \A q \in {"userinfo", "host", "port"} : Within(out'[q])
        /\ out'["port_value"] \in 0 .. MaxPort
        /\ ec' = "none" => PortExact(out')
    BY <1>3, <2>5, Zenon DEF AuthorityOK
  <2>7. \A q \in Parts : Within(out'[q])
    BY <1>2, <2>6 DEF Fresh, Parts
  <2>8. Grammar(out', b, n)
    BY <2>2, <2>6 DEF Grammar
  <2>9. ec' = "none" /\ input # <<>> => Exact(out')
    <3>1. SUFFICES ASSUME ec' = "none", input # <<>>  PROVE Exact(out')
      OBVIOUS
    <3>2. Divided(out', i, n)
      BY <1>3, <2>5, <3>1, Zenon DEF AuthorityOK
    <3>3. Split(out', b, n)
      BY <2>8, <2>10, <3>2 DEF Split, i
    <3> QED  BY <1>1, <2>2, <3>1, <3>3, PathExact
  <2> QED  BY <1>1, <1>3, <2>6, <2>7, <2>9, Finished DEF Errors, Inv
<1> QED  BY <1>8, <1>9

LEMMA InvNext == Inv /\ [Next]_vars => Inv'
<1> SUFFICES ASSUME Inv, [Next]_vars  PROVE Inv'
  OBVIOUS
<1>1. CASE Next
  BY <1>1, ParseChar, ParseEnd DEF Next
<1>2. CASE UNCHANGED vars
  <2>1. /\ input' = input /\ it' = it /\ first' = first /\ s' = s /\ out' = out /\ ec' = ec
        /\ done' = done /\ has_userinfo' = has_userinfo /\ current_part' = current_part
    BY <1>2 DEF vars
  <2>2. PartsExact => PartsExact'
    <3>1. TypeOK => TypeOK'
      BY <2>1 DEF TypeOK
    <3>2. SplitAsGrammar => SplitAsGrammar'
      BY <2>1, SplitMeans, SplitFrame DEF Valid
    <3>3. Valid' <=> Valid
      BY <2>1 DEF Valid
    <3>4. PlaceValue(out.port)' = PlaceValue(out.port)
      BY <2>1, TextsFrame
    <3>5. port_value' = port_value
      BY <2>1, TextsFrame DEF port_value
    <3> QED  BY <2>1, <3>1, <3>2, <3>3, <3>4, <3>5 DEF PartsExact, PortAsDigits
  <2>3. Cursors => Cursors'
    BY <2>1 DEF Cursors
  <2>4. Reading => Reading'
    BY <2>1, Frame DEF Reading, AtInitial, AtScheme, AtSuffix, AtSlash, AtAuthorityStart,
         AtAuthority, AtPath, AtQueryStart, AtQuery, AtFragmentStart, AtFragment, Only
  <2>5. UserSeen => UserSeen'
    BY <2>1 DEF UserSeen, Seen
  <2> QED  BY <2>1, <2>2, <2>3, <2>4, <2>5 DEF Inv
<1> QED  BY <1>1, <1>2

\* For every text that parse_url accepts, its views are the parts that RFC 3986's
\* regular expression and its grammar of an authority give, but for texts that begin
\* with two slashes or "*", have no ":", or end with a slash right after the scheme,
\* and for the number signs at the start of a fragment: what is made of these is
\* stated, too.  The number of the port is that of its digits.  The rewinding of
\* parse_url and the splitting of parse_authority lose and mix up nothing.
THEOREM PartsExactInvariant == Spec => []PartsExact
<1>1. Inv => PartsExact
  <2>1. SUFFICES ASSUME Inv, ~done  PROVE PartsExact
    BY DEF Inv
  <2>2. Cursors
    BY <2>1 DEF Inv
  <2>3. TypeOK
    BY <2>1, <2>2, LenProperties, MaxPortNat DEF Inv, Cursors, TypeOK
  <2> QED  BY <2>1, <2>3 DEF PartsExact, SplitAsGrammar, PortAsDigits, Valid
<1> QED  BY <1>1, InvInit, InvNext, PTL DEF Spec

-----------------------------------------------------------------------------
(* Good parts: how they lie in the text.                                    *)

\* input is put together from the parts, which it and the rest of the state keep.
Built ==
  /\ url.scheme \in Seq(STRING) /\ url.user \in Seq(STRING) /\ url.host \in Seq(STRING)
  /\ url.port \in Seq(STRING) /\ url.path \in Seq(STRING) /\ url.query \in Seq(STRING)
  /\ url.fragment \in Seq(STRING)
  /\ input = url.scheme \o url.user \o url.host \o url.port \o url.path \o url.query
             \o url.fragment

\* The positions where the parts end.
Ends(a, u, h, p, r, q) ==
  /\ a = Len(url.scheme) /\ u = a + Len(url.user) /\ h = u + Len(url.host)
  /\ p = h + Len(url.port) /\ r = p + Len(url.path) /\ q = r + Len(url.query)

LEMMA Appended ==
  ASSUME NEW x \in Seq(STRING), NEW y \in Seq(STRING)
  PROVE  /\ x \o y \in Seq(STRING) /\ Len(x \o y) = Len(x) + Len(y)
         /\ Len(x) \in Nat /\ Len(y) \in Nat
         /\ \A k \in 1 .. Len(x) : (x \o y)[k] = x[k]
         /\ \A k \in Len(x) + 1 .. Len(x) + Len(y) : (x \o y)[k] = y[k - Len(x)]
<1>1. Len(x) \in Nat /\ Len(y) \in Nat
  BY LenProperties
<1>2. /\ x \o y \in Seq(STRING) /\ Len(x \o y) = Len(x) + Len(y)
      /\ \A k \in 1 .. Len(x) + Len(y) :
           (x \o y)[k] = IF k <= Len(x) THEN x[k] ELSE y[k - Len(x)]
  BY ConcatProperties
<1>3. ASSUME NEW k \in 1 .. Len(x)  PROVE (x \o y)[k] = x[k]
  BY <1>1, <1>2
<1>4. ASSUME NEW k \in Len(x) + 1 .. Len(x) + Len(y)  PROVE (x \o y)[k] = y[k - Len(x)]
  BY <1>1, <1>2
<1> QED  BY <1>1, <1>2, <1>3, <1>4

LEMMA PartBounds ==
  ASSUME Built, NEW a, NEW u, NEW h, NEW p, NEW r, NEW q, Ends(a, u, h, p, r, q)
  PROVE  /\ a \in Nat /\ u \in Nat /\ h \in Nat /\ p \in Nat /\ r \in Nat /\ q \in Nat
         /\ Len(input) \in Nat /\ input \in Seq(STRING)
         /\ a <= u /\ u <= h /\ h <= p /\ p <= r /\ r <= q /\ q <= Len(input)
         /\ q + Len(url.fragment) = Len(input)
         /\ \A k \in 1 .. a : input[k] = url.scheme[k]
         /\ \A k \in a + 1 .. u : input[k] = url.user[k - a]
         /\ \A k \in u + 1 .. h : input[k] = url.host[k - u]
         /\ \A k \in h + 1 .. p : input[k] = url.port[k - h]
         /\ \A k \in p + 1 .. r : input[k] = url.path[k - p]
         /\ \A k \in r + 1 .. q : input[k] = url.query[k - r]
         /\ \A k \in q + 1 .. Len(input) : input[k] = url.fragment[k - q]
<1> DEFINE c1 == url.scheme
           c2 == c1 \o url.user
           c3 == c2 \o url.host
           c4 == c3 \o url.port
           c5 == c4 \o url.path
           c6 == c5 \o url.query
           c7 == c6 \o url.fragment
<1>1. c1 \in Seq(STRING) /\ Len(c1) = a /\ a \in Nat
  BY LenProperties DEF Built, Ends
<1> HIDE DEF c1
<1>2. /\ c2 \in Seq(STRING) /\ Len(c2) = u /\ u \in Nat /\ a <= u
      /\ \A k \in 1 .. a : c2[k] = c1[k]
      /\ \A k \in a + 1 .. u : c2[k] = url.user[k - a]
  <2>1. url.user \in Seq(STRING) /\ u = a + Len(url.user)
    BY DEF Built, Ends
  <2>2. c1 \in Seq(STRING) /\ Len(c1) = a /\ a \in Nat
    BY <1>1
  <2>3. /\ c2 \in Seq(STRING) /\ Len(c2) = u /\ Len(url.user) \in Nat
        /\ \A k \in 1 .. a : c2[k] = c1[k]
        /\ \A k \in a + 1 .. u : c2[k] = url.user[k - a]
    BY <2>1, <2>2, Appended, Zenon DEF c2
  <2> QED  BY <2>1, <2>2, <2>3
<1> HIDE DEF c2
<1>3. /\ c3 \in Seq(STRING) /\ Len(c3) = h /\ h \in Nat /\ u <= h
      /\ \A k \in 1 .. u : c3[k] = c2[k]
      /\ \A k \in u + 1 .. h : c3[k] = url.host[k - u]
  <2>1. url.host \in Seq(STRING) /\ h = u + Len(url.host)
    BY DEF Built, Ends
  <2>2. c2 \in Seq(STRING) /\ Len(c2) = u /\ u \in Nat
    BY <1>2
  <2>3. /\ c3 \in Seq(STRING) /\ Len(c3) = h /\ Len(url.host) \in Nat
        /\ \A k \in 1 .. u : c3[k] = c2[k]
        /\ \A k \in u + 1 .. h : c3[k] = url.host[k - u]
    BY <2>1, <2>2, Appended, Zenon DEF c3
  <2> QED  BY <2>1, <2>2, <2>3
<1> HIDE DEF c3
<1>4. /\ c4 \in Seq(STRING) /\ Len(c4) = p /\ p \in Nat /\ h <= p
      /\ \A k \in 1 .. h : c4[k] = c3[k]
      /\ \A k \in h + 1 .. p : c4[k] = url.port[k - h]
  <2>1. url.port \in Seq(STRING) /\ p = h + Len(url.port)
    BY DEF Built, Ends
  <2>2. c3 \in Seq(STRING) /\ Len(c3) = h /\ h \in Nat
    BY <1>3
  <2>3. /\ c4 \in Seq(STRING) /\ Len(c4) = p /\ Len(url.port) \in Nat
        /\ \A k \in 1 .. h : c4[k] = c3[k]
        /\ \A k \in h + 1 .. p : c4[k] = url.port[k - h]
    BY <2>1, <2>2, Appended, Zenon DEF c4
  <2> QED  BY <2>1, <2>2, <2>3
<1> HIDE DEF c4
<1>5. /\ c5 \in Seq(STRING) /\ Len(c5) = r /\ r \in Nat /\ p <= r
      /\ \A k \in 1 .. p : c5[k] = c4[k]
      /\ \A k \in p + 1 .. r : c5[k] = url.path[k - p]
  <2>1. url.path \in Seq(STRING) /\ r = p + Len(url.path)
    BY DEF Built, Ends
  <2>2. c4 \in Seq(STRING) /\ Len(c4) = p /\ p \in Nat
    BY <1>4
  <2>3. /\ c5 \in Seq(STRING) /\ Len(c5) = r /\ Len(url.path) \in Nat
        /\ \A k \in 1 .. p : c5[k] = c4[k]
        /\ \A k \in p + 1 .. r : c5[k] = url.path[k - p]
    BY <2>1, <2>2, Appended, Zenon DEF c5
  <2> QED  BY <2>1, <2>2, <2>3
<1> HIDE DEF c5
<1>6. /\ c6 \in Seq(STRING) /\ Len(c6) = q /\ q \in Nat /\ r <= q
      /\ \A k \in 1 .. r : c6[k] = c5[k]
      /\ \A k \in r + 1 .. q : c6[k] = url.query[k - r]
  <2>1. url.query \in Seq(STRING) /\ q = r + Len(url.query)
    BY DEF Built, Ends
  <2>2. c5 \in Seq(STRING) /\ Len(c5) = r /\ r \in Nat
    BY <1>5
  <2>3. /\ c6 \in Seq(STRING) /\ Len(c6) = q /\ Len(url.query) \in Nat
        /\ \A k \in 1 .. r : c6[k] = c5[k]
        /\ \A k \in r + 1 .. q : c6[k] = url.query[k - r]
    BY <2>1, <2>2, Appended, Zenon DEF c6
  <2> QED  BY <2>1, <2>2, <2>3
<1> HIDE DEF c6
<1>7. /\ c7 \in Seq(STRING) /\ Len(c7) = q + Len(url.fragment)
      /\ q <= Len(c7) /\ Len(c7) \in Nat
      /\ \A k \in 1 .. q : c7[k] = c6[k]
      /\ \A k \in q + 1 .. Len(c7) : c7[k] = url.fragment[k - q]
  <2> DEFINE n == q + Len(url.fragment)
  <2>1. url.fragment \in Seq(STRING)
    BY DEF Built
  <2>2. c6 \in Seq(STRING) /\ Len(c6) = q /\ q \in Nat
    BY <1>6
  <2>3. /\ c7 \in Seq(STRING) /\ Len(c7) = n /\ Len(url.fragment) \in Nat
        /\ \A k \in 1 .. q : c7[k] = c6[k]
        /\ \A k \in q + 1 .. n : c7[k] = url.fragment[k - q]
    BY <2>1, <2>2, Appended, Zenon DEF c7
  <2>4. n \in Nat /\ q <= n
    BY <2>2, <2>3
  <2> QED  BY <2>3, <2>4, Zenon
<1>8. input = c7
  BY DEF Built, c1, c2, c3, c4, c5, c6, c7
<1> HIDE DEF c7
<1>9. /\ \A k \in 1 .. q : input[k] = c6[k]
      /\ \A k \in q + 1 .. Len(input) : input[k] = url.fragment[k - q]
  BY <1>7, <1>8
<1>10. /\ \A k \in 1 .. r : input[k] = c5[k]
       /\ \A k \in r + 1 .. q : input[k] = url.query[k - r]
  <2>1. r \in Nat /\ q \in Nat /\ r <= q
    BY <1>5, <1>6
  <2> QED  BY <1>6, <1>9, <2>1
<1>11. /\ \A k \in 1 .. p : input[k] = c4[k]
       /\ \A k \in p + 1 .. r : input[k] = url.path[k - p]
  <2>1. p \in Nat /\ r \in Nat /\ p <= r
    BY <1>4, <1>5
  <2> QED  BY <1>5, <1>10, <2>1
<1>12. /\ \A k \in 1 .. h : input[k] = c3[k]
       /\ \A k \in h + 1 .. p : input[k] = url.port[k - h]
  <2>1. h \in Nat /\ p \in Nat /\ h <= p
    BY <1>3, <1>4
  <2> QED  BY <1>4, <1>11, <2>1
<1>13. /\ \A k \in 1 .. u : input[k] = c2[k]
       /\ \A k \in u + 1 .. h : input[k] = url.host[k - u]
  <2>1. u \in Nat /\ h \in Nat /\ u <= h
    BY <1>2, <1>3
  <2> QED  BY <1>3, <1>12, <2>1
<1>14. /\ \A k \in 1 .. a : input[k] = c1[k]
       /\ \A k \in a + 1 .. u : input[k] = url.user[k - a]
  <2>1. a \in Nat /\ u \in Nat /\ a <= u
    BY <1>1, <1>2
  <2> QED  BY <1>2, <1>13, <2>1
<1>15. /\ Len(input) \in Nat /\ input \in Seq(STRING)
       /\ q <= Len(input) /\ q + Len(url.fragment) = Len(input)
  BY <1>7, <1>8
<1> QED
  BY <1>1, <1>2, <1>3, <1>4, <1>5, <1>6, <1>9, <1>10, <1>11, <1>12, <1>13, <1>14, <1>15 DEF c1

\* The host from u + 1 to h in brackets.
AddressLaid(u, h) ==
  /\ input[u + 1] = "[" /\ input[h] = "]" /\ u + 2 <= h
  /\ \E z \in u + 2 .. h :
       /\ \A k \in u + 2 .. z - 1 : AddressChar(input[k])
       /\ z < h => /\ z + 3 <= h
                   /\ input[z] = "%" /\ input[z + 1] = "2" /\ input[z + 2] = "5"
                   /\ \A k \in z + 3 .. h - 1 : ZoneChar(input[k])
HostLaid(u, h) == AddressLaid(u, h) \/ \A k \in u + 1 .. h : HostChar(input[k])

\* The text of good parts: the scheme ends with a, the user with u, the host with h,
\* the port with p, the path with r and the query with q.
Laid(a, u, h, p, r, q) ==
  /\ a \in Nat /\ u \in Nat /\ h \in Nat /\ p \in Nat /\ r \in Nat /\ q \in Nat
  /\ Len(input) \in Nat
  /\ 4 <= a /\ a <= u /\ u < h /\ h <= p /\ p <= r /\ r <= q /\ q <= Len(input)
  /\ isalpha_ascii(input[1])
  /\ \A k \in 2 .. a - 3 : isalnum_ascii(input[k]) \/ input[k] \in {"+", "-", "."}
  /\ input[a - 2] = ":" /\ input[a - 1] = "/" /\ input[a] = "/"
  /\ a < u => input[u] = "@" /\ \A k \in a + 1 .. u - 1 : is_user_char(input[k])
  /\ HostLaid(u, h)
  /\ h < p => /\ input[h + 1] = ":" /\ p - h <= 6
              /\ \A k \in h + 2 .. p : is_digit(input[k])
              /\ Number(h + 2, p - h - 1) <= MaxPort
  /\ p < r => input[p + 1] = "/" /\ \A k \in p + 1 .. r : is_url_char(input[k])
  /\ r < q => /\ input[r + 1] = "?"
              /\ \A k \in r + 2 .. q : is_url_char(input[k]) \/ input[k] = "?"
  /\ q < Len(input) =>
       /\ input[q + 1] = "#" /\ (q + 2 <= Len(input) => input[q + 2] # "#")
       /\ \A k \in q + 2 .. Len(input) : is_url_char(input[k]) \/ input[k] \in {"?", "#"}
  /\ p < r \/ r < q \/ q = Len(input)

LEMMA GoodLaid ==
  ASSUME Built, GoodParts, NEW a, NEW u, NEW h, NEW p, NEW r, NEW q, Ends(a, u, h, p, r, q)
  PROVE  Laid(a, u, h, p, r, q)
<1>1. /\ a \in Nat /\ u \in Nat /\ h \in Nat /\ p \in Nat /\ r \in Nat /\ q \in Nat
      /\ Len(input) \in Nat
      /\ a <= u /\ u <= h /\ h <= p /\ p <= r /\ r <= q /\ q <= Len(input)
      /\ q + Len(url.fragment) = Len(input)
  BY PartBounds
<1>2. /\ \A k \in 1 .. a : input[k] = url.scheme[k]
      /\ \A k \in a + 1 .. u : input[k] = url.user[k - a]
      /\ \A k \in u + 1 .. h : input[k] = url.host[k - u]
      /\ \A k \in h + 1 .. p : input[k] = url.port[k - h]
      /\ \A k \in p + 1 .. r : input[k] = url.path[k - p]
      /\ \A k \in r + 1 .. q : input[k] = url.query[k - r]
      /\ \A k \in q + 1 .. Len(input) : input[k] = url.fragment[k - q]
  <2>1. \A k \in 1 .. a : input[k] = url.scheme[k]
    BY PartBounds
  <2>2. \A k \in a + 1 .. u : input[k] = url.user[k - a]
    BY PartBounds
  <2>3. \A k \in u + 1 .. h : input[k] = url.host[k - u]
    BY PartBounds
  <2>4. \A k \in h + 1 .. p : input[k] = url.port[k - h]
    BY PartBounds
  <2>5. \A k \in p + 1 .. r : input[k] = url.path[k - p]
    BY PartBounds
  <2>6. \A k \in r + 1 .. q : input[k] = url.query[k - r]
    BY PartBounds
  <2>7. \A k \in q + 1 .. Len(input) : input[k] = url.fragment[k - q]
    BY PartBounds
  <2> QED  BY <2>1, <2>2, <2>3, <2>4, <2>5, <2>6, <2>7
<1>3. /\ Len(url.scheme) = a /\ Len(url.user) = u - a /\ Len(url.host) = h - u
      /\ Len(url.port) = p - h /\ Len(url.path) = r - p /\ Len(url.query) = q - r
      /\ Len(url.fragment) = Len(input) - q
  <2> DEFINE l1 == Len(url.scheme)
             l2 == Len(url.user)
             l3 == Len(url.host)
             l4 == Len(url.port)
             l5 == Len(url.path)
             l6 == Len(url.query)
             l7 == Len(url.fragment)
             n == Len(input)
  <2>1. /\ l1 \in Nat /\ l2 \in Nat /\ l3 \in Nat /\ l4 \in Nat /\ l5 \in Nat /\ l6 \in Nat
        /\ l7 \in Nat
    BY LenProperties DEF Built
  <2>2. /\ a = l1 /\ u = a + l2 /\ h = u + l3 /\ p = h + l4 /\ r = p + l5 /\ q = r + l6
        /\ q + l7 = n
    BY <1>1 DEF Ends
  <2> HIDE DEF l1, l2, l3, l4, l5, l6, l7, n
  <2>3. /\ l1 = a /\ l2 = u - a /\ l3 = h - u /\ l4 = p - h /\ l5 = r - p /\ l6 = q - r
        /\ l7 = n - q
    BY <1>1, <2>1, <2>2
  <2> QED  BY <2>3 DEF l1, l2, l3, l4, l5, l6, l7, n
<1>4. /\ u = a <=> url.user = <<>>
      /\ h = u <=> url.host = <<>>
      /\ p = h <=> url.port = <<>>
      /\ r = p <=> url.path = <<>>
      /\ q = r <=> url.query = <<>>
      /\ q = Len(input) <=> url.fragment = <<>>
  <2>1. \A t \in Seq(STRING) : Len(t) = 0 <=> t = <<>>
    BY EmptySeq
  <2>2. /\ Len(url.user) = 0 <=> url.user = <<>>
        /\ Len(url.host) = 0 <=> url.host = <<>>
        /\ Len(url.port) = 0 <=> url.port = <<>>
        /\ Len(url.path) = 0 <=> url.path = <<>>
        /\ Len(url.query) = 0 <=> url.query = <<>>
        /\ Len(url.fragment) = 0 <=> url.fragment = <<>>
    BY <2>1 DEF Built
  <2>3. /\ u - a = 0 <=> u = a
        /\ h - u = 0 <=> h = u
        /\ p - h = 0 <=> p = h
        /\ r - p = 0 <=> r = p
        /\ q - r = 0 <=> q = r
        /\ Len(input) - q = 0 <=> q = Len(input)
    BY <1>1
  <2> QED  BY <1>3, <2>2, <2>3
<1>5. /\ 4 <= a /\ isalpha_ascii(input[1])
      /\ \A k \in 2 .. a - 3 : isalnum_ascii(input[k]) \/ input[k] \in {"+", "-", "."}
      /\ input[a - 2] = ":" /\ input[a - 1] = "/" /\ input[a] = "/"
  <2>1. GoodScheme(url.scheme) /\ Len(url.scheme) = a
    BY <1>3, Zenon DEF GoodParts
  <2>2. a > 3 /\ 4 <= a
    BY <1>1, <2>1 DEF GoodScheme
  <2>3. input[1] = url.scheme[1] /\ \A k \in 2 .. a : input[k] = url.scheme[k]
    BY <1>1, <1>2, <2>2
  <2>4. /\ url.scheme[a - 2] = ":" /\ url.scheme[a - 1] = "/" /\ url.scheme[a] = "/"
        /\ isalpha_ascii(url.scheme[1])
        /\ \A k \in 2 .. a - 3 :
             isalnum_ascii(url.scheme[k]) \/ url.scheme[k] \in {"+", "-", "."}
    BY <2>1 DEF GoodScheme
  <2>5. a - 2 \in 2 .. a /\ a - 1 \in 2 .. a /\ a \in 2 .. a /\ 2 .. a - 3 \subseteq 2 .. a
    BY <1>1, <2>2
  <2> QED  BY <2>2, <2>3, <2>4, <2>5
<1>6. a < u => input[u] = "@" /\ \A k \in a + 1 .. u - 1 : is_user_char(input[k])
  <2> SUFFICES ASSUME a < u  PROVE input[u] = "@" /\ \A k \in a + 1 .. u - 1 : is_user_char(input[k])
    OBVIOUS
  <2>1. /\ url.user[u - a] = "@"
        /\ \A k \in 1 .. u - a - 1 : is_user_char(url.user[k])
    <3>0. u # a
      BY <1>1
    <3>1. GoodUser(url.user) /\ url.user # <<>> /\ Len(url.user) = u - a
      BY <1>3, <1>4, <3>0, Zenon DEF GoodParts
    <3> QED  BY <3>1 DEF GoodUser
  <2>2. input[u] = url.user[u - a]
    BY <1>1, <1>2
  <2>3. ASSUME NEW k \in a + 1 .. u - 1  PROVE is_user_char(input[k])
    <3>0. k \in a + 1 .. u /\ k - a \in 1 .. u - a - 1
      BY <1>1
    <3>1. k - a \in 1 .. u - a - 1 /\ input[k] = url.user[k - a]
      BY <1>2, <3>0
    <3> QED  BY <2>1, <3>1
  <2> QED  BY <2>1, <2>2, <2>3
<1>7. u < h /\ HostLaid(u, h)
  <2>1. GoodHost(url.host) /\ Len(url.host) = h - u
    BY <1>3, Zenon DEF GoodParts
  <2>2. u < h
    BY <1>1, <1>4, <2>1 DEF GoodHost
  <2>3. \A k \in 1 .. h - u : input[u + k] = url.host[k]
    <3> SUFFICES ASSUME NEW k \in 1 .. h - u  PROVE input[u + k] = url.host[k]
      OBVIOUS
    <3>1. u + k \in u + 1 .. h /\ (u + k) - u = k
      BY <1>1
    <3> QED  BY <1>2, <3>1
  <2>4. CASE \A k \in 1 .. Len(url.host) : HostChar(url.host[k])
    <3>1. ASSUME NEW k \in u + 1 .. h  PROVE HostChar(input[k])
      <4>1. k - u \in 1 .. h - u /\ u + (k - u) = k
        BY <1>1
      <4> QED  BY <2>1, <2>3, <2>4, <4>1
    <3> QED  BY <2>2, <3>1 DEF HostLaid
  <2>5. CASE GoodAddress(url.host)
    <3>1. PICK z \in 2 .. h - u :
            /\ \A k \in 2 .. z - 1 : AddressChar(url.host[k])
            /\ z < h - u =>
                 /\ z + 3 <= h - u
                 /\ url.host[z] = "%" /\ url.host[z + 1] = "2" /\ url.host[z + 2] = "5"
                 /\ \A k \in z + 3 .. h - u - 1 : ZoneChar(url.host[k])
      BY <2>1, <2>5 DEF GoodAddress
    <3>2. url.host[1] = "[" /\ url.host[h - u] = "]"
      BY <2>1, <2>5 DEF GoodAddress
    <3> DEFINE y == u + z
    <3>3. y \in u + 2 .. h /\ z = y - u /\ (z < h - u <=> y < h) /\ z \in Nat /\ z >= 2
      BY <1>1, <3>1
    <3>4. input[u + 1] = "[" /\ input[h] = "]"
      <4>1. 1 \in 1 .. h - u /\ h - u \in 1 .. h - u /\ u + (h - u) = h
        BY <1>1, <2>2
      <4>2. input[u + 1] = url.host[1] /\ input[u + (h - u)] = url.host[h - u]
        BY <2>3, <4>1
      <4> QED  BY <3>2, <4>1, <4>2
    <3>5. ASSUME NEW k \in u + 2 .. y - 1  PROVE AddressChar(input[k])
      <4>1. k - u \in 2 .. z - 1 /\ k - u \in 1 .. h - u /\ u + (k - u) = k
        BY <1>1, <3>1, <3>3
      <4> QED  BY <2>3, <3>1, <4>1
    <3>6. ASSUME y < h
          PROVE  /\ y + 3 <= h
                 /\ input[y] = "%" /\ input[y + 1] = "2" /\ input[y + 2] = "5"
                 /\ \A k \in y + 3 .. h - 1 : ZoneChar(input[k])
      <4>1. y + 3 <= h
        BY <1>1, <3>1, <3>3, <3>6
      <4>2. input[y] = "%" /\ input[y + 1] = "2" /\ input[y + 2] = "5"
        <5>1. z + 3 <= h - u
          BY <3>1, <3>3, <3>6
        <5>2. input[u + z] = url.host[z]
          BY <1>1, <2>3, <3>3, <5>1
        <5>3. input[u + (z + 1)] = url.host[z + 1]
          BY <1>1, <2>3, <3>3, <5>1
        <5>4. input[u + (z + 2)] = url.host[z + 2]
          BY <1>1, <2>3, <3>3, <5>1
        <5>5. u + (z + 1) = y + 1 /\ u + (z + 2) = y + 2
          BY <1>1, <3>3
        <5> QED  BY <3>1, <3>3, <3>6, <5>2, <5>3, <5>4, <5>5
      <4>3. ASSUME NEW k \in y + 3 .. h - 1  PROVE ZoneChar(input[k])
        <5>1. k - u \in z + 3 .. h - u - 1 /\ k - u \in 1 .. h - u /\ u + (k - u) = k
          BY <1>1, <3>1, <3>3
        <5> QED  BY <2>3, <3>1, <3>3, <3>6, <5>1
      <4> QED  BY <4>1, <4>2, <4>3
    <3> HIDE DEF y
    <3>7. u + 2 <= h
      BY <1>1, <3>3
    <3>8. AddressLaid(u, h)
      BY <3>3, <3>4, <3>5, <3>6, <3>7 DEF AddressLaid
    <3> QED  BY <2>2, <3>8 DEF HostLaid
  <2> QED  BY <2>1, <2>4, <2>5 DEF GoodHost
<1>8. h < p => /\ input[h + 1] = ":" /\ p - h <= 6
               /\ \A k \in h + 2 .. p : is_digit(input[k])
               /\ Number(h + 2, p - h - 1) <= MaxPort
  <2> SUFFICES ASSUME h < p
               PROVE  /\ input[h + 1] = ":" /\ p - h <= 6
                      /\ \A k \in h + 2 .. p : is_digit(input[k])
                      /\ Number(h + 2, p - h - 1) <= MaxPort
    OBVIOUS
  <2>0. p # h
    BY <1>1
  <2>1. /\ GoodPort(url.port, Len(url.scheme) + Len(url.user) + Len(url.host) + 2)
        /\ url.port # <<>> /\ Len(url.port) = p - h
    <3>1. GoodPort(url.port, Len(url.scheme) + Len(url.user) + Len(url.host) + 2)
      BY Zenon DEF GoodParts
    <3> QED  BY <1>3, <1>4, <2>0, <3>1, Zenon
  <2>2. Len(url.scheme) + Len(url.user) + Len(url.host) + 2 = h + 2
    <3>1. a + (u - a) + (h - u) + 2 = h + 2
      BY <1>1
    <3> QED  BY <1>3, <3>1
  <2>3. /\ url.port[1] = ":" /\ p - h <= 6
        /\ \A k \in 2 .. p - h : is_digit(url.port[k])
        /\ Number(h + 2, p - h - 1) <= MaxPort
    <3>1. GoodPort(url.port, h + 2)
      BY <2>1, <2>2
    <3>2. /\ url.port[1] = ":" /\ p - h <= 5 + 1
          /\ \A k \in 2 .. p - h : is_digit(url.port[k])
          /\ Number(h + 2, (p - h) - 1) <= MaxPort
      BY <2>1, <3>1 DEF GoodPort, MaxPortDigits
    <3> QED  BY <3>2
  <2>4. input[h + 1] = url.port[1]
    <3>1. h + 1 \in h + 1 .. p /\ (h + 1) - h = 1
      BY <1>1
    <3>2. \A k \in h + 1 .. p : input[k] = url.port[k - h]
      BY <1>2
    <3>3. input[h + 1] = url.port[(h + 1) - h]
      BY <3>1, <3>2, Zenon
    <3> QED  BY <3>1, <3>3
  <2>5. ASSUME NEW k \in h + 2 .. p  PROVE is_digit(input[k])
    <3>1. k - h \in 2 .. p - h /\ k \in h + 1 .. p
      BY <1>1
    <3>2. input[k] = url.port[k - h]
      BY <1>2, <3>1
    <3> QED  BY <2>3, <3>1, <3>2
  <2> QED  BY <2>3, <2>4, <2>5
<1>9. p < r => input[p + 1] = "/" /\ \A k \in p + 1 .. r : is_url_char(input[k])
  <2> SUFFICES ASSUME p < r
               PROVE  input[p + 1] = "/" /\ \A k \in p + 1 .. r : is_url_char(input[k])
    OBVIOUS
  <2>0. r # p
    BY <1>1
  <2>1. GoodPath(url.path) /\ url.path # <<>> /\ Len(url.path) = r - p
    BY <1>3, <1>4, <2>0, Zenon DEF GoodParts
  <2>2. url.path[1] = "/" /\ \A k \in 1 .. r - p : is_url_char(url.path[k])
    BY <2>1 DEF GoodPath
  <2>3. input[p + 1] = url.path[1]
    <3>1. p + 1 \in p + 1 .. r /\ (p + 1) - p = 1
      BY <1>1
    <3>2. \A k \in p + 1 .. r : input[k] = url.path[k - p]
      BY <1>2
    <3>3. input[p + 1] = url.path[(p + 1) - p]
      BY <3>1, <3>2, Zenon
    <3> QED  BY <3>1, <3>3
  <2>4. ASSUME NEW k \in p + 1 .. r  PROVE is_url_char(input[k])
    <3>1. k - p \in 1 .. r - p /\ k \in p + 1 .. r
      BY <1>1
    <3>2. input[k] = url.path[k - p]
      BY <1>2, <3>1
    <3> QED  BY <2>2, <3>1, <3>2
  <2> QED  BY <2>2, <2>3, <2>4
<1>10. r < q => /\ input[r + 1] = "?"
                /\ \A k \in r + 2 .. q : is_url_char(input[k]) \/ input[k] = "?"
  <2> SUFFICES ASSUME r < q
               PROVE  /\ input[r + 1] = "?"
                      /\ \A k \in r + 2 .. q : is_url_char(input[k]) \/ input[k] = "?"
    OBVIOUS
  <2>0. q # r
    BY <1>1
  <2>1. GoodQuery(url.query) /\ url.query # <<>> /\ Len(url.query) = q - r
    BY <1>3, <1>4, <2>0, Zenon DEF GoodParts
  <2>2. /\ url.query[1] = "?"
        /\ \A k \in 2 .. q - r : is_url_char(url.query[k]) \/ url.query[k] = "?"
    BY <2>1 DEF GoodQuery
  <2>3. input[r + 1] = url.query[1]
    <3>1. r + 1 \in r + 1 .. q /\ (r + 1) - r = 1
      BY <1>1
    <3>2. \A k \in r + 1 .. q : input[k] = url.query[k - r]
      BY <1>2
    <3>3. input[r + 1] = url.query[(r + 1) - r]
      BY <3>1, <3>2, Zenon
    <3> QED  BY <3>1, <3>3
  <2>4. ASSUME NEW k \in r + 2 .. q  PROVE is_url_char(input[k]) \/ input[k] = "?"
    <3>1. k - r \in 2 .. q - r /\ k \in r + 1 .. q
      BY <1>1
    <3>2. input[k] = url.query[k - r]
      BY <1>2, <3>1
    <3> QED  BY <2>2, <3>1, <3>2
  <2> QED  BY <2>2, <2>3, <2>4
<1>11. q < Len(input) =>
         /\ input[q + 1] = "#" /\ (q + 2 <= Len(input) => input[q + 2] # "#")
         /\ \A k \in q + 2 .. Len(input) : is_url_char(input[k]) \/ input[k] \in {"?", "#"}
  <2> DEFINE n == Len(input)
  <2> SUFFICES ASSUME q < n
               PROVE  /\ input[q + 1] = "#" /\ (q + 2 <= n => input[q + 2] # "#")
                      /\ \A k \in q + 2 .. n : is_url_char(input[k]) \/ input[k] \in {"?", "#"}
    OBVIOUS
  <2>0. q # n
    BY <1>1
  <2>1. GoodFragment(url.fragment) /\ url.fragment # <<>> /\ Len(url.fragment) = n - q
    BY <1>3, <1>4, <2>0, Zenon DEF GoodParts
  <2>2. /\ url.fragment[1] = "#" /\ (n - q > 1 => url.fragment[2] # "#")
        /\ \A k \in 2 .. n - q : is_url_char(url.fragment[k]) \/ url.fragment[k] \in {"?", "#"}
    BY <2>1 DEF GoodFragment
  <2>3. /\ input[q + 1] = url.fragment[1]
        /\ q + 2 <= n => input[q + 2] = url.fragment[2]
    <3>1. q + 1 \in q + 1 .. n /\ (q + 1) - q = 1 /\ (q + 2) - q = 2
          /\ (q + 2 <= n => q + 2 \in q + 1 .. n)
      BY <1>1
    <3> QED  BY <1>2, <3>1
  <2>4. ASSUME NEW k \in q + 2 .. n
        PROVE  is_url_char(input[k]) \/ input[k] \in {"?", "#"}
    <3>1. k - q \in 2 .. n - q /\ k \in q + 1 .. n
      BY <1>1
    <3>2. input[k] = url.fragment[k - q]
      BY <1>2, <3>1
    <3> QED  BY <2>2, <3>1, <3>2
  <2>5. q + 2 <= n => n - q > 1
    BY <1>1
  <2> QED  BY <2>2, <2>3, <2>4, <2>5
<1>12. p < r \/ r < q \/ q = Len(input)
  <2>1. r # p \/ q # r \/ q = Len(input)
    BY <1>4, Zenon DEF GoodParts
  <2> QED  BY <1>1, <2>1
<1> QED
  BY <1>1, <1>5, <1>6, <1>7, <1>8, <1>9, <1>10, <1>11, <1>12 DEF Laid

-----------------------------------------------------------------------------
(* Good parts: the states of the parser.                                    *)

\* The state after the first i - 1 characters of a text with good parts.
Located(i, st, a, u, p, r, q) ==
  /\ i = 1 => st = "initial"
  /\ i \in 2 .. a - 2 => st = "scheme"
  /\ i = a - 1 => st = "scheme_suffix"
  /\ i = a => st = "scheme_suffix_slash"
  /\ i = a + 1 => st = "authority_start"
  /\ i \in a + 2 .. p + 1 =>
       st = IF a < u /\ i = u + 1 THEN "authority_with_at" ELSE "authority"
  /\ i \in p + 2 .. r + 1 => st = "path"
  /\ i = r + 2 /\ r < q => st = "query_string_start"
  /\ i \in r + 3 .. q + 1 => st = "query_string"
  /\ i = q + 2 => st = "fragment_start"
  /\ i > q + 2 => st = "fragment"

\* The characters of an authority.
LEMMA AuthorityChars ==
  ASSUME NEW a, NEW u, NEW h, NEW p, NEW r, NEW q, Laid(a, u, h, p, r, q),
         NEW k \in a + 1 .. p
  PROVE  IF a < u /\ k = u THEN input[k] = "@"
         ELSE is_user_char(input[k]) \/ input[k] \in {"[", "]"}
<1>1. /\ a \in Nat /\ u \in Nat /\ h \in Nat /\ p \in Nat /\ a <= u /\ u < h /\ h <= p
  BY DEF Laid
<1>2. CASE k \in a + 1 .. u
  <2>1. a < u /\ input[u] = "@" /\ \A j \in a + 1 .. u - 1 : is_user_char(input[j])
    BY <1>1, <1>2 DEF Laid
  <2> QED  BY <1>1, <1>2, <2>1
<1>3. CASE k \in u + 1 .. h
  <2>1. HostLaid(u, h) /\ k # u
    BY <1>1, <1>3 DEF Laid
  <2>2. CASE \A j \in u + 1 .. h : HostChar(input[j])
    <3>1. HostChar(input[k])
      BY <1>3, <2>2
    <3> QED  BY <2>1, <3>1 DEF HostChar, is_user_char, is_mark
  <2>3. CASE AddressLaid(u, h)
    <3>1. PICK z \in u + 2 .. h :
            /\ input[u + 1] = "[" /\ input[h] = "]"
            /\ \A j \in u + 2 .. z - 1 : AddressChar(input[j])
            /\ z < h => /\ z + 3 <= h
                        /\ input[z] = "%" /\ input[z + 1] = "2" /\ input[z + 2] = "5"
                        /\ \A j \in z + 3 .. h - 1 : ZoneChar(input[j])
      BY <2>3 DEF AddressLaid
    <3>2. \/ k = u + 1 \/ k = h \/ k \in u + 2 .. z - 1
          \/ z < h /\ (k = z \/ k = z + 1 \/ k = z + 2)
          \/ z < h /\ k \in z + 3 .. h - 1
      <4>1. z \in u + 2 .. h /\ k \in u + 1 .. h
        BY <1>3
      <4>2. CASE z = h
        BY <1>1, <4>1, <4>2
      <4>3. CASE z < h
        BY <1>1, <4>1, <4>3
      <4> QED  BY <1>1, <4>1, <4>2, <4>3
    <3>3. \/ input[k] \in {"[", "]", "%", "2", "5"}
          \/ AddressChar(input[k]) \/ ZoneChar(input[k])
      BY <3>1, <3>2
    <3>4. is_digit("2") /\ is_digit("5")
      <4>1. 3 \in DOMAIN Digits /\ 6 \in DOMAIN Digits /\ Digits[3] = "2" /\ Digits[6] = "5"
        BY DEF Digits
      <4> QED  BY <4>1 DEF is_digit
    <3>5. \A ch : AddressChar(ch) \/ ZoneChar(ch) => is_user_char(ch)
      BY HexAlnum DEF AddressChar, ZoneChar, is_user_char, is_mark
    <3>6. \A ch \in {"%", "2", "5"} : is_user_char(ch)
      BY <3>4 DEF is_user_char, isalnum_ascii
    <3> QED  BY <2>1, <3>3, <3>5, <3>6
  <2> QED  BY <2>1, <2>2, <2>3 DEF HostLaid
<1>4. CASE k \in h + 1 .. p
  <2>1. /\ input[h + 1] = ":" /\ \A j \in h + 2 .. p : is_digit(input[j])
        /\ k # u
    <3>1. h < p /\ k # u
      BY <1>1, <1>4
    <3> QED  BY <3>1 DEF Laid
  <2>2. input[k] = ":" \/ is_digit(input[k])
    BY <1>1, <1>4, <2>1
  <2> QED  BY <2>1, <2>2 DEF is_user_char, isalnum_ascii
<1> QED  BY <1>1, <1>2, <1>3, <1>4

\* Each character of good parts is accepted and leads to the next state.
LEMMA LocatedNext ==
  ASSUME NEW a, NEW u, NEW h, NEW p, NEW r, NEW q, Laid(a, u, h, p, r, q),
         NEW i \in 1 .. Len(input), NEW from, Located(i, from, a, u, p, r, q),
         NEW st, st = get_state_for(from, input[i])
  PROVE  /\ Located(i + 1, st, a, u, p, r, q)
         /\ st \notin {"invalid", "path_after_scheme"}
         /\ st = "authority_with_at" <=> a < u /\ i = u
<1> DEFINE ch == input[i]
           n == Len(input)
<1>1. /\ a \in Nat /\ u \in Nat /\ h \in Nat /\ p \in Nat /\ r \in Nat /\ q \in Nat /\ n \in Nat
      /\ 4 <= a /\ a <= u /\ u < h /\ h <= p /\ p <= r /\ r <= q /\ q <= n
      /\ i \in Nat /\ 1 <= i /\ i <= n
  BY DEF Laid
<1>2. CASE i = 1
  <2>1. from = "initial" /\ isalpha_ascii(ch)
    BY <1>2 DEF Located, Laid
  <2>2. ch \notin {"/", "*"}
    BY <2>1, AlnumChars DEF isalnum_ascii
  <2>3. st = "scheme"
    BY <2>1, <2>2 DEF get_state_for
  <2> QED  BY <1>1, <1>2, <2>3 DEF Located
<1>3. CASE i \in 2 .. a - 3
  <2>1. from = "scheme"
    BY <1>1, <1>3 DEF Located
  <2>2. isalnum_ascii(ch) \/ ch \in {"+", "-", "."}
    BY <1>3 DEF Laid
  <2>3. st = "scheme"
    BY <2>1, <2>2 DEF get_state_for
  <2> QED  BY <1>1, <1>3, <2>3 DEF Located
<1>4. CASE i = a - 2
  <2>1. from = "scheme" /\ ch = ":"
    BY <1>1, <1>4 DEF Located, Laid
  <2>2. ~isalnum_ascii(ch)
    BY <2>1, AlnumChars
  <2>3. st = "scheme_suffix"
    BY <2>1, <2>2 DEF get_state_for
  <2> QED  BY <1>1, <1>4, <2>3 DEF Located
<1>5. CASE i = a - 1
  <2>1. from = "scheme_suffix" /\ ch = "/"
    BY <1>1, <1>5 DEF Located, Laid
  <2>2. st = "scheme_suffix_slash"
    BY <2>1 DEF get_state_for
  <2> QED  BY <1>1, <1>5, <2>2 DEF Located
<1>6. CASE i = a
  <2>1. from = "scheme_suffix_slash" /\ ch = "/"
    BY <1>1, <1>6 DEF Located, Laid
  <2>2. st = "authority_start"
    BY <2>1 DEF get_state_for
  <2> QED  BY <1>1, <1>6, <2>2 DEF Located
<1>7. CASE i \in a + 1 .. p
  <2>1. /\ from \in {"authority_start", "authority", "authority_with_at"}
        /\ from = "authority_with_at" => i = u + 1
    BY <1>1, <1>7 DEF Located
  <2>2. IF a < u /\ i = u THEN ch = "@"
        ELSE is_user_char(ch) \/ ch \in {"[", "]"}
    BY <1>7, AuthorityChars
  <2>3. ch = "@" <=> a < u /\ i = u
    BY <2>2, NotAt
  <2>4. st = AuthorityState(ch)
    BY <1>1, <2>1, <2>3 DEF get_state_for
  <2>5. st = IF a < u /\ i = u THEN "authority_with_at" ELSE "authority"
    BY <2>2, <2>3, <2>4, NotAt DEF AuthorityState
  <2> QED  BY <1>1, <1>7, <2>5 DEF Located
<1>8. CASE i \in p + 1 .. r
  <2>1. IF i = p + 1 THEN from = "authority" ELSE from = "path"
    BY <1>1, <1>8 DEF Located
  <2>2. input[p + 1] = "/" /\ \A k \in p + 1 .. r : is_url_char(input[k])
    BY <1>1, <1>8 DEF Laid
  <2>3. is_url_char(ch) /\ (i = p + 1 => ch = "/")
    BY <1>8, <2>2
  <2>4. st = "path"
    <3>1. CASE i = p + 1
      <4>1. st = AuthorityState(ch)
        BY <2>1, <3>1 DEF get_state_for
      <4>2. ch = "/" /\ ~(ch \in {"[", "]"} \/ is_user_char(ch))
        BY <2>3, <3>1, NotAt
      <4> QED  BY <4>1, <4>2 DEF AuthorityState
    <3>2. CASE i # p + 1
      <4>1. st = PathState(from, ch)
        BY <2>1, <3>2 DEF get_state_for
      <4> QED  BY <2>3, <4>1 DEF PathState, is_url_char
    <3> QED  BY <3>1, <3>2
  <2> QED  BY <1>1, <1>8, <2>4 DEF Located
<1>9. CASE i = r + 1 /\ r < q
  <2>1. from = "authority" \/ from = "path"
    BY <1>1, <1>9 DEF Located
  <2>2. ch = "?" /\ ~is_url_char(ch)
    BY <1>9 DEF Laid, is_url_char
  <2>3. st = "query_string_start"
    <3>1. st = IF from = "authority" THEN AuthorityState(ch) ELSE PathState(from, ch)
      BY <2>1 DEF get_state_for
    <3>2. AuthorityState(ch) = "query_string_start"
      <4>1. ~(ch \in {"[", "]"} \/ is_user_char(ch))
        BY <2>2, NotAt
      <4> QED  BY <2>2, <4>1 DEF AuthorityState
    <3>3. PathState(from, ch) = "query_string_start"
      BY <2>2 DEF PathState
    <3> QED  BY <3>1, <3>2, <3>3
  <2> QED  BY <1>1, <1>9, <2>3 DEF Located
<1>10. CASE i \in r + 2 .. q
  <2>1. from \in {"query_string_start", "query_string"}
    BY <1>1, <1>10 DEF Located
  <2>2. is_url_char(ch) \/ ch = "?"
    BY <1>1, <1>10 DEF Laid
  <2>3. st = CASE is_url_char(ch) \/ ch = "?" -> "query_string"
               [] ch = "#" -> "fragment_start"
               [] OTHER -> "invalid"
    BY <2>1 DEF get_state_for
  <2>4. ch # "#" /\ st = "query_string"
    BY <2>2, <2>3 DEF is_url_char
  <2> QED  BY <1>1, <1>10, <2>4 DEF Located
<1>11. CASE i = q + 1
  <2>1. ch = "#" /\ ~is_url_char(ch) /\ (p < r \/ r < q)
    <3>1. q < n
      BY <1>1, <1>11
    <3>2. ch = "#" /\ (p < r \/ r < q)
      BY <1>1, <1>11, <3>1 DEF Laid
    <3> QED  BY <3>2 DEF is_url_char
  <2>2. from \in {"path", "query_string_start", "query_string"}
    BY <1>1, <1>11, <2>1 DEF Located
  <2>3. st = "fragment_start"
    BY <2>1, <2>2 DEF get_state_for, PathState
  <2> QED  BY <1>1, <1>11, <2>3 DEF Located
<1>12. CASE i \in q + 2 .. n
  <2>1. from = IF i = q + 2 THEN "fragment_start" ELSE "fragment"
    BY <1>1, <1>12 DEF Located
  <2>2. /\ is_url_char(ch) \/ ch \in {"?", "#"}
        /\ i = q + 2 => ch # "#"
    <3>1. q < n /\ (i = q + 2 => q + 2 <= n)
      BY <1>1, <1>12
    <3>2. /\ q + 2 <= n => input[q + 2] # "#"
          /\ \A k \in q + 2 .. n : is_url_char(input[k]) \/ input[k] \in {"?", "#"}
      BY <3>1 DEF Laid
    <3> QED  BY <1>12, <3>1, <3>2
  <2>3. st = "fragment"
    BY <2>1, <2>2 DEF get_state_for
  <2> QED  BY <1>1, <1>12, <2>3 DEF Located
<1> QED
  <2>1. CASE i <= a
    <3>1. i = 1 \/ i \in 2 .. a - 3 \/ i = a - 2 \/ i = a - 1 \/ i = a
      BY <1>1, <2>1
    <3> QED  BY <3>1, <1>2, <1>3, <1>4, <1>5, <1>6
  <2>2. CASE a < i /\ i <= p
    <3>1. i \in a + 1 .. p
      BY <1>1, <2>2
    <3> QED  BY <3>1, <1>7
  <2>3. CASE p < i /\ i <= r
    <3>1. i \in p + 1 .. r
      BY <1>1, <2>3
    <3> QED  BY <3>1, <1>8
  <2>4. CASE r < i /\ i <= q
    <3>1. (i = r + 1 /\ r < q) \/ i \in r + 2 .. q
      BY <1>1, <2>4
    <3> QED  BY <3>1, <1>9, <1>10
  <2>5. CASE q < i
    <3>1. i = q + 1 \/ i \in q + 2 .. n
      BY <1>1, <2>5
    <3> QED  BY <3>1, <1>11, <1>12
  <2> QED  BY <1>1, <2>1, <2>2, <2>3, <2>4, <2>5

-----------------------------------------------------------------------------
(* Good parts: the views of the parts.                                      *)

LEMMA StopUnique ==
  ASSUME Len(input) \in Nat, NEW S, NEW i \in Nat, NEW x \in i .. Len(input) + 1,
         NEW y \in i .. Len(input) + 1, Clean(S, i, x), Clean(S, i, y),
         x = Len(input) + 1 \/ input[x] \in S, y = Len(input) + 1 \/ input[y] \in S
  PROVE  x = y
<1>1. EndFrom(i, S) = x
  BY EndFromIs
<1>2. EndFrom(i, S) = y
  BY EndFromIs
<1> QED  BY <1>1, <1>2

\* Where the parts of a good text begin.
LEMMA GoodStops ==
  ASSUME NEW a, NEW u, NEW h, NEW p, NEW r, NEW q, Laid(a, u, h, p, r, q)
  PROVE  /\ input[1] \notin {"/", "*"} /\ Clean({":"}, 1, a - 2) /\ Cut(a - 1)
         /\ Clean({"/", "?", "#"}, a + 1, p + 1)
         /\ p + 1 = Len(input) + 1 \/ input[p + 1] \in {"/", "?", "#"}
         /\ Clean({"?", "#"}, p + 1, r + 1)
         /\ r + 1 = Len(input) + 1 \/ input[r + 1] \in {"?", "#"}
         /\ Clean({"#"}, r + 1, q + 1)
         /\ q + 1 = Len(input) + 1 \/ input[q + 1] = "#"
<1> DEFINE n == Len(input)
<1>1. /\ a \in Nat /\ u \in Nat /\ h \in Nat /\ p \in Nat /\ r \in Nat /\ q \in Nat /\ n \in Nat
      /\ 4 <= a /\ a <= u /\ u < h /\ h <= p /\ p <= r /\ r <= q /\ q <= n
  BY DEF Laid
<1>2. isalnum_ascii(input[1])
  BY DEF Laid, isalnum_ascii
<1>3. Clean({":"}, 1, a - 2)
  <2>1. SUFFICES ASSUME NEW k \in 1 .. a - 3  PROVE input[k] # ":"
    BY <1>1 DEF Clean
  <2>2. k = 1 \/ k \in 2 .. a - 3
    OBVIOUS
  <2>3. isalnum_ascii(input[k]) \/ input[k] \in {"+", "-", "."}
    BY <1>2, <2>2 DEF Laid
  <2> QED  BY <2>3, SchemeChars
<1>4. Cut(a - 1)
  <2>1. a - 1 \in 2 .. n - 1 /\ a - 1 + 1 = a
    BY <1>1
  <2>2. input[a - 1] = "/" /\ input[a] = "/"
    BY DEF Laid
  <2> QED  BY <2>1, <2>2 DEF Cut
<1>5. Clean({"/", "?", "#"}, a + 1, p + 1)
  <2>1. SUFFICES ASSUME NEW k \in a + 1 .. p  PROVE input[k] \notin {"/", "?", "#"}
    BY <1>1 DEF Clean
  <2>2. input[k] = "@" \/ is_user_char(input[k]) \/ input[k] \in {"[", "]"}
    BY AuthorityChars
  <2> QED  BY <2>2, NotAt
<1>6. p = n \/ input[p + 1] \in {"/", "?", "#"}
  <2>1. /\ p < r => input[p + 1] = "/"
        /\ r < q => input[r + 1] = "?"
        /\ q < n => input[q + 1] = "#"
    BY Zenon DEF Laid
  <2> QED  BY <1>1, <2>1
<1>7. Clean({"?", "#"}, p + 1, r + 1)
  <2>1. SUFFICES ASSUME NEW k \in p + 1 .. r  PROVE input[k] \notin {"?", "#"}
    BY <1>1 DEF Clean
  <2>2. p < r
    BY <1>1
  <2>3. is_url_char(input[k])
    BY <2>2 DEF Laid
  <2> QED  BY <2>3 DEF is_url_char
<1>8. r = n \/ input[r + 1] \in {"?", "#"}
  <2>1. (r < q => input[r + 1] = "?") /\ (q < n => input[q + 1] = "#")
    BY Zenon DEF Laid
  <2> QED  BY <1>1, <2>1
<1>9. Clean({"#"}, r + 1, q + 1)
  <2>1. SUFFICES ASSUME NEW k \in r + 1 .. q  PROVE input[k] # "#"
    BY <1>1 DEF Clean
  <2>2. r < q /\ (k = r + 1 \/ k \in r + 2 .. q)
    BY <1>1
  <2>3. input[k] = "?" \/ is_url_char(input[k])
    BY <2>2 DEF Laid
  <2> QED  BY <2>3 DEF is_url_char
<1>10. q = n \/ input[q + 1] = "#"
  BY <1>1 DEF Laid
<1>11. input[1] \notin {"/", "*"}
  BY <1>2, AlnumChars
<1> QED  BY <1>1, <1>3, <1>4, <1>5, <1>6, <1>7, <1>8, <1>9, <1>10, <1>11

\* A text with good parts can only be split where they were put together.
LEMMA WholeGood ==
  ASSUME NEW a, NEW u, NEW h, NEW p, NEW r, NEW q, Laid(a, u, h, p, r, q), NEW o, Whole(o)
  PROVE  /\ o.scheme = <<1, a - 2>> /\ Viewed(o.host, a + 1, p + 1)
         /\ Viewed(o.path, p + 1, r + 1)
         /\ IF r < q THEN Viewed(o.query, r + 2, q + 1) ELSE o.query = NoView
         /\ IF q < Len(input) THEN Viewed(o.fragment, q + 2, Len(input) + 1)
            ELSE o.fragment = NoView
<1> DEFINE n == Len(input)
<1>1. /\ a \in Nat /\ u \in Nat /\ h \in Nat /\ p \in Nat /\ r \in Nat /\ q \in Nat /\ n \in Nat
      /\ 4 <= a /\ a <= u /\ u < h /\ h <= p /\ p <= r /\ r <= q /\ q <= n
  BY DEF Laid
<1>2. PICK b \in Nat, m \in Nat, e \in Nat, f \in Nat :
        FragmentAt(o, b, m, e, f) /\ FragmentView(o, f)
  BY DEF Whole
<1>3. QueryAt(o, b, m, e) /\ PathAt(o, b, m) /\ Begun(o, b)
  BY <1>2 DEF FragmentAt, QueryAt, PathAt
<1>4. b = a - 1 /\ o.scheme = <<1, a - 2>>
  <2>1. /\ b \in 3 .. n + 1 /\ input[b - 1] = ":"
        /\ Clean({"/", "*", ":", "?", "#"}, 1, b - 1) /\ o.scheme = <<1, b - 1>>
    BY <1>3, GoodStops DEF Begun
  <2>2. Clean({":"}, 1, b - 1)
    BY <2>1 DEF Clean
  <2>3. b - 1 \in 1 .. n + 1 /\ a - 2 \in 1 .. n + 1
    BY <1>1, <2>1
  <2>4. Clean({":"}, 1, a - 2) /\ input[a - 2] = ":"
    BY GoodStops DEF Laid
  <2>5. b - 1 = a - 2
    BY <1>1, <2>1, <2>2, <2>3, <2>4, StopUnique
  <2> QED  BY <1>1, <2>1, <2>5
<1>5. m = p + 1 /\ Viewed(o.host, a + 1, p + 1)
  <2>1. Cut(b) /\ b + 2 = a + 1
    BY <1>1, <1>4, GoodStops
  <2>2. /\ m \in a + 1 .. n + 1 /\ Clean({"/", "?", "#"}, a + 1, m)
        /\ m = n + 1 \/ input[m] \in {"/", "?", "#"}
        /\ Viewed(o.host, a + 1, m)
    BY <1>1, <1>3, <2>1 DEF PathAt
  <2>3. a + 1 \in Nat /\ p + 1 \in a + 1 .. n + 1
    BY <1>1
  <2>4. m = p + 1
    <3>1. /\ Clean({"/", "?", "#"}, a + 1, p + 1)
          /\ p + 1 = n + 1 \/ input[p + 1] \in {"/", "?", "#"}
      BY GoodStops
    <3> QED  BY <1>1, <2>2, <2>3, <3>1, StopUnique
  <2> QED  BY <2>2, <2>4
<1>6. e = r + 1 /\ Viewed(o.path, p + 1, r + 1)
  <2>1. /\ e \in p + 1 .. n + 1 /\ Clean({"?", "#"}, p + 1, e)
        /\ e = n + 1 \/ input[e] \in {"?", "#"}
        /\ Viewed(o.path, p + 1, e)
    BY <1>3, <1>5 DEF QueryAt
  <2>2. p + 1 \in Nat /\ r + 1 \in p + 1 .. n + 1
    BY <1>1
  <2>3. e = r + 1
    <3>1. /\ Clean({"?", "#"}, p + 1, r + 1)
          /\ r + 1 = n + 1 \/ input[r + 1] \in {"?", "#"}
      BY GoodStops
    <3> QED  BY <1>1, <2>1, <2>2, <3>1, StopUnique
  <2> QED  BY <2>1, <2>3
<1>7. f = q + 1 /\ IF r < q THEN Viewed(o.query, r + 2, q + 1) ELSE o.query = NoView
  <2>1. /\ f \in r + 1 .. n + 1 /\ Clean({"#"}, r + 1, f)
        /\ f = n + 1 \/ input[f] \in {"#"}
        /\ r + 1 < f => Viewed(o.query, r + 1 + 1, f)
        /\ r + 1 = f => o.query = NoView
    BY <1>2, <1>6 DEF FragmentAt
  <2>2. r + 1 \in Nat /\ q + 1 \in r + 1 .. n + 1 /\ r + 1 + 1 = r + 2
    BY <1>1
  <2>3. f = q + 1
    <3>1. /\ Clean({"#"}, r + 1, q + 1)
          /\ q + 1 = n + 1 \/ input[q + 1] \in {"#"}
      BY GoodStops
    <3> QED  BY <1>1, <2>1, <2>2, <3>1, StopUnique
  <2> QED  BY <1>1, <2>1, <2>2, <2>3
<1>8. IF q < n THEN Viewed(o.fragment, q + 2, n + 1) ELSE o.fragment = NoView
  <2>1. PICK i \in q + 1 .. n + 1 :
          /\ \A k \in q + 1 .. i - 1 : input[k] = "#"
          /\ \/ i = n + 1 /\ o.fragment = NoView
             \/ q + 1 < i /\ i <= n /\ input[i] # "#" /\ o.fragment = <<i, n + 1>>
    BY <1>2, <1>7 DEF FragmentView
  <2>2. CASE q = n
    BY <1>1, <2>1, <2>2
  <2>3. CASE q + 1 = n
    BY <1>1, <2>1, <2>3 DEF Viewed
  <2>4. CASE q + 2 <= n
    <3>1. input[q + 2] # "#"
      BY <1>1, <2>4 DEF Laid
    <3>2. i <= q + 2
      BY <1>1, <2>1, <2>4, <3>1
    <3>3. i = q + 2
      BY <1>1, <2>1, <2>4, <3>2
    <3> QED  BY <1>1, <2>1, <2>4, <3>3 DEF Viewed
  <2> QED  BY <1>1, <2>2, <2>3, <2>4
<1> QED  BY <1>4, <1>5, <1>6, <1>7, <1>8

-----------------------------------------------------------------------------
(* Good parts: the authority.                                               *)

LEMMA UserFirstIs ==
  ASSUME NEW i \in Nat, NEW n \in Nat, NEW k \in i .. n,
         k = n \/ ~is_user_char(input[k]), \A m \in i .. k - 1 : is_user_char(input[m])
  PROVE  FirstNot(is_user_char, i, n) = k
<1>1. ASSUME NEW j \in i .. n, j = n \/ ~is_user_char(input[j]),
             \A m \in i .. j - 1 : is_user_char(input[m])
      PROVE  j = k
  BY <1>1
<1> QED  BY <1>1 DEF FirstNot

LEMMA HostFirstIs ==
  ASSUME NEW i \in Nat, NEW n \in Nat, NEW k \in i .. n,
         k = n \/ ~HostChar(input[k]), \A m \in i .. k - 1 : HostChar(input[m])
  PROVE  FirstNot(HostChar, i, n) = k
<1>1. ASSUME NEW j \in i .. n, j = n \/ ~HostChar(input[j]),
             \A m \in i .. j - 1 : HostChar(input[m])
      PROVE  j = k
  BY <1>1
<1> QED  BY <1>1 DEF FirstNot

LEMMA AddressFirstIs ==
  ASSUME NEW i \in Nat, NEW n \in Nat, NEW k \in i .. n,
         k = n \/ ~AddressChar(input[k]), \A m \in i .. k - 1 : AddressChar(input[m])
  PROVE  FirstNot(AddressChar, i, n) = k
<1>1. ASSUME NEW j \in i .. n, j = n \/ ~AddressChar(input[j]),
             \A m \in i .. j - 1 : AddressChar(input[m])
      PROVE  j = k
  BY <1>1
<1> QED  BY <1>1 DEF FirstNot

LEMMA ZoneFirstIs ==
  ASSUME NEW i \in Nat, NEW n \in Nat, NEW k \in i .. n,
         k = n \/ ~ZoneChar(input[k]), \A m \in i .. k - 1 : ZoneChar(input[m])
  PROVE  FirstNot(ZoneChar, i, n) = k
<1>1. ASSUME NEW j \in i .. n, j = n \/ ~ZoneChar(input[j]),
             \A m \in i .. j - 1 : ZoneChar(input[m])
      PROVE  j = k
  BY <1>1
<1> QED  BY <1>1 DEF FirstNot

\* What starts a zone.
LEMMA ZoneMark ==
  ASSUME input \in Seq(STRING), NEW z \in Nat, 1 <= z, z + 2 <= Len(input)
  PROVE  SubSeq(input, z, z + 2) = <<"%", "2", "5">> <=>
           input[z] = "%" /\ input[z + 1] = "2" /\ input[z + 2] = "5"
<1> DEFINE t == SubSeq(input, z, z + 2)
<1>1. Len(input) \in Nat /\ \A i \in z .. z + 2 : input[i] \in STRING
  BY LenProperties
<1>2. /\ t \in Seq(STRING) /\ Len(t) = IF z <= z + 2 THEN z + 2 - z + 1 ELSE 0
      /\ \A i \in 1 .. z + 2 - z + 1 : t[i] = input[z + i - 1]
  BY <1>1, SubSeqProperties
<1>3. z + 2 - z + 1 = 3 /\ z <= z + 2 /\ z + 1 - 1 = z /\ z + 2 - 1 = z + 1 /\ z + 3 - 1 = z + 2
  OBVIOUS
<1>4. Len(t) = 3 /\ t[1] = input[z] /\ t[2] = input[z + 1] /\ t[3] = input[z + 2]
  BY <1>2, <1>3
<1> HIDE DEF t
<1>5. ASSUME t[1] = "%", t[2] = "2", t[3] = "5"  PROVE t = <<"%", "2", "5">>
  BY <1>2, <1>4, <1>5, LenProperties
<1>6. ASSUME t = <<"%", "2", "5">>  PROVE t[1] = "%" /\ t[2] = "2" /\ t[3] = "5"
  BY <1>6
<1> QED  BY <1>4, <1>5, <1>6 DEF t

\* A good address in brackets ends where it was meant to.
LEMMA BracketIs ==
  ASSUME input \in Seq(STRING), NEW u \in Nat, NEW h \in Nat, NEW p \in Nat, h <= p,
         p <= Len(input), AddressLaid(u, h)
  PROVE  BracketEnd(u + 2, p + 1) = h + 1
<1> DEFINE i == u + 2
           n == p + 1
           Closing == [e \in i .. n |->
             IF e = n THEN n ELSE IF input[e] = "]" THEN e + 1 ELSE 0]
           AfterAddress == [k \in i .. n |->
             IF n - k > 3 /\ SubSeq(input, k, k + 2) = <<"%", "2", "5">>
               THEN Closing[FirstNot(ZoneChar, k + 3, n)] ELSE Closing[k]]
<1>1. BracketEnd(i, n) = AfterAddress[FirstNot(AddressChar, i, n)]
  BY DEF BracketEnd
<1>2. PICK z \in i .. h :
        /\ input[h] = "]" /\ i <= h
        /\ \A k \in i .. z - 1 : AddressChar(input[k])
        /\ z < h => /\ z + 3 <= h
                    /\ input[z] = "%" /\ input[z + 1] = "2" /\ input[z + 2] = "5"
                    /\ \A k \in z + 3 .. h - 1 : ZoneChar(input[k])
  BY DEF AddressLaid
<1>3. ~AddressChar("]") /\ ~ZoneChar("]") /\ ~AddressChar("%")
  <2>1. \A ch \in {"]", "%"} : ~isalnum_ascii(ch)
    BY DEF isalnum_ascii, isalpha_ascii, Letters, HexLetters, is_digit, Digits
  <2> QED  BY <2>1, HexAlnum DEF AddressChar, ZoneChar
<1>4. /\ i \in Nat /\ n \in Nat /\ h \in i .. n /\ h # n /\ z \in i .. n /\ z \in Nat /\ z <= h
      /\ Len(input) \in Nat /\ n <= Len(input) + 1 /\ 1 <= z
  BY <1>2, LenProperties
<1>5. Closing[h] = h + 1
  BY <1>2, <1>4
<1> HIDE DEF i, n, Closing
<1>6. FirstNot(AddressChar, i, n) = z
  <2>1. input[z] = "%" \/ input[z] = "]"
    BY <1>2, <1>4
  <2> QED  BY <1>2, <1>3, <1>4, <2>1, AddressFirstIs
<1>7. CASE z < h
  <2>1. n - z > 3 /\ z + 2 <= Len(input)
    BY <1>2, <1>4, <1>7
  <2>2. SubSeq(input, z, z + 2) = <<"%", "2", "5">>
    BY <1>2, <1>4, <1>7, <2>1, ZoneMark
  <2>3. PICK d \in Nat : d = z + 3
    BY <1>4
  <2>4. h \in d .. n /\ ~ZoneChar(input[h]) /\ \A k \in d .. h - 1 : ZoneChar(input[k])
    BY <1>2, <1>3, <1>4, <1>7, <2>3
  <2>5. FirstNot(ZoneChar, d, n) = h
    BY <1>4, <2>4, ZoneFirstIs
  <2> QED  BY <1>1, <1>4, <1>5, <1>6, <2>1, <2>2, <2>3, <2>5 DEF i, n
<1>8. CASE z = h
  <2>1. ASSUME n - z > 3  PROVE SubSeq(input, z, z + 2) # <<"%", "2", "5">>
    <3>1. z + 2 <= Len(input)
      BY <1>4, <2>1
    <3> QED  BY <1>2, <1>4, <1>8, <3>1, ZoneMark
  <2> QED  BY <1>1, <1>4, <1>5, <1>6, <1>8, <2>1 DEF i, n
<1> QED  BY <1>4, <1>7, <1>8

\* The number of a good port is accepted.
LEMMA PortGood ==
  ASSUME NEW o, NEW i \in Nat, NEW n \in Nat, i <= n, n - i <= 5,
         \A k \in i .. n - 1 : is_digit(input[k]), Number(i, n - i) <= MaxPort
  PROVE  PortParsed(o, i, n) =
           [out |-> [o EXCEPT !.port = <<i, n>>, !.port_value = Number(i, n - i)], ec |-> "none"]
<1> DEFINE d == n - i
<1>1. d \in 0 .. 5 /\ i + d = n /\ (IF n - i < MaxPortDigits THEN n - i ELSE MaxPortDigits) = d
  BY DEF MaxPortDigits
<1>2. \A k \in i .. i + d - 1 : is_digit(input[k])
  BY <1>1
<1>3. ~(Number(i, d) > MaxPort \/ i + d # n)
  <2>1. Number(i, d) \in Nat
    <3> HIDE DEF d
    <3> QED  BY <1>1, <1>2, NumberNat, Zenon
  <2>2. Number(i, d) <= MaxPort
    OBVIOUS
  <2> HIDE DEF d
  <2> QED  BY <1>1, <2>1, <2>2, MaxPortNat
<1>4. ~\E k \in i .. i + d - 1 : ~is_digit(input[k])
  BY <1>2
<1> HIDE DEF d
<1>5. PortParsed(o, i, n) =
        IF \E k \in i .. i + d - 1 : ~is_digit(input[k])
          THEN [out |-> o, ec |-> "invalid_character"]
        ELSE IF Number(i, d) > MaxPort \/ i + d # n THEN [out |-> o, ec |-> "port_overflow"]
        ELSE [out |-> [o EXCEPT !.port = <<i, n>>, !.port_value = Number(i, d)], ec |-> "none"]
  BY <1>1 DEF PortParsed
<1> QED  BY <1>3, <1>4, <1>5 DEF d

\* Where the end of a good host is found.
LEMMA HostEndGood ==
  ASSUME input \in Seq(STRING), NEW a, NEW u, NEW h, NEW p, NEW r, NEW q,
         Laid(a, u, h, p, r, q)
  PROVE  h + 1 = IF input[u + 1] = "[" THEN BracketEnd(u + 2, p + 1)
                 ELSE FirstNot(HostChar, u + 1, p + 1)
<1>1. /\ u \in Nat /\ h \in Nat /\ p \in Nat /\ u < h /\ h <= p /\ p <= Len(input)
      /\ Len(input) \in Nat
  BY DEF Laid
<1>2. CASE AddressLaid(u, h)
  <2>1. BracketEnd(u + 2, p + 1) = h + 1
    BY <1>1, <1>2, BracketIs
  <2> QED  BY <1>2, <2>1 DEF AddressLaid
<1>3. CASE \A k \in u + 1 .. h : HostChar(input[k])
  <2>1. ~HostChar("[") /\ ~HostChar(":")
    BY AlnumChars DEF HostChar
  <2>2. input[u + 1] # "["
    BY <1>1, <1>3, <2>1
  <2>3. h + 1 = p + 1 \/ ~HostChar(input[h + 1])
    <3>1. CASE h < p
      BY <2>1, <3>1 DEF Laid
    <3> QED  BY <1>1, <3>1
  <2>4. PICK i \in Nat, j \in Nat, n \in Nat : i = u + 1 /\ j = h + 1 /\ n = p + 1
    BY <1>1
  <2>5. j \in i .. n /\ (j = n \/ ~HostChar(input[j])) /\ \A m \in i .. j - 1 : HostChar(input[m])
    BY <1>1, <1>3, <2>3, <2>4
  <2>6. FirstNot(HostChar, i, n) = j
    BY <2>5, HostFirstIs
  <2> QED  BY <2>2, <2>4, <2>6
<1> QED  BY <1>2, <1>3 DEF Laid, HostLaid

\* The views that a good authority is split into.
AuthoritySplit(w, o, a, u, h, p) ==
  /\ \A part \in {"scheme", "path", "query", "fragment"} : w[part] = o[part]
  /\ w["userinfo"] = IF a < u THEN <<a + 1, u>> ELSE o["userinfo"]
  /\ w["host"] = <<u + 1, h + 1>>
  /\ w["port"] = IF h < p THEN <<h + 2, p + 1>> ELSE o["port"]

LEMMA AuthorityGood ==
  ASSUME input \in Seq(STRING), NEW a, NEW u, NEW h, NEW p, NEW r, NEW q,
         Laid(a, u, h, p, r, q), NEW o, Fresh(o), has_userinfo <=> a < u
  PROVE  \E w : /\ parse_authority(o, a + 1, p + 1) = [out |-> w, ec |-> "none"]
                /\ AuthoritySplit(w, o, a, u, h, p)
<1>1. /\ a \in Nat /\ u \in Nat /\ h \in Nat /\ p \in Nat /\ a <= u /\ u < h /\ h <= p
      /\ p <= Len(input) /\ Len(input) \in Nat
  BY DEF Laid
<1> DEFINE i == a + 1
           n == p + 1
           named == IF a < u THEN [o EXCEPT !.userinfo = <<i, u>>] ELSE o
           hosted == [named EXCEPT !.host = <<u + 1, h + 1>>]
<1>2. /\ DOMAIN o = Parts \cup {"port_value"}
      /\ DOMAIN named = DOMAIN o /\ DOMAIN hosted = DOMAIN o
  BY DEF Fresh
<1>3. AuthoritySplit(hosted, o, a, u, h, h)
  BY <1>1, <1>2 DEF AuthoritySplit, Parts
<1>4. parse_authority(o, i, n) = HostParsed(named, u + 1, n)
  <2>1. CASE a < u
    <3>1. i \in Nat /\ n \in Nat /\ u \in i .. n /\ u # n /\ u + 1 # n
      BY <1>1, <2>1
    <3>2. input[u] = "@" /\ \A m \in i .. u - 1 : is_user_char(input[m])
      BY <2>1 DEF Laid
    <3>3. ~is_user_char(input[u])
      BY <3>2, NotAt
    <3> HIDE DEF i, n
    <3>4. FirstNot(is_user_char, i, n) = u
      BY <3>1, <3>2, <3>3, UserFirstIs
    <3> QED  BY <2>1, <3>1, <3>2, <3>4 DEF parse_authority, i
  <2>2. CASE ~(a < u)
    <3>1. i = u + 1 /\ u + 1 # n
      BY <1>1, <2>2
    <3> QED  BY <2>2, <3>1 DEF parse_authority
  <2> QED  BY <2>1, <2>2
<1>5. /\ h < p => input[h + 1] = ":"
      /\ h + 1 # 0 /\ (h + 1 = n <=> ~(h < p)) /\ u + 1 + 1 = u + 2 /\ h + 1 + 1 = h + 2
  <2>1. h < p => input[h + 1] = ":"
    BY DEF Laid
  <2> QED  BY <1>1, <2>1
<1>6. HostParsed(named, u + 1, n) =
        IF h < p THEN PortParsed(hosted, h + 2, n) ELSE [out |-> hosted, ec |-> "none"]
  <2> DEFINE e == IF input[u + 1] = "[" THEN BracketEnd(u + 2, n) ELSE FirstNot(HostChar, u + 1, n)
  <2>1. e = h + 1
    BY HostEndGood
  <2> HIDE DEF e
  <2>2. HostParsed(named, u + 1, n) =
          IF e = 0 \/ (input[u + 1] # "[" /\ e # n /\ input[e] # ":")
            THEN [out |-> named, ec |-> "invalid_character"]
          ELSE IF e = n THEN [out |-> [named EXCEPT !.host = <<u + 1, e>>], ec |-> "none"]
          ELSE IF input[e] = ":"
            THEN PortParsed([named EXCEPT !.host = <<u + 1, e>>], e + 1, n)
          ELSE [out |-> [named EXCEPT !.host = <<u + 1, e>>], ec |-> "invalid_character"]
    BY <1>5 DEF HostParsed, e
  <2> HIDE DEF n, named
  <2> QED  BY <1>5, <2>1, <2>2
<1>7. CASE h < p
  <2> DEFINE v == Number(h + 2, n - (h + 2))
             w == [hosted EXCEPT !.port = <<h + 2, n>>, !.port_value = v]
  <2>1. n - (h + 2) = p - h - 1
    BY <1>1
  <2>2. /\ h + 2 \in Nat /\ n \in Nat /\ h + 2 <= n /\ n - (h + 2) <= 5 /\ n - 1 = p
        /\ \A k \in h + 2 .. p : is_digit(input[k])
        /\ v <= MaxPort
    BY <1>1, <1>7, <2>1 DEF Laid
  <2> HIDE DEF n
  <2>3. PortParsed(hosted, h + 2, n) = [out |-> w, ec |-> "none"]
    BY <2>2, PortGood
  <2> HIDE DEF hosted, v
  <2>4. /\ w["port"] = <<h + 2, n>>
        /\ \A part \in Parts \ {"port"} : w[part] = hosted[part]
    BY <1>2 DEF Parts
  <2>5. AuthoritySplit(w, o, a, u, h, p)
    BY <1>1, <1>3, <1>7, <2>4 DEF AuthoritySplit, Parts, n
  <2> HIDE DEF w
  <2> QED  BY <1>4, <1>6, <1>7, <2>3, <2>5 DEF n
<1>8. CASE ~(h < p)
  <2>1. AuthoritySplit(hosted, o, a, u, h, p)
    BY <1>1, <1>3, <1>8 DEF AuthoritySplit
  <2> HIDE DEF hosted
  <2> QED  BY <1>4, <1>6, <1>8, <2>1
<1> QED  BY <1>7, <1>8

-----------------------------------------------------------------------------
(* Good parts: the texts of the views, and the theorem.                     *)

\* A part of the input that is a part of t.
LEMMA PartText ==
  ASSUME input \in Seq(STRING), NEW t \in Seq(STRING), NEW d \in Nat, NEW i \in Nat,
         NEW j \in Int, 1 <= i, j <= Len(t), \A k \in d + 1 .. d + Len(t) : input[k] = t[k - d]
  PROVE  SubSeq(input, d + i, d + j) = SubSeq(t, i, j)
<1> DEFINE x == SubSeq(input, d + i, d + j)
           y == SubSeq(t, i, j)
           n == Len(t)
<1>1. n \in Nat /\ \A k \in 1 .. n : t[k] \in STRING
  BY LenProperties, ElementOfSeq
<1>2. \A k \in i .. j : t[k] \in STRING
  BY <1>1
<1>3. \A k \in d + i .. d + j : input[k] = t[k - d] /\ k - d \in i .. j
  BY <1>1
<1>4. \A k \in d + i .. d + j : input[k] \in STRING
  BY <1>2, <1>3
<1>5. /\ y \in Seq(STRING) /\ Len(y) = IF i <= j THEN j - i + 1 ELSE 0
      /\ \A k \in 1 .. j - i + 1 : y[k] = t[i + k - 1]
  BY <1>2, SubSeqProperties, SMTT(30)
<1>6. /\ x \in Seq(STRING)
      /\ Len(x) = IF d + i <= d + j THEN (d + j) - (d + i) + 1 ELSE 0
      /\ \A k \in 1 .. (d + j) - (d + i) + 1 : x[k] = input[(d + i) + k - 1]
  <2>1. PICK i2 \in Int, j2 \in Int : i2 = d + i /\ j2 = d + j
    OBVIOUS
  <2> QED  BY <1>4, <2>1, SubSeqProperties
<1>7. (d + j) - (d + i) + 1 = j - i + 1 /\ (d + i <= d + j <=> i <= j)
  OBVIOUS
<1> HIDE DEF x, y
<1>8. Len(x) = Len(y)
  BY <1>5, <1>6, <1>7
<1>9. ASSUME NEW k \in 1 .. Len(x)  PROVE x[k] = y[k]
  <2>1. k \in 1 .. j - i + 1
    BY <1>6, <1>7, <1>9
  <2>2. x[k] = input[(d + i) + k - 1] /\ y[k] = t[i + k - 1]
    BY <1>5, <1>6, <1>7, <2>1
  <2>3. /\ (d + i) + k - 1 \in d + i .. d + j
        /\ ((d + i) + k - 1) - d = i + k - 1
    BY <2>1
  <2> QED  BY <1>3, <2>2, <2>3
<1> QED  BY <1>5, <1>6, <1>8, <1>9, SeqEqual DEF x, y

\* t lies in the input from d + 1 to e.
Lies(t, d, e) ==
  /\ input \in Seq(STRING) /\ t \in Seq(STRING) /\ d \in Nat /\ e \in Nat /\ e = d + Len(t)
  /\ \A k \in d + 1 .. e : input[k] = t[k - d]

\* What lies from x to y in the input are the characters of t from i to j.
Shifted(t, d, e, i, j, x, y) ==
  /\ Lies(t, d, e) /\ i \in Nat /\ j \in Int /\ 1 <= i /\ j <= e - d
  /\ x = d + i /\ y = d + j

Same(t, i, j, x, y) == SubSeq(input, x, y) = SubSeq(t, i, j)

LEMMA LiesSub ==
  ASSUME NEW t, NEW d, NEW e, NEW i, NEW j, NEW x, NEW y, Shifted(t, d, e, i, j, x, y)
  PROVE  Same(t, i, j, x, y)
<1>1. /\ input \in Seq(STRING) /\ t \in Seq(STRING) /\ d \in Nat /\ e \in Nat
      /\ Len(t) \in Nat /\ e = d + Len(t) /\ \A k \in d + 1 .. e : input[k] = t[k - d]
      /\ i \in Nat /\ j \in Int /\ 1 <= i /\ j <= e - d /\ x = d + i /\ y = d + j
  BY LenProperties DEF Shifted, Lies
<1>2. j <= Len(t) /\ \A k \in d + 1 .. d + Len(t) : input[k] = t[k - d]
  BY <1>1
<1>3. SubSeq(input, d + i, d + j) = SubSeq(t, i, j)
  BY <1>1, <1>2, PartText
<1> QED  BY <1>1, <1>3 DEF Same

LEMMA LiesLen ==
  ASSUME NEW t, NEW d, NEW e, Lies(t, d, e)
  PROVE  d \in Nat /\ e \in Nat /\ Len(t) \in Nat /\ Len(t) = e - d /\ e = d + Len(t) /\ d <= e
<1>1. Len(t) \in Nat /\ d \in Nat /\ e \in Nat /\ e = d + Len(t)
  BY LenProperties DEF Lies
<1> QED  BY <1>1

\* A view of the scheme, without the colon and the slashes.
LEMMA SchemeText ==
  ASSUME NEW t, NEW e, Lies(t, 0, e), 4 <= e, NEW v, v = <<1, e - 2>>
  PROVE  Text(v) = SubSeq(t, 1, Len(t) - 3)
<1>1. e \in Nat /\ Len(t) = e
  BY LiesLen
<1>2. Shifted(t, 0, e, 1, e - 3, 1, e - 3) /\ (e - 2) - 1 = e - 3
  BY <1>1 DEF Shifted
<1>3. SubSeq(input, 1, e - 3) = SubSeq(t, 1, e - 3)
  <2>1. Same(t, 1, e - 3, 1, e - 3)
    BY <1>2, LiesSub
  <2> QED  BY <2>1 DEF Same
<1>4. Text(v) = SubSeq(input, 1, (e - 2) - 1)
  BY TextOf
<1> QED  BY <1>1, <1>2, <1>3, <1>4

\* A view of the userinfo, without the sign after it.
LEMMA NamedText ==
  ASSUME NEW t, NEW d, NEW e, Lies(t, d, e), NEW v, v = IF d < e THEN <<d + 1, e>> ELSE NoView
  PROVE  Text(v) = SubSeq(t, 1, Len(t) - 1)
<1>1. d \in Nat /\ e \in Nat /\ Len(t) = e - d /\ d <= e
  BY LiesLen
<1>2. CASE d < e
  <2>1. Shifted(t, d, e, 1, (e - d) - 1, d + 1, e - 1)
    BY <1>1, <1>2 DEF Shifted
  <2>2. SubSeq(input, d + 1, e - 1) = SubSeq(t, 1, (e - d) - 1)
    <3>1. Same(t, 1, (e - d) - 1, d + 1, e - 1)
      BY <2>1, LiesSub
    <3> QED  BY <3>1 DEF Same
  <2>3. Text(v) = SubSeq(input, d + 1, e - 1)
    BY <1>2, TextOf
  <2> QED  BY <1>1, <2>1, <2>2, <2>3
<1>3. CASE ~(d < e)
  <2>1. Len(t) - 1 \in Int /\ Len(t) - 1 < 1
    BY <1>1, <1>3
  <2>2. SubSeq(t, 1, Len(t) - 1) = <<>>
    BY <2>1, SubSeqEmpty
  <2> QED  BY <1>3, <2>2, NoText
<1> QED  BY <1>2, <1>3

\* A view of all of the host, or of the path.
LEMMA WholeText ==
  ASSUME NEW t, NEW d, NEW e, Lies(t, d, e), NEW v, Viewed(v, d + 1, e + 1)
  PROVE  Text(v) = t
<1>1. d \in Nat /\ e \in Nat /\ Len(t) = e - d /\ d <= e /\ t \in Seq(STRING)
  BY LiesLen DEF Lies
<1>2. Shifted(t, d, e, 1, e - d, d + 1, e)
  BY <1>1 DEF Shifted
<1>3. Text(v) = SubSeq(input, d + 1, (e + 1) - 1) /\ (e + 1) - 1 = e
  BY <1>1, ViewedText
<1>4. SubSeq(input, d + 1, e) = SubSeq(t, 1, e - d)
  <2>1. Same(t, 1, e - d, d + 1, e)
    BY <1>2, LiesSub
  <2> QED  BY <2>1 DEF Same
<1>5. SubSeq(t, 1, Len(t)) = t
  BY <1>1, SubSeqFull
<1> QED  BY <1>1, <1>2, <1>3, <1>4, <1>5

\* A view of the port, the query or the fragment, without the character before it.
LEMMA InnerText ==
  ASSUME NEW t, NEW d, NEW e, Lies(t, d, e), NEW v,
         IF d < e THEN Viewed(v, d + 2, e + 1) ELSE v = NoView
  PROVE  Text(v) = SubSeq(t, 2, Len(t))
<1>1. d \in Nat /\ e \in Nat /\ Len(t) = e - d /\ d <= e
  BY LiesLen
<1>2. CASE d < e
  <2>1. Shifted(t, d, e, 2, e - d, d + 2, e)
    BY <1>1 DEF Shifted
  <2>2. Text(v) = SubSeq(input, d + 2, (e + 1) - 1) /\ (e + 1) - 1 = e
    BY <1>1, <1>2, ViewedText
  <2>3. SubSeq(input, d + 2, e) = SubSeq(t, 2, e - d)
    <3>1. Same(t, 2, e - d, d + 2, e)
      BY <2>1, LiesSub
    <3> QED  BY <3>1 DEF Same
  <2> QED  BY <1>1, <2>1, <2>2, <2>3
<1>3. CASE ~(d < e)
  <2>1. Len(t) \in Int /\ Len(t) < 2
    BY <1>1, <1>3
  <2>2. SubSeq(t, 2, Len(t)) = <<>>
    BY <2>1, SubSeqEmpty
  <2> QED  BY <1>3, <2>2, NoText
<1> QED  BY <1>2, <1>3

\* What RoundTrip says of the views.
Texts(o) ==
  /\ Text(o.scheme) = SubSeq(url.scheme, 1, Len(url.scheme) - 3)
  /\ Text(o.userinfo) = SubSeq(url.user, 1, Len(url.user) - 1)
  /\ Text(o.host) = url.host
  /\ Text(o.port) = SubSeq(url.port, 2, Len(url.port))
  /\ Text(o.path) = url.path
  /\ Text(o.query) = SubSeq(url.query, 2, Len(url.query))
  /\ Text(o.fragment) = SubSeq(url.fragment, 2, Len(url.fragment))

LEMMA PartsLie ==
  ASSUME Built, NEW a, NEW u, NEW h, NEW p, NEW r, NEW q, Ends(a, u, h, p, r, q)
  PROVE  /\ Lies(url.scheme, 0, a) /\ Lies(url.user, a, u) /\ Lies(url.host, u, h)
         /\ Lies(url.port, h, p) /\ Lies(url.path, p, r) /\ Lies(url.query, r, q)
         /\ Lies(url.fragment, q, Len(input))
<1>1. /\ a \in Nat /\ u \in Nat /\ h \in Nat /\ p \in Nat /\ r \in Nat /\ q \in Nat
      /\ Len(input) \in Nat /\ input \in Seq(STRING)
      /\ Len(input) = q + Len(url.fragment)
  BY PartBounds
<1>2. /\ url.scheme \in Seq(STRING) /\ url.user \in Seq(STRING) /\ url.host \in Seq(STRING)
      /\ url.port \in Seq(STRING) /\ url.path \in Seq(STRING) /\ url.query \in Seq(STRING)
      /\ url.fragment \in Seq(STRING)
  BY DEF Built
<1>3. /\ a = Len(url.scheme) /\ u = a + Len(url.user) /\ h = u + Len(url.host)
      /\ p = h + Len(url.port) /\ r = p + Len(url.path) /\ q = r + Len(url.query)
  BY DEF Ends
<1>4. Lies(url.scheme, 0, a)
  <2>1. a = 0 + Len(url.scheme)
    BY <1>1, <1>3
  <2>2. ASSUME NEW k \in 1 .. a  PROVE input[k] = url.scheme[k - 0]
    <3>1. input[k] = url.scheme[k] /\ k - 0 = k
      BY PartBounds
    <3> QED  BY <3>1
  <2>3. \A k \in 0 + 1 .. a : input[k] = url.scheme[k - 0]
    <3>1. 0 + 1 = 1
      OBVIOUS
    <3> QED  BY <2>2, <3>1
  <2> QED  BY <1>1, <1>2, <2>1, <2>3, Zenon DEF Lies
<1>5. Lies(url.user, a, u)
  <2>1. \A k \in a + 1 .. u : input[k] = url.user[k - a]
    BY PartBounds
  <2> QED  BY <1>1, <1>2, <1>3, <2>1 DEF Lies
<1>6. Lies(url.host, u, h)
  <2>1. \A k \in u + 1 .. h : input[k] = url.host[k - u]
    BY PartBounds
  <2> QED  BY <1>1, <1>2, <1>3, <2>1 DEF Lies
<1>7. Lies(url.port, h, p)
  <2>1. \A k \in h + 1 .. p : input[k] = url.port[k - h]
    BY PartBounds
  <2> QED  BY <1>1, <1>2, <1>3, <2>1 DEF Lies
<1>8. Lies(url.path, p, r)
  <2>1. \A k \in p + 1 .. r : input[k] = url.path[k - p]
    BY PartBounds
  <2> QED  BY <1>1, <1>2, <1>3, <2>1 DEF Lies
<1>9. Lies(url.query, r, q)
  <2>1. \A k \in r + 1 .. q : input[k] = url.query[k - r]
    BY PartBounds
  <2> QED  BY <1>1, <1>2, <1>3, <2>1 DEF Lies
<1>10. Lies(url.fragment, q, Len(input))
  <2>1. \A k \in q + 1 .. Len(input) : input[k] = url.fragment[k - q]
    BY PartBounds
  <2> QED  BY <1>1, <1>2, <2>1 DEF Lies
<1> QED  BY <1>4, <1>5, <1>6, <1>7, <1>8, <1>9, <1>10

LEMMA GoodTexts ==
  ASSUME Built, NEW a, NEW u, NEW h, NEW p, NEW r, NEW q, Ends(a, u, h, p, r, q),
         4 <= a, NEW o,
         o.scheme = <<1, a - 2>>, o.userinfo = IF a < u THEN <<a + 1, u>> ELSE NoView,
         o.host = <<u + 1, h + 1>>, o.port = IF h < p THEN <<h + 2, p + 1>> ELSE NoView,
         Viewed(o.path, p + 1, r + 1),
         IF r < q THEN Viewed(o.query, r + 2, q + 1) ELSE o.query = NoView,
         IF q < Len(input) THEN Viewed(o.fragment, q + 2, Len(input) + 1)
           ELSE o.fragment = NoView
  PROVE  Texts(o)
<1>1. Text(o.scheme) = SubSeq(url.scheme, 1, Len(url.scheme) - 3)
  BY PartsLie, SchemeText
<1>2. Text(o.userinfo) = SubSeq(url.user, 1, Len(url.user) - 1)
  BY PartsLie, NamedText
<1>3. Text(o.host) = url.host
  <2>1. Viewed(o.host, u + 1, h + 1)
    BY DEF Viewed
  <2> QED  BY <2>1, PartsLie, WholeText
<1>4. Text(o.port) = SubSeq(url.port, 2, Len(url.port))
  <2>1. PICK v : v = o.port
    OBVIOUS
  <2>2. IF h < p THEN Viewed(v, h + 2, p + 1) ELSE v = NoView
    BY <2>1 DEF Viewed
  <2>3. Lies(url.port, h, p)
    BY PartsLie
  <2>4. Text(v) = SubSeq(url.port, 2, Len(url.port))
    BY <2>2, <2>3, InnerText
  <2> QED  BY <2>1, <2>4
<1>5. Text(o.path) = url.path
  BY PartsLie, WholeText
<1>6. Text(o.query) = SubSeq(url.query, 2, Len(url.query))
  BY PartsLie, InnerText
<1>7. Text(o.fragment) = SubSeq(url.fragment, 2, Len(url.fragment))
  BY PartsLie, InnerText
<1> QED  BY <1>1, <1>2, <1>3, <1>4, <1>5, <1>6, <1>7 DEF Texts

\* What the parser has done with good parts, while it is not at its end.
OnTrack ==
  \A a, u, h, p, r, q :
    Ends(a, u, h, p, r, q) =>
      Located(it, s, a, u, p, r, q) /\ (has_userinfo <=> a < u /\ u < it)

Trip ==
  /\ Built
  /\ done => RoundTrip
  /\ ~done => spec_ = (input # <<>>) /\ (GoodParts => OnTrack)

LEMMA EndsExist == \E a, u, h, p, r, q : Ends(a, u, h, p, r, q)
  BY DEF Ends

LEMMA TripInit == Init => Trip
<1> SUFFICES ASSUME Init  PROVE Trip
  OBVIOUS
<1>1. PICK sc \in Schemes, us \in Users, ho \in Hosts, po \in Ports, pa \in Paths,
        qu \in Queries, fr \in Fragments :
          /\ url = [scheme |-> sc, user |-> us, host |-> ho, port |-> po,
                    path |-> pa, query |-> qu, fragment |-> fr]
          /\ input = sc \o us \o ho \o po \o pa \o qu \o fr
  BY Zenon DEF Init
<1>2. /\ sc \in Seq(STRING) /\ us \in Seq(STRING) /\ ho \in Seq(STRING) /\ po \in Seq(STRING)
      /\ pa \in Seq(STRING) /\ qu \in Seq(STRING) /\ fr \in Seq(STRING)
  BY UrlAssumption
<1>3. /\ url.scheme = sc /\ url.user = us /\ url.host = ho /\ url.port = po /\ url.path = pa
      /\ url.query = qu /\ url.fragment = fr
  BY <1>1
<1>4. Built
  BY <1>1, <1>2, <1>3, Zenon DEF Built
<1>5. ~done /\ spec_ = (input # <<>>) /\ it = 1 /\ s = "initial" /\ has_userinfo = FALSE
  BY DEF Init
<1>6. ASSUME GoodParts, NEW a, NEW u, NEW h, NEW p, NEW r, NEW q, Ends(a, u, h, p, r, q)
      PROVE  Located(it, s, a, u, p, r, q) /\ (has_userinfo <=> a < u /\ u < it)
  <2>1. Laid(a, u, h, p, r, q)
    BY <1>4, <1>6, GoodLaid
  <2>2. /\ a \in Nat /\ u \in Nat /\ p \in Nat /\ r \in Nat /\ q \in Nat
        /\ 4 <= a /\ a <= u /\ u <= p /\ p <= r /\ r <= q
    BY <2>1 DEF Laid
  <2>3. Located(1, "initial", a, u, p, r, q)
    BY <2>2 DEF Located
  <2> QED  BY <1>5, <2>2, <2>3
<1> QED  BY <1>4, <1>5, <1>6 DEF Trip, OnTrack

LEMMA TripFrame ==
  ASSUME input' = input, url' = url
  PROVE  /\ Built' <=> Built
         /\ GoodParts' <=> GoodParts
         /\ \A a, u, h, p, r, q : Ends(a, u, h, p, r, q)' <=> Ends(a, u, h, p, r, q)
<1>1. Built' <=> Built
  BY DEF Built
<1>2. \A a, u, h, p, r, q : Ends(a, u, h, p, r, q)' <=> Ends(a, u, h, p, r, q)
  BY DEF Ends
<1>3. \A t, i : GoodPort(t, i)' <=> GoodPort(t, i)
  BY TextsFrame DEF GoodPort
<1>4. GoodParts' <=> GoodParts
  BY <1>3 DEF GoodParts
<1> QED  BY <1>1, <1>2, <1>4

LEMMA TripMeans ==
  /\ RoundTrip <=> (done /\ GoodParts => ec = "none" /\ spec_ /\ Texts(out))
  /\ RoundTrip' <=> (done' /\ GoodParts' => ec' = "none" /\ spec_' /\ Texts(out)')
<1>1. RoundTrip <=> (done /\ GoodParts => ec = "none" /\ spec_ /\ Texts(out))
  BY Zenon DEF RoundTrip, Texts
<1>2. RoundTrip' <=> (done' /\ GoodParts' => ec' = "none" /\ spec_' /\ Texts(out)')
  BY Zenon DEF RoundTrip, Texts
<1> QED  BY <1>1, <1>2

LEMMA TextsKept ==
  ASSUME input' = input, url' = url
  PROVE  Texts(out)' <=> Texts(out')
<1>1. /\ Text(out.scheme)' = Text(out'.scheme) /\ Text(out.userinfo)' = Text(out'.userinfo)
      /\ Text(out.host)' = Text(out'.host) /\ Text(out.port)' = Text(out'.port)
      /\ Text(out.path)' = Text(out'.path) /\ Text(out.query)' = Text(out'.query)
      /\ Text(out.fragment)' = Text(out'.fragment)
  BY TextsFrame
<1> QED  BY <1>1 DEF Texts

LEMMA TripChar ==
  ASSUME Inv, Trip, parse_char
  PROVE  Trip'
<1> DEFINE st == get_state_for(s, input[it])
<1>1. /\ ~done /\ it \in 1 .. Len(input) /\ it \in Nat /\ Built /\ spec_ = (input # <<>>)
      /\ GoodParts => OnTrack
  BY Bounds DEF Inv, parse_char, Cursors, Trip
<1>2. input' = input /\ url' = url
  BY DEF parse_char, finish
<1>3. Built' /\ (GoodParts' <=> GoodParts)
  BY <1>1, <1>2, TripFrame
<1>4. ASSUME GoodParts, NEW a, NEW u, NEW h, NEW p, NEW r, NEW q, Ends(a, u, h, p, r, q)
      PROVE  /\ Located(it + 1, st, a, u, p, r, q)
             /\ st \notin {"invalid", "path_after_scheme"}
             /\ (has_userinfo \/ st = "authority_with_at") <=> a < u /\ u < it + 1
  <2>1. Laid(a, u, h, p, r, q)
    BY <1>1, <1>4, GoodLaid
  <2>2. Located(it, s, a, u, p, r, q) /\ (has_userinfo <=> a < u /\ u < it)
    BY <1>1, <1>4 DEF OnTrack
  <2>3. /\ Located(it + 1, st, a, u, p, r, q)
        /\ st \notin {"invalid", "path_after_scheme"}
        /\ st = "authority_with_at" <=> a < u /\ it = u
    BY <1>1, <2>1, <2>2, LocatedNext
  <2>4. u \in Nat
    BY <2>1 DEF Laid
  <2> HIDE DEF st
  <2> QED  BY <1>1, <2>2, <2>3, <2>4
<1>5. CASE st = "invalid"
  <2>1. ~GoodParts
    BY <1>4, <1>5, EndsExist
  <2>2. done' /\ ~GoodParts'
    BY <1>3, <1>5, <2>1 DEF parse_char, finish
  <2> QED  BY <1>3, <2>2, TripMeans DEF Trip
<1>6. CASE st # "invalid"
  <2>1. /\ s' = st /\ has_userinfo' = (has_userinfo \/ st = "authority_with_at")
        /\ it' = Rewound(st) + 1 /\ ~done' /\ spec_' = spec_
    BY <1>1, <1>6 DEF parse_char
  <2>2. ASSUME GoodParts, NEW a, NEW u, NEW h, NEW p, NEW r, NEW q, Ends(a, u, h, p, r, q)
        PROVE  /\ Located(it', s', a, u, p, r, q)
               /\ has_userinfo' <=> a < u /\ u < it'
    <3>1. it' = it + 1
      BY <1>4, <2>1, <2>2 DEF Rewound
    <3> HIDE DEF st
    <3> QED  BY <1>4, <2>1, <2>2, <3>1
  <2>3. GoodParts' => OnTrack'
    <3>1. SUFFICES ASSUME GoodParts, NEW a, NEW u, NEW h, NEW p, NEW r, NEW q,
                          Ends(a, u, h, p, r, q)'
                   PROVE  /\ Located(it, s, a, u, p, r, q)'
                          /\ (has_userinfo <=> a < u /\ u < it)'
      BY <1>3 DEF OnTrack
    <3>2. Ends(a, u, h, p, r, q)
      BY <1>2, <3>1, TripFrame
    <3> QED  BY <2>2, <3>1, <3>2 DEF Located
  <2> QED  BY <1>1, <1>2, <1>3, <2>1, <2>3 DEF Trip
<1> QED  BY <1>5, <1>6

LEMMA GoodEnd ==
  ASSUME Inv, Trip, parse_end, GoodParts
  PROVE  ec' = "none" /\ spec_' /\ Texts(out')
<1> DEFINE o == Closed(it)
           n == Len(input)
<1>1. /\ Cursors /\ Reading /\ n \in Nat /\ it = n + 1 /\ input \in Seq(STRING)
      /\ Built /\ ~done /\ spec_ = (input # <<>>) /\ OnTrack
  BY Bounds DEF Inv, parse_end, Cursors, Trip
<1>2. PICK a, u, h, p, r, q : Ends(a, u, h, p, r, q)
  BY EndsExist
<1>3. Laid(a, u, h, p, r, q)
  BY <1>1, <1>2, GoodLaid
<1>4. /\ a \in Nat /\ u \in Nat /\ h \in Nat /\ p \in Nat /\ r \in Nat /\ q \in Nat
      /\ 4 <= a /\ a <= u /\ u < h /\ h <= p /\ p <= r /\ r <= q /\ q <= n
  BY <1>3 DEF Laid
<1>5. Located(n + 1, s, a, u, p, r, q) /\ (has_userinfo <=> a < u)
  BY <1>1, <1>2, <1>4 DEF OnTrack
<1>6. s \notin {"initial", "scheme", "scheme_suffix_slash"}
  <2>1. CASE n <= p
    <3>1. n + 1 \in a + 2 .. p + 1
      BY <1>1, <1>4, <2>1
    <3> QED  BY <1>5, <3>1 DEF Located
  <2>2. CASE p < n /\ n <= r
    <3>1. n + 1 \in p + 2 .. r + 1
      BY <1>1, <1>4, <2>2
    <3> QED  BY <1>5, <3>1 DEF Located
  <2>3. CASE r < n /\ n <= q
    <3>1. (n + 1 = r + 2 /\ r < q) \/ n + 1 \in r + 3 .. q + 1
      BY <1>1, <1>4, <2>3
    <3> QED  BY <1>5, <3>1 DEF Located
  <2>4. CASE q < n
    <3>1. n + 1 = q + 2 \/ n + 1 > q + 2
      BY <1>1, <1>4, <2>4
    <3> QED  BY <1>5, <3>1 DEF Located
  <2> QED  BY <1>1, <1>4, <2>1, <2>2, <2>3, <2>4
<1>7. Whole(o)
  BY <1>1, <1>6, EndWhole
<1>8. Fresh(o) /\ o.userinfo = NoView
  BY <1>1, ClosedFresh
<1>9. PICK res : /\ res = IF o.host[1] = o.host[2] THEN [out |-> o, ec |-> "none"]
                          ELSE parse_authority(o, o.host[1], o.host[2])
                 /\ out' = res.out /\ ec' = res.ec /\ spec_' = (spec_ /\ res.ec = "none")
  BY DEF parse_end, finish
<1> HIDE DEF o
<1>10. /\ o.scheme = <<1, a - 2>> /\ Viewed(o.host, a + 1, p + 1)
       /\ Viewed(o.path, p + 1, r + 1)
       /\ IF r < q THEN Viewed(o.query, r + 2, q + 1) ELSE o.query = NoView
       /\ IF q < n THEN Viewed(o.fragment, q + 2, n + 1) ELSE o.fragment = NoView
  BY <1>3, <1>7, WholeGood
<1>11. o.host = <<a + 1, p + 1>> /\ a + 1 # p + 1
  BY <1>4, <1>10 DEF Viewed
<1>12. res = parse_authority(o, a + 1, p + 1)
  BY <1>9, <1>11
<1>13. PICK w : /\ parse_authority(o, a + 1, p + 1) = [out |-> w, ec |-> "none"]
                /\ AuthoritySplit(w, o, a, u, h, p)
  BY <1>1, <1>3, <1>5, <1>8, AuthorityGood
<1>14. out' = w /\ ec' = "none" /\ res.ec = "none"
  BY <1>9, <1>12, <1>13
<1>15. /\ w.scheme = o.scheme /\ w.path = o.path /\ w.query = o.query
       /\ w.fragment = o.fragment
       /\ w.userinfo = IF a < u THEN <<a + 1, u>> ELSE NoView
       /\ w.host = <<u + 1, h + 1>>
       /\ w.port = IF h < p THEN <<h + 2, p + 1>> ELSE NoView
  BY <1>8, <1>13 DEF AuthoritySplit, Fresh
<1>16. Texts(w)
  BY <1>1, <1>2, <1>4, <1>10, <1>15, GoodTexts
<1>17. spec_'
  <2>1. input # <<>>
    BY <1>1, <1>4
  <2> QED  BY <1>1, <1>9, <1>14, <2>1
<1> QED  BY <1>14, <1>16, <1>17

LEMMA TripEnd ==
  ASSUME Inv, Trip, parse_end
  PROVE  Trip'
<1>1. input' = input /\ url' = url /\ done'
  BY DEF parse_end, finish
<1>2. Built' /\ (GoodParts' <=> GoodParts) /\ (Texts(out)' <=> Texts(out'))
  BY <1>1, TripFrame, TextsKept DEF Trip
<1> QED  BY <1>1, <1>2, GoodEnd, TripMeans DEF Trip

LEMMA TripNext == Inv /\ Trip /\ [Next]_vars => Trip'
<1> SUFFICES ASSUME Inv, Trip, [Next]_vars  PROVE Trip'
  OBVIOUS
<1>1. CASE Next
  BY <1>1, TripChar, TripEnd DEF Next
<1>2. CASE UNCHANGED vars
  <2>1. /\ input' = input /\ url' = url /\ it' = it /\ s' = s /\ out' = out /\ ec' = ec
        /\ done' = done /\ has_userinfo' = has_userinfo /\ spec_' = spec_
    BY <1>2 DEF vars
  <2>2. /\ Built' <=> Built
        /\ GoodParts' <=> GoodParts
        /\ \A a, u, h, p, r, q : Ends(a, u, h, p, r, q)' <=> Ends(a, u, h, p, r, q)
    BY <2>1, TripFrame
  <2>3. OnTrack => OnTrack'
    BY <2>1, <2>2 DEF OnTrack, Located
  <2>4. RoundTrip => RoundTrip'
    BY <2>1, <2>2, TextsKept, TripMeans
  <2> QED  BY <2>1, <2>2, <2>3, <2>4 DEF Trip
<1> QED  BY <1>1, <1>2

\* Good parts, of any length and of any characters of their classes, are put together
\* to a URL that parse_url accepts, and its views are these parts again: no part is
\* cut short by a character that the next one starts with, and the authority is
\* divided at the right "@" and ":", the ones in an address in brackets set aside.
THEOREM RoundTripInvariant == Spec => []RoundTrip
<1>1. Trip => RoundTrip
  BY TripMeans DEF Trip
<1> QED  BY <1>1, InvInit, InvNext, TripInit, TripNext, PTL DEF Spec

=============================================================================
