------------------------- MODULE SocksClientProofs -------------------------
(***************************************************************************)
(* The SOCKS client and connect() are correct whatever the endpoints, the  *)
(* lengths of the names and the leftovers in the buffer: each of the five  *)
(* invariants of SocksClient, by an inductive invariant that relates the   *)
(* place an operation is at to the bytes on the wire.  The heart of it is  *)
(* Wire(n): what the operation has read and what is left to be read are    *)
(* the proxy's answer, followed by the proxied connection.                 *)
(***************************************************************************)
EXTENDS SocksClient, SequenceTheorems, TLAPS

Octets == 0 .. 255
Commands == {1, 2}
PortNumbers == {0, 80, 443}
Kinds == {"v4", "greet", "login", "exec"}

\* The operation is one of four, at a place where it waits for something.
OpOK ==
  /\ op \in [kind : Kinds \cup {"none"}, n : 0 .. 257,
             pc : {"idle", "post", "write", "runaway", "read", "address"}]
  /\ op.pc = "idle" \/ op.kind = "none" => op = NoOp
  /\ op.pc = "read" => op.n = FirstRead[op.kind]
  /\ op.pc = "address" => op.kind = "exec"

\* Leftovers in the buffer come from a failed read or write.
BufOK ==
  /\ buf \in Seq(Octets \cup {Junk})
  /\ op.pc = "post" => buf = <<>>
  /\ op = NoOp /\ last.ec \notin {"io", "never"} => buf = <<>>

\* n bytes of what the proxy has sent are read, the next ones are in the inbox and
\* the others are still to come; the tunnel begins after the last of them.
Wire(n) ==
  /\ Len(got) = n /\ \A i \in 1 .. n : got[i] = (reply \o tunnel)[i]
  /\ \A i \in 1 .. Len(inbox) : inbox[i] = (reply \o tunnel)[n + i]
  /\ Len(inbox) + n + unsent = Len(reply) + Len(tunnel)

\* The bytes are bytes, and the connection carries no more than the answer before
\* it has been sent.
BytesOK ==
  /\ inbox \in Seq(Octets \cup {Tunnel}) /\ tunnel \in {<<>>, <<Tunnel>>}
  /\ got \in Seq(Octets \cup {Tunnel})
  /\ reply \in Seq(Octets) /\ unsent \in 0 .. Len(reply)
  /\ unsent # 0 \/ reply = <<>> => tunnel = <<>>

\* A request is answered once, by an answer to it, and on a connection from which
\* nothing is left to be read.
WireOK ==
  /\ BytesOK
  /\ tunnel # <<>> => op.kind = "exec" \/ (op = NoOp /\ last.kind = "exec")
  /\ op.pc \in {"post", "write", "runaway"} => reply = <<>> /\ inbox = <<>> /\ got = <<>>
  /\ op.pc = "read" => (reply = <<>> \/ reply \in Replies(op.kind)) /\ Wire(0)
  /\ op.pc = "address" =>
       /\ reply \in Replies("exec") /\ reply[1] = 5 /\ reply[2] = 0 /\ Wire(5)
       /\ op.n = AddressRest(reply[4], reply[5]) + 2
  /\ op = NoOp /\ last.ec \in {"none", "never"} /\ last.kind \in {"none", "greet", "login"} =>
       inbox = <<>> /\ tunnel = <<>> /\ unsent = 0

\* What the last operation completed with.
LastOK ==
  /\ last.ec = "none" => last.kind \in Kinds
  /\ op = NoOp /\ last.kind = "exec" /\ last.ec = "none" /\ Granted =>
       inbox = tunnel /\ unsent = 0
  /\ NoFalseSuccess

\* A SOCKS 5 request says what was asked for, or names no host.
Says(kind, p, c) ==
  \/ Decoded(kind, p) = c
  \/ kind = "exec" /\ c.names = << <<>> >>

\* So does the packet in the buffer before it is written, unless it is preceded
\* by leftovers.
AskedOK ==
  /\ op.pc \in {"idle", "post", "write", "runaway"} => asked = <<>>
  /\ op.pc = "write" /\ stale = 0 /\ op.kind # "v4" => Says(op.kind, buf, call)
  /\ asked # <<>> /\ stale = 0 /\ op.kind # "v4" => Says(op.kind, asked, call)

OpInv == OpOK /\ BufOK /\ WireOK /\ LastOK /\ AskedOK

\* Which packets are longer than the memory prepared for them.
OverrunOK == overrun # 0 => op.kind = "v4" /\ call.names[2] = <<>> /\ overrun = 1

SockOK == sock \in {"closed", "open", "connected"}

\* The inductive invariant.
Inv == SockOK /\ OpInv

-----------------------------------------------------------------------------
(* Connect.                                                                 *)

LEMMA FirstAcceptingAccepts ==
  ASSUME NEW r \in Results, NEW outcomes \in [1 .. Len(r) -> BOOLEAN],
         TRUE \in {outcomes[i] : i \in 1 .. Len(r)}
  PROVE  outcomes[FirstAccepting(outcomes)]
<1>1. Len(r) \in {0, 1, 2}
  BY DEF Results
<1>2. outcomes \in Seq(BOOLEAN) /\ Len(outcomes) = Len(r)
  <2>1. outcomes \in Seq(BOOLEAN)
    BY <1>1, SeqDef
  <2> QED
    BY <1>1, <2>1, LenProperties
<1>3. PICK i \in 1 .. Len(r) : outcomes[i]
  OBVIOUS
<1>4. \E j \in 1 .. Len(outcomes) : outcomes[j] /\ \A l \in 1 .. j - 1 : ~outcomes[l]
  <2>1. CASE outcomes[1]
    BY <1>1, <1>2, <1>3, <2>1
  <2>2. CASE ~outcomes[1]
    <3>0. i # 1
      BY <1>3, <2>2
    <3>1. i = 2
      <4> DEFINE n == Len(r)
      <4>1. i \in 1 .. n /\ n \in {0, 1, 2}
        BY <1>1
      <4> HIDE DEF n
      <4> QED
        BY <3>0, <4>1
    <3>2. 2 \in 1 .. Len(outcomes) /\ \A l \in 1 .. 2 - 1 : l = 1
      BY <1>1, <1>2, <3>1
    <3> QED
      BY <1>3, <2>2, <3>1, <3>2
  <2> QED
    BY <2>1, <2>2
<1> QED
  BY <1>4 DEF FirstAccepting

LEMMA ConnectNextReports ==
  ASSUME ConnectReports, ConnectNext
  PROVE  ConnectReports'
<1>1. ASSUME NEW r \in Results, NEW o \in [1 .. Len(r) -> BOOLEAN], connect(r, o)
      PROVE  ConnectReports'
  <2>1. CASE reported' = [ec |-> "unresolved", endpoint |-> NoEndpoint]
    BY <2>1 DEF ConnectReports
  <2>2. CASE reported' = [ec |-> "host_not_found", endpoint |-> NoEndpoint]
    BY <2>2 DEF ConnectReports
  <2>3. CASE reported' = [ec |-> "refused", endpoint |-> NoEndpoint] /\ sock' = "open"
    BY <2>3 DEF ConnectReports
  <2>4. CASE /\ TRUE \in {o[i] : i \in 1 .. Len(r)}
             /\ LET i == FirstAccepting(o) IN
                  /\ reported' = [ec |-> "none", endpoint |-> r[i]]
                  /\ sock' = IF o[i] THEN "connected" ELSE "open"
                  /\ peer' = IF o[i] THEN r[i] ELSE NoEndpoint
    <3>1. o[FirstAccepting(o)]
      BY <2>4, FirstAcceptingAccepts
    <3> QED
      BY <2>4, <3>1 DEF ConnectReports
  <2> QED
    BY <1>1, <2>1, <2>2, <2>3, <2>4 DEF connect
<1>2. CASE async_connect
  BY <1>2 DEF async_connect, NoJob, ConnectReports
<1>3. CASE resolve_fails
  BY <1>3 DEF resolve_fails, complete_connect, ConnectReports
<1>4. CASE accepted
  BY <1>4 DEF accepted, complete_connect, ConnectReports
<1>5. CASE refused
  <2>1. CASE Len(job.todo) = 1
    BY <1>5, <2>1 DEF refused, complete_connect, ConnectReports
  <2>2. CASE Len(job.todo) # 1
    <3>1. job' = [job EXCEPT !.todo = Tail(@)] /\ job.pc = "connecting"
      BY <1>5, <2>2 DEF refused
    <3>2. job'.pc # "idle"
      BY <3>1
    <3> QED
      BY <3>2 DEF ConnectReports
  <2> QED
    BY <2>1, <2>2
<1>6. CASE exhausted
  BY <1>6 DEF exhausted, complete_connect, ConnectReports
<1>7. ASSUME NEW r \in Results, resolved(r) PROVE ConnectReports'
  BY <1>7 DEF resolved, ConnectReports
<1>8. CASE close
  BY <1>8 DEF close, ConnectReports
<1> QED
  BY <1>1, <1>2, <1>3, <1>4, <1>5, <1>6, <1>7, <1>8 DEF ConnectNext, ConnectStep

\* Every other step than the application's leaves the connection alone.
LEMMA SocksConnects ==
  ASSUME [SocksNext]_allVars
  PROVE  ConnectNext \/ UNCHANGED connectVars
<1>1. CASE Reconnecting \/ Closing
  BY <1>1 DEF Reconnecting, Closing, ConnectNext
<1>2. CASE Clearing \/ UNCHANGED allVars
  BY <1>2 DEF Clearing, allVars
<1>3. CASE Calls
  <2>1. \A kind, args, size, bytes : initiate(kind, args, size, bytes) => UNCHANGED connectVars
    BY DEF initiate
  <2>2. \A a, b, c, d : async_execute_v4(a, b, c, d) => UNCHANGED connectVars
    BY <2>1, Zenon DEF async_execute_v4
  <2>3. \A a, b, c, d : async_execute_v4a(a, b, c, d) => UNCHANGED connectVars
    BY <2>1, Zenon DEF async_execute_v4a
  <2>4. \A a : async_greet(a) => UNCHANGED connectVars
    BY <2>1, Zenon DEF async_greet
  <2>5. \A a, b : async_login(a, b) => UNCHANGED connectVars
    BY <2>1, Zenon DEF async_login
  <2>6. \A a, b, c : async_execute(a, b, c) => UNCHANGED connectVars
    BY <2>1, Zenon DEF async_execute
  <2>7. \A a, b, c : async_execute_host(a, b, c) => UNCHANGED connectVars
    BY <2>1, Zenon DEF async_execute_host
  <2>8. CASE \E r \in Remotes, n \in Lengths \ {256} : async_execute_v4(1, r, 80, Text(n))
    BY <2>2, <2>8
  <2>9. CASE \E h, n \in Lengths \ {0, 256} : async_execute_v4a(1, Text(h), 80, Text(n))
    BY <2>3, <2>9
  <2>10. CASE \E m \in {<<>>, <<0>>, <<0, 2>>, [i \in 1 .. 256 |-> 0]} : async_greet(m)
    BY <2>4, <2>10
  <2>11. CASE \E u, p \in Lengths : async_login(Text(u), Text(p))
    BY <2>5, <2>11
  <2>12. CASE \E r \in Remotes, c \in {1, 2} : async_execute(c, r, 443)
    BY <2>6, <2>12
  <2>13. CASE \E h \in Lengths : async_execute_host(1, Text(h), 443)
    BY <2>7, <2>13
  <2> QED
    BY <1>3, <2>8, <2>9, <2>10, <2>11, <2>12, <2>13, Zenon DEF Calls
<1>4. CASE Handlers
  BY <1>4 DEF Handlers, posted, written, io_fails, v4_answered, greet_answered,
              login_answered, exec_answered, exec_addressed, received
<1>5. CASE Proxy
  BY <1>5 DEF Proxy, answers, sends, passes_on, hangs_up
<1> QED
  BY <1>1, <1>2, <1>3, <1>4, <1>5 DEF SocksNext

\* connect() and async_connect() report the endpoint that the socket is connected
\* to, whatever the resolver returns and whichever endpoints accept.
THEOREM ConnectReportsInvariant == SocksSpec => []ConnectReports
<1>1. SocksInit => ConnectReports
  BY DEF SocksInit, ConnectInit, ConnectReports
<1>2. ConnectReports /\ [SocksNext]_allVars => ConnectReports'
  <2> SUFFICES ASSUME ConnectReports, [SocksNext]_allVars PROVE ConnectReports'
    OBVIOUS
  <2>1. CASE ConnectNext
    BY <2>1, ConnectNextReports
  <2>2. CASE UNCHANGED connectVars
    BY <2>2 DEF connectVars, ConnectReports
  <2> QED
    BY <2>1, <2>2, SocksConnects
<1> QED
  BY <1>1, <1>2, PTL DEF SocksSpec

-----------------------------------------------------------------------------
(* Sequences.                                                               *)

LEMMA TailFrom ==
  ASSUME NEW S, NEW s \in Seq(S), NEW n \in 0 .. Len(s)
  PROVE  /\ SubSeq(s, n + 1, Len(s)) \in Seq(S)
         /\ Len(SubSeq(s, n + 1, Len(s))) = Len(s) - n
         /\ \A i \in 1 .. Len(s) - n : SubSeq(s, n + 1, Len(s))[i] = s[n + i]
<1> DEFINE m == n + 1
           l == Len(s)
           t == SubSeq(s, m, l)
<1>1. l \in Nat /\ m \in Int /\ l \in Int
  BY LenProperties
<1>2. \A i \in m .. l : s[i] \in S
  BY <1>1, ElementOfSeq
<1>3. /\ t \in Seq(S)
      /\ Len(t) = IF m <= l THEN l - m + 1 ELSE 0
      /\ \A i \in 1 .. l - m + 1 : t[i] = s[m + i - 1]
  <2> HIDE DEF m, l
  <2> QED
    BY <1>1, <1>2, SubSeqProperties
<1> HIDE DEF t
<1>4. Len(t) = l - n
  BY <1>1, <1>3
<1>5. ASSUME NEW i \in 1 .. l - n PROVE t[i] = s[n + i]
  <2>1. i \in 1 .. l - m + 1 /\ m + i - 1 = n + i
    BY <1>1
  <2> HIDE DEF m, l
  <2> QED
    BY <1>3, <2>1
<1> QED
  BY <1>3, <1>4, <1>5 DEF t

LEMMA HeadTo ==
  ASSUME NEW S, NEW s \in Seq(S), NEW n \in 0 .. Len(s)
  PROVE  /\ SubSeq(s, 1, n) \in Seq(S) /\ Len(SubSeq(s, 1, n)) = n
         /\ \A i \in 1 .. n : SubSeq(s, 1, n)[i] = s[i]
<1> DEFINE t == SubSeq(s, 1, n)
<1>1. Len(s) \in Nat
  BY LenProperties
<1>2. n \in Int /\ 1 \in Int /\ \A i \in 1 .. n : s[i] \in S
  BY <1>1, ElementOfSeq
<1>3. /\ t \in Seq(S)
      /\ Len(t) = IF 1 <= n THEN n - 1 + 1 ELSE 0
      /\ \A i \in 1 .. n - 1 + 1 : t[i] = s[1 + i - 1]
  BY <1>2, SubSeqProperties
<1> HIDE DEF t
<1>4. n - 1 + 1 = n /\ (~(1 <= n) => n = 0) /\ \A i \in Int : 1 + i - 1 = i
  BY <1>1
<1> QED
  BY <1>3, <1>4 DEF t

\* The part of a sequence that is b, between a and c.
LEMMA Between ==
  ASSUME NEW S, NEW a \in Seq(S), NEW b \in Seq(S), NEW c \in Seq(S)
  PROVE  /\ a \o b \o c \in Seq(S) /\ Len(a \o b \o c) = Len(a) + Len(b) + Len(c)
         /\ SubSeq(a \o b \o c, Len(a) + 1, Len(a) + Len(b)) = b
         /\ \A i \in 1 .. Len(a) : (a \o b \o c)[i] = a[i]
         /\ \A i \in 1 .. Len(b) : (a \o b \o c)[Len(a) + i] = b[i]
         /\ \A i \in 1 .. Len(c) : (a \o b \o c)[Len(a) + Len(b) + i] = c[i]
<1> DEFINE ab == a \o b
           s == ab \o c
           la == Len(a)
           lb == Len(b)
           lc == Len(c)
<1>1. la \in Nat /\ lb \in Nat /\ lc \in Nat
  BY LenProperties
<1>2. /\ ab \in Seq(S) /\ Len(ab) = la + lb
      /\ \A i \in 1 .. la + lb : ab[i] = IF i <= la THEN a[i] ELSE b[i - la]
  BY ConcatProperties
<1> HIDE DEF ab
<1>3. /\ s \in Seq(S) /\ Len(s) = (la + lb) + lc
      /\ \A i \in 1 .. (la + lb) + lc : s[i] = IF i <= la + lb THEN ab[i] ELSE c[i - (la + lb)]
  <2>0. ab \in Seq(S)
    BY <1>2
  <2>1. /\ s \in Seq(S) /\ Len(s) = Len(ab) + lc
        /\ \A i \in 1 .. Len(ab) + lc : s[i] = IF i <= Len(ab) THEN ab[i] ELSE c[i - Len(ab)]
    BY <2>0, ConcatProperties
  <2> QED
    BY <1>2, <2>1
<1> HIDE DEF s, la, lb, lc
<1>4. \A i \in 1 .. la : s[i] = a[i]
  BY <1>1, <1>2, <1>3
<1>5. ASSUME NEW i \in 1 .. lb PROVE s[la + i] = b[i]
  <2>1. la + i \in 1 .. (la + lb) + lc /\ la + i <= la + lb /\ la + i \in 1 .. la + lb
        /\ ~(la + i <= la) /\ (la + i) - la = i
    BY <1>1
  <2> QED
    BY <1>2, <1>3, <2>1
<1>6. ASSUME NEW i \in 1 .. lc PROVE s[la + lb + i] = c[i]
  <2>1. la + lb + i \in 1 .. (la + lb) + lc /\ ~(la + lb + i <= la + lb)
        /\ (la + lb + i) - (la + lb) = i
    BY <1>1
  <2> QED
    BY <1>3, <2>1
<1>7. SubSeq(s, la + 1, la + lb) = b
  <2> DEFINE m == la + 1
             n == la + lb
             t == SubSeq(s, m, n)
  <2>1. m \in Int /\ n \in Int
    BY <1>1
  <2>2. \A i \in m .. n : s[i] \in S
    <3>1. \A i \in m .. n : i \in 1 .. Len(s)
      BY <1>1, <1>3
    <3> QED
      BY <1>3, <3>1, ElementOfSeq
  <2>3. /\ t \in Seq(S)
        /\ Len(t) = IF m <= n THEN n - m + 1 ELSE 0
        /\ \A i \in 1 .. n - m + 1 : t[i] = s[m + i - 1]
    <3> HIDE DEF m, n
    <3> QED
      BY <2>1, <2>2, SubSeqProperties
  <2> HIDE DEF t
  <2>4. Len(t) = lb
    BY <1>1, <2>3
  <2>5. ASSUME NEW i \in 1 .. lb PROVE t[i] = s[la + i]
    <3>1. i \in 1 .. n - m + 1 /\ m + i - 1 = la + i
      BY <1>1
    <3> HIDE DEF m, n
    <3> QED
      BY <2>3, <3>1
  <2>6. Len(t) = Len(b) /\ \A i \in 1 .. Len(t) : t[i] = b[i]
    BY <1>5, <2>4, <2>5 DEF lb
  <2>7. t = b
    BY <2>3, <2>6, SeqEqual
  <2> QED
    BY <2>7 DEF t
<1> QED
  BY <1>3, <1>4, <1>5, <1>6, <1>7 DEF s, ab, la, lb, lc

-----------------------------------------------------------------------------
(* The packets.                                                             *)

LEMMA LenOf ==
  ASSUME NEW S, NEW n \in Nat, NEW s \in [1 .. n -> S]
  PROVE  s \in Seq(S) /\ Len(s) = n
<1>1. s \in Seq(S)
  BY SeqDef
<1>2. Len(s) \in Nat /\ DOMAIN s = 1 .. Len(s) /\ DOMAIN s = 1 .. n
  BY <1>1, LenProperties
<1> QED
  BY <1>1, <1>2

LEMMA Texts ==
  ASSUME NEW n \in Nat
  PROVE  Text(n) \in Seq(Octets) /\ Len(Text(n)) = n /\ (n # 0 => Text(n) # <<>>)
<1>1. Text(n) \in [1 .. n -> Octets]
  BY DEF Text, Octets
<1>2. Text(n) \in Seq(Octets) /\ Len(Text(n)) = n
  BY <1>1, LenOf
<1>3. Len(<<>>) = 0
  OBVIOUS
<1> QED
  BY <1>2, <1>3

LEMMA JunkSeq ==
  ASSUME NEW n \in Nat
  PROVE  Junks(n) \in Seq(Octets \cup {Junk}) /\ Len(Junks(n)) = n
<1>1. Junks(n) \in [1 .. n -> Octets \cup {Junk}]
  BY DEF Junks
<1> QED
  BY <1>1, LenOf

LEMMA Bytes ==
  ASSUME NEW n \in Nat
  PROVE  Byte(n) \in Octets /\ (n <= 255 => Byte(n) = n)
  BY DEF Byte, Octets

LEMMA Singles ==
  ASSUME NEW S, NEW x \in S
  PROVE  <<x>> \in Seq(S) /\ Len(<<x>>) = 1 /\ <<x>>[1] = x
  OBVIOUS

LEMMA Pairs ==
  ASSUME NEW S, NEW x \in S, NEW y \in S
  PROVE  <<x, y>> \in Seq(S) /\ Len(<<x, y>>) = 2 /\ <<x, y>>[1] = x /\ <<x, y>>[2] = y
  OBVIOUS

LEMMA Fours ==
  ASSUME NEW S, NEW x \in S, NEW y \in S, NEW z \in S, NEW w \in S
  PROVE  /\ <<x, y, z, w>> \in Seq(S) /\ Len(<<x, y, z, w>>) = 4
         /\ <<x, y, z, w>>[1] = x /\ <<x, y, z, w>>[2] = y
         /\ <<x, y, z, w>>[3] = z /\ <<x, y, z, w>>[4] = w
  OBVIOUS

LEMMA Fives ==
  ASSUME NEW S, NEW x \in S, NEW y \in S, NEW z \in S, NEW w \in S, NEW v \in S
  PROVE  /\ <<x, y, z, w, v>> \in Seq(S) /\ Len(<<x, y, z, w, v>>) = 5
         /\ <<x, y, z, w, v>>[1] = x /\ <<x, y, z, w, v>>[2] = y
         /\ <<x, y, z, w, v>>[3] = z /\ <<x, y, z, w, v>>[4] = w
         /\ <<x, y, z, w, v>>[5] = v
  OBVIOUS

LEMMA Ports ==
  ASSUME NEW n \in PortNumbers
  PROVE  /\ Port(n) \in Seq(Octets) /\ Len(Port(n)) = 2
         /\ Port(n)[1] * 256 + Port(n)[2] = n
<1>1. n \div 256 \in {0, 1} /\ n % 256 \in 0 .. 255 /\ (n \div 256) * 256 + (n % 256) = n
  <2>1. 0 \div 256 = 0 /\ 0 % 256 = 0 /\ 80 \div 256 = 0 /\ 80 % 256 = 80
        /\ 443 \div 256 = 1 /\ 443 % 256 = 187
    OBVIOUS
  <2>2. CASE n = 0
    BY <2>1, <2>2
  <2>3. CASE n = 80
    BY <2>1, <2>3
  <2>4. CASE n = 443
    BY <2>1, <2>4
  <2> QED
    BY <2>2, <2>3, <2>4 DEF PortNumbers
<1> DEFINE x == n \div 256
           y == n % 256
<1>2. x \in Octets /\ y \in Octets /\ x * 256 + y = n /\ Port(n) = <<x, y>>
  BY <1>1 DEF Octets, Port
<1> HIDE DEF x, y
<1>3. <<x, y>> \in Seq(Octets) /\ Len(<<x, y>>) = 2 /\ <<x, y>>[1] = x /\ <<x, y>>[2] = y
  BY <1>2
<1> QED
  BY <1>2, <1>3

\* A packet as long as the encoder's output is that output; one of size 0 is none.
LEMMA Packets ==
  ASSUME NEW size \in Nat, NEW bytes \in Seq(Octets)
  PROVE  /\ Packet(size, bytes) \in Seq(Octets \cup {Junk})
         /\ size = 0 => Packet(size, bytes) = <<>>
         /\ size = Len(bytes) => Packet(size, bytes) = bytes
<1> DEFINE S == Octets \cup {Junk}
           j == Junks(size)
           s == bytes \o j
           p == SubSeq(s, 1, size)
<1>1. bytes \in Seq(S) /\ Len(bytes) \in Nat
  <2>1. \A i \in 1 .. Len(bytes) : bytes[i] \in S
    BY ElementOfSeq
  <2>2. bytes \in [1 .. Len(bytes) -> S] /\ Len(bytes) \in Nat
    BY <2>1, LenProperties
  <2> QED
    BY <2>2, SeqDef
<1>2. j \in Seq(S) /\ Len(j) = size
  BY JunkSeq
<1> HIDE DEF j, S
<1>3. /\ s \in Seq(S) /\ Len(s) = Len(bytes) + Len(j)
      /\ \A i \in 1 .. Len(bytes) + Len(j) :
           s[i] = IF i <= Len(bytes) THEN bytes[i] ELSE j[i - Len(bytes)]
  BY <1>1, <1>2, ConcatProperties
<1> HIDE DEF s
<1>4. size \in 0 .. Len(s)
  BY <1>1, <1>2, <1>3
<1>5. p \in Seq(S) /\ Len(p) = size /\ \A i \in 1 .. size : p[i] = s[i]
  BY <1>3, <1>4, HeadTo
<1>6. Packet(size, bytes) = p
  BY DEF Packet, s, j
<1> HIDE DEF p
<1>7. size = 0 => p = <<>>
  BY <1>5, EmptySeq
<1>8. ASSUME size = Len(bytes) PROVE p = bytes
  <2>1. \A i \in 1 .. size : s[i] = bytes[i]
    BY <1>1, <1>2, <1>3, <1>8
  <2>2. Len(p) = Len(bytes) /\ \A i \in 1 .. Len(p) : p[i] = bytes[i]
    BY <1>5, <1>8, <2>1
  <2> QED
    BY <1>1, <1>5, <2>2, SeqEqual
<1> QED
  BY <1>5, <1>6, <1>7, <1>8 DEF S

LEMMA GreetSays ==
  ASSUME NEW methods \in Seq(Octets),
         NEW p, p = Packet(get_greet_packet_size(methods), encode_greet_packet(methods))
  PROVE  p \in Seq(Octets \cup {Junk}) /\ (p # <<>> => Says("greet", p, Call(0, <<methods>>, 0)))
<1> DEFINE l == Len(methods)
           a == <<5, Byte(l)>>
           c == <<>>
           e == a \o methods \o c
           size == get_greet_packet_size(methods)
<1>1. l \in Nat
  BY LenProperties
<1>2. a \in Seq(Octets) /\ Len(a) = 2 /\ a[2] = Byte(l) /\ c \in Seq(Octets) /\ Len(c) = 0
  <2> DEFINE x == Byte(l)
  <2>1. x \in Octets /\ 5 \in Octets
    BY <1>1, Bytes DEF Octets
  <2> HIDE DEF x
  <2>2. a \in Seq(Octets) /\ Len(a) = 2 /\ a[2] = x
    BY <2>1, Pairs DEF x
  <2>3. c \in Seq(Octets) /\ Len(c) = 0
    OBVIOUS
  <2> QED
    BY <2>2, <2>3 DEF x
<1>3. encode_greet_packet(methods) = e
  <2>1. a \o methods \in Seq(Octets)
    BY <1>2, ConcatProperties
  <2>2. e = a \o methods
    BY <2>1, ConcatEmptySeq
  <2> QED
    BY <2>2 DEF encode_greet_packet
<1> HIDE DEF a, c, l, size
<1>4. /\ e \in Seq(Octets) /\ Len(e) = Len(a) + Len(methods) + Len(c)
      /\ SubSeq(e, Len(a) + 1, Len(a) + Len(methods)) = methods
      /\ \A i \in 1 .. Len(a) : e[i] = a[i]
  <2>1. a \in Seq(Octets) /\ c \in Seq(Octets)
    BY <1>2
  <2> QED
    BY <2>1, Between
<1> HIDE DEF e
<1>5. size \in Nat /\ (l > 255 => size = 0) /\ (l <= 255 => size = Len(e))
  BY <1>1, <1>2, <1>4 DEF get_greet_packet_size, size, l
<1>6. /\ p \in Seq(Octets \cup {Junk}) /\ (size = 0 => p = <<>>) /\ (size = Len(e) => p = e)
  BY <1>3, <1>4, <1>5, Packets DEF size
<1>7. ASSUME l <= 255 PROVE Decoded("greet", e) = Call(0, <<methods>>, 0)
  <2>1. e[2] = l
    BY <1>1, <1>2, <1>4, <1>7, Bytes
  <2>2. SubSeq(e, 2 + 1, 2 + e[2]) = methods
    BY <1>2, <1>4, <2>1 DEF l
  <2> QED
    BY <2>2 DEF Decoded
<1> QED
  BY <1>1, <1>5, <1>6, <1>7 DEF Says

LEMMA FourParts ==
  ASSUME NEW S, NEW a \in Seq(S), NEW b \in Seq(S), NEW c \in Seq(S), NEW d \in Seq(S),
         NEW s, s = a \o b \o c \o d
  PROVE  /\ s \in Seq(S)
         /\ Len(s) = Len(a) + Len(b) + Len(c) + Len(d)
         /\ SubSeq(s, Len(a) + 1, Len(a) + Len(b)) = b
         /\ SubSeq(s, Len(a) + Len(b) + Len(c) + 1,
                   Len(a) + Len(b) + Len(c) + Len(d)) = d
         /\ \A i \in 1 .. Len(a) : s[i] = a[i]
         /\ \A i \in 1 .. Len(c) : s[Len(a) + Len(b) + i] = c[i]
<1> DEFINE f == a \o b \o c
           e == f \o d
           n == <<>>
           ab == a \o b
           cd == c \o d
           la == Len(a)
           lb == Len(b)
           lc == Len(c)
           ld == Len(d)
<1>0. la \in Nat /\ lb \in Nat /\ lc \in Nat /\ ld \in Nat
  BY LenProperties
<1>1. /\ f \in Seq(S) /\ Len(f) = la + lb + lc
      /\ \A i \in 1 .. la : f[i] = a[i]
      /\ \A i \in 1 .. lc : f[la + lb + i] = c[i]
  BY Between
<1>2. n \in Seq(S) /\ Len(n) = 0
  OBVIOUS
<1>3. cd \in Seq(S) /\ ab \in Seq(S)
  BY ConcatProperties
<1>4. a \o b \o cd = e
  <2>0. ab \in Seq(S)
    BY <1>3
  <2> HIDE DEF ab
  <2>1. (ab \o c) \o d = ab \o (c \o d)
    BY <2>0, ConcatAssociative, SMTT(30)
  <2> QED
    BY <2>1 DEF ab
<1>5. SubSeq(a \o b \o cd, la + 1, la + lb) = b
  <2> HIDE DEF cd
  <2> QED
    BY <1>3, Between
<1> HIDE DEF f, n
<1>6. /\ f \o d \o n \in Seq(S) /\ Len(f \o d \o n) = Len(f) + ld + Len(n)
      /\ SubSeq(f \o d \o n, Len(f) + 1, Len(f) + ld) = d
      /\ \A i \in 1 .. Len(f) : (f \o d \o n)[i] = f[i]
  <2>1. f \in Seq(S) /\ n \in Seq(S)
    BY <1>1, <1>2
  <2> HIDE DEF ld
  <2>2. d \in Seq(S)
    OBVIOUS
  <2> QED
    BY <2>1, <2>2, Between DEF ld
<1>7. f \o d \o n = e
  <2>1. e \in Seq(S)
    BY <1>1, ConcatProperties
  <2> HIDE DEF e
  <2>2. e \o n = e
    BY <2>1, ConcatEmptySeq DEF n
  <2> QED
    BY <2>2 DEF e
<1> HIDE DEF e, cd, ab, la, lb, lc, ld
<1>8. /\ e \in Seq(S) /\ Len(e) = la + lb + lc + ld
      /\ SubSeq(e, la + lb + lc + 1, la + lb + lc + ld) = d
  BY <1>0, <1>1, <1>2, <1>6, <1>7
<1>9. \A i \in 1 .. la : e[i] = a[i]
  <2>1. \A i \in 1 .. la : i \in 1 .. la + lb + lc
    BY <1>0
  <2> QED
    BY <1>1, <1>6, <1>7, <2>1
<1>10. \A i \in 1 .. lc : e[la + lb + i] = c[i]
  <2>1. \A i \in 1 .. lc : la + lb + i \in 1 .. la + lb + lc
    BY <1>0
  <2> QED
    BY <1>1, <1>6, <1>7, <2>1
<1>11. s = e
  BY DEF e, f
<1>12. SubSeq(s, la + 1, la + lb) = b
  BY <1>4, <1>5, <1>11
<1> QED
  BY <1>8, <1>9, <1>10, <1>11, <1>12 DEF la, lb, lc, ld

LEMMA LoginSays ==
  ASSUME NEW u \in Seq(Octets), NEW w \in Seq(Octets),
         NEW p, p = Packet(get_login_packet_size(u, w), encode_login_packet(u, w))
  PROVE  p \in Seq(Octets \cup {Junk}) /\ (p # <<>> => Says("login", p, Call(0, <<u, w>>, 0)))
<1> DEFINE lu == Len(u)
           lw == Len(w)
           a == <<1, Byte(lu)>>
           c == <<Byte(lw)>>
           e == a \o u \o c \o w
           size == get_login_packet_size(u, w)
<1>1. lu \in Nat /\ lw \in Nat
  BY LenProperties
<1>2. a \in Seq(Octets) /\ Len(a) = 2 /\ a[2] = Byte(lu)
      /\ c \in Seq(Octets) /\ Len(c) = 1 /\ c[1] = Byte(lw)
  <2> DEFINE x == Byte(lu)
             y == Byte(lw)
  <2>1. x \in Octets /\ 1 \in Octets /\ y \in Octets
    BY <1>1, Bytes DEF Octets
  <2> HIDE DEF x, y
  <2>2. a \in Seq(Octets) /\ Len(a) = 2 /\ a[2] = x
    BY <2>1, Pairs DEF x
  <2>3. c \in Seq(Octets) /\ Len(c) = 1 /\ c[1] = y
    BY <2>1, Singles DEF y
  <2> QED
    BY <2>2, <2>3 DEF x, y
<1>3. encode_login_packet(u, w) = e
  BY DEF encode_login_packet
<1> HIDE DEF a, c, size, lu, lw
<1>4. /\ e \in Seq(Octets) /\ Len(e) = Len(a) + Len(u) + Len(c) + Len(w)
      /\ SubSeq(e, Len(a) + 1, Len(a) + Len(u)) = u
      /\ SubSeq(e, Len(a) + Len(u) + Len(c) + 1, Len(a) + Len(u) + Len(c) + Len(w)) = w
      /\ \A i \in 1 .. Len(a) : e[i] = a[i]
      /\ \A i \in 1 .. Len(c) : e[Len(a) + Len(u) + i] = c[i]
  <2>1. a \in Seq(Octets) /\ c \in Seq(Octets)
    BY <1>2
  <2>2. e = a \o u \o c \o w
    OBVIOUS
  <2> HIDE DEF e
  <2> QED
    BY <2>1, <2>2, FourParts
<1> HIDE DEF e
<1>5. /\ Len(e) = lu + lw + 3 /\ e[2] = Byte(lu) /\ e[3 + lu] = Byte(lw)
      /\ SubSeq(e, 3, 2 + lu) = u /\ SubSeq(e, 4 + lu, 3 + lu + lw) = w
  <2>1. Len(u) = lu /\ Len(w) = lw
    BY DEF lu, lw
  <2>2. 2 \in 1 .. Len(a) /\ 1 \in 1 .. Len(c) /\ Len(a) + lu + 1 = 3 + lu
        /\ Len(a) + lu + Len(c) + 1 = 4 + lu /\ Len(a) + lu + Len(c) + lw = 3 + lu + lw
        /\ Len(a) + 1 = 3 /\ Len(a) + lu = 2 + lu /\ 3 + lu + lw = lu + lw + 3
    BY <1>1, <1>2
  <2> QED
    BY <1>2, <1>4, <2>1, <2>2
<1>6. size \in Nat /\ (lu > 255 \/ lw > 255 => size = 0)
      /\ (lu <= 255 /\ lw <= 255 => size = Len(e))
  BY <1>1, <1>5 DEF get_login_packet_size, size, lu, lw
<1>7. /\ p \in Seq(Octets \cup {Junk}) /\ (size = 0 => p = <<>>) /\ (size = Len(e) => p = e)
  BY <1>3, <1>4, <1>6, Packets DEF size
<1>8. ASSUME lu <= 255, lw <= 255 PROVE Decoded("login", e) = Call(0, <<u, w>>, 0)
  <2>1. e[2] = lu /\ e[3 + e[2]] = lw
    BY <1>1, <1>5, <1>8, Bytes
  <2>2. SubSeq(e, 2 + 1, 2 + e[2]) = u
    BY <1>5, <2>1
  <2>3. SubSeq(e, (3 + e[2]) + 1, (3 + e[2]) + e[3 + e[2]]) = w
    <3>1. (3 + lu) + 1 = 4 + lu
      BY <1>1
    <3> QED
      BY <1>5, <2>1, <3>1
  <2> QED
    BY <2>2, <2>3 DEF Decoded
<1> QED
  BY <1>1, <1>6, <1>7, <1>8 DEF Says

\* The bytes of a request to connect to a host.
LEMMA HostBytes ==
  ASSUME NEW cmd \in Commands, NEW remote, NEW rport,
         NEW host \in Seq(Octets), host # <<>>, NEW port \in PortNumbers,
         NEW e, e = encode_exec_packet(cmd, remote, rport, host, port)
  PROVE  /\ e \in Seq(Octets)
         /\ Len(e) = 7 + Len(host) /\ SubSeq(e, 6, 5 + Len(host)) = host
         /\ e[2] = cmd /\ e[4] = 3 /\ e[5] = Byte(Len(host))
         /\ e[6 + Len(host)] * 256 + e[7 + Len(host)] = port
<1> DEFINE x == Byte(Len(host))
           a == <<5, cmd, 0, 3, x>>
           c == Port(port)
           l == Len(host)
<1>1. l \in Nat
  BY LenProperties
<1>2. x \in Octets /\ 5 \in Octets /\ cmd \in Octets /\ 0 \in Octets /\ 3 \in Octets
  BY <1>1, Bytes DEF Octets, Commands
<1> HIDE DEF x
<1>3. a \in Seq(Octets) /\ Len(a) = 5 /\ a[2] = cmd /\ a[4] = 3 /\ a[5] = x
  BY <1>2, Fives
<1>4. c \in Seq(Octets) /\ Len(c) = 2 /\ c[1] * 256 + c[2] = port
  BY Ports
<1>5. e = a \o host \o c
  BY DEF encode_exec_packet, x
<1> HIDE DEF a, c
<1>6. /\ e \in Seq(Octets) /\ Len(e) = Len(a) + Len(host) + Len(c)
      /\ SubSeq(e, Len(a) + 1, Len(a) + Len(host)) = host
      /\ \A i \in 1 .. Len(a) : e[i] = a[i]
      /\ \A i \in 1 .. Len(c) : e[Len(a) + Len(host) + i] = c[i]
  <2>1. a \in Seq(Octets) /\ c \in Seq(Octets)
    BY <1>3, <1>4
  <2> QED
    BY <1>5, <2>1, Between
<1> HIDE DEF l
<1>7. l = Len(host)
  BY DEF l
<1>8. 2 \in 1 .. Len(a) /\ 4 \in 1 .. Len(a) /\ 5 \in 1 .. Len(a)
      /\ 1 \in 1 .. Len(c) /\ 2 \in 1 .. Len(c) /\ Len(a) + l + Len(c) = 7 + l
      /\ Len(a) + 1 = 6 /\ Len(a) + l = 5 + l /\ Len(a) + l + 1 = 6 + l
      /\ Len(a) + l + 2 = 7 + l
  BY <1>1, <1>3, <1>4
<1>9. /\ Len(e) = 7 + l /\ SubSeq(e, 6, 5 + l) = host
      /\ e[2] = cmd /\ e[4] = 3 /\ e[5] = x /\ e[6 + l] = c[1] /\ e[7 + l] = c[2]
  BY <1>3, <1>6, <1>7, <1>8
<1> QED
  BY <1>4, <1>6, <1>7, <1>9 DEF x

\* The bytes of a request to connect to an address.
LEMMA RemoteBytes ==
  ASSUME NEW cmd \in Commands, NEW remote \in Seq(Octets), NEW rport \in PortNumbers,
         NEW port, NEW e, e = encode_exec_packet(cmd, remote, rport, <<>>, port)
  PROVE  /\ e \in Seq(Octets)
         /\ Len(e) = 6 + Len(remote) /\ SubSeq(e, 5, 4 + Len(remote)) = remote
         /\ e[2] = cmd /\ e[4] = IF Len(remote) = 4 THEN 1 ELSE 4
         /\ e[5 + Len(remote)] * 256 + e[6 + Len(remote)] = rport
<1> DEFINE x == IF Len(remote) = 4 THEN 1 ELSE 4
           a == <<5, cmd, 0, x>>
           c == Port(rport)
           l == Len(remote)
<1>1. l \in Nat
  BY LenProperties
<1>2. x \in Octets /\ 5 \in Octets /\ cmd \in Octets /\ 0 \in Octets
  BY <1>1 DEF Octets, Commands
<1> HIDE DEF x
<1>3. a \in Seq(Octets) /\ Len(a) = 4 /\ a[2] = cmd /\ a[4] = x
  BY <1>2, Fours
<1>4. c \in Seq(Octets) /\ Len(c) = 2 /\ c[1] * 256 + c[2] = rport
  BY Ports
<1>5. e = a \o remote \o c
  BY DEF encode_exec_packet, x
<1> HIDE DEF a, c
<1>6. /\ e \in Seq(Octets) /\ Len(e) = Len(a) + Len(remote) + Len(c)
      /\ SubSeq(e, Len(a) + 1, Len(a) + Len(remote)) = remote
      /\ \A i \in 1 .. Len(a) : e[i] = a[i]
      /\ \A i \in 1 .. Len(c) : e[Len(a) + Len(remote) + i] = c[i]
  <2>1. a \in Seq(Octets) /\ c \in Seq(Octets)
    BY <1>3, <1>4
  <2> DEFINE f == a \o remote \o c
  <2>2. /\ f \in Seq(Octets) /\ Len(f) = Len(a) + Len(remote) + Len(c)
        /\ SubSeq(f, Len(a) + 1, Len(a) + Len(remote)) = remote
        /\ \A i \in 1 .. Len(a) : f[i] = a[i]
        /\ \A i \in 1 .. Len(c) : f[Len(a) + Len(remote) + i] = c[i]
    BY <2>1, Between
  <2> HIDE DEF f
  <2>3. e = f
    BY <1>5 DEF f
  <2> QED
    BY <2>2, <2>3
<1> HIDE DEF l
<1>7. l = Len(remote)
  BY DEF l
<1>8. 2 \in 1 .. Len(a) /\ 4 \in 1 .. Len(a)
      /\ 1 \in 1 .. Len(c) /\ 2 \in 1 .. Len(c) /\ Len(a) + l + Len(c) = 6 + l
      /\ Len(a) + 1 = 5 /\ Len(a) + l = 4 + l /\ Len(a) + l + 1 = 5 + l
      /\ Len(a) + l + 2 = 6 + l
  BY <1>1, <1>3, <1>4
<1>9. /\ Len(e) = 6 + l /\ SubSeq(e, 5, 4 + l) = remote
      /\ e[2] = cmd /\ e[4] = x /\ e[5 + l] = c[1] /\ e[6 + l] = c[2]
  BY <1>3, <1>6, <1>7, <1>8
<1> QED
  BY <1>4, <1>6, <1>7, <1>9 DEF x

LEMMA ExecBytes ==
  ASSUME NEW cmd \in Commands, NEW remote \in Seq(Octets), NEW rport \in PortNumbers,
         NEW host \in Seq(Octets), NEW port \in PortNumbers
  PROVE  encode_exec_packet(cmd, remote, rport, host, port) \in Seq(Octets)
<1> DEFINE e == encode_exec_packet(cmd, remote, rport, host, port)
<1>1. CASE host = <<>>
  <2>1. e = encode_exec_packet(cmd, remote, rport, <<>>, port)
    BY <1>1
  <2> HIDE DEF e
  <2>2. e \in Seq(Octets)
    BY <2>1, RemoteBytes
  <2> QED
    BY <2>2 DEF e
<1>2. CASE host # <<>>
  BY <1>2, HostBytes
<1> QED
  BY <1>1, <1>2

LEMMA ZeroAddress == <<0, 0, 0, 0>> \in Seq(Octets) /\ Len(<<0, 0, 0, 0>>) = 4
<1>1. 0 \in Octets
  BY DEF Octets
<1> QED
  BY <1>1, Fours

LEMMA HostSays ==
  ASSUME NEW host \in Seq(Octets),
         NEW p, p = Packet(get_exec_packet_size(<<0, 0, 0, 0>>, host),
                           encode_exec_packet(1, <<0, 0, 0, 0>>, 0, host, 443))
  PROVE  /\ p \in Seq(Octets \cup {Junk})
         /\ p # <<>> => Says("exec", p, Call(1, <<host>>, 443))
<1> DEFINE z == <<0, 0, 0, 0>>
           l == Len(host)
           e == encode_exec_packet(1, z, 0, host, 443)
           size == get_exec_packet_size(z, host)
<1>1. l \in Nat /\ Len(<<>>) = 0
  BY LenProperties
<1>2. /\ e \in Seq(Octets)
      /\ host # <<>> =>
           /\ Len(e) = 7 + l /\ SubSeq(e, 6, 5 + l) = host
           /\ e[2] = 1 /\ e[4] = 3 /\ e[5] = Byte(l)
           /\ e[6 + l] * 256 + e[7 + l] = 443
  <2>1. z \in Seq(Octets) /\ 1 \in Commands /\ 0 \in PortNumbers /\ 443 \in PortNumbers
    BY ZeroAddress DEF Commands, PortNumbers
  <2>2. e = encode_exec_packet(1, z, 0, host, 443)
    OBVIOUS
  <2> HIDE DEF z, e
  <2>3. e \in Seq(Octets)
    BY <2>1, <2>2, ExecBytes
  <2>4. ASSUME host # <<>>
        PROVE  /\ Len(e) = 7 + l /\ SubSeq(e, 6, 5 + l) = host
               /\ e[2] = 1 /\ e[4] = 3 /\ e[5] = Byte(l)
               /\ e[6 + l] * 256 + e[7 + l] = 443
    BY <2>1, <2>2, <2>4, HostBytes
  <2> QED
    BY <2>3, <2>4
<1>3. p = Packet(size, e)
  OBVIOUS
<1>4. /\ size \in Nat /\ (l > 255 => size = 0)
      /\ (l <= 255 /\ host # <<>> => size = 7 + l)
  <2>1. Len(z) = 4
    BY ZeroAddress
  <2> QED
    BY <1>1, <2>1 DEF get_exec_packet_size
<1> HIDE DEF e, size
<1>5. /\ p \in Seq(Octets \cup {Junk}) /\ (size = 0 => p = <<>>) /\ (size = Len(e) => p = e)
  <2>1. e \in Seq(Octets) /\ size \in Nat
    BY <1>2, <1>4
  <2>2. /\ Packet(size, e) \in Seq(Octets \cup {Junk})
        /\ size = 0 => Packet(size, e) = <<>>
        /\ size = Len(e) => Packet(size, e) = e
    BY <2>1, Packets
  <2> QED
    BY <1>3, <2>2
<1> HIDE DEF l
<1>6. ASSUME l <= 255, host # <<>> PROVE Decoded("exec", e) = Call(1, <<host>>, 443)
  <2>1. e[5] = l
    BY <1>1, <1>2, <1>6, Bytes
  <2>2. SubSeq(e, 5 + 1, 5 + e[5]) = host /\ e[4] = 3 /\ e[2] = 1
    BY <1>2, <1>6, <2>1
  <2>3. e[(5 + e[5]) + 1] * 256 + e[(5 + e[5]) + 2] = 443
    <3>1. (5 + l) + 1 = 6 + l /\ (5 + l) + 2 = 7 + l
      BY <1>1
    <3> QED
      BY <1>2, <1>6, <2>1, <3>1
  <2>4. (CASE e[4] = 1 -> 8 [] e[4] = 3 -> 5 + e[5] [] e[4] = 4 -> 20) = 5 + e[5]
    BY <2>2
  <2> QED
    BY <2>2, <2>3, <2>4 DEF Decoded
<1>7. CASE host = <<>>
  <2>1. Call(1, <<host>>, 443).names = << <<>> >>
    BY <1>7 DEF Call
  <2> QED
    BY <1>5, <2>1 DEF Says
<1>8. CASE host # <<>>
  <2>1. l > 255 => p = <<>>
    BY <1>4, <1>5
  <2>2. l <= 255 => p = e
    BY <1>2, <1>4, <1>5, <1>8
  <2> QED
    BY <1>1, <1>5, <1>6, <1>8, <2>1, <2>2 DEF Says
<1> QED
  BY <1>7, <1>8

LEMMA RemoteSays ==
  ASSUME NEW cmd \in Commands, NEW remote \in Seq(Octets), Len(remote) \in {4, 16},
         NEW p, p = Packet(get_exec_packet_size(remote, <<>>),
                           encode_exec_packet(cmd, remote, 443, <<>>, 0))
  PROVE  /\ p \in Seq(Octets \cup {Junk})
         /\ p # <<>> => Says("exec", p, Call(cmd, <<remote>>, 443))
<1> DEFINE l == Len(remote)
           none == <<>>
           e == encode_exec_packet(cmd, remote, 443, none, 0)
           size == get_exec_packet_size(remote, none)
<1>2. /\ e \in Seq(Octets)
      /\ Len(e) = 6 + l /\ SubSeq(e, 5, 4 + l) = remote
      /\ e[2] = cmd /\ e[4] = (IF l = 4 THEN 1 ELSE 4)
      /\ e[5 + l] * 256 + e[6 + l] = 443
  <2>1. none \in Seq(Octets) /\ 0 \in PortNumbers /\ 443 \in PortNumbers /\ none = <<>>
    BY DEF PortNumbers
  <2>2. e = encode_exec_packet(cmd, remote, 443, none, 0)
    OBVIOUS
  <2> HIDE DEF none, l, size
  <2>3. e = encode_exec_packet(cmd, remote, 443, <<>>, 0)
    BY <2>1, <2>2
  <2> HIDE DEF e
  <2> QED
    BY <2>1, <2>3, RemoteBytes DEF l
<1>3. p = Packet(size, e)
  OBVIOUS
<1>4. size = 6 + l /\ size \in Nat
  <2>1. Len(none) = 0
    OBVIOUS
  <2> QED
    BY <2>1 DEF get_exec_packet_size
<1> HIDE DEF e, size
<1>5. p \in Seq(Octets \cup {Junk}) /\ (size = Len(e) => p = e)
  <2>1. e \in Seq(Octets) /\ size \in Nat
    BY <1>2, <1>4
  <2>2. /\ Packet(size, e) \in Seq(Octets \cup {Junk})
        /\ size = 0 => Packet(size, e) = <<>>
        /\ size = Len(e) => Packet(size, e) = e
    BY <2>1, Packets
  <2> QED
    BY <1>3, <2>2
<1> HIDE DEF l
<1>6. l \in {4, 16}
  BY DEF l
<1>7. Decoded("exec", e) = Call(cmd, <<remote>>, 443)
  <2> DEFINE end == CASE e[4] = 1 -> 8 [] e[4] = 3 -> 5 + e[5] [] e[4] = 4 -> 20
             name == IF e[4] = 3 THEN SubSeq(e, 5 + 1, 5 + e[5]) ELSE SubSeq(e, 5, end)
  <2>1. Decoded("exec", e) = Call(e[2], <<name>>, e[end + 1] * 256 + e[end + 2])
    BY DEF Decoded
  <2>2. end = 4 + l /\ e[4] # 3
    BY <1>2, <1>6
  <2>3. name = SubSeq(e, 5, end)
    BY <2>2
  <2> HIDE DEF end, name
  <2>4. name = remote /\ e[2] = cmd
    BY <1>2, <2>2, <2>3
  <2>5. (4 + l) + 1 = 5 + l /\ (4 + l) + 2 = 6 + l
    BY <1>6
  <2>6. e[end + 1] * 256 + e[end + 2] = 443
    BY <1>2, <2>2, <2>5
  <2> QED
    BY <2>1, <2>4, <2>6
<1> QED
  BY <1>2, <1>4, <1>5, <1>7 DEF Says

\* The SOCKS 4a operation's packet is some bytes.
LEMMA OldPackets ==
  ASSUME NEW remote \in Seq(Octets), NEW host \in Seq(Octets), NEW user_id \in Seq(Octets),
         NEW rport \in PortNumbers,
         NEW p, p = Packet(v4_exec_packet_size(remote, host, user_id),
                           encode_exec_packet(1, remote, rport, host, 0))
  PROVE  p \in Seq(Octets \cup {Junk})
<1> DEFINE e == encode_exec_packet(1, remote, rport, host, 0)
           size == v4_exec_packet_size(remote, host, user_id)
<1>1. e \in Seq(Octets)
  <2>1. 1 \in Commands /\ 0 \in PortNumbers
    BY DEF Commands, PortNumbers
  <2>2. e = encode_exec_packet(1, remote, rport, host, 0)
    OBVIOUS
  <2> HIDE DEF e
  <2> QED
    BY <2>1, <2>2, ExecBytes
<1>2. size \in Nat
  <2>1. Len(user_id) \in Nat /\ Len(host) \in Nat
    BY LenProperties
  <2> DEFINE m == 9 + Len(user_id)
             k == IF host = <<>> THEN 0 ELSE Len(host) + 1
  <2>2. m \in Nat /\ k \in Nat
    BY <2>1
  <2>3. size = IF host = <<>> /\ Len(remote) # 4 THEN 0 ELSE m + k
    BY DEF v4_exec_packet_size
  <2> HIDE DEF m, k
  <2> QED
    BY <2>2, <2>3
<1>3. p = Packet(size, e)
  OBVIOUS
<1> HIDE DEF e, size
<1> QED
  BY <1>1, <1>2, <1>3, Packets

-----------------------------------------------------------------------------
(* The encoders keep within what was prepared, but for one.                 *)

LEMMA GreetFits ==
  ASSUME NEW methods \in Seq(Octets)
  PROVE  Overrun(get_greet_packet_size(methods), encode_greet_packet(methods)) = 0
<1> DEFINE a == <<5, Byte(Len(methods))>>
           e == encode_greet_packet(methods)
<1>1. Len(methods) \in Nat
  BY LenProperties
<1>2. Byte(Len(methods)) \in Octets /\ 5 \in Octets
  BY <1>1, Bytes DEF Octets
<1>3. a \in Seq(Octets) /\ Len(a) = 2
  BY <1>2, Pairs
<1>4. e = a \o methods
  BY DEF encode_greet_packet
<1> HIDE DEF a, e
<1>5. Len(e) = 2 + Len(methods)
  <2>1. Len(a \o methods) = Len(a) + Len(methods)
    BY <1>3, ConcatProperties, Zenon
  <2> QED
    BY <1>3, <1>4, <2>1
<1> QED
  BY <1>1, <1>5 DEF Overrun, get_greet_packet_size, e

LEMMA LoginFits ==
  ASSUME NEW u \in Seq(Octets), NEW w \in Seq(Octets)
  PROVE  Overrun(get_login_packet_size(u, w), encode_login_packet(u, w)) = 0
<1> DEFINE a == <<1, Byte(Len(u))>>
           b == <<Byte(Len(w))>>
           f == a \o u
           g == f \o b
           e == encode_login_packet(u, w)
<1>1. Len(u) \in Nat /\ Len(w) \in Nat
  BY LenProperties
<1>2. Byte(Len(u)) \in Octets /\ Byte(Len(w)) \in Octets /\ 1 \in Octets
  BY <1>1, Bytes DEF Octets
<1>3. a \in Seq(Octets) /\ Len(a) = 2
  BY <1>2, Pairs
<1>4. b \in Seq(Octets) /\ Len(b) = 1
  BY <1>2, Singles
<1>5. e = g \o w
  BY DEF encode_login_packet
<1> HIDE DEF a, b, e
<1>6. f \in Seq(Octets) /\ Len(f) = 2 + Len(u)
  <2>1. f \in Seq(Octets) /\ Len(f) = Len(a) + Len(u)
    BY <1>3, ConcatProperties, Zenon
  <2> QED
    BY <1>3, <2>1
<1> HIDE DEF f
<1>7. g \in Seq(Octets) /\ Len(g) = Len(f) + 1
  <2>1. g \in Seq(Octets) /\ Len(g) = Len(f) + Len(b)
    BY <1>4, <1>6, ConcatProperties, Zenon
  <2> QED
    BY <1>4, <2>1
<1> HIDE DEF g
<1>8. Len(e) = Len(g) + Len(w)
  BY <1>5, <1>7, ConcatProperties, Zenon
<1>9. Len(e) = Len(u) + Len(w) + 3
  BY <1>1, <1>6, <1>7, <1>8
<1> QED
  BY <1>1, <1>9 DEF Overrun, get_login_packet_size, e

\* The size and the length of a request of SOCKS 5 or of the operation of SOCKS 4.
LEMMA ExecFits ==
  ASSUME NEW cmd \in Commands, NEW remote \in Seq(Octets), Len(remote) \in {4, 16},
         NEW rport \in PortNumbers, NEW host \in Seq(Octets), NEW port \in PortNumbers,
         NEW e, e = encode_exec_packet(cmd, remote, rport, host, port)
  PROVE  /\ Overrun(get_exec_packet_size(remote, host), e) = 0
         /\ \A u \in Seq(Octets) :
              Overrun(v4_exec_packet_size(remote, host, u), e) # 0 =>
                u = <<>> /\ Overrun(v4_exec_packet_size(remote, host, u), e) = 1
<1>1. Len(host) \in Nat /\ Len(remote) \in Nat
  BY LenProperties
<1>2. CASE host = <<>>
  <2>1. e = encode_exec_packet(cmd, remote, rport, <<>>, port)
    BY <1>2
  <2>2. Len(e) = 6 + Len(remote)
    BY <2>1, RemoteBytes
  <2>3. Len(host) = 0
    BY <1>2
  <2>4. Overrun(get_exec_packet_size(remote, host), e) = 0
    BY <1>1, <1>2, <2>2, <2>3 DEF Overrun, get_exec_packet_size
  <2>5. ASSUME NEW u \in Seq(Octets), NEW size, size = v4_exec_packet_size(remote, host, u),
               Overrun(size, e) # 0
        PROVE  u = <<>> /\ Overrun(size, e) = 1
    <3>1. Len(u) \in Nat /\ (Len(u) = 0 => u = <<>>)
      BY LenProperties, EmptySeq
    <3>2. size = IF Len(remote) = 4 THEN 9 + Len(u) ELSE 0
      BY <1>2, <2>5, <3>1 DEF v4_exec_packet_size
    <3>3. size # 0 /\ ~(Len(e) <= size) /\ Overrun(size, e) = Len(e) - size
      BY <2>5 DEF Overrun
    <3>4. CASE Len(remote) = 4
      <4>1. size = 9 + Len(u) /\ Len(e) = 10
        BY <2>2, <3>2, <3>4
      <4>2. Len(u) = 0
        BY <3>1, <3>3, <4>1
      <4> QED
        BY <3>1, <3>3, <4>1, <4>2
    <3>5. CASE Len(remote) # 4
      BY <3>2, <3>3, <3>5
    <3> QED
      BY <3>4, <3>5
  <2> QED
    BY <2>4, <2>5
<1>3. CASE host # <<>>
  <2>1. Len(e) = 7 + Len(host)
    BY <1>3, HostBytes
  <2>2. Overrun(get_exec_packet_size(remote, host), e) = 0
    BY <1>1, <1>3, <2>1 DEF Overrun, get_exec_packet_size
  <2>3. ASSUME NEW u \in Seq(Octets)
        PROVE  Overrun(v4_exec_packet_size(remote, host, u), e) = 0
    <3>1. Len(u) \in Nat
      BY LenProperties
    <3>2. v4_exec_packet_size(remote, host, u) = 9 + Len(u) + Len(host) + 1
      BY <1>1, <1>3, <3>1 DEF v4_exec_packet_size
    <3> QED
      BY <1>1, <2>1, <3>1, <3>2 DEF Overrun
  <2> QED
    BY <2>2, <2>3
<1> QED
  BY <1>2, <1>3

-----------------------------------------------------------------------------
(* The proxy's answers.                                                     *)

LEMMA Eighty == Port(80) \in Seq(Octets) /\ Len(Port(80)) = 2
<1>1. 80 \in PortNumbers
  BY DEF PortNumbers
<1> QED
  BY <1>1, Ports

LEMMA OldReplies ==
  \A r \in Replies("v4") : r \in Seq(Octets) /\ Len(r) = 8
<1> DEFINE F(v, s) == <<v, s>> \o Text(6)
           V == {0, 4}
           S == 90 .. 94
<1>0. Replies("v4") = {F(v, s) : v \in V, s \in S}
  BY DEF Replies
<1> HIDE DEF F, V, S
<1> TAKE r \in Replies("v4")
<1>1. PICK v \in V, s \in S : r = F(v, s)
  BY <1>0
<1> DEFINE a == <<v, s>>
           t == Text(6)
<1>2. a \in Seq(Octets) /\ Len(a) = 2
  <2>1. v \in Octets /\ s \in Octets
    BY DEF Octets, V, S
  <2> QED
    BY <2>1, Pairs
<1>3. t \in Seq(Octets) /\ Len(t) = 6
  BY Texts
<1> HIDE DEF a, t
<1>4. a \o t \in Seq(Octets) /\ Len(a \o t) = Len(a) + Len(t)
  BY <1>2, <1>3, ConcatProperties
<1>5. r = a \o t
  BY <1>1 DEF a, t, F
<1> QED
  BY <1>2, <1>3, <1>4, <1>5

LEMMA ShortReplies ==
  ASSUME NEW kind \in {"greet", "login"}, NEW r \in Replies(kind)
  PROVE  r \in Seq(Octets) /\ Len(r) = 2 /\ r = <<r[1], r[2]>>
<1>1. \E v \in Octets : \E s \in Octets : r = <<v, s>>
  <2>1. CASE kind = "greet"
    <3>1. Replies("greet") = {<<v, m>> : v \in {4, 5}, m \in {0, 2, 255}}
      BY DEF Replies
    <3>2. PICK v \in {4, 5}, m \in {0, 2, 255} : r = <<v, m>>
      BY <2>1, <3>1
    <3>3. v \in Octets /\ m \in Octets
      BY DEF Octets
    <3> QED
      BY <3>2, <3>3
  <2>2. CASE kind = "login"
    <3>1. Replies("login") = {<<v, m>> : v \in {1, 5}, m \in {0, 1}}
      BY DEF Replies
    <3>2. PICK v \in {1, 5}, m \in {0, 1} : r = <<v, m>>
      BY <2>2, <3>1
    <3>3. v \in Octets /\ m \in Octets
      BY DEF Octets
    <3> QED
      BY <3>2, <3>3
  <2> QED
    BY <2>1, <2>2
<1>2. PICK v \in Octets : \E s \in Octets : r = <<v, s>>
  BY <1>1
<1>3. PICK s \in Octets : r = <<v, s>>
  BY <1>2
<1> QED
  BY <1>3, Pairs

LEMMA Addresses ==
  ASSUME NEW t \in {1, 2, 3, 4}, NEW n \in {0, 3}
  PROVE  /\ Address(t, n) \in Seq(Octets) /\ Len(Address(t, n)) >= 1
         /\ t \in {1, 3, 4} => Len(Address(t, n)) = 1 + AddressRest(t, Address(t, n)[1])
<1>1. CASE t = 3
  <2> DEFINE a == <<n>>
             x == Text(n)
  <2>1. a \in Seq(Octets) /\ Len(a) = 1 /\ a[1] = n
    <3>1. n \in Octets
      BY DEF Octets
    <3> QED
      BY <3>1, Singles
  <2>2. n \in Nat /\ x \in Seq(Octets) /\ Len(x) = n
    <3>1. n \in Nat
      OBVIOUS
    <3> QED
      BY <3>1, Texts
  <2> HIDE DEF a, x
  <2>3. /\ a \o x \in Seq(Octets) /\ Len(a \o x) = Len(a) + Len(x)
        /\ \A i \in 1 .. Len(a) + Len(x) : (a \o x)[i] = IF i <= Len(a) THEN a[i] ELSE x[i - Len(a)]
    BY <2>1, <2>2, ConcatProperties
  <2>4. Address(t, n) = a \o x
    BY <1>1 DEF Address, a, x
  <2>5. 1 \in 1 .. Len(a) + Len(x) /\ 1 <= Len(a) /\ Len(a) + Len(x) = 1 + n /\ 1 + n >= 1
    BY <2>1, <2>2
  <2>6. (a \o x)[1] = n
    BY <2>1, <2>3, <2>5
  <2>7. AddressRest(t, n) = n
    BY <1>1 DEF AddressRest
  <2> QED
    BY <2>3, <2>4, <2>5, <2>6, <2>7
<1>2. CASE t = 4
  <2>1. Text(16) \in Seq(Octets) /\ Len(Text(16)) = 16
    BY Texts
  <2>2. Address(t, n) = Text(16)
    BY <1>2 DEF Address
  <2> DEFINE a == Address(t, n)
  <2>3. AddressRest(t, a[1]) = 15
    BY <1>2 DEF AddressRest
  <2> HIDE DEF a
  <2>4. a \in Seq(Octets) /\ Len(a) = 16
    BY <2>1, <2>2 DEF a
  <2>5. Len(a) >= 1 /\ Len(a) = 1 + AddressRest(t, a[1])
    BY <2>3, <2>4
  <2> QED
    BY <2>4, <2>5 DEF a
<1>3. CASE t \in {1, 2}
  <2>1. Text(4) \in Seq(Octets) /\ Len(Text(4)) = 4
    BY Texts
  <2>2. Address(t, n) = Text(4)
    BY <1>3 DEF Address
  <2> DEFINE a == Address(t, n)
  <2>3. t = 1 => AddressRest(t, a[1]) = 3
    BY DEF AddressRest
  <2> HIDE DEF a
  <2>4. a \in Seq(Octets) /\ Len(a) = 4
    BY <2>1, <2>2 DEF a
  <2>5. Len(a) >= 1 /\ (t = 1 => Len(a) = 1 + AddressRest(t, a[1]))
    BY <2>3, <2>4
  <2>6. t \in {1, 3, 4} => t = 1
    BY <1>3
  <2> QED
    BY <2>4, <2>5, <2>6 DEF a
<1> QED
  BY <1>1, <1>2, <1>3

LEMMA ExecReplies ==
  \A r \in Replies("exec") :
    /\ r \in Seq(Octets) /\ Len(r) >= 7
    /\ r[4] \in {1, 3, 4} => Len(r) = 7 + AddressRest(r[4], r[5])
<1> DEFINE F(v, s, t, n) == <<v, s, 0, t>> \o Address(t, n) \o Port(80)
           V == {4, 5}
           S == {0, 1, 8, 9}
           T == {1, 2, 3, 4}
           N == {0, 3}
<1>0. Replies("exec") = {F(v, s, t, n) : v \in V, s \in S, t \in T, n \in N}
  BY DEF Replies
<1> HIDE DEF F, V, S, T, N
<1> TAKE r \in Replies("exec")
<1>1. PICK v \in V, s \in S, t \in T, n \in N : r = F(v, s, t, n)
  BY <1>0
<1> DEFINE a == <<v, s, 0, t>>
           b == Address(t, n)
           c == Port(80)
<1>2. a \in Seq(Octets) /\ Len(a) = 4 /\ a[4] = t
  <2>1. v \in Octets /\ s \in Octets /\ 0 \in Octets /\ t \in Octets
    BY DEF Octets, V, S, T
  <2> QED
    BY <2>1, Fours
<1>3. /\ b \in Seq(Octets) /\ Len(b) >= 1
      /\ t \in {1, 3, 4} => Len(b) = 1 + AddressRest(t, b[1])
  BY Addresses DEF T, N
<1>4. c \in Seq(Octets) /\ Len(c) = 2
  BY Eighty
<1>5. r = a \o b \o c
  BY <1>1 DEF F
<1> HIDE DEF a, b, c
<1>6. /\ a \o b \o c \in Seq(Octets) /\ Len(a \o b \o c) = Len(a) + Len(b) + Len(c)
      /\ \A i \in 1 .. Len(a) : (a \o b \o c)[i] = a[i]
      /\ \A i \in 1 .. Len(b) : (a \o b \o c)[Len(a) + i] = b[i]
  <2>1. a \in Seq(Octets) /\ b \in Seq(Octets) /\ c \in Seq(Octets)
    BY <1>2, <1>3, <1>4
  <2> QED
    BY <2>1, Between
<1>7. Len(b) \in Nat
  BY <1>3, LenProperties
<1>8. 4 \in 1 .. Len(a) /\ 1 \in 1 .. Len(b) /\ Len(a) + 1 = 5
  BY <1>2, <1>3, <1>7
<1>9. r[4] = t /\ r[5] = b[1] /\ Len(r) = 6 + Len(b) /\ r \in Seq(Octets)
  <2>1. r[4] = a[4] /\ r[5] = b[1] /\ r \in Seq(Octets) /\ Len(r) = Len(a) + Len(b) + Len(c)
    BY <1>5, <1>6, <1>8
  <2> QED
    BY <1>2, <1>4, <1>7, <2>1
<1> DEFINE x == AddressRest(t, b[1])
<1>10. AddressRest(r[4], r[5]) = x
  BY <1>9
<1>11. r[4] \in {1, 3, 4} => Len(b) = 1 + x
  BY <1>3, <1>9
<1>12. t \in {1, 3, 4} => x \in Int
  <2>1. b[1] \in Int
    <3>1. b \in Seq(Octets) /\ 1 \in 1 .. Len(b)
      BY <1>3, <1>8
    <3>2. b[1] \in Octets
      BY <3>1, ElementOfSeq
    <3> QED
      BY <3>2 DEF Octets
  <2> QED
    BY <2>1 DEF AddressRest
<1> HIDE DEF x
<1>13. r[4] \in {1, 3, 4} => Len(r) = 7 + x
  BY <1>7, <1>9, <1>11, <1>12
<1> QED
  BY <1>3, <1>7, <1>9, <1>10, <1>13

-----------------------------------------------------------------------------
(* What the steps preserve.                                                 *)

LEMMA SockKept ==
  ASSUME SockOK, [SocksNext]_allVars
  PROVE  SockOK'
<1>1. CASE UNCHANGED connectVars
  BY <1>1 DEF connectVars, SockOK
<1>2. ASSUME NEW r, NEW o, connect(r, o) PROVE SockOK'
  BY <1>2 DEF connect, SockOK
<1>3. CASE async_connect
  BY <1>3 DEF async_connect, SockOK
<1>4. CASE ConnectStep
  BY <1>4 DEF ConnectStep, resolve_fails, accepted, refused, exhausted, resolved, SockOK
<1>5. CASE close
  BY <1>5 DEF close, SockOK
<1> QED
  BY <1>1, <1>2, <1>3, <1>4, <1>5, SocksConnects DEF ConnectNext

LEMMA UnchangedInv ==
  ASSUME OpInv, UNCHANGED socksVars
  PROVE  OpInv'
<1>0. /\ UNCHANGED <<buf, op, call, stale, asked, got, last>>
      /\ UNCHANGED <<inbox, reply, unsent, tunnel, hung_up>>
  BY DEF socksVars, clientVars, proxyVars
<1>1. OpOK' /\ BufOK' /\ AskedOK'
  BY <1>0 DEF OpInv, OpOK, BufOK, AskedOK
<1>2. WireOK'
  BY <1>0 DEF OpInv, WireOK, BytesOK, Wire
<1>3. LastOK'
  BY <1>0 DEF OpInv, LastOK, NoFalseSuccess, Granted
<1> QED
  BY <1>1, <1>2, <1>3 DEF OpInv

LEMMA NoOpIs == NoOp.kind = "none" /\ NoOp.pc = "idle" /\ NoOp.n = 0
  BY DEF NoOp

LEMMA BusyKind ==
  ASSUME OpOK
  PROVE  /\ op.pc # "idle" => op.kind \in Kinds /\ op # NoOp
         /\ op.pc = "idle" => op = NoOp
         /\ op.kind = "none" => op = NoOp
  BY NoOpIs DEF OpOK

\* A connection made anew has nothing to read.
LEMMA FreshInv ==
  ASSUME OpInv, op = NoOp, inbox' = <<>>, reply' = <<>>, unsent' = 0, tunnel' = <<>>,
         got' = <<>>, last' = [kind |-> "none", ec |-> "never", method |-> 255],
         UNCHANGED <<buf, op, call, stale, asked>>
  PROVE  OpInv'
<1>0. op' = NoOp /\ op'.kind = "none" /\ op'.pc = "idle"
  BY NoOpIs
<1>1. last'.ec = "never" /\ last'.kind = "none"
  OBVIOUS
<1>2. OpOK' /\ AskedOK'
  BY <1>0 DEF OpInv, OpOK, AskedOK
<1>3. BufOK'
  BY <1>0, <1>1 DEF OpInv, BufOK
<1>4. WireOK'
  <2>1. inbox' \in Seq(Octets \cup {Tunnel}) /\ got' \in Seq(Octets \cup {Tunnel})
        /\ reply' \in Seq(Octets) /\ Len(reply') = 0
    OBVIOUS
  <2>2. BytesOK'
    BY <2>1 DEF BytesOK
  <2> QED
    BY <1>0, <1>1, <2>2 DEF WireOK
<1>5. LastOK'
  BY <1>1 DEF LastOK, NoFalseSuccess
<1> QED
  BY <1>2, <1>3, <1>4, <1>5 DEF OpInv

LEMMA ClearingInv ==
  ASSUME OpInv, Clearing
  PROVE  OpInv'
<1>1. /\ op = NoOp /\ buf' = <<>>
      /\ UNCHANGED <<op, call, stale, asked, got, inbox, reply, unsent, tunnel, last>>
  BY DEF Clearing, proxyVars
<1>2. OpOK' /\ WireOK' /\ LastOK'
  <2>1. OpOK'
    BY <1>1 DEF OpInv, OpOK
  <2>2. WireOK'
    BY <1>1 DEF OpInv, WireOK, BytesOK, Wire
  <2>3. LastOK'
    BY <1>1 DEF OpInv, LastOK, NoFalseSuccess, Granted
  <2> QED
    BY <2>1, <2>2, <2>3
<1>3. BufOK'
  <2>1. buf' \in Seq(Octets \cup {Junk})
    BY <1>1
  <2> QED
    BY <1>1, <2>1 DEF BufOK
<1>4. AskedOK'
  BY <1>1, NoOpIs DEF OpInv, AskedOK
<1> QED
  BY <1>2, <1>3, <1>4 DEF OpInv

\* What has been read is the answer and agrees to what the operation asked for.
Agreed(method, g) ==
  CASE op.kind = "v4" -> g = reply /\ g[1] = 0 /\ g[2] \notin 91 .. 93
    [] op.kind = "greet" -> g = reply /\ g = <<5, method>> /\ method # 255
    [] op.kind = "login" -> g = reply /\ g = <<1, 0>>
    [] op.kind = "exec" ->
         /\ g[1] = 5 /\ g[2] \notin 2 .. 8
         /\ g[2] = 0 /\ g[4] \in {1, 3, 4} => g = reply

\* An operation completes.
LEMMA CompleteInv ==
  ASSUME OpInv, op.kind \in Kinds, NEW ec, NEW method, ec # "never",
         complete(ec, method), UNCHANGED <<reply, unsent, tunnel>>,
         buf' \in Seq(Octets \cup {Junk}), ec # "io" => buf' = <<>>,
         inbox' \in Seq(Octets \cup {Tunnel}), got' \in Seq(Octets \cup {Tunnel}),
         ec = "none" /\ op.kind \in {"greet", "login"} =>
           inbox' = <<>> /\ tunnel = <<>> /\ unsent = 0,
         ec = "none" /\ op.kind = "exec" /\ Granted => inbox' = tunnel /\ unsent = 0,
         ec = "none" => Agreed(method, got')
  PROVE  OpInv'
<1>0. op' = NoOp /\ op'.kind = "none" /\ op'.pc = "idle"
  BY NoOpIs DEF complete
<1>1. last'.ec = ec /\ last'.kind = op.kind /\ last'.method = method /\ asked' = <<>>
  BY DEF complete
<1>2. OpOK'
  BY <1>0 DEF NoOp, OpOK
<1>3. BufOK'
  BY <1>0, <1>1 DEF BufOK
<1>4. WireOK'
  <2>1. BytesOK /\ (tunnel # <<>> => op.kind = "exec")
    BY NoOpIs DEF OpInv, WireOK, Kinds
  <2>2. BytesOK'
    BY <2>1 DEF BytesOK
  <2> QED
    BY <1>0, <1>1, <2>1, <2>2 DEF WireOK, Kinds
<1>5. LastOK'
  <2>1. Granted' <=> Granted
    BY DEF Granted
  <2>2. NoFalseSuccess'
    BY <1>0, <1>1 DEF NoFalseSuccess, Agreed
  <2> QED
    BY <1>0, <1>1, <2>1, <2>2 DEF LastOK
<1>6. AskedOK'
  BY <1>0, <1>1 DEF AskedOK
<1> QED
  BY <1>2, <1>3, <1>4, <1>5, <1>6 DEF OpInv

LEMMA PostedInv ==
  ASSUME OpInv, posted
  PROVE  OpInv'
<1>1. /\ op.pc = "post" /\ complete("invalid_argument", 255)
      /\ UNCHANGED <<buf, got, inbox, reply, unsent, tunnel>>
  BY DEF posted, proxyVars
<1>2. op.kind \in Kinds /\ "invalid_argument" # "never" /\ "invalid_argument" # "none"
  BY <1>1, BusyKind DEF OpInv
<1>3. /\ buf' = <<>> /\ buf' \in Seq(Octets \cup {Junk})
      /\ inbox' \in Seq(Octets \cup {Tunnel}) /\ got' \in Seq(Octets \cup {Tunnel})
  BY <1>1 DEF OpInv, BufOK, WireOK, BytesOK
<1> QED
  BY <1>1, <1>2, <1>3, CompleteInv

LEMMA FailsInv ==
  ASSUME OpInv, io_fails
  PROVE  OpInv'
<1>1. /\ op.pc \in {"write", "runaway", "read", "address"} /\ complete("io", 255)
      /\ inbox' \in {inbox, <<>>}
      /\ UNCHANGED <<buf, got, reply, unsent, tunnel>>
  BY DEF io_fails
<1>2. op.kind \in Kinds /\ "io" # "never" /\ "io" # "none"
  BY <1>1, BusyKind DEF OpInv
<1>3. buf' \in Seq(Octets \cup {Junk})
  BY <1>1 DEF OpInv, BufOK
<1>4. inbox' \in Seq(Octets \cup {Tunnel}) /\ got' \in Seq(Octets \cup {Tunnel})
  <2>1. /\ inbox \in Seq(Octets \cup {Tunnel}) /\ <<>> \in Seq(Octets \cup {Tunnel})
        /\ got \in Seq(Octets \cup {Tunnel})
    BY DEF OpInv, WireOK, BytesOK
  <2> QED
    BY <1>1, <2>1
<1> QED
  BY <1>1, <1>2, <1>3, <1>4, CompleteInv

LEMMA InitiateInv ==
  ASSUME OpInv, NEW kind \in Kinds, NEW args, NEW size, NEW bytes,
         NEW packet \in Seq(Octets \cup {Junk}), packet = Packet(size, bytes),
         packet # <<>> /\ kind # "v4" => Says(kind, packet, args),
         initiate(kind, args, size, bytes)
  PROVE  OpInv'
<1> DEFINE pc == IF packet # <<>> THEN "write" ELSE IF buf = <<>> THEN "post" ELSE "runaway"
<1>1. /\ op = NoOp /\ last.ec \in {"none", "never"} /\ last.kind \in {"none", "greet", "login"}
      /\ buf' = buf \o packet /\ call' = args /\ stale' = Len(buf)
      /\ op' = [kind |-> kind, n |-> 0, pc |-> pc]
      /\ asked' = <<>> /\ got' = <<>> /\ reply' = <<>>
      /\ UNCHANGED <<inbox, unsent, tunnel, hung_up, last>>
  BY DEF initiate
<1>2. op'.kind = kind /\ op'.pc = pc /\ op'.n = 0 /\ pc \in {"post", "write", "runaway"} /\ op' # NoOp
  BY <1>1, NoOpIs
<1>3. inbox = <<>> /\ tunnel = <<>> /\ unsent = 0
  BY <1>1 DEF OpInv, WireOK
<1>4. buf \in Seq(Octets \cup {Junk})
  BY DEF OpInv, BufOK
<1>5. buf' \in Seq(Octets \cup {Junk}) /\ (buf = <<>> => buf' = packet)
  <2>1. buf \o packet \in Seq(Octets \cup {Junk})
    BY <1>4, ConcatProperties
  <2>2. <<>> \o packet = packet
    BY ConcatEmptySeq
  <2> QED
    BY <1>1, <2>1, <2>2
<1>5a. packet = <<>> => buf' = buf
  BY <1>1, <1>4, ConcatEmptySeq
<1> HIDE DEF pc
<1>6. OpOK'
  <2>1. op' \in [kind : Kinds \cup {"none"}, n : 0 .. 257,
                 pc : {"idle", "post", "write", "runaway", "read", "address"}]
    BY <1>1, <1>2
  <2>2. op'.kind # "none"
    BY <1>2 DEF Kinds
  <2> QED
    BY <1>2, <2>1, <2>2 DEF OpOK
<1>7. BufOK'
  <2>1. op'.pc = "post" => packet = <<>> /\ buf = <<>>
    BY <1>2 DEF pc
  <2> QED
    BY <1>1, <1>2, <1>5, <1>5a, <2>1 DEF BufOK
<1>8. WireOK'
  <2>1. inbox' = <<>> /\ tunnel' = <<>> /\ reply' = <<>> /\ got' = <<>> /\ unsent' = 0
    BY <1>1, <1>3
  <2>2. /\ <<>> \in Seq(Octets \cup {Tunnel}) /\ <<>> \in Seq(Octets) /\ Len(<<>>) = 0
        /\ 0 \in 0 .. 0
    OBVIOUS
  <2>3. BytesOK'
    BY <2>1, <2>2 DEF BytesOK
  <2> QED
    BY <1>2, <2>1, <2>3 DEF WireOK
<1>9. LastOK'
  <2>1. last' = last /\ op' # NoOp
    BY <1>1, <1>2
  <2> QED
    BY <2>1 DEF OpInv, LastOK, NoFalseSuccess
<1>10. AskedOK'
  <2>1. stale' = 0 => buf = <<>>
    BY <1>1, <1>4, EmptySeq
  <2>2. op'.pc = "write" => packet # <<>>
    BY <1>2 DEF pc
  <2> QED
    BY <1>1, <1>2, <1>5, <2>1, <2>2 DEF AskedOK
<1> QED
  BY <1>6, <1>7, <1>8, <1>9, <1>10 DEF OpInv

LEMMA WrittenInv ==
  ASSUME OpInv, written
  PROVE  OpInv'
<1> DEFINE n == FirstRead[op.kind]
<1>1. /\ op.pc = "write" /\ asked' = buf /\ buf' = Junks(n)
      /\ op' = [op EXCEPT !.pc = "read", !.n = n]
      /\ UNCHANGED <<call, stale, got, inbox, reply, unsent, tunnel, last>>
  BY DEF written, proxyVars
<1>2. op.kind \in Kinds /\ op # NoOp
  BY <1>1, BusyKind DEF OpInv
<1>3. n \in {8, 2, 5}
  BY <1>2 DEF Kinds, FirstRead
<1> HIDE DEF n
<1>4. op \in [kind : Kinds \cup {"none"}, n : 0 .. 257,
              pc : {"idle", "post", "write", "runaway", "read", "address"}]
  BY DEF OpInv, OpOK
<1>5. op'.kind = op.kind /\ op'.pc = "read" /\ op'.n = n /\ op' # NoOp
  BY <1>1, <1>4, NoOpIs
<1>6. reply = <<>> /\ inbox = <<>> /\ got = <<>> /\ BytesOK
  BY <1>1 DEF OpInv, WireOK
<1>7. OpOK'
  <2>1. op' \in [kind : Kinds \cup {"none"}, n : 0 .. 257,
                 pc : {"idle", "post", "write", "runaway", "read", "address"}]
    <3>1. n \in 0 .. 257
      BY <1>3
    <3> QED
      BY <1>1, <1>4, <3>1
  <2>2. op'.kind # "none"
    BY <1>2, <1>5 DEF Kinds
  <2> QED
    BY <1>5, <2>1, <2>2 DEF OpOK, n
<1>8. BufOK'
  <2>1. n \in Nat
    BY <1>3
  <2>2. buf' \in Seq(Octets \cup {Junk})
    BY <1>1, <2>1, JunkSeq
  <2> QED
    BY <1>5, <2>2 DEF BufOK
<1>9. WireOK'
  <2>1. BytesOK' /\ tunnel = <<>>
    BY <1>1, <1>6 DEF BytesOK
  <2>2. unsent = 0
    <3>1. Len(reply) = 0 /\ unsent \in 0 .. Len(reply)
      BY <1>6 DEF BytesOK
    <3> QED
      BY <3>1
  <2>3. /\ inbox' = <<>> /\ got' = <<>> /\ reply' = <<>> /\ tunnel' = <<>> /\ unsent' = 0
        /\ Len(<<>>) = 0
    BY <1>1, <1>6, <2>1, <2>2
  <2>4. Wire(0)'
    BY <2>3 DEF Wire
  <2> QED
    BY <1>5, <2>1, <2>3, <2>4 DEF WireOK
<1>10. LastOK'
  <2>1. last' = last /\ op' # NoOp
    BY <1>1, <1>5
  <2> QED
    BY <2>1 DEF OpInv, LastOK, NoFalseSuccess
<1>11. AskedOK'
  BY <1>1, <1>5 DEF OpInv, AskedOK
<1> QED
  BY <1>7, <1>8, <1>9, <1>10, <1>11 DEF OpInv

LEMMA CallsInv ==
  ASSUME OpInv, Calls
  PROVE  OpInv'
<1>1. "v4" \in Kinds /\ "greet" \in Kinds /\ "login" \in Kinds /\ "exec" \in Kinds
      /\ "greet" # "v4" /\ "login" # "v4" /\ "exec" # "v4"
  BY DEF Kinds
<1>2. \A n \in Lengths : Text(n) \in Seq(Octets)
  BY LengthsAssumption, Texts
<1>3. \A r \in Remotes : r \in Seq(Octets) /\ Len(r) \in {4, 16}
  <2>1. /\ Text(4) \in Seq(Octets) /\ Len(Text(4)) = 4
        /\ Text(16) \in Seq(Octets) /\ Len(Text(16)) = 16
    BY Texts
  <2> QED
    BY <2>1 DEF Remotes
<1>4. <<>> \in Seq(Octets) /\ <<0, 0, 0, 0>> \in Seq(Octets)
      /\ 0 \in PortNumbers /\ 80 \in PortNumbers
  BY ZeroAddress DEF PortNumbers
<1>5. ASSUME NEW r \in Remotes, NEW n \in Lengths \ {256}, async_execute_v4(1, r, 80, Text(n))
      PROVE  OpInv'
  <2> DEFINE none == <<>>
             u == Text(n)
             size == v4_exec_packet_size(r, none, u)
             e == encode_exec_packet(1, r, 80, none, 0)
             p == Packet(size, e)
  <2>1. initiate("v4", Call(1, <<r, u>>, 80), size, e)
    BY <1>5 DEF async_execute_v4
  <2>2. r \in Seq(Octets) /\ none \in Seq(Octets) /\ u \in Seq(Octets)
    BY <1>2, <1>3, <1>4
  <2>3. p = Packet(v4_exec_packet_size(r, none, u), encode_exec_packet(1, r, 80, none, 0))
    OBVIOUS
  <2> HIDE DEF none, u, p
  <2>4. p \in Seq(Octets \cup {Junk})
    BY <1>4, <2>2, <2>3, OldPackets
  <2>5. p = Packet(size, e)
    BY DEF p
  <2> HIDE DEF size, e
  <2> QED
    BY <1>1, <2>1, <2>4, <2>5, InitiateInv
<1>6. ASSUME NEW h \in Lengths \ {0, 256}, NEW n \in Lengths \ {0, 256},
             async_execute_v4a(1, Text(h), 80, Text(n))
      PROVE  OpInv'
  <2> DEFINE z == <<0, 0, 0, 0>>
             u == Text(n)
             g == Text(h)
             size == v4_exec_packet_size(z, g, u)
             e == encode_exec_packet(1, z, 0, g, 0)
             p == Packet(size, e)
  <2>1. initiate("v4", Call(1, <<g, u>>, 80), size, e)
    BY <1>6 DEF async_execute_v4a
  <2>2. z \in Seq(Octets) /\ g \in Seq(Octets) /\ u \in Seq(Octets)
    BY <1>2, <1>4
  <2>3. p = Packet(v4_exec_packet_size(z, g, u), encode_exec_packet(1, z, 0, g, 0))
    OBVIOUS
  <2> HIDE DEF z, g, u, p
  <2>4. p \in Seq(Octets \cup {Junk})
    BY <1>4, <2>2, <2>3, OldPackets
  <2>5. p = Packet(size, e)
    BY DEF p
  <2> HIDE DEF size, e
  <2> QED
    BY <1>1, <2>1, <2>4, <2>5, InitiateInv
<1>7. ASSUME NEW m \in Seq(Octets), async_greet(m)
      PROVE  OpInv'
  <2> DEFINE size == get_greet_packet_size(m)
             e == encode_greet_packet(m)
             p == Packet(size, e)
             c == Call(0, <<m>>, 0)
  <2>1. initiate("greet", c, size, e)
    BY <1>7 DEF async_greet
  <2>2. p \in Seq(Octets \cup {Junk}) /\ (p # <<>> => Says("greet", p, c))
    BY GreetSays
  <2>3. p = Packet(size, e)
    OBVIOUS
  <2> HIDE DEF size, e, p, c
  <2> QED
    BY <1>1, <2>1, <2>2, <2>3, InitiateInv
<1>8. ASSUME NEW n \in Lengths, NEW k \in Lengths, async_login(Text(n), Text(k))
      PROVE  OpInv'
  <2> DEFINE u == Text(n)
             w == Text(k)
             size == get_login_packet_size(u, w)
             e == encode_login_packet(u, w)
             p == Packet(size, e)
             c == Call(0, <<u, w>>, 0)
  <2>1. u \in Seq(Octets) /\ w \in Seq(Octets)
    BY <1>2
  <2>2. initiate("login", c, size, e)
    BY <1>8 DEF async_login
  <2> HIDE DEF u, w
  <2>3. p \in Seq(Octets \cup {Junk}) /\ (p # <<>> => Says("login", p, c))
    BY <2>1, LoginSays
  <2>4. p = Packet(size, e)
    OBVIOUS
  <2> HIDE DEF size, e, p, c
  <2> QED
    BY <1>1, <2>2, <2>3, <2>4, InitiateInv
<1>9. ASSUME NEW r \in Remotes, NEW cmd \in {1, 2}, async_execute(cmd, r, 443)
      PROVE  OpInv'
  <2> DEFINE size == get_exec_packet_size(r, <<>>)
             e == encode_exec_packet(cmd, r, 443, <<>>, 0)
             p == Packet(size, e)
             c == Call(cmd, <<r>>, 443)
  <2>1. r \in Seq(Octets) /\ Len(r) \in {4, 16} /\ cmd \in Commands
    BY <1>3 DEF Commands
  <2>2. initiate("exec", c, size, e)
    BY <1>9 DEF async_execute
  <2>3. p \in Seq(Octets \cup {Junk}) /\ (p # <<>> => Says("exec", p, c))
    BY <2>1, RemoteSays
  <2>4. p = Packet(size, e)
    OBVIOUS
  <2> HIDE DEF size, e, p, c
  <2> QED
    BY <1>1, <2>2, <2>3, <2>4, InitiateInv
<1>10. ASSUME NEW h \in Lengths, async_execute_host(1, Text(h), 443)
       PROVE  OpInv'
  <2> DEFINE g == Text(h)
             size == get_exec_packet_size(<<0, 0, 0, 0>>, g)
             e == encode_exec_packet(1, <<0, 0, 0, 0>>, 0, g, 443)
             p == Packet(size, e)
             c == Call(1, <<g>>, 443)
  <2>1. g \in Seq(Octets)
    BY <1>2
  <2>2. initiate("exec", c, size, e)
    BY <1>10 DEF async_execute_host
  <2> HIDE DEF g
  <2>3. p \in Seq(Octets \cup {Junk}) /\ (p # <<>> => Says("exec", p, c))
    BY <2>1, HostSays
  <2>4. p = Packet(size, e)
    OBVIOUS
  <2> HIDE DEF size, e, p, c
  <2> QED
    BY <1>1, <2>2, <2>3, <2>4, InitiateInv
<1>11. CASE \E r \in Remotes, n \in Lengths \ {256} : async_execute_v4(1, r, 80, Text(n))
  BY <1>5, <1>11
<1>12. CASE \E h, n \in Lengths \ {0, 256} : async_execute_v4a(1, Text(h), 80, Text(n))
  BY <1>6, <1>12
<1>13. CASE \E m \in {<<>>, <<0>>, <<0, 2>>, [i \in 1 .. 256 |-> 0]} : async_greet(m)
  <2>1. 0 \in Octets /\ 2 \in Octets
    BY DEF Octets
  <2>2. [i \in 1 .. 256 |-> 0] \in Seq(Octets)
    BY <2>1, SeqDef
  <2>3. <<0>> \in Seq(Octets) /\ <<0, 2>> \in Seq(Octets)
    BY <2>1, Singles, Pairs
  <2> QED
    BY <1>4, <1>7, <1>13, <2>2, <2>3
<1>14. CASE \E u, p \in Lengths : async_login(Text(u), Text(p))
  BY <1>8, <1>14
<1>15. CASE \E r \in Remotes, c \in {1, 2} : async_execute(c, r, 443)
  BY <1>9, <1>15
<1>16. CASE \E h \in Lengths : async_execute_host(1, Text(h), 443)
  BY <1>10, <1>16
<1> QED
  BY <1>11, <1>12, <1>13, <1>14, <1>15, <1>16, Zenon DEF Calls

LEMMA ReplyBytes ==
  ASSUME NEW kind \in Kinds, NEW r \in Replies(kind)
  PROVE  r \in Seq(Octets) /\ Len(r) >= FirstRead[kind] /\ Len(r) \in Nat
<1>1. CASE kind = "v4"
  <2>1. r \in Seq(Octets) /\ Len(r) = 8
    BY <1>1, OldReplies
  <2> QED
    BY <1>1, <2>1 DEF FirstRead
<1>2. CASE kind \in {"greet", "login"}
  <2>1. r \in Seq(Octets) /\ Len(r) = 2
    BY <1>2, ShortReplies
  <2> QED
    BY <1>2, <2>1 DEF FirstRead
<1>3. CASE kind = "exec"
  <2>1. r \in Seq(Octets) /\ Len(r) >= 7
    BY <1>3, ExecReplies
  <2>2. Len(r) \in Nat
    BY <2>1, LenProperties
  <2> QED
    BY <1>3, <2>1, <2>2 DEF FirstRead
<1> QED
  BY <1>1, <1>2, <1>3 DEF Kinds

\* What the proxy has sent, by its places.
LEMMA Sent ==
  ASSUME NEW r \in Seq(Octets), NEW t \in {<<>>, <<Tunnel>>}
  PROVE  /\ Len(t) \in {0, 1} /\ Len(r) \in Nat
         /\ \A i \in 1 .. Len(r) : (r \o t)[i] = r[i]
         /\ t = <<Tunnel>> => (r \o t)[Len(r) + 1] = Tunnel
         /\ t = <<>> => Len(t) = 0
         /\ t = <<Tunnel>> => Len(t) = 1 /\ t[1] = Tunnel
<1> DEFINE S == Octets \cup {Tunnel}
           l == Len(r)
<1>1. l \in Nat
  BY LenProperties
<1>2. r \in Seq(S)
  <2>1. \A i \in 1 .. l : r[i] \in S
    BY ElementOfSeq
  <2>2. r \in [1 .. l -> S]
    BY <2>1, LenProperties
  <2> QED
    BY <1>1, <2>2, SeqDef
<1>3. t \in Seq(S) /\ (t = <<>> => Len(t) = 0) /\ (t = <<Tunnel>> => Len(t) = 1 /\ t[1] = Tunnel)
  <2>1. Tunnel \in S
    OBVIOUS
  <2> HIDE DEF S
  <2>2. <<Tunnel>> \in Seq(S) /\ Len(<<Tunnel>>) = 1 /\ <<Tunnel>>[1] = Tunnel
    BY <2>1, Singles
  <2>3. <<>> \in Seq(S) /\ Len(<<>>) = 0
    OBVIOUS
  <2> QED
    BY <2>2, <2>3
<1>4. \A i \in 1 .. Len(r) + Len(t) : (r \o t)[i] = IF i <= Len(r) THEN r[i] ELSE t[i - Len(r)]
  <2> HIDE DEF S
  <2> QED
    BY <1>2, <1>3, ConcatProperties
<1> HIDE DEF S, l
<1>5. Len(r) = l /\ Len(t) \in {0, 1}
  BY <1>3 DEF l
<1>6. \A i \in 1 .. l : i \in 1 .. l + Len(t) /\ i <= l
  BY <1>1, <1>5
<1>7. Len(t) = 1 => l + 1 \in 1 .. l + Len(t) /\ ~(l + 1 <= l) /\ (l + 1) - l = 1
  BY <1>1
<1> QED
  BY <1>1, <1>3, <1>4, <1>5, <1>6, <1>7

\* Reading n bytes moves on by n bytes.
LEMMA ReadOff ==
  ASSUME BytesOK, NEW k \in Nat, NEW n \in Nat, Wire(k), Len(inbox) >= n,
         inbox' = SubSeq(inbox, n + 1, Len(inbox)), got' = got \o SubSeq(inbox, 1, n),
         Len(reply) \in Nat, Len(tunnel) \in Nat, UNCHANGED <<reply, unsent, tunnel>>
  PROVE  /\ inbox' \in Seq(Octets \cup {Tunnel}) /\ Len(inbox') = Len(inbox) - n
         /\ got' \in Seq(Octets \cup {Tunnel})
         /\ Wire(k + n)'
<1> DEFINE S == Octets \cup {Tunnel}
           l == Len(inbox)
           f == reply \o tunnel
           x == Len(reply)
           y == Len(tunnel)
           h == SubSeq(inbox, 1, n)
           g == got \o h
<1>0. inbox \in Seq(S) /\ got \in Seq(S) /\ unsent \in 0 .. Len(reply)
  BY DEF BytesOK
<1>1. l \in Nat /\ n \in 0 .. l /\ unsent \in Nat
  BY <1>0, LenProperties
<1>2. /\ inbox' \in Seq(S) /\ Len(inbox') = l - n
      /\ \A i \in 1 .. l - n : inbox'[i] = inbox[n + i]
  <2>1. n \in 0 .. Len(inbox)
    BY <1>1
  <2> HIDE DEF S
  <2> QED
    BY <1>0, <2>1, TailFrom
<1>3. h \in Seq(S) /\ Len(h) = n /\ \A i \in 1 .. n : h[i] = inbox[i]
  <2>1. n \in 0 .. Len(inbox)
    BY <1>1
  <2> HIDE DEF S
  <2> QED
    BY <1>0, <2>1, HeadTo
<1>4. /\ l + k + unsent = x + y /\ Len(got) = k
      /\ \A i \in 1 .. k : got[i] = f[i]
      /\ \A i \in 1 .. l : inbox[i] = f[k + i]
  BY DEF Wire
<1> HIDE DEF h, S
<1>5. /\ g \in Seq(S) /\ Len(g) = Len(got) + Len(h)
      /\ \A i \in 1 .. Len(got) + Len(h) :
           g[i] = IF i <= Len(got) THEN got[i] ELSE h[i - Len(got)]
  BY <1>0, <1>3, ConcatProperties
<1>6. x \in Nat /\ y \in Nat
  OBVIOUS
<1>7. /\ reply' \o tunnel' = f /\ Len(reply') = x /\ Len(tunnel') = y
      /\ unsent' = unsent /\ got' = g
  BY DEF h
<1> HIDE DEF l, f, x, y, g
<1>8. ASSUME NEW i \in 1 .. l - n PROVE inbox'[i] = f[k + n + i]
  <2>1. n + i \in 1 .. l /\ k + (n + i) = k + n + i
    BY <1>1
  <2> QED
    BY <1>2, <1>4, <2>1
<1>9. ASSUME NEW i \in 1 .. k + n PROVE g[i] = f[i]
  <2>1. i \in 1 .. Len(got) + Len(h)
    BY <1>3, <1>4
  <2>2. CASE i <= k
    <3>1. i \in 1 .. k
      BY <2>2
    <3> QED
      BY <1>4, <1>5, <2>1, <3>1, <2>2
  <2>3. CASE ~(i <= k)
    <3>1. i - k \in 1 .. n /\ i - k \in 1 .. l /\ k + (i - k) = i
      BY <1>1, <2>3
    <3>2. g[i] = h[i - k]
      BY <1>4, <1>5, <2>1, <2>3
    <3>3. h[i - k] = inbox[i - k] /\ inbox[i - k] = f[k + (i - k)]
      BY <1>3, <1>4, <3>1
    <3> QED
      BY <3>1, <3>2, <3>3
  <2> QED
    BY <2>2, <2>3
<1>10. (l - n) + (k + n) + unsent = x + y
  BY <1>1, <1>4
<1>11. Wire(k + n)'
  BY <1>2, <1>3, <1>4, <1>5, <1>7, <1>8, <1>9, <1>10 DEF Wire
<1> QED
  BY <1>2, <1>5, <1>7, <1>11 DEF l, S

\* The answer that an operation finds in the inbox.
LEMMA Answer ==
  ASSUME OpInv, op.pc = "read", received, NEW n, n = op.n
  PROVE  /\ op.kind \in Kinds /\ op.n = FirstRead[op.kind]
         /\ reply # <<>> /\ reply \in Replies(op.kind)
         /\ reply \in Seq(Octets) /\ Len(reply) \in Nat /\ Len(reply) >= op.n
         /\ \A i \in 1 .. op.n : inbox[i] = reply[i]
         /\ op.kind # "exec" => tunnel = <<>>
         /\ UNCHANGED <<reply, unsent, tunnel>>
         /\ inbox' \in Seq(Octets \cup {Tunnel}) /\ got' \in Seq(Octets \cup {Tunnel})
         /\ Len(got') = op.n /\ (\A i \in 1 .. op.n : got'[i] = reply[i])
         /\ Wire(n)' /\ BytesOK'
         /\ op.kind # "exec" /\ Len(reply) = op.n =>
              got' = reply /\ inbox' = <<>> /\ unsent = 0
<1>1. op.kind \in Kinds /\ op.n = FirstRead[op.kind] /\ op # NoOp
  BY BusyKind DEF OpInv, OpOK
<1>2. op.n \in {8, 2, 5}
  BY <1>1 DEF Kinds, FirstRead
<1>3. /\ BytesOK /\ (reply = <<>> \/ reply \in Replies(op.kind))
      /\ Wire(0) /\ (op.kind # "exec" => tunnel = <<>>)
  BY <1>1 DEF OpInv, WireOK
<1>3a. /\ inbox \in Seq(Octets \cup {Tunnel}) /\ tunnel \in {<<>>, <<Tunnel>>}
       /\ (reply = <<>> => tunnel = <<>>) /\ unsent \in 0 .. Len(reply)
  BY <1>3 DEF BytesOK
<1>4. /\ Len(inbox) >= op.n /\ inbox' = SubSeq(inbox, op.n + 1, Len(inbox))
      /\ got' = got \o SubSeq(inbox, 1, op.n)
      /\ UNCHANGED <<reply, unsent, tunnel>>
  BY DEF received
<1>5. Len(inbox) \in Nat
  BY <1>3a, LenProperties
<1>6. reply # <<>>
  <2> SUFFICES ASSUME reply = <<>> PROVE FALSE
    OBVIOUS
  <2>1. Len(reply) = 0 /\ Len(tunnel) = 0
    BY <1>3a
  <2>2. Len(inbox) + 0 + unsent = Len(reply) + Len(tunnel)
    BY <1>3 DEF Wire
  <2> QED
    BY <1>2, <1>3a, <1>4, <1>5, <2>1, <2>2
<1>7. reply \in Seq(Octets) /\ Len(reply) \in Nat /\ Len(reply) >= op.n
  BY <1>1, <1>3, <1>6, ReplyBytes
<1>8. /\ Len(tunnel) \in {0, 1} /\ (tunnel = <<>> => Len(tunnel) = 0)
      /\ \A i \in 1 .. Len(reply) : (reply \o tunnel)[i] = reply[i]
  BY <1>3a, <1>7, Sent
<1>9. ASSUME NEW i \in 1 .. op.n PROVE inbox[i] = reply[i]
  <2>0. \A a \in {8, 2, 5}, b \in Nat, c \in Nat : b >= a /\ c >= a =>
          \A j \in 1 .. a : j \in 1 .. b /\ j \in 1 .. c /\ 0 + j = j
    OBVIOUS
  <2>1. i \in 1 .. Len(inbox) /\ i \in 1 .. Len(reply) /\ 0 + i = i
    BY <1>2, <1>4, <1>5, <1>7, <2>0
  <2>2. inbox[i] = (reply \o tunnel)[0 + i]
    BY <1>3, <2>1 DEF Wire
  <2> QED
    BY <1>8, <2>1, <2>2
<1>10. op.n \in Nat /\ Len(tunnel) \in Nat /\ 0 \in Nat /\ 0 + op.n = op.n
  BY <1>2, <1>8
<1>11. /\ n \in Nat /\ 0 \in Nat /\ Len(inbox) >= n
       /\ inbox' = SubSeq(inbox, n + 1, Len(inbox)) /\ got' = got \o SubSeq(inbox, 1, n)
  BY <1>4, <1>10
<1>12. /\ inbox' \in Seq(Octets \cup {Tunnel}) /\ Len(inbox') = Len(inbox) - n
       /\ got' \in Seq(Octets \cup {Tunnel}) /\ Wire(0 + n)'
  <2>1. Len(reply) \in Nat /\ Len(tunnel) \in Nat
    BY <1>7, <1>10
  <2> QED
    BY <1>3, <1>4, <1>11, <2>1, ReadOff
<1>13. 0 + n = n
  BY <1>11
<1>14. Wire(n)'
  BY <1>12, <1>13
<1>15. BytesOK'
  BY <1>3, <1>4, <1>12 DEF BytesOK
<1>16. Len(got') = n /\ (\A i \in 1 .. n : got'[i] = reply[i])
  <2>1. Len(got') = n /\ (\A i \in 1 .. n : got'[i] = (reply \o tunnel)[i])
    BY <1>4, <1>14 DEF Wire
  <2>2. \A i \in 1 .. n : i \in 1 .. Len(reply)
    BY <1>7, <1>11
  <2> QED
    BY <1>8, <2>1, <2>2
<1>17. ASSUME op.kind # "exec", Len(reply) = n
       PROVE  got' = reply /\ inbox' = <<>> /\ unsent = 0
  <2>1. got' = reply
    <3>1. reply \in Seq(Octets \cup {Tunnel})
      <4>1. reply \in [1 .. Len(reply) -> Octets \cup {Tunnel}]
        BY <1>7, LenProperties, ElementOfSeq
      <4> QED
        BY <1>7, <4>1, SeqDef
    <3> QED
      BY <1>12, <1>16, <1>17, <3>1, SeqEqual
  <2>2. Len(inbox') + n + unsent = Len(reply) + Len(tunnel)
    BY <1>4, <1>14 DEF Wire
  <2>3. Len(inbox') \in Nat /\ unsent \in Nat /\ Len(tunnel) = 0
    BY <1>3, <1>3a, <1>7, <1>8, <1>12, <1>17, LenProperties
  <2>4. Len(inbox') = 0 /\ unsent = 0
    BY <1>11, <1>17, <2>2, <2>3
  <2> QED
    BY <1>12, <2>1, <2>4, EmptySeq
<1> QED
  BY <1>1, <1>3, <1>4, <1>6, <1>7, <1>9, <1>12, <1>14, <1>15, <1>16, <1>17

LEMMA OldAnsweredInv ==
  ASSUME OpInv, v4_answered
  PROVE  OpInv'
<1>1. op.kind = "v4" /\ op.pc = "read" /\ received /\ buf' = <<>>
  BY DEF v4_answered
<1>2. /\ op.n = FirstRead[op.kind] /\ (\A i \in 1 .. op.n : inbox[i] = reply[i])
      /\ reply \in Replies("v4") /\ UNCHANGED <<reply, unsent, tunnel>>
      /\ inbox' \in Seq(Octets \cup {Tunnel}) /\ got' \in Seq(Octets \cup {Tunnel})
      /\ (Len(reply) = op.n => got' = reply)
  BY <1>1, Answer
<1>3. inbox[1] = reply[1] /\ inbox[2] = reply[2] /\ got' = reply
  <2>1. op.n = 8 /\ Len(reply) = 8
    BY <1>1, <1>2, OldReplies DEF FirstRead
  <2> QED
    BY <1>2, <2>1
<1> DEFINE ec == IF inbox[1] # 0 THEN "invalid_version"
                 ELSE CASE inbox[2] = 91 -> "generic"
                        [] inbox[2] = 92 -> "identd_not_reachable"
                        [] inbox[2] = 93 -> "login_failed"
                        [] OTHER -> "none"
<1>4. complete(ec, 255)
  BY DEF v4_answered
<1>5. ec # "never" /\ ec # "io" /\ (ec = "none" => inbox[1] = 0 /\ inbox[2] \notin {91, 92, 93})
  OBVIOUS
<1> HIDE DEF ec
<1>6. ec = "none" => Agreed(255, got')
  BY <1>1, <1>3, <1>5 DEF Agreed
<1>7. buf' \in Seq(Octets \cup {Junk}) /\ op.kind \in Kinds
      /\ op.kind \notin {"greet", "login", "exec"}
  BY <1>1 DEF Kinds
<1> QED
  BY <1>1, <1>2, <1>4, <1>5, <1>6, <1>7, CompleteInv

\* Nothing is left once an answer of two bytes has been read.
LEMMA ShortAnswer ==
  ASSUME OpInv, op.pc = "read", received, op.kind \in {"greet", "login"}
  PROVE  /\ inbox[1] = reply[1] /\ inbox[2] = reply[2]
         /\ reply = <<reply[1], reply[2]>> /\ got' = reply
         /\ inbox' = <<>> /\ tunnel = <<>> /\ unsent = 0
         /\ UNCHANGED <<reply, unsent, tunnel>>
         /\ inbox' \in Seq(Octets \cup {Tunnel}) /\ got' \in Seq(Octets \cup {Tunnel})
<1>1. op.n = 2
  BY DEF OpInv, OpOK, FirstRead
<1>2. /\ reply \in Replies(op.kind) /\ (\A i \in 1 .. 2 : inbox[i] = reply[i])
      /\ tunnel = <<>> /\ UNCHANGED <<reply, unsent, tunnel>>
      /\ inbox' \in Seq(Octets \cup {Tunnel}) /\ got' \in Seq(Octets \cup {Tunnel})
      /\ (Len(reply) = 2 => got' = reply /\ inbox' = <<>> /\ unsent = 0)
  BY <1>1, Answer
<1>3. Len(reply) = 2 /\ reply = <<reply[1], reply[2]>>
  BY <1>2, ShortReplies
<1> QED
  BY <1>2, <1>3

LEMMA GreetAnsweredInv ==
  ASSUME OpInv, greet_answered
  PROVE  OpInv'
<1>1. op.kind = "greet" /\ op.pc = "read" /\ received /\ buf' = <<>>
  BY DEF greet_answered
<1>2. /\ inbox[1] = reply[1] /\ inbox[2] = reply[2]
      /\ reply = <<reply[1], reply[2]>> /\ got' = reply
      /\ inbox' = <<>> /\ tunnel = <<>> /\ unsent = 0 /\ UNCHANGED <<reply, unsent, tunnel>>
      /\ inbox' \in Seq(Octets \cup {Tunnel}) /\ got' \in Seq(Octets \cup {Tunnel})
  BY <1>1, ShortAnswer
<1>3. buf' \in Seq(Octets \cup {Junk}) /\ op.kind \in Kinds
  BY <1>1 DEF Kinds
<1>4. CASE inbox[1] # 5
  <2>1. complete("invalid_version", 255)
    BY <1>4 DEF greet_answered
  <2> QED
    BY <1>1, <1>2, <1>3, <2>1, CompleteInv
<1>5. CASE inbox[1] = 5 /\ inbox[2] = 255
  <2>1. complete("no_acceptable_auth_method", 255)
    BY <1>5 DEF greet_answered
  <2> QED
    BY <1>1, <1>2, <1>3, <2>1, CompleteInv
<1>6. CASE inbox[1] = 5 /\ inbox[2] # 255
  <2>1. complete("none", inbox[2])
    BY <1>6 DEF greet_answered
  <2> DEFINE m == inbox[2]
  <2>2. got' = reply /\ got' = <<5, m>> /\ m # 255 /\ complete("none", m)
    BY <1>2, <1>6, <2>1
  <2> HIDE DEF m
  <2>3. Agreed(m, got')
    BY <1>1, <2>2 DEF Agreed
  <2>4. "none" # "never" /\ "none" # "io" /\ op.kind # "exec"
    BY <1>1
  <2> QED
    BY <1>1, <1>2, <1>3, <2>2, <2>3, <2>4, CompleteInv
<1> QED
  BY <1>4, <1>5, <1>6

LEMMA LoginAnsweredInv ==
  ASSUME OpInv, login_answered
  PROVE  OpInv'
<1>1. op.kind = "login" /\ op.pc = "read" /\ received /\ buf' = <<>>
  BY DEF login_answered
<1>2. /\ inbox[1] = reply[1] /\ inbox[2] = reply[2]
      /\ reply = <<reply[1], reply[2]>> /\ got' = reply
      /\ inbox' = <<>> /\ tunnel = <<>> /\ unsent = 0 /\ UNCHANGED <<reply, unsent, tunnel>>
      /\ inbox' \in Seq(Octets \cup {Tunnel}) /\ got' \in Seq(Octets \cup {Tunnel})
  BY <1>1, ShortAnswer
<1>3. buf' \in Seq(Octets \cup {Junk}) /\ op.kind \in Kinds
  BY <1>1 DEF Kinds
<1> DEFINE ec == IF inbox[1] # 1 THEN "invalid_auth_version"
                 ELSE IF inbox[2] # 0 THEN "login_failed" ELSE "none"
<1>4. complete(ec, 255)
  BY DEF login_answered
<1>5. ec # "never" /\ ec # "io" /\ (ec = "none" => inbox[1] = 1 /\ inbox[2] = 0)
  OBVIOUS
<1> HIDE DEF ec
<1>6. ec = "none" => got' = reply /\ got' = <<1, 0>>
  BY <1>2, <1>5
<1>7. ec = "none" => Agreed(255, got')
  BY <1>1, <1>6 DEF Agreed
<1>8. op.kind # "exec"
  BY <1>1
<1> QED
  BY <1>1, <1>2, <1>3, <1>4, <1>5, <1>7, <1>8, CompleteInv

LEMMA ExecAnsweredInv ==
  ASSUME OpInv, exec_answered
  PROVE  OpInv'
<1>1. op.kind = "exec" /\ op.pc = "read" /\ received
  BY DEF exec_answered
<1>2. op.n = 5 /\ op # NoOp
  BY <1>1, NoOpIs DEF OpInv, OpOK, FirstRead
<1>3. /\ reply \in Replies("exec") /\ (\A i \in 1 .. 5 : inbox[i] = reply[i])
      /\ reply \in Seq(Octets) /\ Len(reply) \in Nat /\ Len(reply) >= 5
      /\ UNCHANGED <<reply, unsent, tunnel>> /\ inbox' \in Seq(Octets \cup {Tunnel})
      /\ got' \in Seq(Octets \cup {Tunnel}) /\ (\A i \in 1 .. 5 : got'[i] = reply[i])
      /\ Wire(5)' /\ BytesOK'
  BY <1>1, <1>2, Answer
<1>4. inbox[1] = reply[1] /\ inbox[2] = reply[2] /\ inbox[4] = reply[4] /\ inbox[5] = reply[5]
  BY <1>3
<1>5. op.kind \in Kinds /\ <<>> \in Seq(Octets \cup {Junk})
  BY <1>1 DEF Kinds
<1>6. CASE inbox[1] # 5 /\ complete("invalid_version", 255) /\ buf' = <<>>
  <2>1. /\ complete("invalid_version", 255) /\ buf' = <<>> /\ UNCHANGED <<reply, unsent, tunnel>>
        /\ inbox' \in Seq(Octets \cup {Tunnel}) /\ got' \in Seq(Octets \cup {Tunnel})
        /\ buf' \in Seq(Octets \cup {Junk})
    BY <1>3, <1>5, <1>6
  <2>2. "invalid_version" # "never" /\ "invalid_version" # "none"
    OBVIOUS
  <2> QED
    BY <1>5, <2>1, <2>2, CompleteInv
<1>7. CASE /\ inbox[1] = 5 /\ inbox[2] # 0 /\ buf' = <<>>
           /\ complete(IF inbox[2] \in DOMAIN ExecErrors THEN ExecErrors[inbox[2]]
                       ELSE "none", 255)
  <2> DEFINE s == reply[2]
             ec == IF s \in DOMAIN ExecErrors THEN ExecErrors[s] ELSE "none"
  <2>1. complete(ec, 255) /\ s # 0 /\ reply[1] = 5
    BY <1>4, <1>7
  <2>2. ec # "io" /\ ec # "never" /\ (ec = "none" => s \notin 2 .. 8)
    <3>1. DOMAIN ExecErrors = 1 .. 8
      BY DEF ExecErrors
    <3>2. /\ ExecErrors[1] = "none" /\ ExecErrors[2] = "no_permission"
          /\ ExecErrors[3] = "network_unreachable" /\ ExecErrors[4] = "host_unreachable"
          /\ ExecErrors[5] = "connection_refused" /\ ExecErrors[6] = "timed_out"
          /\ ExecErrors[7] = "command_not_supported"
          /\ ExecErrors[8] = "address_family_not_supported"
      BY DEF ExecErrors
    <3>3. s \in 1 .. 8 => s \in {1, 2, 3, 4, 5, 6, 7, 8}
      OBVIOUS
    <3>4. 2 .. 8 \subseteq 1 .. 8
      OBVIOUS
    <3> HIDE DEF s
    <3> QED
      BY <3>1, <3>2, <3>3, <3>4
  <2>3. ~Granted
    BY <2>1 DEF Granted
  <2> HIDE DEF s, ec
  <2>4. got'[1] = reply[1] /\ got'[2] = s
    BY <1>3 DEF s
  <2>5. ec = "none" => Agreed(255, got')
    BY <1>1, <2>1, <2>2, <2>4 DEF Agreed
  <2>6. op.kind \notin {"greet", "login"}
    BY <1>1
  <2>7. /\ op.kind \in Kinds /\ complete(ec, 255) /\ UNCHANGED <<reply, unsent, tunnel>>
        /\ buf' = <<>> /\ buf' \in Seq(Octets \cup {Junk})
        /\ inbox' \in Seq(Octets \cup {Tunnel}) /\ got' \in Seq(Octets \cup {Tunnel})
    BY <1>3, <1>5, <1>7, <2>1
  <2> QED
    BY <2>2, <2>3, <2>5, <2>6, <2>7, CompleteInv
<1>8. CASE /\ inbox[1] = 5 /\ inbox[2] = 0
           /\ op' = [op EXCEPT !.pc = "address", !.n = AddressRest(inbox[4], inbox[5]) + 2]
           /\ buf' = Junks(op'.n) /\ UNCHANGED <<last, call, stale, asked>>
  <2> DEFINE n == AddressRest(reply[4], reply[5]) + 2
  <2>1. n \in 0 .. 257 /\ n \in Nat
    <3>1. reply[5] \in Octets
      <4>1. 5 \in 1 .. Len(reply)
        BY <1>3
      <4> QED
        BY <1>3, <4>1, ElementOfSeq
    <3>2. AddressRest(reply[4], reply[5]) \in {3, reply[5], 15, 5}
      BY DEF AddressRest
    <3> QED
      BY <3>1, <3>2 DEF Octets
  <2>2. op' = [op EXCEPT !.pc = "address", !.n = n]
    BY <1>4, <1>8
  <2> HIDE DEF n
  <2>3. op \in [kind : Kinds \cup {"none"}, n : 0 .. 257,
                pc : {"idle", "post", "write", "runaway", "read", "address"}]
    BY DEF OpInv, OpOK
  <2>4. op'.kind = "exec" /\ op'.pc = "address" /\ op'.n = n /\ op' # NoOp
    BY <1>1, <2>2, <2>3, NoOpIs
  <2>5. OpOK'
    <3>1. op' \in [kind : Kinds \cup {"none"}, n : 0 .. 257,
                   pc : {"idle", "post", "write", "runaway", "read", "address"}]
      BY <2>1, <2>2, <2>3
    <3> QED
      BY <2>4, <3>1 DEF OpOK
  <2>6. BufOK'
    <3>1. buf' \in Seq(Octets \cup {Junk})
      BY <1>8, <2>1, <2>4, JunkSeq
    <3> QED
      BY <2>4, <3>1 DEF BufOK
  <2>7. WireOK'
    <3>1. BytesOK'
      BY <1>3
    <3>2. reply'[1] = 5 /\ reply'[2] = 0 /\ reply' \in Replies("exec")
          /\ op'.n = AddressRest(reply'[4], reply'[5]) + 2
      BY <1>3, <1>4, <1>8, <2>4 DEF n
    <3> QED
      BY <1>3, <2>4, <3>1, <3>2 DEF WireOK
  <2>8. LastOK'
    BY <1>8, <2>4 DEF OpInv, LastOK, NoFalseSuccess
  <2>9. AskedOK'
    BY <1>1, <1>8, <2>4 DEF OpInv, AskedOK
  <2> QED
    BY <2>5, <2>6, <2>7, <2>8, <2>9 DEF OpInv
<1> QED
  BY <1>6, <1>7, <1>8 DEF exec_answered

LEMMA ExecAddressedInv ==
  ASSUME OpInv, exec_addressed
  PROVE  OpInv'
<1>1. /\ op.kind = "exec" /\ op.pc = "address" /\ received /\ buf' = <<>>
      /\ complete("none", 255)
  BY DEF exec_addressed
<1> DEFINE a == AddressRest(reply[4], reply[5])
<1>2. /\ reply \in Replies("exec") /\ reply[1] = 5 /\ reply[2] = 0 /\ Wire(5) /\ op.n = a + 2
      /\ BytesOK /\ tunnel \in {<<>>, <<Tunnel>>}
      /\ unsent \in 0 .. Len(reply) /\ (unsent # 0 => tunnel = <<>>)
  BY <1>1 DEF OpInv, WireOK, BytesOK
<1>3. op.n \in Nat
  BY DEF OpInv, OpOK
<1>4. /\ Len(inbox) >= op.n /\ inbox' = SubSeq(inbox, op.n + 1, Len(inbox))
      /\ got' = got \o SubSeq(inbox, 1, op.n) /\ UNCHANGED <<reply, unsent, tunnel>>
  BY <1>1 DEF received
<1>5. /\ reply \in Seq(Octets) /\ Len(reply) \in Nat /\ Len(reply) >= 7
      /\ (reply[4] \in {1, 3, 4} => Len(reply) = 7 + a)
  <2>1. "exec" \in Kinds
    BY DEF Kinds
  <2>2. reply \in Seq(Octets) /\ Len(reply) \in Nat
    BY <1>2, <2>1, ReplyBytes
  <2> QED
    BY <1>2, <2>2, ExecReplies
<1>6. /\ Len(tunnel) \in {0, 1} /\ (tunnel = <<>> => Len(tunnel) = 0)
      /\ (tunnel = <<Tunnel>> => Len(tunnel) = 1 /\ tunnel[1] = Tunnel)
      /\ (tunnel = <<Tunnel>> => (reply \o tunnel)[Len(reply) + 1] = Tunnel)
      /\ \A i \in 1 .. Len(reply) : (reply \o tunnel)[i] = reply[i]
  BY <1>2, <1>5, Sent
<1>7. PICK n \in Nat : n = op.n
  BY <1>3
<1>8. /\ inbox' \in Seq(Octets \cup {Tunnel}) /\ got' \in Seq(Octets \cup {Tunnel})
      /\ Wire(5 + n)'
  <2>1. Len(reply) \in Nat /\ Len(tunnel) \in Nat /\ 5 \in Nat
    BY <1>5, <1>6
  <2>2. /\ Len(inbox) >= n /\ inbox' = SubSeq(inbox, n + 1, Len(inbox))
        /\ got' = got \o SubSeq(inbox, 1, n)
    BY <1>4, <1>7
  <2> QED
    BY <1>2, <1>4, <1>7, <2>1, <2>2, ReadOff
<1>8a. Len(got') = 5 + n /\ \A i \in 1 .. 5 + n : got'[i] = (reply \o tunnel)[i]
  BY <1>4, <1>8 DEF Wire
<1>8b. got'[1] = 5 /\ got'[2] = 0 /\ got'[4] = reply[4]
  <2>1. \A i \in {1, 2, 4} : i \in 1 .. 5 + n /\ i \in 1 .. Len(reply)
    BY <1>5, <1>7
  <2>2. \A i \in {1, 2, 4} : got'[i] = reply[i]
    BY <1>6, <1>8a, <2>1
  <2> QED
    BY <1>2, <2>2
<1>9. ASSUME reply[4] \in {1, 3, 4}
      PROVE  inbox' = tunnel /\ unsent = 0 /\ got' = reply
  <2>1. reply[4] \in {1, 3, 4}
    BY <1>9
  <2>2. a + 2 = n /\ Len(reply) = 7 + a
    BY <1>2, <1>5, <1>7, <2>1
  <2>3. a \in Int
    <3>1. reply[5] \in Octets
      <4>2. 5 \in 1 .. Len(reply)
        BY <1>5
      <4> QED
        BY <1>5, <4>2, ElementOfSeq
    <3>2. a \in {3, reply[5], 15, 5}
      BY DEF AddressRest
    <3> QED
      BY <3>1, <3>2 DEF Octets
  <2> HIDE DEF a
  <2>4. Len(reply) = 5 + n
    BY <1>7, <2>2, <2>3
  <2> DEFINE m == Len(inbox')
             t == Len(tunnel)
  <2>5. m \in Nat /\ t \in Nat
    BY <1>6, <1>8, LenProperties
  <2>6. /\ m + (5 + n) + unsent = (5 + n) + t
        /\ \A i \in 1 .. m : inbox'[i] = (reply \o tunnel)[5 + n + i]
    BY <1>4, <1>8, <2>4 DEF Wire
  <2> HIDE DEF m, t
  <2>7. (tunnel = <<>> => t = 0) /\ (unsent # 0 => t = 0)
    BY <1>2, <1>6 DEF t
  <2>7a. unsent \in Nat
    BY <1>2, <1>5
  <2>8. m = t /\ unsent = 0
    BY <1>7, <2>5, <2>6, <2>7, <2>7a
  <2>8a. got' = reply
    <3>1. reply \in Seq(Octets \cup {Tunnel})
      <4>1. reply \in [1 .. Len(reply) -> Octets \cup {Tunnel}]
        BY <1>5, LenProperties, ElementOfSeq
      <4> QED
        BY <1>5, <4>1, SeqDef
    <3>2. Len(got') = Len(reply) /\ \A i \in 1 .. Len(got') : got'[i] = reply[i]
      BY <1>6, <1>8a, <2>4
    <3> QED
      BY <1>8, <3>1, <3>2, SeqEqual
  <2>9. CASE tunnel = <<>>
    <3>1. Len(inbox') = 0
      BY <2>7, <2>8, <2>9 DEF m
    <3> QED
      BY <1>8, <2>8, <2>8a, <2>9, <3>1, EmptySeq
  <2>10. CASE tunnel = <<Tunnel>>
    <3>1. m = 1
      BY <1>6, <2>8, <2>10 DEF t
    <3>2. inbox'[1] = Tunnel
      <4>1. 1 \in 1 .. m
        BY <3>1
      <4>2. inbox'[1] = (reply \o tunnel)[5 + n + 1]
        BY <2>6, <4>1
      <4> QED
        BY <1>6, <2>4, <2>10, <4>2
    <3>3. tunnel \in Seq(Octets \cup {Tunnel})
      BY <2>10, Singles
    <3>4. Len(inbox') = Len(tunnel) /\ \A i \in 1 .. Len(inbox') : inbox'[i] = tunnel[i]
      <4>1. \A i \in 1 .. m : i = 1
        BY <3>1
      <4> QED
        BY <1>6, <2>8, <2>10, <3>2, <4>1 DEF m, t
    <3> QED
      BY <1>8, <2>8, <2>8a, <3>3, <3>4, SeqEqual
  <2> QED
    BY <1>2, <2>9, <2>10
<1>10. /\ buf' \in Seq(Octets \cup {Junk}) /\ op.kind \in Kinds
       /\ op.kind \notin {"greet", "login"} /\ "none" # "never" /\ "none" # "io"
  BY <1>1 DEF Kinds
<1>11. Granted => inbox' = tunnel /\ unsent = 0
  BY <1>9 DEF Granted
<1>12. Agreed(255, got')
  BY <1>1, <1>8b, <1>9 DEF Agreed
<1> HIDE DEF a
<1> QED
  BY <1>1, <1>4, <1>8, <1>10, <1>11, <1>12, CompleteInv

\* A reply that has been decided on and not sent.
LEMMA AnswersInv ==
  ASSUME OpInv, op.pc = "read", NEW r \in Replies(op.kind), answers(r)
  PROVE  OpInv'
<1>1. /\ reply = <<>> /\ reply' = r /\ unsent' = Len(r)
      /\ UNCHANGED <<buf, op, call, stale, asked, got, inbox, tunnel, last>>
  BY DEF answers, clientVars
<1>2. op.kind \in Kinds /\ op # NoOp
  BY BusyKind DEF OpInv
<1>3. r \in Seq(Octets) /\ Len(r) \in Nat
  BY <1>2, ReplyBytes
<1>4. BytesOK /\ Wire(0) /\ tunnel = <<>>
  BY <1>1 DEF OpInv, WireOK, BytesOK
<1>5. inbox = <<>>
  <2>1. inbox \in Seq(Octets \cup {Tunnel}) /\ unsent \in 0 .. Len(reply)
        /\ Len(reply) = 0 /\ Len(tunnel) = 0
    BY <1>1, <1>4 DEF BytesOK
  <2>2. Len(inbox) \in Nat
    BY <2>1, LenProperties
  <2>3. Len(inbox) + 0 + unsent = Len(reply) + Len(tunnel)
    BY <1>4 DEF Wire
  <2>4. Len(inbox) = 0
    BY <2>1, <2>2, <2>3
  <2> QED
    BY <2>1, <2>4, EmptySeq
<1>6. BytesOK'
  BY <1>1, <1>3, <1>4 DEF BytesOK
<1>7. Wire(0)'
  <2>1. Len(inbox') = 0 /\ Len(tunnel') = 0 /\ Len(got') = 0
    BY <1>1, <1>4, <1>5 DEF Wire
  <2>2. 0 + 0 + Len(r) = Len(r) + 0
    BY <1>3
  <2> QED
    BY <1>1, <2>1, <2>2 DEF Wire
<1>8. WireOK'
  BY <1>1, <1>2, <1>4, <1>6, <1>7 DEF WireOK
<1>9. OpOK' /\ BufOK' /\ AskedOK'
  BY <1>1 DEF OpInv, OpOK, BufOK, AskedOK
<1>10. LastOK'
  BY <1>1, <1>2 DEF OpInv, LastOK, NoFalseSuccess
<1> QED
  BY <1>8, <1>9, <1>10 DEF OpInv

\* A piece of the answer takes its place behind what is in the inbox.
LEMMA Piece ==
  ASSUME BytesOK, NEW n \in 0 .. unsent - 1,
         inbox' = inbox \o SubSeq(reply, Len(reply) - unsent + 1, Len(reply) - n),
         unsent' = n, UNCHANGED <<got, reply, tunnel>>
  PROVE  BytesOK' /\ \A k \in Nat : Wire(k) => Wire(k)'
<1> DEFINE S == Octets \cup {Tunnel}
           x == Len(reply)
           b == x - unsent
           m == b + 1
           e == x - n
           h == SubSeq(reply, m, e)
           f == reply \o tunnel
           l == Len(inbox)
<1>1. /\ x \in Nat /\ l \in Nat /\ unsent \in Nat /\ n \in Nat /\ n < unsent /\ unsent <= x
      /\ reply \in Seq(Octets) /\ inbox \in Seq(S) /\ tunnel = <<>> /\ Len(tunnel) = 0
  <2>1. unsent \in 0 .. Len(reply) /\ reply \in Seq(Octets) /\ inbox \in Seq(S)
        /\ (unsent # 0 => tunnel = <<>>)
    BY DEF BytesOK
  <2>2. Len(reply) \in Nat /\ Len(inbox) \in Nat
    BY <2>1, LenProperties
  <2> QED
    BY <2>1, <2>2
<1>2. m \in Int /\ e \in Int /\ m <= e /\ e - m + 1 = unsent - n
      /\ \A i \in m .. e : i \in 1 .. x
  BY <1>1
<1>3. \A i \in m .. e : reply[i] \in S
  <2>1. \A i \in 1 .. x : reply[i] \in Octets
    BY <1>1, ElementOfSeq
  <2> QED
    BY <1>2, <2>1
<1>4. /\ h \in Seq(S) /\ Len(h) = unsent - n
      /\ \A i \in 1 .. unsent - n : h[i] = reply[m + i - 1]
  <2>1. /\ h \in Seq(S)
        /\ Len(h) = IF m <= e THEN e - m + 1 ELSE 0
        /\ \A i \in 1 .. e - m + 1 : h[i] = reply[m + i - 1]
    <3> HIDE DEF m, e, S
    <3> QED
      BY <1>2, <1>3, SubSeqProperties
  <2> HIDE DEF h, m, e
  <2> QED
    BY <1>2, <2>1
<1>5. inbox' = inbox \o h
  OBVIOUS
<1> HIDE DEF h, S
<1>6. /\ inbox' \in Seq(S) /\ Len(inbox') = l + (unsent - n)
      /\ \A i \in 1 .. l + (unsent - n) :
           inbox'[i] = IF i <= l THEN inbox[i] ELSE h[i - l]
  <2>1. /\ inbox \o h \in Seq(S) /\ Len(inbox \o h) = Len(inbox) + Len(h)
        /\ \A i \in 1 .. Len(inbox) + Len(h) :
             (inbox \o h)[i] = IF i <= Len(inbox) THEN inbox[i] ELSE h[i - Len(inbox)]
    BY <1>1, <1>4, ConcatProperties
  <2> QED
    BY <1>4, <1>5, <2>1
<1>7. BytesOK'
  <2>1. unsent' \in 0 .. Len(reply) /\ (reply = <<>> => FALSE)
    BY <1>1
  <2> QED
    BY <1>1, <1>6, <2>1 DEF BytesOK, S
<1>8. \A i \in 1 .. x : f[i] = reply[i]
  BY <1>1, Sent
<1>9. ASSUME NEW k \in Nat, Wire(k) PROVE Wire(k)'
  <2>1. /\ l + k + unsent = x + 0 /\ Len(got) = k
        /\ \A i \in 1 .. k : got[i] = f[i]
        /\ \A i \in 1 .. l : inbox[i] = f[k + i]
    BY <1>1, <1>9 DEF Wire
  <2>2. f = reply' \o tunnel' /\ x = Len(reply') /\ Len(tunnel') = 0
    BY <1>1
  <2>2a. m = x - unsent + 1
    OBVIOUS
  <2> HIDE DEF f, l, x, m
  <2>3. ASSUME NEW i \in 1 .. l + (unsent - n) PROVE inbox'[i] = f[k + i]
    <3>1. CASE i <= l
      <4>1. i \in 1 .. l
        BY <1>1, <3>1
      <4> QED
        BY <1>6, <2>1, <3>1, <4>1
    <3>2. CASE ~(i <= l)
      <4>1. /\ i - l \in 1 .. unsent - n /\ m + (i - l) - 1 = k + i
            /\ k + i \in 1 .. x
        BY <1>1, <2>1, <2>2a, <3>2
      <4>2. h[i - l] = reply[k + i]
        BY <1>4, <4>1
      <4> QED
        BY <1>6, <1>8, <3>2, <4>1, <4>2
    <3> QED
      BY <3>1, <3>2
  <2>4. (l + (unsent - n)) + k + n = x + 0
    BY <1>1, <2>1
  <2> QED
    BY <1>6, <2>1, <2>2, <2>3, <2>4 DEF Wire
<1> QED
  BY <1>7, <1>9

LEMMA SendsInv ==
  ASSUME OpInv, NEW n, sends(n)
  PROVE  OpInv'
<1>1. /\ n \in 0 .. unsent - 1 /\ unsent' = n
      /\ inbox' = inbox \o SubSeq(reply, Len(reply) - unsent + 1, Len(reply) - n)
      /\ UNCHANGED <<buf, op, call, stale, asked, got, reply, tunnel, last>>
  BY DEF sends, clientVars
<1>2. BytesOK /\ unsent \in 0 .. Len(reply) /\ reply \in Seq(Octets)
  BY DEF OpInv, WireOK, BytesOK
<1>4. unsent # 0 /\ reply # <<>>
  <2>1. Len(reply) \in Nat /\ Len(<<>>) = 0
    BY <1>2, LenProperties
  <2> QED
    BY <1>1, <1>2, <2>1
<1>5. OpOK' /\ BufOK' /\ AskedOK'
  BY <1>1 DEF OpInv, OpOK, BufOK, AskedOK
<1>6. LastOK'
  <2>1. Granted' <=> Granted
    BY <1>1 DEF Granted
  <2>2. NoFalseSuccess'
    BY <1>1 DEF OpInv, LastOK, NoFalseSuccess
  <2> QED
    BY <1>1, <1>4, <2>1, <2>2 DEF OpInv, LastOK
<1>7. BytesOK' /\ (Wire(0) => Wire(0)') /\ (Wire(5) => Wire(5)')
  <2>1. BytesOK' /\ \A k \in Nat : Wire(k) => Wire(k)'
    BY <1>1, <1>2, Piece
  <2> QED
    BY <2>1
<1>8. WireOK'
  BY <1>1, <1>4, <1>7 DEF OpInv, WireOK
<1> QED
  BY <1>5, <1>6, <1>8 DEF OpInv

LEMMA HangsUpInv ==
  ASSUME OpInv, hangs_up
  PROVE  OpInv'
<1>1. UNCHANGED <<buf, op, call, stale, asked, got, inbox, reply, unsent, tunnel, last>>
  BY DEF hangs_up, clientVars
<1>2. OpOK' /\ BufOK' /\ AskedOK'
  BY <1>1 DEF OpInv, OpOK, BufOK, AskedOK
<1>3. LastOK'
  BY <1>1 DEF OpInv, LastOK, NoFalseSuccess, Granted
<1>4. WireOK'
  BY <1>1 DEF OpInv, WireOK, BytesOK, Wire
<1> QED
  BY <1>2, <1>3, <1>4 DEF OpInv

LEMMA PassedOn ==
  ASSUME inbox \in Seq(Octets \cup {Tunnel}), reply \in Seq(Octets), NEW k \in Nat, Wire(k),
         unsent = 0, tunnel = <<>>, tunnel' = <<Tunnel>>, inbox' = Append(inbox, Tunnel),
         UNCHANGED <<got, reply, unsent>>
  PROVE  Wire(k)'
<1> DEFINE l == Len(inbox)
           x == Len(reply)
           f == reply \o tunnel
           g == reply \o tunnel'
<1>1. l \in Nat /\ x \in Nat /\ Len(tunnel) = 0 /\ Len(tunnel') = 1
  BY LenProperties
<1>2. l + k = x
  <2>1. l + k + 0 = x + Len(tunnel)
    BY DEF Wire
  <2> HIDE DEF l, x
  <2> QED
    BY <1>1, <2>1
<1>2a. Len(got) = k /\ \A i \in 1 .. k : got[i] = f[i]
  BY DEF Wire
<1>3. /\ Len(inbox') = l + 1 /\ inbox'[l + 1] = Tunnel
      /\ \A i \in 1 .. l : inbox'[i] = inbox[i]
  <2>1. Tunnel \in Octets \cup {Tunnel}
    OBVIOUS
  <2>2. /\ Len(Append(inbox, Tunnel)) = Len(inbox) + 1
        /\ \A i \in 1 .. Len(inbox) : Append(inbox, Tunnel)[i] = inbox[i]
        /\ Append(inbox, Tunnel)[Len(inbox) + 1] = Tunnel
    BY <2>1, AppendProperties
  <2> QED
    BY <2>2
<1>4. \A i \in 1 .. x : f[i] = reply[i]
  BY Sent
<1>5. (\A i \in 1 .. x : g[i] = reply[i]) /\ g[x + 1] = Tunnel
  BY Sent
<1>6. \A i \in 1 .. l : inbox[i] = f[k + i]
  BY DEF Wire
<1>7. reply' \o tunnel' = g /\ Len(reply') = x
  OBVIOUS
<1> HIDE DEF l, x, f, g
<1>8. ASSUME NEW i \in 1 .. l + 1 PROVE inbox'[i] = g[k + i]
  <2>1. CASE i = l + 1
    <3>1. k + i = x + 1
      BY <1>1, <1>2, <2>1
    <3> QED
      BY <1>3, <1>5, <2>1, <3>1
  <2>2. CASE i # l + 1
    <3>1. i \in 1 .. l /\ k + i \in 1 .. x
      BY <1>1, <1>2, <2>2
    <3> QED
      BY <1>3, <1>4, <1>5, <1>6, <3>1
  <2> QED
    BY <2>1, <2>2
<1>9. (l + 1) + k + 0 = x + 1
  BY <1>1, <1>2
<1>10. ASSUME NEW i \in 1 .. k PROVE got[i] = g[i]
  <2>1. i \in 1 .. x
    BY <1>1, <1>2
  <2> QED
    BY <1>2a, <1>4, <1>5, <2>1
<1> QED
  BY <1>1, <1>2a, <1>3, <1>7, <1>8, <1>9, <1>10 DEF Wire

LEMMA PassesOnInv ==
  ASSUME OpInv, passes_on
  PROVE  OpInv'
<1>1. /\ unsent = 0 /\ tunnel = <<>> /\ reply # <<>> /\ op.kind \in {"exec", "none"}
      /\ "exec" \in {op.kind, last.kind}
      /\ tunnel' = <<Tunnel>> /\ inbox' = Append(inbox, Tunnel)
      /\ UNCHANGED <<buf, op, call, stale, asked, got, reply, unsent, last>>
  BY DEF passes_on, clientVars
<1>2. op.kind = "exec" \/ (op = NoOp /\ last.kind = "exec")
  BY <1>1, BusyKind DEF OpInv
<1>3. BytesOK /\ inbox \in Seq(Octets \cup {Tunnel}) /\ op.pc \notin {"post", "write", "runaway"}
  BY <1>1 DEF OpInv, WireOK, BytesOK
<1>4. inbox' \in Seq(Octets \cup {Tunnel})
  <2>1. Tunnel \in Octets \cup {Tunnel}
    OBVIOUS
  <2> QED
    BY <1>1, <1>3, <2>1, AppendProperties
<1>5. OpOK' /\ BufOK' /\ AskedOK'
  BY <1>1 DEF OpInv, OpOK, BufOK, AskedOK
<1>6. LastOK'
  <2>1. op = NoOp /\ last.kind = "exec" /\ last.ec = "none" /\ Granted => inbox = <<>>
    BY <1>1 DEF OpInv, LastOK
  <2>2. inbox = <<>> => inbox' = tunnel'
    <3>1. Append(<<>>, Tunnel) = <<Tunnel>>
      OBVIOUS
    <3> QED
      BY <1>1, <3>1
  <2>3. Granted' <=> Granted
    BY <1>1 DEF Granted
  <2>4. NoFalseSuccess'
    BY <1>1 DEF OpInv, LastOK, NoFalseSuccess
  <2>5. last'.ec = "none" => last'.kind \in Kinds
    BY <1>1 DEF OpInv, LastOK
  <2> QED
    BY <1>1, <2>1, <2>2, <2>3, <2>4, <2>5 DEF LastOK
<1>7. op.pc = "read" => reply' \in Replies(op'.kind) /\ Wire(0)'
  <2> SUFFICES ASSUME op.pc = "read" PROVE reply' \in Replies(op'.kind) /\ Wire(0)'
    OBVIOUS
  <2>1. reply \in Replies(op.kind) /\ Wire(0) /\ op.kind \in Kinds
    BY <1>1, BusyKind DEF OpInv, WireOK
  <2>2. reply \in Seq(Octets) /\ 0 \in Nat
    BY <2>1, ReplyBytes
  <2>3. Wire(0)'
    BY <1>1, <1>3, <2>1, <2>2, PassedOn
  <2> QED
    BY <1>1, <2>1, <2>3
<1>8. op.pc = "address" =>
        /\ reply' \in Replies("exec") /\ reply'[1] = 5 /\ reply'[2] = 0 /\ Wire(5)'
        /\ op'.n = AddressRest(reply'[4], reply'[5]) + 2
  <2> SUFFICES ASSUME op.pc = "address"
               PROVE  /\ reply' \in Replies("exec") /\ reply'[1] = 5 /\ reply'[2] = 0 /\ Wire(5)'
                      /\ op'.n = AddressRest(reply'[4], reply'[5]) + 2
    OBVIOUS
  <2>1. /\ reply \in Replies("exec") /\ reply[1] = 5 /\ reply[2] = 0 /\ Wire(5)
        /\ op.n = AddressRest(reply[4], reply[5]) + 2 /\ "exec" \in Kinds
    BY DEF OpInv, WireOK, Kinds
  <2>2. reply \in Seq(Octets) /\ 5 \in Nat
    BY <2>1, ReplyBytes
  <2>3. Wire(5)'
    BY <1>1, <1>3, <2>1, <2>2, PassedOn
  <2> QED
    BY <1>1, <2>1, <2>3
<1>9. WireOK'
  <2>1. ~(op' = NoOp /\ last'.kind \in {"none", "greet", "login"})
    BY <1>1, <1>2, NoOpIs
  <2>2. BytesOK'
    BY <1>1, <1>3, <1>4 DEF BytesOK
  <2> QED
    BY <1>1, <1>2, <1>3, <1>7, <1>8, <2>1, <2>2 DEF WireOK
<1> QED
  BY <1>5, <1>6, <1>9 DEF OpInv

LEMMA SocksInitInv ==
  ASSUME SocksInit
  PROVE  Inv
<1>1. /\ buf = <<>> /\ op = NoOp /\ asked = <<>> /\ got = <<>> /\ inbox = <<>>
      /\ reply = <<>> /\ unsent = 0 /\ tunnel = <<>> /\ last.ec = "never" /\ last.kind = "none" /\ sock = "closed"
  BY DEF SocksInit, ConnectInit
<1>2. OpOK
  BY <1>1, NoOpIs DEF OpOK, NoOp
<1>3. BufOK
  <2>1. <<>> \in Seq(Octets \cup {Junk})
    OBVIOUS
  <2> QED
    BY <1>1, <2>1 DEF BufOK
<1>4. WireOK
  <2>1. <<>> \in Seq(Octets \cup {Tunnel}) /\ <<>> \in Seq(Octets) /\ Len(<<>>) = 0
    OBVIOUS
  <2>2. BytesOK
    BY <1>1, <2>1 DEF BytesOK
  <2> QED
    BY <1>1, <2>2, NoOpIs DEF WireOK
<1>5. LastOK /\ AskedOK /\ SockOK
  BY <1>1, NoOpIs DEF LastOK, NoFalseSuccess, AskedOK, SockOK
<1> QED
  BY <1>2, <1>3, <1>4, <1>5 DEF Inv, OpInv

LEMMA SocksNextInv ==
  ASSUME Inv, [SocksNext]_allVars
  PROVE  Inv'
<1>1. OpInv /\ SockOK
  BY DEF Inv
<1>2. SockOK'
  BY <1>1, SockKept
<1> SUFFICES OpInv'
  BY <1>2 DEF Inv
<1>3. CASE UNCHANGED socksVars
  BY <1>1, <1>3, UnchangedInv
<1>4. CASE Reconnecting
  <2>1. CASE UNCHANGED socksVars
    BY <1>3, <2>1
  <2>2. CASE ~UNCHANGED socksVars
    <3>1. /\ op = NoOp /\ inbox' = <<>> /\ reply' = <<>> /\ unsent' = 0 /\ tunnel' = <<>>
          /\ got' = <<>> /\ last' = [kind |-> "none", ec |-> "never", method |-> 255]
          /\ UNCHANGED <<buf, op, call, stale, asked>>
      BY <1>4, <2>2 DEF Reconnecting
    <3> QED
      BY <1>1, <3>1, FreshInv
  <2> QED
    BY <2>1, <2>2
<1>5. CASE Closing
  BY <1>3, <1>5 DEF Closing
<1>6. CASE Clearing
  BY <1>1, <1>6, ClearingInv
<1>7. CASE Calls
  BY <1>1, <1>7, CallsInv
<1>8. CASE Handlers
  BY <1>1, <1>8, PostedInv, WrittenInv, FailsInv, OldAnsweredInv, GreetAnsweredInv,
     LoginAnsweredInv, ExecAnsweredInv, ExecAddressedInv DEF Handlers
<1>9. CASE Proxy
  <2>1. CASE op.pc = "read" /\ \E r \in Replies(op.kind) : answers(r)
    BY <1>1, <2>1, AnswersInv
  <2>4. CASE \E n \in {0, 1, Len(reply) - 5} : sends(n)
    BY <1>1, <2>4, SendsInv
  <2>2. CASE passes_on
    BY <1>1, <2>2, PassesOnInv
  <2>3. CASE hangs_up
    BY <1>1, <2>3, HangsUpInv
  <2> QED
    BY <1>9, <2>1, <2>2, <2>3, <2>4, Zenon DEF Proxy
<1> QED
  BY <1>3, <1>4, <1>5, <1>6, <1>7, <1>8, <1>9 DEF SocksNext, allVars

-----------------------------------------------------------------------------
(* The memory behind a packet.                                              *)

LEMMA InitiateOverrun ==
  ASSUME NEW kind, NEW args, NEW size, NEW bytes, initiate(kind, args, size, bytes),
         Overrun(size, bytes) # 0 =>
           kind = "v4" /\ args.names[2] = <<>> /\ Overrun(size, bytes) = 1
  PROVE  OverrunOK'
<1>1. overrun' = Overrun(size, bytes) /\ op'.kind = kind /\ call' = args
  BY DEF initiate
<1> QED
  BY <1>1 DEF OverrunOK

LEMMA CallsOverrun ==
  ASSUME Calls
  PROVE  OverrunOK'
<1>1. \A n \in Lengths : Text(n) \in Seq(Octets)
  BY LengthsAssumption, Texts
<1>2. \A r \in Remotes : r \in Seq(Octets) /\ Len(r) \in {4, 16}
  <2>1. /\ Text(4) \in Seq(Octets) /\ Len(Text(4)) = 4
        /\ Text(16) \in Seq(Octets) /\ Len(Text(16)) = 16
    BY Texts
  <2> QED
    BY <2>1 DEF Remotes
<1> DEFINE z == <<0, 0, 0, 0>>
           none == <<>>
<1>3. /\ z \in Seq(Octets) /\ Len(z) \in {4, 16} /\ none \in Seq(Octets)
      /\ 0 \in PortNumbers /\ 80 \in PortNumbers /\ 443 \in PortNumbers
      /\ \A c \in {1, 2} : c \in Commands
  BY ZeroAddress DEF PortNumbers, Commands
<1> HIDE DEF z
<1>4. ASSUME NEW r \in Remotes, NEW n \in Lengths, async_execute_v4(1, r, 80, Text(n))
      PROVE  OverrunOK'
  <2> DEFINE u == Text(n)
             size == v4_exec_packet_size(r, none, u)
             e == encode_exec_packet(1, r, 80, none, 0)
             c == Call(1, <<r, u>>, 80)
  <2>1. initiate("v4", c, size, e)
    BY <1>4 DEF async_execute_v4
  <2>2. Overrun(size, e) # 0 => u = <<>> /\ Overrun(size, e) = 1
    <3> HIDE DEF u, none, e
    <3>1. r \in Seq(Octets) /\ Len(r) \in {4, 16} /\ u \in Seq(Octets) /\ 1 \in Commands
      BY <1>1, <1>2, <1>3 DEF u
    <3>2. e = encode_exec_packet(1, r, 80, none, 0)
      BY DEF e
    <3> QED
      BY <1>3, <3>1, <3>2, ExecFits
  <2>3. c.names[2] = u
    BY DEF Call
  <2> HIDE DEF u, size, e, c
  <2> QED
    BY <2>1, <2>2, <2>3, InitiateOverrun
<1>5. ASSUME NEW h \in Lengths, NEW n \in Lengths, async_execute_v4a(1, Text(h), 80, Text(n))
      PROVE  OverrunOK'
  <2> DEFINE u == Text(n)
             g == Text(h)
             size == v4_exec_packet_size(z, g, u)
             e == encode_exec_packet(1, z, 0, g, 0)
             c == Call(1, <<g, u>>, 80)
  <2>1. initiate("v4", c, size, e)
    BY <1>5 DEF async_execute_v4a, z
  <2>2. Overrun(size, e) # 0 => u = <<>> /\ Overrun(size, e) = 1
    <3> HIDE DEF u, g, e
    <3>1. u \in Seq(Octets) /\ g \in Seq(Octets) /\ 1 \in Commands
      BY <1>1, <1>3 DEF u, g
    <3>2. e = encode_exec_packet(1, z, 0, g, 0)
      BY DEF e
    <3> QED
      BY <1>3, <3>1, <3>2, ExecFits
  <2>3. c.names[2] = u
    BY DEF Call
  <2> HIDE DEF u, size, e, c
  <2> QED
    BY <2>1, <2>2, <2>3, InitiateOverrun
<1>6. ASSUME NEW m \in Seq(Octets), async_greet(m)
      PROVE  OverrunOK'
  <2>1. Overrun(get_greet_packet_size(m), encode_greet_packet(m)) = 0
    BY GreetFits
  <2> QED
    BY <1>6, <2>1, InitiateOverrun DEF async_greet
<1>7. ASSUME NEW n \in Lengths, NEW k \in Lengths, async_login(Text(n), Text(k))
      PROVE  OverrunOK'
  <2>1. Overrun(get_login_packet_size(Text(n), Text(k)),
                encode_login_packet(Text(n), Text(k))) = 0
    BY <1>1, LoginFits
  <2> QED
    BY <1>7, <2>1, InitiateOverrun DEF async_login
<1>8. ASSUME NEW r \in Remotes, NEW cmd \in {1, 2}, async_execute(cmd, r, 443)
      PROVE  OverrunOK'
  <2> DEFINE size == get_exec_packet_size(r, none)
             e == encode_exec_packet(cmd, r, 443, none, 0)
             c == Call(cmd, <<r>>, 443)
  <2>1. initiate("exec", c, size, e)
    BY <1>8 DEF async_execute
  <2>2. Overrun(size, e) = 0
    <3> HIDE DEF none, e
    <3>1. e = encode_exec_packet(cmd, r, 443, none, 0)
      BY DEF e
    <3> QED
      BY <1>2, <1>3, <3>1, ExecFits
  <2> HIDE DEF size, e, c
  <2> QED
    BY <2>1, <2>2, InitiateOverrun
<1>9. ASSUME NEW h \in Lengths, async_execute_host(1, Text(h), 443)
      PROVE  OverrunOK'
  <2> DEFINE g == Text(h)
             size == get_exec_packet_size(z, g)
             e == encode_exec_packet(1, z, 0, g, 443)
             c == Call(1, <<g>>, 443)
  <2>1. initiate("exec", c, size, e)
    BY <1>9 DEF async_execute_host, z
  <2>2. Overrun(size, e) = 0
    <3> HIDE DEF g, e
    <3>1. g \in Seq(Octets) /\ 1 \in Commands
      BY <1>1, <1>3 DEF g
    <3>2. e = encode_exec_packet(1, z, 0, g, 443)
      BY DEF e
    <3> QED
      BY <1>3, <3>1, <3>2, ExecFits
  <2> HIDE DEF size, e, c
  <2> QED
    BY <2>1, <2>2, InitiateOverrun
<1>10. CASE \E m \in {<<>>, <<0>>, <<0, 2>>, [i \in 1 .. 256 |-> 0]} : async_greet(m)
  <2>1. 0 \in Octets /\ 2 \in Octets
    BY DEF Octets
  <2>2. [i \in 1 .. 256 |-> 0] \in Seq(Octets)
    BY <2>1, SeqDef
  <2>3. <<0>> \in Seq(Octets) /\ <<0, 2>> \in Seq(Octets)
    BY <2>1, Singles, Pairs
  <2> QED
    BY <1>3, <1>6, <1>10, <2>2, <2>3
<1>11. CASE \E r \in Remotes, n \in Lengths \ {256} : async_execute_v4(1, r, 80, Text(n))
  BY <1>4, <1>11
<1>12. CASE \E h, n \in Lengths \ {0, 256} : async_execute_v4a(1, Text(h), 80, Text(n))
  BY <1>5, <1>12
<1>13. CASE \E u, p \in Lengths : async_login(Text(u), Text(p))
  BY <1>7, <1>13
<1>14. CASE \E r \in Remotes, c \in {1, 2} : async_execute(c, r, 443)
  BY <1>8, <1>14
<1>15. CASE \E h \in Lengths : async_execute_host(1, Text(h), 443)
  BY <1>9, <1>15
<1> QED
  BY <1>10, <1>11, <1>12, <1>13, <1>14, <1>15, Zenon DEF Calls

LEMMA OverrunKept ==
  ASSUME Inv, OverrunOK, [SocksNext]_allVars
  PROVE  OverrunOK'
<1>1. CASE overrun' = 0
  BY <1>1 DEF OverrunOK
<1>2. CASE UNCHANGED <<op, call, overrun>>
  BY <1>2 DEF OverrunOK
<1>3. CASE Calls
  BY <1>3, CallsOverrun
<1>4. CASE written
  <2>1. op.kind = op'.kind
    BY <1>4 DEF written, Inv, OpInv, OpOK
  <2> QED
    BY <1>4, <2>1 DEF written, OverrunOK
<1>5. CASE exec_answered
  <2>1. CASE UNCHANGED overrun
    <3>1. overrun = 0
      BY <1>5 DEF exec_answered, OverrunOK
    <3> QED
      BY <1>1, <2>1, <3>1
  <2>2. CASE ~UNCHANGED overrun
    BY <1>1, <1>5, <2>2 DEF exec_answered, complete
  <2> QED
    BY <2>1, <2>2
<1>6. CASE UNCHANGED allVars \/ Reconnecting \/ Closing \/ Clearing \/ Proxy
  BY <1>2, <1>6 DEF allVars, socksVars, clientVars, Reconnecting, Closing, Clearing, Proxy,
                    answers, sends, passes_on, hangs_up
<1>7. CASE posted \/ io_fails \/ v4_answered \/ greet_answered \/ login_answered \/ exec_addressed
  BY <1>1, <1>7 DEF complete, posted, io_fails, v4_answered, greet_answered, login_answered,
                    exec_addressed
<1> QED
  BY <1>3, <1>4, <1>5, <1>6, <1>7 DEF SocksNext, Handlers

-----------------------------------------------------------------------------
LEMMA InvInvariant == SocksSpec => []Inv
<1>1. SocksInit => Inv
  BY SocksInitInv
<1>2. Inv /\ [SocksNext]_allVars => Inv'
  BY SocksNextInv
<1> QED
  BY <1>1, <1>2, PTL DEF SocksSpec

\* Every operation that does not fail on the socket consumes its packet and the
\* answer: the next request has the buffer for itself.
THEOREM BufferEmptiedInvariant == SocksSpec => []BufferEmptied
<1>1. Inv => BufferEmptied
  <2> SUFFICES ASSUME Inv PROVE BufferEmptied
    OBVIOUS
  <2>1. sock \in {"closed", "open", "connected"}
    BY DEF Inv, SockOK
  <2>2. op.kind \in {"none", "v4", "greet", "login", "exec"} /\ op.n \in 0 .. 257
        /\ op.pc \in {"idle", "post", "write", "runaway", "read", "address"}
    BY DEF Inv, OpInv, OpOK, Kinds
  <2>3. \A i \in 1 .. Len(buf) : buf[i] \in (0 .. 255) \cup {Junk}
    <3>1. buf \in Seq(Octets \cup {Junk})
      BY DEF Inv, OpInv, BufOK
    <3> QED
      BY <3>1, ElementOfSeq DEF Octets
  <2>4. inbox \in Seq((0 .. 255) \cup {Tunnel})
    BY DEF Inv, OpInv, WireOK, BytesOK, Octets
  <2>5. op = NoOp /\ last.ec \notin {"io", "never"} => buf = <<>>
    BY DEF Inv, OpInv, BufOK
  <2> QED
    BY <2>1, <2>2, <2>3, <2>4, <2>5 DEF BufferEmptied, TypeOK
<1> QED
  BY <1>1, InvInvariant, PTL

\* v5_exec_op reads a proxy's granting answer to its last byte and no further.
THEOREM TunnelIntactInvariant == SocksSpec => []TunnelIntact
<1>1. Inv => TunnelIntact
  BY DEF Inv, OpInv, LastOK, TunnelIntact
<1> QED
  BY <1>1, InvInvariant, PTL

\* An operator() that reports success has read the whole of an answer that is of
\* its version and does not refuse, but for the codes and types of address that
\* its switch statements do not name.
THEOREM NoFalseSuccessInvariant == SocksSpec => []NoFalseSuccess
<1>1. Inv => NoFalseSuccess
  BY DEF Inv, OpInv, LastOK
<1> QED
  BY <1>1, InvInvariant, PTL

\* What the encoders of protocol.cpp write is, for names of any length, what the
\* application asked for as a SOCKS 5 server reads it, and fits into what the
\* operations prepare, but for SOCKS 4 without a user id.
THEOREM RequestsDecodeInvariant == SocksSpec => []RequestsDecode
<1>1. SocksInit => OverrunOK
  BY DEF SocksInit, OverrunOK
<1>2. Inv /\ OverrunOK /\ [SocksNext]_allVars => OverrunOK'
  BY OverrunKept
<1>3. Inv /\ OverrunOK => RequestsDecode
  BY DEF Inv, OpInv, AskedOK, Says, RequestsDecode, OverrunOK
<1> QED
  BY <1>1, <1>2, <1>3, InvInvariant, PTL DEF SocksSpec

=============================================================================
