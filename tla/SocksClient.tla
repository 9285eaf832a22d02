---------------------------- MODULE SocksClient ----------------------------
(***************************************************************************)
(* The SOCKS client (socks/client.hpp, socks/detail/client.hpp,            *)
(* socks/detail/impl/protocol.cpp): four composed operations that write a  *)
(* request to a connected socket and read the proxy's answer, all of them  *)
(* through one linear_buffer of the application, as in the example         *)
(* socks_http_client.cpp.  The application has one operation under way at  *)
(* a time, goes on with a greeting or login after success only, and        *)
(* otherwise closes and connects again, with the same buffer.  Bytes are   *)
(* real ones.  The proxy, which answers anything, and the transport are    *)
(* external.                                                               *)
(***************************************************************************)
EXTENDS Connect, FiniteSets, SequencesExt

CONSTANTS Junk,       \* an uninitialised byte
          Tunnel,     \* a byte of the proxied connection
          Lengths,    \* of the strings the application passes
          MaxStale    \* the leftovers in the buffer it goes on with

ASSUME BytesAssumption == {Junk, Tunnel} \cap (0 .. 255) = {} /\ Junk # Tunnel
ASSUME LengthsAssumption == Lengths \subseteq Nat

VARIABLES
  buf,      \* the contents of the application's linear_buffer
  op,       \* the operation under way and the read or write it waits for
  call,     \* what the application asked for
  stale,    \* the number of bytes in the buffer when it did
  overrun,  \* how many bytes the encoder wrote past the ones it had prepared
  asked,    \* what the operation wrote to the socket
  got,      \* what it has read of the answer
  inbox,    \* received and not read yet
  reply,    \* the whole of the proxy's answer
  unsent,   \* the length of the part of it that is still to come
  tunnel,   \* the bytes of the proxied connection that the proxy passed on
  hung_up,  \* the proxy has closed the connection
  last      \* the last completion

clientVars == <<buf, op, call, stale, overrun, asked, got, last>>
proxyVars == <<inbox, reply, unsent, tunnel, hung_up>>
socksVars == <<clientVars, proxyVars>>
allVars == <<connectVars, socksVars>>

NoOp == [kind |-> "none", pc |-> "idle", n |-> 0]
Call(cmd, names, port) == [cmd |-> cmd, names |-> names, port |-> port]
NoCall == Call(0, <<>>, 0)
Text(n) == [i \in 1 .. n |-> 97]
Junks(n) == [i \in 1 .. n |-> Junk]

-----------------------------------------------------------------------------
(* The packets.  A remote endpoint is the sequence of its address bytes.   *)

\* Mutant of Port: the bytes are swapped.
PortSwapped(p) == <<p % 256, p \div 256>>

\* The port, the high byte first.
Port(p) == <<p \div 256, p % 256>>

\* get_exec_packet_size(remote, remote_host, user_id), SOCKS 4a
v4_exec_packet_size(remote, host, user_id) ==
  IF host = <<>> /\ Len(remote) # 4 THEN 0
  ELSE 9 + Len(user_id) + (IF host = <<>> THEN 0 ELSE Len(host) + 1)

get_greet_packet_size(methods) ==
  IF Len(methods) > 255 THEN 0 ELSE Len(methods) + 2

get_login_packet_size(username, password) ==
  IF Len(username) > 255 \/ Len(password) > 255
    THEN 0 ELSE Len(username) + Len(password) + 3

\* get_exec_packet_size(cmd, remote, remote_host, port), SOCKS 5
get_exec_packet_size(remote, host) ==
  IF Len(host) > 255 THEN 0
  ELSE 6 + (IF host = <<>> THEN Len(remote) ELSE Len(host) + 1)

\* static_cast<uint8_t> of a size
Byte(n) == n % 256

encode_greet_packet(methods) == <<5, Byte(Len(methods))>> \o methods

encode_login_packet(username, password) ==
  <<1, Byte(Len(username))>> \o username \o <<Byte(Len(password))>> \o password

\* encode_exec_packet of SOCKS 5, which the SOCKS 4a operation calls as well
encode_exec_packet(cmd, remote, rport, host, port) ==
  IF host # <<>>
    THEN <<5, cmd, 0, 3, Byte(Len(host))>> \o host \o Port(port)
    ELSE <<5, cmd, 0, IF Len(remote) = 4 THEN 1 ELSE 4>> \o remote \o Port(rport)

\* What the encoder leaves in the size bytes that prepare() returned.
Packet(size, bytes) == SubSeq(bytes \o Junks(size), 1, size)

\* How much it writes past them: into the rest of the buffer's block, or past
\* that.  Nothing is encoded for an impossible packet.
Overrun(size, bytes) ==
  IF size = 0 \/ Len(bytes) <= size THEN 0 ELSE Len(bytes) - size

-----------------------------------------------------------------------------
(* The operations.  Each constructor encodes the packet into the buffer;   *)
(* the first invocation of operator() posts the failure of an impossible   *)
(* one, or starts to write everything that the buffer holds.  An           *)
(* impossible packet in a buffer that is not empty is not noticed: nothing *)
(* was prepared, and data() of such a view is SIZE_MAX bytes long.  That   *)
(* write runs away through the memory behind the buffer, and no more is    *)
(* said of it than that the system stops it at some point.                 *)

initiate(kind, args, size, bytes) ==
  LET packet == Packet(size, bytes) IN
  /\ op = NoOp /\ job.pc = "idle" /\ sock = "connected"
  /\ last.ec \in {"none", "never"} /\ last.kind \in {"none", "greet", "login"}
  /\ Len(buf) <= MaxStale
  /\ buf' = buf \o packet
  /\ op' = [kind |-> kind, n |-> 0,
            pc |-> IF packet # <<>> THEN "write" ELSE IF buf = <<>> THEN "post" ELSE "runaway"]
  /\ call' = args /\ stale' = Len(buf) /\ overrun' = Overrun(size, bytes)
  /\ asked' = <<>> /\ got' = <<>> /\ reply' = <<>>
  /\ UNCHANGED <<connectVars, inbox, unsent, tunnel, hung_up, last>>

\* async_execute(socket, cmd, remote, user_id, ...): the port is that of remote.
async_execute_v4(cmd, remote, rport, user_id) ==
  initiate("v4", Call(cmd, <<remote, user_id>>, rport),
           v4_exec_packet_size(remote, <<>>, user_id),
           encode_exec_packet(cmd, remote, rport, <<>>, 0))

\* async_execute(socket, cmd, host, port, user_id, ...): port is not passed on.
async_execute_v4a(cmd, host, port, user_id) ==
  initiate("v4", Call(cmd, <<host, user_id>>, port),
           v4_exec_packet_size(<<0, 0, 0, 0>>, host, user_id),
           encode_exec_packet(cmd, <<0, 0, 0, 0>>, 0, host, 0))

async_greet(methods) ==
  initiate("greet", Call(0, <<methods>>, 0),
           get_greet_packet_size(methods), encode_greet_packet(methods))

async_login(username, password) ==
  initiate("login", Call(0, <<username, password>>, 0),
           get_login_packet_size(username, password),
           encode_login_packet(username, password))

async_execute(cmd, remote, rport) ==
  initiate("exec", Call(cmd, <<remote>>, rport),
           get_exec_packet_size(remote, <<>>),
           encode_exec_packet(cmd, remote, rport, <<>>, 0))

async_execute_host(cmd, host, port) ==
  initiate("exec", Call(cmd, <<host>>, port),
           get_exec_packet_size(<<0, 0, 0, 0>>, host),
           encode_exec_packet(cmd, <<0, 0, 0, 0>>, 0, host, port))

complete(ec, method) ==
  /\ op' = NoOp
  /\ last' = [kind |-> op.kind, ec |-> ec, method |-> method]
  /\ call' = NoCall /\ stale' = 0 /\ overrun' = 0 /\ asked' = <<>>

\* The posted continuation of an operation without a packet.
posted ==
  /\ op.pc = "post"
  /\ complete("invalid_argument", 255)
  /\ UNCHANGED <<connectVars, buf, got, proxyVars>>

\* async_write has succeeded: the packet is consumed and the answer awaited.
FirstRead == [v4 |-> 8, greet |-> 2, login |-> 2, exec |-> 5]

written ==
  /\ op.pc = "write" /\ sock = "connected"
  /\ asked' = buf
  /\ buf' = Junks(FirstRead[op.kind])
  /\ op' = [op EXCEPT !.pc = "read", !.n = FirstRead[op.kind]]
  /\ UNCHANGED <<connectVars, call, stale, overrun, got, proxyVars, last>>

\* Mutant of io_fails: closing the socket does not end a read.
io_waits ==
  /\ \/ op.pc = "write" /\ (hung_up \/ sock # "connected")
     \/ op.pc \in {"read", "address"} /\ hung_up /\ Len(inbox) < op.n
     \/ op.pc = "runaway"
  /\ complete("io", 255)
  /\ inbox' = IF op.pc \in {"read", "address"} THEN <<>> ELSE inbox
  /\ UNCHANGED <<connectVars, buf, got, reply, unsent, tunnel, hung_up>>

\* async_write or async_read has failed, which every operator() tests first.
\* What a failed read has taken from the socket is lost.
io_fails ==
  /\ \/ op.pc = "write" /\ (hung_up \/ sock # "connected")
     \/ op.pc \in {"read", "address"}
        /\ (sock # "connected" \/ (hung_up /\ Len(inbox) < op.n))
     \/ op.pc = "runaway"
  /\ complete("io", 255)
  /\ inbox' = IF op.pc \in {"read", "address"} THEN <<>> ELSE inbox
  /\ UNCHANGED <<connectVars, buf, got, reply, unsent, tunnel, hung_up>>

\* async_read has read the n bytes it was asked for, in however many pieces they
\* came.
received ==
  /\ sock = "connected" /\ Len(inbox) >= op.n
  /\ got' = got \o SubSeq(inbox, 1, op.n)
  /\ inbox' = SubSeq(inbox, op.n + 1, Len(inbox))
  /\ UNCHANGED <<connectVars, reply, unsent, tunnel, hung_up>>

\* v4_exec_op::operator(), after the answer has been read
v4_answered ==
  /\ op.kind = "v4" /\ op.pc = "read" /\ received
  /\ buf' = <<>>
  /\ complete(IF inbox[1] # 0 THEN "invalid_version"
              ELSE CASE inbox[2] = 91 -> "generic"
                     [] inbox[2] = 92 -> "identd_not_reachable"
                     [] inbox[2] = 93 -> "login_failed"
                     [] OTHER -> "none", 255)

\* v5_greet_op::operator(), after the answer has been read
greet_answered ==
  /\ op.kind = "greet" /\ op.pc = "read" /\ received
  /\ buf' = <<>>
  /\ IF inbox[1] # 5 THEN complete("invalid_version", 255)
     ELSE IF inbox[2] = 255 THEN complete("no_acceptable_auth_method", 255)
     ELSE complete("none", inbox[2])

\* Mutant of login_answered: the answer stays in the buffer.
login_unconsumed ==
  /\ op.kind = "login" /\ op.pc = "read" /\ received
  /\ buf' = SubSeq(inbox, 1, 2)
  /\ complete(IF inbox[1] # 1 THEN "invalid_auth_version"
              ELSE IF inbox[2] # 0 THEN "login_failed" ELSE "none", 255)

\* v5_login_op::operator(), after the answer has been read
login_answered ==
  /\ op.kind = "login" /\ op.pc = "read" /\ received
  /\ buf' = <<>>
  /\ complete(IF inbox[1] # 1 THEN "invalid_auth_version"
              ELSE IF inbox[2] # 0 THEN "login_failed" ELSE "none", 255)

\* Mutant of ExecErrors: the last of them is missing.
ExecErrorsShort ==
  <<"none", "no_permission", "network_unreachable", "host_unreachable",
    "connection_refused", "timed_out", "command_not_supported">>

\* The errors of the SOCKS 5 status codes; any other one completes with the
\* error code of the read, which is none.
ExecErrors ==
  <<"none", "no_permission", "network_unreachable", "host_unreachable",
    "connection_refused", "timed_out", "command_not_supported",
    "address_family_not_supported">>

\* Mutant of AddressRest: the first byte of the address is read twice.
AddressAgain(address_type, first) ==
  CASE address_type = 1 -> 4
    [] address_type = 3 -> first
    [] address_type = 4 -> 16
    [] OTHER -> 5

\* size, how much of the address follows its first byte: unknown types keep the
\* size of the read before it.
AddressRest(address_type, first) ==
  CASE address_type = 1 -> 4 - 1
    [] address_type = 3 -> first
    [] address_type = 4 -> 16 - 1
    [] OTHER -> 5

\* v5_exec_op::operator(), after the first five bytes have been read
exec_answered ==
  /\ op.kind = "exec" /\ op.pc = "read" /\ received
  /\ \/ /\ inbox[1] # 5
        /\ complete("invalid_version", 255) /\ buf' = <<>>
     \/ /\ inbox[1] = 5 /\ inbox[2] # 0
        /\ complete(IF inbox[2] \in DOMAIN ExecErrors THEN ExecErrors[inbox[2]]
                    ELSE "none", 255)
        /\ buf' = <<>>
     \/ /\ inbox[1] = 5 /\ inbox[2] = 0
        /\ op' = [op EXCEPT !.pc = "address", !.n = AddressRest(inbox[4], inbox[5]) + 2]
        /\ buf' = Junks(op'.n)
        /\ UNCHANGED <<last, call, stale, overrun, asked>>

\* v5_exec_op::operator(), after the rest of the address and the port
exec_addressed ==
  /\ op.kind = "exec" /\ op.pc = "address" /\ received
  /\ buf' = <<>>
  /\ complete("none", 255)

-----------------------------------------------------------------------------
(* The proxy: what it sends is its own business, as is when it hangs up.   *)

Address(t, n) ==
  CASE t = 3 -> <<n>> \o Text(n)
    [] t = 4 -> Text(16)
    [] OTHER -> Text(4)

Replies(kind) ==
  CASE kind = "v4" -> {<<v, s>> \o Text(6) : v \in {0, 4}, s \in 90 .. 94}
    [] kind = "greet" -> {<<v, m>> : v \in {4, 5}, m \in {0, 2, 255}}
    [] kind = "login" -> {<<v, s>> : v \in {1, 5}, s \in {0, 1}}
    [] kind = "exec" ->
         {<<v, s, 0, t>> \o Address(t, n) \o Port(80) :
            v \in {4, 5}, s \in {0, 1, 8, 9}, t \in {1, 2, 3, 4}, n \in {0, 3}}

\* It decides on the answer to a request.
answers(r) ==
  /\ op.pc = "read" /\ reply = <<>> /\ ~hung_up
  /\ reply' = r /\ unsent' = Len(r)
  /\ UNCHANGED <<connectVars, clientVars, inbox, tunnel, hung_up>>

\* A piece of its answer arrives, after which n bytes are still to come.
sends(n) ==
  /\ sock = "connected" /\ ~hung_up /\ n \in 0 .. unsent - 1
  /\ inbox' = inbox \o SubSeq(reply, Len(reply) - unsent + 1, Len(reply) - n)
  /\ unsent' = n
  /\ UNCHANGED <<connectVars, clientVars, reply, tunnel, hung_up>>

\* The answer was the last byte the proxy itself had to say.
passes_on ==
  /\ ~hung_up /\ unsent = 0 /\ tunnel = <<>> /\ sock = "connected"
  /\ reply # <<>> /\ "exec" \in {op.kind, last.kind} /\ op.kind \in {"exec", "none"}
  /\ reply[2] = 0
  /\ tunnel' = <<Tunnel>>
  /\ inbox' = Append(inbox, Tunnel)
  /\ UNCHANGED <<connectVars, clientVars, reply, unsent, hung_up>>

\* It closes the connection, perhaps in the middle of its answer.
hangs_up ==
  /\ sock = "connected" /\ ~hung_up
  /\ hung_up' = TRUE
  /\ UNCHANGED <<connectVars, clientVars, inbox, reply, unsent, tunnel>>

-----------------------------------------------------------------------------
\* connect() has succeeded, perhaps with the endpoint of the old connection.
ConnectedAnew == job.pc = "idle" /\ job'.pc = "idle" /\ reported'.ec = "none"

\* A connection that was made anew, or closed, has nothing to read.
Reconnecting ==
  /\ op = NoOp /\ ConnectNext
  /\ IF peer' = peer /\ sock' = sock /\ ~ConnectedAnew
       THEN UNCHANGED socksVars
       ELSE /\ inbox' = <<>> /\ reply' = <<>> /\ unsent' = 0 /\ tunnel' = <<>>
            /\ hung_up' = FALSE /\ got' = <<>>
            /\ last' = [kind |-> "none", ec |-> "never", method |-> 255]
            /\ UNCHANGED <<buf, op, call, stale, overrun, asked>>

\* The application discards what a failed operation left in its buffer.
Clearing ==
  /\ op = NoOp /\ buf # <<>>
  /\ buf' = <<>>
  /\ UNCHANGED <<connectVars, op, call, stale, overrun, asked, got, proxyVars, last>>

\* The application closes the socket under an operation.
Closing == op # NoOp /\ close /\ UNCHANGED socksVars

SocksInit ==
  /\ ConnectInit
  /\ buf = <<>> /\ op = NoOp /\ call = NoCall /\ stale = 0 /\ overrun = 0
  /\ asked = <<>> /\ got = <<>>
  /\ inbox = <<>> /\ reply = <<>> /\ unsent = 0 /\ tunnel = <<>>
  /\ hung_up = FALSE
  /\ last = [kind |-> "none", ec |-> "never", method |-> 255]

Remotes == {Text(4), Text(16)}

Calls ==
  \/ \E r \in Remotes, n \in Lengths \ {256} : async_execute_v4(1, r, 80, Text(n))
  \/ \E h, n \in Lengths \ {0, 256} : async_execute_v4a(1, Text(h), 80, Text(n))
  \/ \E m \in {<<>>, <<0>>, <<0, 2>>, [i \in 1 .. 256 |-> 0]} : async_greet(m)
  \/ \E u, p \in Lengths : async_login(Text(u), Text(p))
  \/ \E r \in Remotes, c \in {1, 2} : async_execute(c, r, 443)
  \/ \E h \in Lengths : async_execute_host(1, Text(h), 443)

Handlers ==
  \/ posted \/ written \/ io_fails
  \/ v4_answered \/ greet_answered \/ login_answered
  \/ exec_answered \/ exec_addressed

Proxy ==
  \/ op.pc = "read" /\ \E r \in Replies(op.kind) : answers(r)
  \/ \E n \in {0, 1, Len(reply) - 5} : sends(n)
  \/ passes_on \/ hangs_up

SocksNext == Reconnecting \/ Closing \/ Clearing \/ Calls \/ Handlers \/ Proxy

\* What asio promises of the operations it was handed: a resolver, a socket and
\* a posted function call back.
SocksSpec ==
  /\ SocksInit /\ [][SocksNext]_allVars
  /\ WF_allVars(Handlers)
  /\ WF_allVars(Reconnecting /\ ConnectStep)

-----------------------------------------------------------------------------
\* The buffer holds bytes, the inbox bytes of the proxy or of the tunnel, and
\* the operation waits for no more than the longest part of an answer.
TypeOK ==
  /\ sock \in {"closed", "open", "connected"}
  /\ op.kind \in {"none", "v4", "greet", "login", "exec"}
  /\ op.pc \in {"idle", "post", "write", "runaway", "read", "address"} /\ op.n \in 0 .. 257
  /\ \A i \in 1 .. Len(buf) : buf[i] \in (0 .. 255) \cup {Junk}
  /\ inbox \in Seq((0 .. 255) \cup {Tunnel})

\* What a SOCKS 5 server makes of a request.
Decoded(kind, p) ==
  LET Sized(i) == SubSeq(p, i + 1, i + p[i])
      end == CASE p[4] = 1 -> 8 [] p[4] = 3 -> 5 + p[5] [] p[4] = 4 -> 20
  IN CASE kind = "greet" -> Call(0, <<Sized(2)>>, 0)
       [] kind = "login" -> Call(0, <<Sized(2), Sized(3 + p[2])>>, 0)
       [] kind = "exec" -> Call(p[2], <<IF p[4] = 3 THEN Sized(5) ELSE SubSeq(p, 5, end)>>,
                                p[end + 1] * 256 + p[end + 2])

\* A SOCKS 5 request that no leftovers precede in the buffer says to the proxy
\* what the application asked for, in every one of its bytes, however long the
\* names are; the name of no characters is the exception.  No packet is longer than
\* the memory prepared for it, but that of SOCKS 4 with an IPv4 endpoint and an
\* empty user id, which is encoded as one of SOCKS 5: ten bytes in nine.
RequestsDecode ==
  /\ asked # <<>> /\ stale = 0 /\ op.kind \in {"greet", "login", "exec"} =>
       \/ Decoded(op.kind, asked) = call
       \/ op.kind = "exec" /\ call.names = << <<>> >>
  /\ overrun # 0 => op.kind = "v4" /\ call.names[2] = <<>> /\ overrun = 1

\* Only a failed read or write leaves bytes in the application's buffer, so
\* that after anything else the next request is sent alone.
BufferEmptied ==
  /\ TypeOK
  /\ op = NoOp /\ last.ec \notin {"io", "never"} => buf = <<>>

\* The proxy has granted the command, with a reply that is as it should be.
Granted == reply # <<>> /\ reply[1] = 5 /\ reply[2] = 0 /\ reply[4] \in {1, 3, 4}

\* After a granted command the socket delivers the proxied connection from its
\* first byte on: the operation has read all of the reply and no more.
TunnelIntact ==
  op = NoOp /\ last.kind = "exec" /\ last.ec = "none" /\ sock = "connected" /\ Granted =>
    inbox = tunnel

\* An operation that succeeds has read an answer of its own protocol's version,
\* all of it, in whatever pieces it came and whenever the connection ended, and
\* that answer does not refuse.  The exceptions are what the switch statements
\* have no case for: refusals with another code than 91 to 93 in SOCKS 4 and 2
\* to 8 in SOCKS 5 pass for success (in SOCKS 5 after the first five bytes), as
\* does a reply with an unknown type of address, whose end is a guess.
NoFalseSuccess ==
  last.ec = "none" /\ op = NoOp =>
    CASE last.kind = "v4" -> got = reply /\ got[1] = 0 /\ got[2] \notin 91 .. 93
      [] last.kind = "greet" -> got = reply /\ got = <<5, last.method>> /\ last.method # 255
      [] last.kind = "login" -> got = reply /\ got = <<1, 0>>
      [] last.kind = "exec" ->
           /\ got[1] = 5 /\ got[2] \notin 2 .. 8
           /\ got[2] = 0 /\ got[4] \in {1, 3, 4} => got = reply

\* What has been started ends: a connect, unless nobody answers, and an operation
\* on a socket that is closed or whose proxy hangs up.  Nothing waits for ever
\* for an answer that cannot come.
OpsEnd ==
  /\ (job.pc = "resolving") ~> (job.pc = "idle")
  /\ (op # NoOp /\ (sock = "closed" \/ hung_up)) ~> (op = NoOp)

=============================================================================
