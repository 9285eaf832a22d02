---------------------------- MODULE FileHandles ----------------------------
(***************************************************************************)
(* The layers above posix_file_ops: file_handle (not owning),               *)
(* unique_file_handle (owning), basic_file over thread_pool_file_service    *)
(* (owning, its synchronous operations), and the functions duplicate, open, *)
(* read_file and write_file.                                                *)
(*                                                                          *)
(* handle[o] is the descriptor object o holds.  A Raw object is a           *)
(* file_handle the program took out of an owner with release() and now owns *)
(* by hand.  One thread uses the objects; the threads of Callers run        *)
(* read_file and write_file, one system call at a time, next to it.         *)
(* Objects are not safe to share: the program does not touch an object      *)
(* while a caller reads from it.                                            *)
(***************************************************************************)
EXTENDS PosixFileOps

CONSTANTS Uniques,   \* unique_file_handle objects
          Files,     \* basic_file objects
          Raws,      \* file_handle objects that came from release()
          Callers    \* threads inside read_file or write_file

Objects == Uniques \cup Files \cup Raws

\* Objects of different types are different objects; threads and -1 are none.
ASSUME ObjectsAssumption ==
  /\ Uniques \cap Files = {} /\ Uniques \cap Raws = {} /\ Files \cap Raws = {}
  /\ Callers \cap Objects = {} /\ None \notin Objects

VARIABLES k,         \* the kernel
          handle,    \* handle_ of every object
          call       \* what each caller is doing

vars == <<k, handle, call>>

\* A call: its function, the descriptor its own unique_file_handle holds or the
\* object it was lent, how many bytes are wanted, the bytes moved so far and,
\* for the properties, whether nobody else changed file or position since it
\* began; once somebody did, only the number of bytes is kept.
Idle == [op |-> "none", pc |-> "idle", fd |-> None, from |-> None, want |-> 0,
         bytes |-> <<>>, ec |-> "ok", alone |-> TRUE]
Blurred(bytes) == [i \in DOMAIN bytes |-> Hole]

Lent(o) == \E t \in Callers : call[t].from = o
Owned(o) == IF o \in Callers THEN call[o].fd ELSE handle[o]
Owners == Objects \cup Callers

-----------------------------------------------------------------------------
\* file_handle: every member calls its posix_file_ops function on handle_.
handle_position(h) == seek(k, h, "from_current", 0)
handle_seek(h, origin, offset) == seek(k, h, origin, offset)
handle_size(h) == size(k, h)
handle_truncate(h, n) == set_size(k, h, n)
handle_read_some(h, total) == readv(k, h, total)
handle_write_some(h, bytes) == writev(k, h, bytes)
handle_read_some_at(h, offset, total) == preadv(k, h, total, offset)
handle_write_some_at(h, offset, bytes) == pwritev(k, h, bytes, offset)

\* file_handle::close on an empty handle does nothing; handle_ is -1 afterwards
\* whatever the system call said.
handle_close(h) == IF h = None THEN {Out(k, "ok", 0)} ELSE close(k, h)

\* unique_file_handle: handle_ is a file_handle.
unique_position(h) == handle_position(h)
unique_seek(h, origin, offset) == handle_seek(h, origin, offset)
unique_size(h) == handle_size(h)
unique_truncate(h, n) == handle_truncate(h, n)
unique_read_some(h, total) == handle_read_some(h, total)
unique_write_some(h, bytes) == handle_write_some(h, bytes)
unique_read_some_at(h, offset, total) == handle_read_some_at(h, offset, total)
unique_write_some_at(h, offset, bytes) == handle_write_some_at(h, offset, bytes)
unique_close(h) == handle_close(h)

\* thread_pool_file_service: the implementation's handle_ is a file_handle.
service_position(h) == handle_position(h)
service_seek(h, origin, offset) == handle_seek(h, origin, offset)
service_size(h) == handle_size(h)
service_truncate(h, n) == handle_truncate(h, n)
service_read_some(h, total) == handle_read_some(h, total)
service_write_some(h, bytes) == handle_write_some(h, bytes)
service_read_some_at(h, offset, total) == handle_read_some_at(h, offset, total)
service_write_some_at(h, offset, bytes) == handle_write_some_at(h, offset, bytes)
service_close(h) == handle_close(h)

\* basic_file: holder_ keeps the service and the implementation.
file_position(h) == service_position(h)
file_seek(h, origin, offset) == service_seek(h, origin, offset)
file_size(h) == service_size(h)
file_truncate(h, n) == service_truncate(h, n)
file_read_some(h, total) == service_read_some(h, total)
file_write_some(h, bytes) == service_write_some(h, bytes)
file_read_some_at(h, offset, total) == service_read_some_at(h, offset, total)
file_write_some_at(h, offset, bytes) == service_write_some_at(h, offset, bytes)
file_close(h) == service_close(h)

-----------------------------------------------------------------------------
\* What the kernel holds that a caller could notice: the file, and the position
\* of the description it uses.
Seen(kk, fd) == <<kk.exists, kk.data,
                  IF fd \in Fds /\ kk.fd[fd] # None THEN kk.desc[kk.fd[fd]].pos ELSE 0>>
Noticed(c, kk) ==
  LET fd == IF c.from = None THEN c.fd ELSE handle[c.from] IN
  IF c.pc = "idle" \/ Seen(kk, fd) = Seen(k, fd) THEN c
  ELSE [c EXCEPT !.alone = FALSE, !.bytes = Blurred(@)]

\* The program's thread makes a call whose outcomes are R; retry loops are over
\* when it returns.
Done(R) == \E r \in R : /\ r.ec # "again"
                        /\ k' = r.k
                        /\ call' = [t \in Callers |-> Noticed(call[t], r.k)]
Sync(o, R) == ~Lent(o) /\ Done(R) /\ UNCHANGED handle

\* The same operation at the layer object o belongs to.
ByLayer(o, inFile, inUnique, inHandle) ==
  IF o \in Files THEN inFile ELSE IF o \in Uniques THEN inUnique ELSE inHandle

Seeks == {<<"from_begin", 1>>, <<"from_current", -1>>, <<"from_end", 0>>}
Sizes == {0, SizeMax}                        \* bytes a program reads
Buffers == {[i \in 1..n |-> 1] : n \in Sizes} \* and writes

position(o) == LET h == handle[o] IN
  Sync(o, ByLayer(o, file_position(h), unique_position(h), handle_position(h)))
Seek(o) == LET h == handle[o] IN \E s \in Seeks :
  Sync(o, ByLayer(o, file_seek(h, s[1], s[2]), unique_seek(h, s[1], s[2]),
                  handle_seek(h, s[1], s[2])))
Size(o) == LET h == handle[o] IN
  Sync(o, ByLayer(o, file_size(h), unique_size(h), handle_size(h)))
truncate(o) == LET h == handle[o] n == 1 IN
  Sync(o, ByLayer(o, file_truncate(h, n), unique_truncate(h, n), handle_truncate(h, n)))
read_some(o) == LET h == handle[o] IN \E total \in Sizes :
  Sync(o, ByLayer(o, file_read_some(h, total), unique_read_some(h, total),
                  handle_read_some(h, total)))
write_some(o) == LET h == handle[o] IN \E b \in Buffers :
  Sync(o, ByLayer(o, file_write_some(h, b), unique_write_some(h, b),
                  handle_write_some(h, b)))
read_some_at(o) == LET h == handle[o] at == 1 total == SizeMax IN
  Sync(o, ByLayer(o, file_read_some_at(h, at, total), unique_read_some_at(h, at, total),
                  handle_read_some_at(h, at, total)))
write_some_at(o) == LET h == handle[o] at == 1 b == <<1>> IN
  Sync(o, ByLayer(o, file_write_some_at(h, at, b), unique_write_some_at(h, at, b),
                  handle_write_some_at(h, at, b)))
Close(o) == LET h == handle[o] IN
  /\ ~Lent(o)
  /\ Done(ByLayer(o, file_close(h), unique_close(h), handle_close(h)))
  /\ handle' = [handle EXCEPT ![o] = None]

-----------------------------------------------------------------------------
\* u = duplicate(handle) and u = open(...): the temporary's descriptor is moved
\* into u, whose own descriptor is closed first.  When that close fails the
\* assignment throws and the temporary's destructor closes the new descriptor.
Assigned(u, r) ==
  LET old == handle[u]
      shut == IF old = None THEN {Out(r.k, "ok", 0)} ELSE close(r.k, old) IN
  \E s \in shut :
    \/ s.ec = "ok" /\ k' = s.k /\ handle' = [handle EXCEPT ![u] = r.ret]
    \/ /\ s.ec # "ok"
       /\ k' = IF r.ret = None THEN s.k ELSE Unlinked(s.k, r.ret)
       /\ handle' = [handle EXCEPT ![u] = None]

\* The arguments a program opens with: every disposition for reading and writing,
\* one without access flags, two dispositions at once, and requested attributes.
OpenArgs ==
  {open_args(c \cup Access, FALSE) : c \in {{f} : f \in CreationFlags}}
  \cup {open_args(f, FALSE) : f \in {{"truncate_existing"},
                                    {"create_new", "open_always", "access_read"}}}
  \cup {open_args({"create_always"} \cup Access, TRUE)}

Dup(u, o) ==
  /\ ~Lent(u) /\ ~Lent(o)
  /\ \E r \in duplicate(k, handle[o]) : Assigned(u, r)
  /\ call' = [t \in Callers |-> Noticed(call[t], k')]

OpenUnique(u, args) ==
  /\ ~Lent(u)
  /\ \E r \in open(k, args) : r.ec # "again" /\ Assigned(u, r)
  /\ call' = [t \in Callers |-> Noticed(call[t], k')]

\* basic_file::open: an open file is left alone (already_open).
OpenFile(f, args) ==
  /\ ~Lent(f) /\ handle[f] = None
  /\ \E r \in open(k, args) :
       /\ r.ec # "again" /\ k' = r.k
       /\ handle' = [handle EXCEPT ![f] = r.ret]
       /\ call' = [t \in Callers |-> Noticed(call[t], r.k)]

\* Move construction and move assignment of unique_file_handle.
move(u, v) ==
  /\ ~Lent(u) /\ ~Lent(v)
  /\ \E s \in unique_close(handle[u]) :
       /\ k' = s.k
       /\ handle' = IF s.ec # "ok" THEN [handle EXCEPT ![u] = None]
                    ELSE [handle EXCEPT ![u] = IF u = v THEN None ELSE handle[v],
                                        ![v] = None]
       /\ call' = [t \in Callers |-> Noticed(call[t], s.k)]

release(u, h) ==
  /\ ~Lent(u) /\ handle[h] = None
  /\ handle' = [handle EXCEPT ![u] = None, ![h] = handle[u]]
  /\ UNCHANGED <<k, call>>

\* reset takes the new handle over only if the old one closed without error.
reset(u, h) ==
  /\ ~Lent(u) /\ ~Lent(h)
  /\ \E s \in unique_close(handle[u]) :
       /\ k' = s.k
       /\ handle' = IF s.ec = "ok" THEN [handle EXCEPT ![u] = handle[h], ![h] = None]
                    ELSE [handle EXCEPT ![u] = None]
       /\ call' = [t \in Callers |-> Noticed(call[t], s.k)]

\* basic_file(ctx, handle): assign to an implementation that holds nothing.
assign(f, h) ==
  /\ handle[f] = None /\ ~Lent(h)
  /\ handle' = [handle EXCEPT ![f] = handle[h], ![h] = None]
  /\ UNCHANGED <<k, call>>

-----------------------------------------------------------------------------
\* read_file and write_file.  Begin chooses an overload: by name into a
\* container or into buffers, from an open handle, or write_file.
Begin(t, c) ==
  /\ call[t].pc = "idle"
  /\ call' = [call EXCEPT ![t] = c]
  /\ UNCHANGED <<k, handle>>

ByName == [Idle EXCEPT !.op = "read_file", !.pc = "open"]
read_file(t) == Begin(t, ByName)
read_file_buffers(t) == Begin(t, [ByName EXCEPT !.op = "read_buffers", !.want = 1])
AtStart(o) == handle[o] # None /\ k.desc[k.fd[handle[o]]].pos = 0
read_file_handle(t) == \E o \in Uniques :
  AtStart(o) /\ Begin(t, [ByName EXCEPT !.pc = "size", !.from = o])
read_file_handle_buffers(t) == \E o \in Raws :
  AtStart(o) /\ Begin(t, [ByName EXCEPT !.op = "read_buffers", !.pc = "read",
                                        !.from = o, !.want = SizeMax])
write_file(t) == \E n \in 1..SizeMax :
  Begin(t, [ByName EXCEPT !.op = "write_file", !.want = n])

\* One system call of thread t with outcome r; "again" repeats it.
Step(t, pc, R, Next(_)) ==
  /\ call[t].pc = pc
  /\ \E r \in R : /\ k' = r.k
                  /\ call' = [u \in Callers |->
                       IF u # t THEN Noticed(call[u], r.k)
                       ELSE IF r.ec = "again" THEN call[t] ELSE Next(r)]
  /\ UNCHANGED handle

Using(t) == IF call[t].from = None THEN call[t].fd ELSE handle[call[t].from]
\* The function ends with ec; what a failed call leaves in the buffers is not kept.
Ended(c, ec) ==
  IF ec = "ok" THEN [c EXCEPT !.pc = "done", !.fd = None, !.from = None]
  ELSE [Idle EXCEPT !.pc = "done", !.ec = ec]
Finish(c, ec) == IF c.fd = None THEN Ended(c, ec) ELSE [c EXCEPT !.ec = ec, !.pc = "close"]

KeepsOld(c) == {"access_write", "access_read", "open_always"}  \* mutant of CallFlags
CallFlags(c) == IF c.op = "write_file" THEN {"access_write", "create_always"}
                ELSE {"access_read", "open_existing"}
AfterOpen(c, r) ==
  IF r.ec # "ok" THEN Ended(c, r.ec)
  ELSE [c EXCEPT !.fd = r.ret,
                 !.pc = IF c.op = "write_file" THEN "write"
                        ELSE IF c.want = 0 THEN "size" ELSE "read"]
call_open(t) == Step(t, "open", open(k, open_args(CallFlags(call[t]), FALSE)),
                     LAMBDA r : AfterOpen(call[t], r))

\* The container overloads ask for the size first, which may be more than the
\* container can hold; an empty file is not read.
SizeForContainer(h) ==
  handle_size(h) \cup {Out(k, "message_size", 0) :
                        r \in {r \in handle_size(h) : r.ec = "ok" /\ r.ret = SizeMax}}
AfterSize(c, r) == IF r.ec # "ok" \/ r.ret = 0 THEN Finish(c, r.ec)
                   ELSE [c EXCEPT !.want = r.ret, !.pc = "read"]
call_size(t) == Step(t, "size", SizeForContainer(Using(t)),
                     LAMBDA r : AfterSize(call[t], r))

Progress(c, bytes) ==
  LET b == c.bytes \o (IF c.alone THEN bytes ELSE Blurred(bytes)) IN
  IF Len(b) = c.want THEN Finish([c EXCEPT !.bytes = b], "ok") ELSE [c EXCEPT !.bytes = b]

\* asio::read: read_some until the buffers are full or there is an error.
AfterReadEof(c, r) ==   \* mutant: the end of the file ends the loop quietly
  IF r.ec = "eof" THEN Finish(c, "ok")
  ELSE IF r.ec # "ok" THEN Finish(c, r.ec) ELSE Progress(c, r.ret)
AfterRead(c, r) == IF r.ec # "ok" THEN Finish(c, r.ec) ELSE Progress(c, r.ret)
call_read(t) == Step(t, "read", handle_read_some(Using(t), call[t].want - Len(call[t].bytes)),
                     LAMBDA r : AfterRead(call[t], r))

\* asio::write: write_some until everything is written or there is an error.
AfterWrite(c, r) ==
  IF r.ec # "ok" THEN Finish(c, r.ec) ELSE Progress(c, [i \in 1..r.ret |-> 1])
call_write(t) == Step(t, "write",
                      unique_write_some(call[t].fd,
                        [i \in 1..(call[t].want - Len(call[t].bytes)) |-> 1]),
                      LAMBDA r : AfterWrite(call[t], r))

\* ~unique_file_handle at the end of the function: its error is swallowed.
call_close(t) == Step(t, "close", unique_close(call[t].fd),
                      LAMBDA r : Ended(call[t], call[t].ec))

Return(t) ==
  /\ call[t].pc = "done"
  /\ call' = [call EXCEPT ![t] = Idle]
  /\ UNCHANGED <<k, handle>>

-----------------------------------------------------------------------------
Init == /\ k = Booted
        /\ handle = [o \in Objects |-> None]
        /\ call = [t \in Callers |-> Idle]

Program ==
  \/ \E o \in Objects : \/ position(o) \/ Seek(o) \/ Size(o) \/ truncate(o)
                        \/ read_some(o) \/ write_some(o)
                        \/ read_some_at(o) \/ write_some_at(o) \/ Close(o)
  \/ \E u \in Uniques, o \in Objects : Dup(u, o)
  \/ \E u \in Uniques, args \in OpenArgs : OpenUnique(u, args)
  \/ \E f \in Files, args \in OpenArgs : OpenFile(f, args)
  \/ \E u \in Uniques, v \in Uniques : move(u, v)
  \/ \E u \in Uniques, h \in Raws : release(u, h) \/ reset(u, h)
  \/ \E f \in Files, h \in Raws : assign(f, h)

CallStep(t) == call_open(t) \/ call_size(t) \/ call_read(t) \/ call_write(t) \/ call_close(t)

\* Returning is a step of the caller alone: it is taken before anybody else moves.
Next == \/ (\A t \in Callers : call[t].pc # "done") /\ Program
        \/ \E t \in Callers : \/ read_file(t) \/ read_file_buffers(t)
                              \/ read_file_handle(t) \/ read_file_handle_buffers(t)
                              \/ write_file(t) \/ CallStep(t) \/ Return(t)

\* A thread inside a call keeps running.
Spec == Init /\ [][Next]_vars /\ \A t \in Callers : WF_vars(CallStep(t))

-----------------------------------------------------------------------------
Call == [op : {"none", "read_file", "read_buffers", "write_file"},
         pc : {"idle", "open", "size", "read", "write", "close", "done"},
         fd : Fds \cup {None}, from : Objects \cup {None}, want : 0..SizeMax,
         bytes : BoundedSeq({Hole, 1}, SizeMax),
         ec : {"ok", "EIO", "eof", "EBADF", "EMFILE", "ENOENT", "ENOSPC", "message_size"},
         alone : BOOLEAN]

\* The kernel, the handles and the calls are well formed; a call fails only
\* with the errors its system calls can report.
TypeOK == /\ k \in Kernel
          /\ handle \in [Objects -> Fds \cup {None}]
          /\ call \in [Callers -> Call]

\* Every open descriptor of the process has exactly one owner, and no owner
\* holds a descriptor that is closed (and that the kernel would hand to
\* somebody else): nothing leaks and nothing is closed twice, whatever fails.
OwnedOnce ==
  /\ TypeOK
  /\ \A fd \in Fds : k.fd[fd] # None <=> \E o \in Owners : Owned(o) = fd
  /\ \A o, p \in Owners : Owned(o) = Owned(p) /\ Owned(o) # None => o = p

\* A call that reports success did what its documentation says if nobody else
\* changed the file meanwhile: read_file returns the file, or exactly as many
\* leading bytes as the buffers hold; write_file leaves only its bytes there.
CallsExact == \A t \in Callers : LET c == call[t] IN
  c.pc = "done" /\ c.ec = "ok" /\ c.alone =>
    IF c.op = "write_file" THEN k.data = [i \in 1..c.want |-> 1]
    ELSE IsPrefix(c.bytes, k.data) /\ (c.op = "read_file" => c.bytes = k.data)

\* Whatever others do to the file meanwhile, a read_file that succeeds has filled
\* all of its buffers: a file that shrank is reported as eof.
NothingUninitialised == \A t \in Callers : LET c == call[t] IN
  c.pc = "done" /\ c.ec = "ok" /\ c.op # "write_file" => Len(c.bytes) = c.want

\* Every read_file and write_file returns.
CallsReturn == \A t \in Callers : call[t].pc # "idle" ~> call[t].pc = "done"
=============================================================================
