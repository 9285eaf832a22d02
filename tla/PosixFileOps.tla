---------------------------- MODULE PosixFileOps ----------------------------
(***************************************************************************)
(* detail/impl/posix_file_ops.cpp: the wrappers around the POSIX calls that *)
(* open, close, duplicate, position, resize, read and write a file.         *)
(*                                                                          *)
(* A kernel k is a record: fd maps the open descriptors to open file        *)
(* descriptions, desc gives a description its position and access, exists   *)
(* and data are the one file of the model, and trouble is how many more     *)
(* system calls fail (an I/O error or a signal).  Every operation is the    *)
(* set of its outcomes [k, ec, ret]: the kernel after it, the error code    *)
(* and the returned value (the bytes, for a read).  The outcome "again" is  *)
(* a pass of a retry loop that was interrupted by a signal.                 *)
(***************************************************************************)
EXTENDS Integers, Sequences, FiniteSets, SequencesExt

CONSTANTS Fds,          \* the descriptors of the process: RLIMIT_NOFILE
          SizeMax,      \* the largest file of the model
          MaxTrouble    \* system calls that fail or are interrupted

ASSUME FdsAssumption == Fds \subseteq Nat /\ IsFiniteSet(Fds)
ASSUME SizeMaxAssumption == SizeMax \in Nat \ {0} /\ MaxTrouble \in Nat

None == -1              \* handle_type -1
Hole == 0               \* a byte never written

Access == {"access_read", "access_write"}
CreationFlags == {"create_new", "create_always", "open_existing",
                  "open_always", "truncate_existing"}

Kernel == [fd : [Fds -> Fds \cup {None}],
           desc : [Fds -> [pos : 0..SizeMax, access : SUBSET Access]],
           exists : BOOLEAN, data : BoundedSeq({Hole, 1}, SizeMax),
           trouble : 0..MaxTrouble]

Booted == [fd |-> [f \in Fds |-> None],
           desc |-> [d \in Fds |-> [pos |-> 0, access |-> {}]],
           exists |-> FALSE, data |-> <<>>, trouble |-> MaxTrouble]

Out(k, ec, ret) == [k |-> k, ec |-> ec, ret |-> ret]

\* set_error(ec, errno) after a call that failed though its arguments were right.
set_error(k) == IF k.trouble = 0 THEN {}
                ELSE {Out([k EXCEPT !.trouble = @ - 1], "EIO", 0)}

\* errno is EINTR and the wrapper's loop makes the call again.
interrupted(k) == {[r EXCEPT !.ec = "again"] : r \in set_error(k)}

Usable(k, fd, access) ==
  fd \in Fds /\ k.fd[fd] # None /\ access \subseteq k.desc[k.fd[fd]].access
EBADF(k) == {Out(k, "EBADF", 0)}

FreeFds(k) == {f \in Fds : k.fd[f] = None}
LeastOf(S) == CHOOSE x \in S : \A y \in S : x <= y
FreeDesc(k) == LeastOf(Fds \ {k.fd[f] : f \in Fds})

-----------------------------------------------------------------------------
\* is_valid(open_flags): the creation dispositions exclude each other.
is_valid(flags) == Cardinality(flags \cap CreationFlags) <= 1

\* parse_open_flags: the first disposition that is set, and the access mode;
\* with no access flag at all the mode is 0, which is O_RDONLY.
parse_open_flags(flags) ==
  [native |-> CASE "create_new" \in flags -> {"O_CREAT", "O_EXCL"}
                [] "create_always" \in flags -> {"O_CREAT", "O_TRUNC"}
                [] "open_always" \in flags -> {"O_CREAT"}
                [] "truncate_existing" \in flags -> {"O_TRUNC"}
                [] OTHER -> {},
   access |-> IF flags \cap Access = {} THEN {"access_read"} ELSE flags \cap Access]

\* open_args(flags, perms, attrs): native_flags_ is -1 when the flags are invalid.
open_args(flags, attrs) ==
  [valid |-> is_valid(flags), flags |-> parse_open_flags(flags), attrs |-> attrs]

\* What ::open does once it succeeds.  O_TRUNC on a read-only descriptor is
\* unspecified: the file is truncated or left alone.
Opened(k, p) ==
  LET fd == LeastOf(FreeFds(k)) IN
  {[k EXCEPT !.fd[fd] = FreeDesc(k),
             !.desc[FreeDesc(k)] = [pos |-> 0, access |-> p.access],
             !.exists = TRUE,
             !.data = IF "O_TRUNC" \in p.native /\ trunc THEN <<>> ELSE @] :
     trunc \in IF "access_write" \in p.access THEN {TRUE} ELSE BOOLEAN}

\* The descriptor goes; with the last one the open file description goes too.
Unlinked(k, fd) ==
  LET n == [k EXCEPT !.fd[fd] = None] IN
  IF \E f \in Fds : n.fd[f] = k.fd[fd] THEN n
  ELSE [n EXCEPT !.desc[k.fd[fd]] = Booted.desc[fd]]

\* Where the platform has file flags, requested attributes are set after the
\* file is open; when that fails the descriptor is closed again.
open(k, args) ==
  LET p == args.flags
      fd == LeastOf(FreeFds(k)) IN
  IF ~args.valid THEN {Out(k, "EINVAL", None)}
  ELSE IF k.exists /\ "O_EXCL" \in p.native THEN {Out(k, "EEXIST", None)}
  ELSE IF ~k.exists /\ "O_CREAT" \notin p.native THEN {Out(k, "ENOENT", None)}
  ELSE IF FreeFds(k) = {} THEN {Out(k, "EMFILE", None)}
  ELSE {Out(n, "ok", fd) : n \in Opened(k, p)} \cup interrupted(k)
       \cup (IF args.attrs
             THEN {Out(Unlinked(r.k, fd), r.ec, None) :
                     r \in UNION {set_error(n) : n \in Opened(k, p)}}
             ELSE {})

close_retried(k, fd) ==  \* mutant: EINTR repeats the call
  IF ~Usable(k, fd, {}) THEN EBADF(k)
  ELSE LET n == Unlinked(k, fd) IN {Out(n, "ok", 0)} \cup interrupted(n)

\* By the time close() returns the descriptor is gone, also when it reports an
\* error or was interrupted: the call is never repeated.
close(k, fd) ==
  IF ~Usable(k, fd, {}) THEN EBADF(k)
  ELSE LET n == Unlinked(k, fd) IN {Out(n, "ok", 0)} \cup set_error(n)

duplicate(k, fd) ==
  IF ~Usable(k, fd, {}) THEN {Out(k, "EBADF", None)}
  ELSE IF FreeFds(k) = {} THEN {Out(k, "EMFILE", None)}
  ELSE {Out([k EXCEPT !.fd[LeastOf(FreeFds(k))] = k.fd[fd]], "ok",
            LeastOf(FreeFds(k)))}

-----------------------------------------------------------------------------
size(k, fd) ==
  IF ~Usable(k, fd, {}) THEN EBADF(k)
  ELSE {Out(k, "ok", Len(k.data))} \cup set_error(k)

\* size(fd, new_size, ec): ftruncate; growing fills with zero bytes.
Resized(data, n) == [i \in 1..n |-> IF i <= Len(data) THEN data[i] ELSE Hole]
set_size(k, fd, n) ==
  IF ~Usable(k, fd, {"access_write"}) THEN EBADF(k)
  ELSE {Out([k EXCEPT !.data = Resized(@, n)], "ok", 0)} \cup set_error(k)

\* Positions beyond SizeMax are outside the model.
seek(k, fd, origin, offset) ==
  IF ~Usable(k, fd, {}) THEN EBADF(k)
  ELSE LET base == CASE origin = "from_begin" -> 0
                     [] origin = "from_current" -> k.desc[k.fd[fd]].pos
                     [] origin = "from_end" -> Len(k.data)
           to == base + offset IN
       IF to < 0 THEN {Out(k, "EINVAL", 0)}
       ELSE {Out([k EXCEPT !.desc[k.fd[fd]].pos = p], "ok", p) :
               p \in {to} \cap 0..SizeMax}

ReadAtQuiet(k, p, total) ==   \* mutant: reading nothing is never an error
  (IF Len(k.data) <= p \/ total = 0 THEN {Out(k, "ok", <<>>)}
   ELSE {Out(k, "ok", SubSeq(k.data, p + 1, p + c)) :
           c \in {c \in 1..total : c <= Len(k.data) - p}})
  \cup set_error(k) \cup interrupted(k)

\* A read of total bytes at p returns at least one byte that is there; reading
\* none is the end of the file unless none were asked for.
ReadAt(k, p, total) ==
  LET there == Len(k.data) - p IN
  (IF there <= 0 \/ total = 0
     THEN {Out(k, IF total # 0 THEN "eof" ELSE "ok", <<>>)}
     ELSE {Out(k, "ok", SubSeq(k.data, p + 1, p + c)) :
             c \in {c \in 1..total : c <= there}})
  \cup set_error(k) \cup interrupted(k)

\* A write stores at least one byte and may store fewer than were given; a gap
\* before it reads as zero bytes.
WriteAt(k, p, bytes) ==
  (IF bytes = <<>> THEN {Out(k, "ok", 0)}
   ELSE IF p = SizeMax THEN {Out(k, "ENOSPC", 0)}
   ELSE {Out([k EXCEPT !.data =
                [i \in 1..(IF p + c > Len(@) THEN p + c ELSE Len(@)) |->
                   IF i \in (p + 1)..(p + c) THEN bytes[i - p]
                   ELSE IF i <= Len(@) THEN @[i] ELSE Hole]], "ok", c) :
           c \in {c \in 1..Len(bytes) : p + c <= SizeMax}})
  \cup set_error(k) \cup interrupted(k)

Moved(k, fd, n) == [k EXCEPT !.desc[k.fd[fd]].pos = @ + n]

\* readv(fd, bufs, count): total is the length of all buffers together.
readv(k, fd, total) ==
  IF ~Usable(k, fd, {"access_read"}) THEN EBADF(k)
  ELSE {[r EXCEPT !.k = IF r.ec = "ok" THEN Moved(@, fd, Len(r.ret)) ELSE @] :
          r \in ReadAt(k, k.desc[k.fd[fd]].pos, total)}

writev(k, fd, bytes) ==
  IF ~Usable(k, fd, {"access_write"}) THEN EBADF(k)
  ELSE {[r EXCEPT !.k = IF r.ec = "ok" THEN Moved(@, fd, r.ret) ELSE @] :
          r \in WriteAt(k, k.desc[k.fd[fd]].pos, bytes)}

\* pread and preadv: the position of the descriptor is neither used nor moved.
preadv(k, fd, total, offset) ==
  IF ~Usable(k, fd, {"access_read"}) THEN EBADF(k)
  ELSE ReadAt(k, offset, total)

pwritev(k, fd, bytes, offset) ==
  IF ~Usable(k, fd, {"access_write"}) THEN EBADF(k)
  ELSE WriteAt(k, offset, bytes)
=============================================================================
