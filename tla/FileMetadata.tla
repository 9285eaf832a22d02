---------------------------- MODULE FileMetadata ----------------------------
(***************************************************************************)
(* Permissions, attributes and times of a file: posix_file_ops, and the     *)
(* members of file_handle, unique_file_handle, thread_pool_file_service and *)
(* basic_file that forward to it.  Adding or removing bits, and setting     *)
(* times without futimens, is two system calls: fstat, then the change.     *)
(* Threads work on distinct handles of one file, so their calls interleave. *)
(*                                                                          *)
(* The three kinds of metadata do not share state; a behaviour is about one *)
(* of them (run.about).  Two options of the build matter: run.futimens, and *)
(* run.flags, ASIOEXT_HAS_FILE_FLAGS, without which attributes() reads      *)
(* nothing and changes nothing (Linux).  The change time is left out: it is *)
(* read like the other two, and cannot be set.                              *)
(*                                                                          *)
(* Two fields of a call are history: old is what it changed, as it was just *)
(* before the change, and touched is what others changed since the call     *)
(* began, bit by bit and time by time.                                      *)
(*                                                                          *)
(* Names begin with Metadata where FileHandles has the same ones: the       *)
(* proofs about both are in one module.                                     *)
(***************************************************************************)
EXTENDS Chrono

CONSTANTS Threads, Usec            \* Usec: ticks per microsecond

ASSUME UsecAssumption == Usec \in Nat \ {0}

\* The file times a program sets: none, one on either side of the epoch that is
\* not a whole microsecond, and both ends of the range.
Times == {0, Hz \div 2, -(Hz \div 2), RepMax, RepMin}

VARIABLES inode, doing, run

metadataVars == <<inode, doing, run>>

All == {"r", "w"}                  \* file_perms::all
Special == {"s"}                   \* set_uid, set_gid, sticky_bit
Supported == {"hidden"}            \* attributes this platform has a flag for
Attrs == Supported \cup {"not_indexed"}
Native == Supported \cup {"other"} \* st_flags, with one the library does not know
Options == {{"replace"}, {"add"}, {"remove"}, {"add", "remove"}}

NoCall == [op |-> "none", pc |-> "idle", arg |-> 0, opts |-> {}, st |-> 0,
           old |-> 0, touched |-> {}, got |-> 0, ec |-> "ok"]

-----------------------------------------------------------------------------
file_attrs_to_native(attrs) == attrs \cap Supported
native_to_file_attrs(native) == native \cap Supported

\* The current bits st changed by the argument, as the options say.
ChangedXor(st, bits, opts) ==   \* mutant: removing toggles
  IF "add" \in opts THEN st \cup bits
  ELSE IF "remove" \in opts THEN (st \ bits) \cup (bits \ st) ELSE bits
Changed(st, bits, opts) ==
  IF "add" \in opts THEN st \cup bits
  ELSE IF "remove" \in opts THEN st \ bits ELSE bits
TwoCalls(opts) == opts \cap {"add", "remove"} # {}

\* stat_to_times: all three times are composed, or none.
stat_to_times(n) ==
  LET a == compose_time(n.atime[1], n.atime[2])
      m == compose_time(n.mtime[1], n.mtime[2]) IN
  IF a.ok /\ m.ok THEN Is(<<a.v, m.v>>) ELSE Failed

to_timespec(t) == decompose_time(t)
\* to_timeval keeps whole microseconds.
ToUsec(pair) == <<pair[1], Quot(pair[2], Usec) * Usec>>
to_timeval(t) == LET d == decompose_time(t) IN IF d.ok THEN Is(ToUsec(d.v)) ELSE Failed

\* The time that set_times writes: old when the argument is zero (UTIME_OMIT, or
\* what fstat said cut down to microseconds), otherwise the argument.
NewTime(t, old) ==
  IF t = 0 THEN Is(IF run.futimens THEN old ELSE ToUsec(old))
  ELSE IF run.futimens THEN to_timespec(t) ELSE to_timeval(t)

\* The inode once a change is applied with the argument and the stat of call c.
PermsApplied(n, c) == [n EXCEPT !.mode = Changed(c.st, c.arg \cap All, c.opts)]
AttrsApplied(n, c) ==
  [n EXCEPT !.flags = Changed(c.st, file_attrs_to_native(c.arg), c.opts)]
TimesApplied(n, c) ==
  LET a == NewTime(c.arg[1], IF run.futimens THEN n.atime ELSE c.st[1])
      m == NewTime(c.arg[2], IF run.futimens THEN n.mtime ELSE c.st[2]) IN
  IF a.ok /\ m.ok THEN Is([n EXCEPT !.atime = a.v, !.mtime = m.v]) ELSE Failed

-----------------------------------------------------------------------------
MetadataBegin(t, c) == /\ doing[t].pc = "idle"
                       /\ doing' = [doing EXCEPT ![t] = c]
                       /\ UNCHANGED <<inode, run>>
MetadataEnded(c, got, ec) == [c EXCEPT !.pc = "done", !.st = 0, !.got = got, !.ec = ec]
\* A getter is one fstat.
Get(t, op, got, ec) ==
  /\ doing[t].pc = "idle"
  /\ doing' = [doing EXCEPT ![t] = MetadataEnded([NoCall EXCEPT !.op = op], got, ec)]
  /\ UNCHANGED <<inode, run>>

permissions(t) == Get(t, "get_perms", inode.mode \cap All, "ok")
set_permissions(t, perms, opts) ==
  MetadataBegin(t, [NoCall EXCEPT !.op = "perms", !.arg = perms, !.opts = opts,
                                  !.pc = IF TwoCalls(opts) THEN "stat" ELSE "apply"])
attributes(t) ==
  Get(t, "get_attrs", IF run.flags THEN native_to_file_attrs(inode.flags) ELSE {}, "ok")
set_attributes(t, attrs, opts) ==
  IF run.flags
  THEN MetadataBegin(t, [NoCall EXCEPT !.op = "attrs", !.arg = attrs, !.opts = opts,
                                       !.pc = IF TwoCalls(opts) THEN "stat" ELSE "apply"])
  ELSE Get(t, "attrs", 0, "ok")   \* silently ignored
get_times(t) ==
  LET r == stat_to_times(inode) IN
  Get(t, "get_times", r.v, IF r.ok THEN "ok" ELSE "value_too_large")
set_times(t, atime, mtime) ==
  MetadataBegin(t, [NoCall EXCEPT !.op = "times", !.arg = <<atime, mtime>>,
      !.pc = IF ~run.futimens /\ (atime = 0 \/ mtime = 0) THEN "stat" ELSE "apply",
      !.st = <<inode.atime, inode.mtime>>])

\* file_handle
handle_permissions(t) == permissions(t)
handle_set_permissions(t, perms, opts) == set_permissions(t, perms, opts)
handle_attributes(t) == attributes(t)
handle_set_attributes(t, attrs, opts) == set_attributes(t, attrs, opts)
handle_times(t) == get_times(t)
handle_set_times(t, atime, mtime) == set_times(t, atime, mtime)
\* unique_file_handle
unique_permissions(t) == handle_permissions(t)
unique_set_permissions(t, perms, opts) == handle_set_permissions(t, perms, opts)
unique_attributes(t) == handle_attributes(t)
unique_set_attributes(t, attrs, opts) == handle_set_attributes(t, attrs, opts)
unique_times(t) == handle_times(t)
unique_set_times(t, atime, mtime) == handle_set_times(t, atime, mtime)
\* thread_pool_file_service
service_permissions(t) == handle_permissions(t)
service_set_permissions(t, perms, opts) == handle_set_permissions(t, perms, opts)
service_attributes(t) == handle_attributes(t)
service_set_attributes(t, attrs, opts) == handle_set_attributes(t, attrs, opts)
service_times(t) == handle_times(t)
service_set_times(t, atime, mtime) == handle_set_times(t, atime, mtime)
\* basic_file
file_permissions(t) == service_permissions(t)
file_set_permissions(t, perms, opts) == service_set_permissions(t, perms, opts)
file_attributes(t) == service_attributes(t)
file_set_attributes(t, attrs, opts) == service_set_attributes(t, attrs, opts)
file_times(t) == service_times(t)
file_set_times(t, atime, mtime) == service_set_times(t, atime, mtime)

\* The part of the inode that an operation is about.
Part(op, n) == CASE op = "perms" -> n.mode
                 [] op = "attrs" -> n.flags
                 [] OTHER -> <<n.atime, n.mtime>>

\* The first system call of two.
stat(t) ==
  /\ doing[t].pc = "stat"
  /\ doing' = [doing EXCEPT ![t].pc = "apply", ![t].st = Part(doing[t].op, inode)]
  /\ UNCHANGED <<inode, run>>

stat_fails(t) == /\ doing[t].pc = "stat"
                 /\ doing' = [doing EXCEPT ![t] = MetadataEnded(NoCall, 0, "EPERM")]
                 /\ UNCHANGED <<inode, run>>

\* The bits and times in which two inodes differ.
Differences(n, m) ==
  {bit \in All \cup Special : ~(bit \in n.mode <=> bit \in m.mode)}
    \cup {bit \in Native : ~(bit \in n.flags <=> bit \in m.flags)}
    \cup {field \in {"atime", "mtime"} : n[field] # m[field]}

\* The call of another thread, whose inode is changed under it.
Shared(c, n, m) ==
  IF c.pc = "idle" THEN c ELSE [c EXCEPT !.touched = @ \cup Differences(n, m)]

\* fchmod, fchflags, futimens or futimes.  Any of them may fail.
Applied(t) ==
  LET c == doing[t] IN
  CASE c.op = "perms" -> Is(PermsApplied(inode, c))
    [] c.op = "attrs" -> Is(AttrsApplied(inode, c))
    [] OTHER -> TimesApplied(inode, c)
apply(t) ==
  /\ doing[t].pc = "apply" /\ Applied(t).ok
  /\ inode' = Applied(t).v
  /\ doing' = [u \in Threads |->
                 IF u = t THEN [MetadataEnded(doing[t], 0, "ok") EXCEPT
                                  !.old = Part(doing[t].op, inode)]
                 ELSE Shared(doing[u], inode, inode')]
  /\ UNCHANGED run
apply_fails(t) ==
  /\ doing[t].pc = "apply"
  /\ doing' = [doing EXCEPT ![t] =
                 MetadataEnded(NoCall, 0, IF Applied(t).ok THEN "EPERM" ELSE "value_too_large")]
  /\ UNCHANGED <<inode, run>>

MetadataReturn(t) == /\ doing[t].pc = "done"
                     /\ doing' = [doing EXCEPT ![t] = NoCall]
                     /\ UNCHANGED <<inode, run>>

-----------------------------------------------------------------------------
MetadataInit ==
  /\ run \in [about : {"perms", "attrs", "times"}, futimens : BOOLEAN, flags : BOOLEAN]
  /\ run.about # "times" => run.futimens
  /\ run.about # "attrs" => run.flags
  /\ inode \in [mode : {{"r"}, {"r"} \cup Special}, flags : {{"other"}}, atime : {<<0, 1>>},
                mtime : {<<0, 1>>, <<max_first, max_second + 1>>}]
  /\ doing = [t \in Threads |-> NoCall]

Begins(t) ==
  \/ run.about = "perms" /\ (file_permissions(t) \/ unique_permissions(t))
  \/ /\ run.about = "perms"
     /\ \E p \in {{"w"}, {"r"} \cup Special}, o \in Options :
          file_set_permissions(t, p, o) \/ unique_set_permissions(t, p, o)
  \/ run.about = "attrs" /\ (file_attributes(t) \/ unique_attributes(t))
  \/ /\ run.about = "attrs"
     /\ \E a \in SUBSET Attrs, o \in Options :
          file_set_attributes(t, a, o) \/ unique_set_attributes(t, a, o)
  \/ run.about = "times" /\ (file_times(t) \/ unique_times(t))
  \/ /\ run.about = "times"
     /\ \E a \in Times, m \in {0, 1} : file_set_times(t, a, m) \/ unique_set_times(t, a, m)

\* Returning is a step of the caller alone: it is taken before anybody else moves.
MetadataNext == \E t \in Threads :
  \/ MetadataReturn(t)
  \/ /\ \A u \in Threads : doing[u].pc # "done"
     /\ Begins(t) \/ stat(t) \/ stat_fails(t) \/ apply(t) \/ apply_fails(t)

MetadataSpec == MetadataInit /\ [][MetadataNext]_metadataVars

-----------------------------------------------------------------------------
Pairs == (RepMin..RepMax) \X (0..(Hz - 1))

\* The inode holds permission bits, flags and times in range, and a call fails
\* only with the errors of its system calls or because a time does not fit.
MetadataTypeOK ==
  /\ inode \in [mode : SUBSET (All \cup Special), flags : SUBSET Native,
                atime : Pairs, mtime : Pairs]
  /\ \A t \in Threads : doing[t].ec \in {"ok", "EPERM", "value_too_large"}

\* A change that succeeds does to every bit what the documentation of its options
\* says (file_perms.hpp:121-130), whatever other threads do between its fstat and
\* its fchmod: a given bit is set, or cleared by "remove"; a bit that is not given
\* is cleared by "replace" and is otherwise as it was, unless another call changed
\* that very bit since this one began.  With "add" and "remove" together, of which
\* the documentation does not speak, the code adds.  Two exceptions: special bits
\* that are given, which the code masks away and reports success, though they are
\* documented like the others; and a build without file flags, where attributes()
\* is documented to change nothing (posix_file_ops.cpp:429).
AsDocumented(bit, new, c) ==
  /\ bit \in c.arg => (bit \in new <=> c.opts # {"remove"})
  /\ bit \notin c.arg /\ c.opts = {"replace"} => bit \notin new
  /\ bit \notin c.arg /\ c.opts # {"replace"} /\ bit \notin c.touched =>
       (bit \in new <=> bit \in c.old)
BitsExact ==
  /\ MetadataTypeOK
  /\ \A t \in Threads : LET c == doing[t] IN
       c.pc = "done" /\ c.ec = "ok" =>
         /\ c.op = "perms" =>
              \A bit \in All \cup (Special \ c.arg) : AsDocumented(bit, inode.mode, c)
         /\ c.op = "attrs" /\ run.flags =>
              \A bit \in Native : AsDocumented(bit, inode.flags, c)

\* times() sets the times that are not zero, whatever other threads do meanwhile,
\* and keeps the others unless another call changed that very time since this one
\* began; to the microsecond where the system has no futimens.  What it reads is
\* the time in the inode and never one that wrapped around.
Near(pair, other) == IF run.futimens THEN pair = other ELSE ToUsec(pair) = ToUsec(other)
Ticks(pair) == pair[1] * Hz + pair[2]
Given(t) == <<t \div Hz, t % Hz>>
TimeExact(pair, t, field, old, c) ==
  /\ t # 0 => Near(pair, Given(t))
  /\ t = 0 /\ field \notin c.touched => Near(pair, old)
TimesExact == \A t \in Threads : LET c == doing[t] IN
  c.pc = "done" /\ c.ec = "ok" =>
    /\ c.op = "get_times" => c.got = <<Ticks(inode.atime), Ticks(inode.mtime)>>
    /\ c.op = "times" => /\ TimeExact(inode.atime, c.arg[1], "atime", c.old[1], c)
                         /\ TimeExact(inode.mtime, c.arg[2], "mtime", c.old[2], c)

=============================================================================
